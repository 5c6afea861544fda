------------------------------ MODULE MCTierFS ------------------------------
(* Small instances of TierFS for TLC.                                      *)
EXTENDS TierFS, TLC

CONSTANTS g1, g2, g3, \* goroutines
          n1,         \* a namespace
          f1          \* a file name

OnePath  == {<<n1, f1>>}

Job(kind, path) == [kind |-> kind, path |-> path]

\* An open, and two more opens or stores, of one file.
SharedJobs ==
    {(g1 :> Job("open", <<n1, f1>>)) @@ (g2 :> Job(kinds[1], <<n1, f1>>)) @@
     (g3 :> Job(kinds[2], <<n1, f1>>)) :
        kinds \in {<<"open", "open">>, <<"open", "store">>, <<"store", "store">>}}
=============================================================================
