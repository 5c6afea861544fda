---------------------------- MODULE ThreeWayMerge ----------------------------
(***************************************************************************)
(* What a merge promises (docs/src/understand/how/merge.md): for each key, *)
(* the presence and the identity of its object in the base, the source and *)
(* the destination alone decide what the result has.  Keys are settled in  *)
(* order, any number of them at a time; one that conflicts ends the merge, *)
(* unless a strategy says which side wins.                                 *)
(***************************************************************************)
EXTENDS Integers

CONSTANT LastKey \* keys are 1..LastKey

VARIABLES
    base, source, dest, \* each a function of the keys it has to identities
    strategy,           \* "none", "source" or "dest"
    upTo,               \* the keys up to here are settled
    merged,             \* the result for them
    verdict             \* "running", "done", "conflict" or "unchanged"

Keys == 1..LastKey
inputs == <<base, source, dest, strategy>>
vars == <<base, source, dest, strategy, upTo, merged, verdict>>

Absent == 0
At(contents, k) == IF k \in DOMAIN contents THEN contents[k] ELSE Absent

Conflicting(k) ==
    /\ At(source, k) # At(dest, k)
    /\ At(source, k) # At(base, k)
    /\ At(dest, k) # At(base, k)

Outcome(k) ==
    IF Conflicting(k) THEN (IF strategy = "source" THEN At(source, k) ELSE At(dest, k))
    ELSE IF At(source, k) = At(base, k) THEN At(dest, k)
    ELSE At(source, k)

Result(n) == [k \in {j \in 1..n : Outcome(j) # Absent} |-> Outcome(k)]

Init ==
    /\ upTo = 0
    /\ merged = Result(0)
    /\ verdict = "running"

SettleTo(n) ==
    /\ strategy = "none" => \A k \in (upTo + 1)..n : ~Conflicting(k)
    /\ upTo' = n
    /\ merged' = Result(n)

Settle ==
    /\ verdict = "running"
    /\ \E n \in (upTo + 1)..LastKey : SettleTo(n)
    /\ UNCHANGED <<inputs, verdict>>

Finish ==
    /\ verdict = "running"
    /\ SettleTo(LastKey)
    /\ verdict' = "done"
    /\ UNCHANGED inputs

\* Nothing was changed on the source: there is nothing to merge, which may
\* be noticed late.
Decline ==
    /\ verdict = "running"
    /\ source = base
    /\ verdict' = "unchanged"
    /\ UNCHANGED <<inputs, upTo, merged>>

Refuse ==
    /\ verdict = "running"
    /\ strategy = "none"
    /\ \E k \in (upTo + 1)..LastKey : Conflicting(k)
    /\ verdict' = "conflict"
    /\ UNCHANGED <<inputs, upTo, merged>>

Next == Settle \/ Finish \/ Decline \/ Refuse

Spec == Init /\ [][Next]_vars
=============================================================================
