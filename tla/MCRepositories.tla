--------------------------- MODULE MCRepositories ---------------------------
(* Instances of Repositories for TLC.                                      *)
EXTENDS Repositories

CONSTANTS r1, r2, r3

\* A deletion against a creation or two, an update, and another deletion.
MCTasks == {r1 :> "delete" @@ r2 :> "create" @@ r3 :> t : t \in {"create", "update"}}
           \cup {r1 :> "delete" @@ r2 :> "delete" @@ r3 :> "create"}

MCKeys == {"repo", "branch"}
=============================================================================
