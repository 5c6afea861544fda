----------------------------- MODULE MCGraveler -----------------------------
(* Small instances of Graveler for TLC.                                    *)
EXTENDS Graveler, TLC

CONSTANTS FirstKey,  \* the key named by programs that use none
          p1, p2     \* two of the requests

\* All ways to give the requests programs of these kinds.
Mix(kinds) == [Requests -> [kind : kinds, key : Keys]]

\* All ways to share out as many programs of each kind as team says.
Team(team) ==
    {m \in Mix(DOMAIN team) :
        \A kind \in DOMAIN team : Cardinality({p \in Requests : m[p].kind = kind}) = team[kind]}

\* All requests name the same key, one that is committed or one that is not.
WriteTasks ==
    {m \in Mix(Sets \cup Deletes \cup {"get", "commit"}) :
        \A p, q \in Requests : m[p].key = m[q].key}

\* Two writes and two commits; the commits name no key. The keys are alike, so
\* that one of the writes may as well be of the first.
CommitTasks ==
    {m \in Team([set |-> 2, commit |-> 2]) :
        /\ \A p \in Requests : m[p].kind = "commit" => m[p].key = FirstKey
        /\ \E p \in Requests : m[p].kind = "set" /\ m[p].key = FirstKey}

\* Merges and branch updates against each other, or against a write; merges
\* bring a key of their own, and may find the write deleted.
HeadTasks ==
    {m \in Mix({"set", "delete", "commit", "merge", "updateBranch"}) :
        /\ \E p, q \in Requests :
              m[p].kind \in {"merge", "updateBranch"} /\ m[q].kind \in {"set", "updateBranch"} \ {m[p].kind}
        /\ (\E p \in Requests : m[p].kind = "delete") => (\E p \in Requests : m[p].kind = "merge")
        /\ \A p \in Requests : m[p].key = FirstKey <=> m[p].kind = "merge"}
WriteHeadTasks == WriteTasks \cup HeadTasks

\* A write, a commit and a third request, named so that nothing is symmetric.
LiveTasks ==
    {m \in Mix({"set", "get", "commit", "merge", "resetHard", "reset", "resetPrefix"}) :
        m[p1].kind = "set" /\ m[p2].kind = "commit"}

\* Two writes, a commit and one request that discards, of one key.
ResetTasks ==
    {m \in UNION {Team(kind :> 1 @@ [set |-> 2, commit |-> 1]) :
                     kind \in {"reset", "resetHard", "resetKey", "resetPrefix"}} :
        \A p \in Requests : m[p].key = FirstKey}
CommitResetTasks == CommitTasks \cup ResetTasks

\* Someone deletes the branch while any others run.
LifeTasks == {m \in Mix(Kinds) : \E p \in Requests : m[p].kind = "deleteBranch"}

Symmetry == Permutations(Requests)
=============================================================================
