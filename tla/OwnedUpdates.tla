---------------------------- MODULE OwnedUpdates ----------------------------
(***************************************************************************)
(* BranchUpdate (pkg/graveler/ref/manager.go) of several requests on one   *)
(* branch, with branch ownership: each asks to own the branch's name,      *)
(* reads the branch record, computes a new one and compares-and-sets it,   *)
(* and releases the name whatever came out.  Ownership is to spare the     *)
(* requests lost compare-and-sets; it is not what makes them safe.         *)
(***************************************************************************)
EXTENDS Ownership

CONSTANT AcquireInterval \* the interval documented as the bound of a wait

VARIABLES
    update,    \* how far the update of each request is
    upToDate   \* requests whose reading of the branch is what it holds now

vars == <<ownershipVars, update, upToDate>>

Outcomes == {"done", "lost"}

TypeOK ==
    /\ OwnershipTypeOK
    /\ update \in [Callers -> {"none", "read"} \cup Outcomes]
    /\ upToDate \subseteq Callers

Init ==
    /\ OwnershipInit
    /\ update = [g \in Callers |-> "none"]
    /\ upToDate = {}

BranchUnchanged == UNCHANGED <<update, upToDate>>

\* Own has returned: with the key, or with an error that is only logged.
MayUpdate(g) == caller[g].pc \in {"holds", "unowned"}

\* A bug: the branch is read before the key is owned.
ReadBranchFirst(g) ==
    /\ caller[g].pc = "ask"
    /\ update[g] = "none"
    /\ update' = [update EXCEPT ![g] = "read"]
    /\ upToDate' = upToDate \cup {g}
    /\ UNCHANGED ownershipVars

ReadBranch(g) ==
    /\ MayUpdate(g)
    /\ update[g] = "none"
    /\ update' = [update EXCEPT ![g] = "read"]
    /\ upToDate' = upToDate \cup {g}
    /\ UNCHANGED ownershipVars

\* The function has nothing to update, or fails.
KeepBranch(g) ==
    /\ MayUpdate(g)
    /\ update[g] = "read"
    /\ update' = [update EXCEPT ![g] = "done"]
    /\ upToDate' = upToDate \ {g}
    /\ UNCHANGED ownershipVars

\* SetMsgIf with the predicate of the reading.
SetBranch(g) ==
    /\ MayUpdate(g)
    /\ update[g] = "read"
    /\ \/ /\ g \in upToDate
          /\ update' = [update EXCEPT ![g] = "done"]
          /\ upToDate' = {}
       \/ /\ g \notin upToDate
          /\ update' = [update EXCEPT ![g] = "lost"]
          /\ UNCHANGED upToDate
    /\ UNCHANGED ownershipVars

\* The deferred release, after the update.
ReleaseAfter(g) ==
    /\ update[g] \in Outcomes
    /\ Release(g)
    /\ BranchUnchanged

ReleaseFails(g) ==
    /\ update[g] \in Outcomes
    /\ LeaveFails(g)
    /\ BranchUnchanged

Request(g) ==
    \/ Acquire(g) /\ BranchUnchanged
    \/ ReadBranch(g)
    \/ KeepBranch(g)
    \/ SetBranch(g)
    \/ ReleaseAfter(g)

Background(g) == Refreshing(g) /\ BranchUnchanged

Next ==
    \/ \E g \in Callers :
          \/ StartOwn(g) /\ BranchUnchanged
          \/ Request(g)
          \/ Background(g)
          \/ OwnershipFault(g) /\ BranchUnchanged
          \/ ReleaseFails(g)
    \/ Tick /\ BranchUnchanged

Spec == Init /\ [][Next]_vars

\* Goroutines run, and time passes.
FairSpec ==
    /\ Spec
    /\ \A g \in Callers : WF_vars(Request(g)) /\ WF_vars(Background(g))
    /\ WF_vars(Tick /\ BranchUnchanged)

-----------------------------------------------------------------------------
(* Properties.                                                             *)

\* Nothing failed, and all goroutines together were late by less than what
\* a refresh leaves to spare.
Calm == faults = 0 /\ late < Refresh - Interval

\* While goroutines are on time and the store answers, a refresher keeps the
\* key for its caller however long the caller takes, and nobody else gets it
\* (startOwningKey, refreshKey).
OneOwner == Calm => Cardinality(Holders) <= 1

\* "If it does work, the owning goroutine wins all races by default": then no
\* compare-and-set of a branch fails (BranchUpdate).
OwnersWin == Calm => \A g \in Callers : update[g] # "lost"

\* A free key does not stay free while someone waits: sleepers wake at the
\* latest when the last owner's record would have expired, be it released,
\* abandoned by a crash, or refreshed once more after its release.
FreeKeyIsTaken == vacant <= Refresh + late + faults * Refresh

\* The same with the bound the configuration documents (AcquireInterval: "a
\* bound on the latency of the time for one worker to acquire a branch").
AcquiredInTime == faults = 0 => vacant <= AcquireInterval + late

\* "It can block but never deadlock": every BranchUpdate ends.
UpdatesEnd ==
    \A g \in Callers : caller[g].pc \in Waiting ~>
        update[g] \in Outcomes \/ caller[g].pc = "released"
=============================================================================
