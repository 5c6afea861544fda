----------------------------- MODULE FileTracker -----------------------------
(***************************************************************************)
(* The reference counts that keep files of the local tier from being       *)
(* deleted while they are in use (pkg/pyramid/file_tracker.go).  Each      *)
(* operation holds the tracker's mutex, its delete callback included, so   *)
(* each is one step.  A path whose count is zero is not in the map.        *)
(***************************************************************************)
EXTENDS Naturals

CONSTANT Paths

VARIABLES tracked, \* refMap
          disk     \* the paths with a file in the local directory

trackerVars == <<tracked, disk>>

Untracked == [ref |-> 0, deleted |-> FALSE]
InUse(p)  == tracked[p].ref > 0

TrackerTypeOK ==
    /\ tracked \in [Paths -> [ref : Nat, deleted : BOOLEAN]]
    /\ disk \in SUBSET Paths

TrackerInit ==
    /\ tracked = [p \in Paths |-> Untracked]
    /\ disk = {}

\* fileTracker.Open
Open(p) ==
    /\ tracked' = [tracked EXCEPT ![p].ref = @ + 1]
    /\ UNCHANGED disk

\* A bug: the mark is forgotten when anyone leaves.
ReleaseForgetful(p) ==
    LET last == tracked[p].ref = 1
    IN  /\ tracked' = [tracked EXCEPT ![p] = [ref |-> @.ref - 1, deleted |-> FALSE]]
        /\ disk' = IF last /\ tracked[p].deleted THEN disk \ {p} ELSE disk

\* fileTracker.close: the last one to leave deletes a file marked deleted.
Release(p) ==
    LET last == tracked[p].ref = 1
    IN  /\ tracked' = IF last THEN [tracked EXCEPT ![p] = Untracked]
                      ELSE [tracked EXCEPT ![p].ref = @ - 1]
        /\ disk' = IF last /\ tracked[p].deleted THEN disk \ {p} ELSE disk

\* Bugs: a file in use is deleted, or is not marked.
DeleteAnyway(p) ==
    /\ disk' = disk \ {p}
    /\ UNCHANGED tracked
DeleteUnlessUsed(p) ==
    /\ disk' = IF InUse(p) THEN disk ELSE disk \ {p}
    /\ UNCHANGED tracked

\* fileTracker.Delete: mark a file in use, delete one that is not.  That the
\* file is gone already is no error.
Delete(p) ==
    IF InUse(p)
    THEN /\ tracked' = [tracked EXCEPT ![p].deleted = TRUE]
         /\ UNCHANGED disk
    ELSE /\ disk' = disk \ {p}
         /\ UNCHANGED tracked
=============================================================================
