------------------------------- MODULE TierFS -------------------------------
(***************************************************************************)
(* The local tier of the files that hold ranges and metaranges             *)
(* (pkg/pyramid/tier_fs.go): a directory that is a cache of the block      *)
(* storage.  Goroutines open files, downloading those that are missing     *)
(* once for all that want them, and store new ones, while the eviction     *)
(* policy asks for files to be deleted at any time.  A file is a path: a   *)
(* storage namespace and a file name.  File names are content hashes, so   *)
(* what is opened has been stored by someone, and may be stored again.     *)
(*                                                                         *)
(* The eviction policy is a library (Ristretto).  It takes or refuses a    *)
(* file when it is given one, and calls back later to give up any file it  *)
(* took; "held" has the files it may still call back for.                  *)
(***************************************************************************)
EXTENDS OnlyOne, FileTracker, FiniteSets

CONSTANTS Namespaces, \* storage namespaces
          Names,      \* file names
          Jobs,       \* what the goroutines do: a set of functions
                      \* [Goroutines -> [kind : {"open", "store"}, path : Paths]]
          Unreliable, \* paths the block storage may fail to give
          MaxRestarts \* how often the process may restart

ASSUME TierAssumption ==
    /\ IsFiniteSet(Goroutines)
    /\ Paths = Namespaces \X Names
    /\ LockKeys = Names
    /\ Jobs \subseteq [Goroutines -> [kind : {"open", "store"}, path : Paths]]
    /\ Unreliable \subseteq Paths
    /\ MaxRestarts \in Nat

VARIABLES job,      \* the goroutines' jobs; fixed from the start
          pc,       \* their control points
          outcome,  \* what their callers get
          held,     \* files the eviction policy took and may call back for
          walk,     \* control point of the walk a process begins with
          left,     \* files the walk found and has not come to yet
          visiting, \* the file the walk is at, if any
          restarts  \* how often the process has restarted

localVars == <<job, pc, outcome>>
walkVars == <<walk, left, visiting>>
vars == <<onlyOneVars, trackerVars, localVars, held, walkVars, restarts>>

Points == {"start", "look", "join", "wait", "stat", "download", "forget",
           "reopen", "track", "admit", "reject", "release", "over"}
\* "missing": the file was promised to be there, and is not.
Outcomes == {"none", "ok", "failed", "missing"}
\* "serve": the walk is over, and goroutines may open and store.
WalkPoints == {"next", "admit", "reject", "release", "serve"}

\* Every variable holds values of its type, whatever the goroutines and the
\* eviction policy do: no reference count falls below zero.
TypeOK ==
    /\ OnlyOneTypeOK
    /\ TrackerTypeOK
    /\ job \in Jobs
    /\ pc \in [Goroutines -> Points]
    /\ outcome \in [Goroutines -> Outcomes]
    /\ held \in SUBSET Paths
    /\ walk \in WalkPoints
    /\ left \in SUBSET Paths
    /\ visiting \in SUBSET Paths
    /\ restarts \in 0..MaxRestarts

Init ==
    /\ OnlyOneInit
    /\ TrackerInit
    /\ job \in Jobs
    /\ pc = [g \in Goroutines |-> "start"]
    /\ outcome = [g \in Goroutines |-> "none"]
    /\ held = {}
    /\ walk = "next" /\ left = {} /\ visiting = {}
    /\ restarts = 0

Path(g) == job[g].path
Name(p) == p[2]

Goto(g, point) == pc' = [pc EXCEPT ![g] = point]
Give(g, result) == outcome' = [outcome EXCEPT ![g] = result]
Silent == UNCHANGED <<job, walkVars, restarts>>

-----------------------------------------------------------------------------
(* Open                                                                    *)

\* A bug: Open does not tell the tracker.
OpenUntracked(g) ==
    /\ pc[g] = "start" /\ job[g].kind = "open"
    /\ Goto(g, "look")
    /\ UNCHANGED <<onlyOneVars, trackerVars, outcome, held>> /\ Silent

\* The tracker comes first, so that the file cannot go while it is opened.
TrackToOpen(g) ==
    /\ pc[g] = "start" /\ job[g].kind = "open"
    /\ Open(Path(g))
    /\ Goto(g, "look")
    /\ UNCHANGED <<onlyOneVars, outcome, held>> /\ Silent

\* openOrDownload, fast path.
FastOpen(g) ==
    /\ pc[g] = "look"
    /\ Goto(g, IF Path(g) \in disk THEN "admit" ELSE "join")
    /\ UNCHANGED <<onlyOneVars, trackerVars, outcome, held>> /\ Silent

\* ensureFileExists: Compute is given the file's name, without its namespace.
JoinDownload(g) ==
    /\ pc[g] = "join"
    /\ \/ Lead(g, Name(Path(g))) /\ Goto(g, "stat")
       \/ Follow(g, Name(Path(g))) /\ Goto(g, "wait")
    /\ UNCHANGED <<trackerVars, outcome, held>> /\ Silent

\* Take the answer of the goroutine that leads.
AwaitDownload(g) ==
    /\ pc[g] = "wait"
    /\ \/ Awaited(g) = "ok" /\ Goto(g, "reopen") /\ UNCHANGED outcome
       \/ Awaited(g) = "failed" /\ Goto(g, "release") /\ Give(g, "failed")
    /\ UNCHANGED <<onlyOneVars, trackerVars, held>> /\ Silent

\* The leader looks again: another may have brought the file before it led.
StatFile(g) ==
    /\ pc[g] = "stat"
    /\ IF Path(g) \in disk
       THEN Close(g, "ok") /\ Goto(g, "forget")
       ELSE Goto(g, "download") /\ UNCHANGED onlyOneVars
    /\ UNCHANGED <<trackerVars, outcome, held>> /\ Silent

\* downloadFromStorage: a temporary file is filled and renamed to its path,
\* or the storage fails.  Then Compute closes the channel.
Download(g) ==
    /\ pc[g] = "download"
    /\ \/ /\ disk' = disk \cup {Path(g)}
          /\ Close(g, "ok")
       \/ /\ Path(g) \in Unreliable
          /\ Close(g, "failed")
          /\ UNCHANGED disk
    /\ Goto(g, "forget")
    /\ UNCHANGED <<tracked, outcome, held>> /\ Silent

\* Compute removes the record and returns to the leader.
EndDownload(g) ==
    /\ pc[g] = "forget"
    /\ Forget(Name(Path(g)))
    /\ \/ answer[g] = "ok" /\ Goto(g, "reopen") /\ UNCHANGED outcome
       \/ answer[g] = "failed" /\ Goto(g, "release") /\ Give(g, "failed")
    /\ UNCHANGED <<trackerVars, held>> /\ Silent

\* openOrDownload, after the download.
Reopen(g) ==
    /\ pc[g] = "reopen"
    /\ \/ Path(g) \in disk /\ Goto(g, "admit") /\ UNCHANGED outcome
       \/ Path(g) \notin disk /\ Goto(g, "release") /\ Give(g, "missing")
    /\ UNCHANGED <<onlyOneVars, trackerVars, held>> /\ Silent

-----------------------------------------------------------------------------
(* Store, and what it shares with Open                                     *)

\* Upload the file and move it to its path; the tracker does not know of it yet.
Place(g) ==
    /\ pc[g] = "start" /\ job[g].kind = "store"
    /\ \/ disk' = disk \cup {Path(g)} /\ Goto(g, "track") /\ UNCHANGED outcome
       \/ /\ Path(g) \in Unreliable
          /\ Goto(g, "over") /\ Give(g, "failed")
          /\ UNCHANGED disk
    /\ UNCHANGED <<onlyOneVars, tracked, held>> /\ Silent

TrackStored(g) ==
    /\ pc[g] = "track"
    /\ Open(Path(g))
    /\ Goto(g, "admit")
    /\ UNCHANGED <<onlyOneVars, outcome, held>> /\ Silent

\* Give the file to the eviction policy, which takes it or refuses.
Admit(g) ==
    /\ pc[g] = "admit"
    /\ \/ held' = held \cup {Path(g)} /\ Goto(g, "release") /\ Give(g, "ok")
       \/ Goto(g, "reject") /\ UNCHANGED <<held, outcome>>
    /\ UNCHANGED <<onlyOneVars, trackerVars>> /\ Silent

\* A file that was refused is to go when the last that uses it is done.
Reject(g) ==
    /\ pc[g] = "reject"
    /\ Delete(Path(g))
    /\ Goto(g, "release") /\ Give(g, "ok")
    /\ UNCHANGED <<onlyOneVars, held>> /\ Silent

\* The end of a store or of a failed open; or the caller closes its file.
Leave(g) ==
    /\ pc[g] = "release"
    /\ Release(Path(g))
    /\ Goto(g, "over")
    /\ UNCHANGED <<onlyOneVars, outcome, held>> /\ Silent

-----------------------------------------------------------------------------
(* The eviction policy, crashes and the walk a process begins with         *)

\* removeFromLocal: the policy gives a file up.  It may call back again for a
\* file it was given again in the meantime.
Evict(p) ==
    /\ p \in held
    /\ held' \in {held, held \ {p}}
    /\ Delete(p)
    /\ UNCHANGED <<onlyOneVars, localVars>> /\ Silent

\* The process crashes, also during its walk, and another begins with what is
\* left of the directory.  The goroutines that were under way are gone.
Restart ==
    /\ restarts < MaxRestarts
    /\ restarts' = restarts + 1
    /\ disk' \in SUBSET disk
    /\ walk' = "next" /\ left' = disk' /\ visiting' = {}
    /\ held' = {}
    /\ tracked' = [p \in Paths |-> Untracked]
    /\ inflight' = [k \in LockKeys |-> NoOne]
    /\ pc' = [g \in Goroutines |-> IF pc[g] = "start" THEN "start" ELSE "over"]
    /\ UNCHANGED <<answer, awaits, job, outcome>>

WalkOnly == UNCHANGED <<onlyOneVars, localVars, restarts>>

\* handleExistingFiles: the walk comes to a file, in any order.
VisitFile ==
    /\ walk = "next"
    /\ \E p \in left :
          /\ Open(p)
          /\ visiting' = {p} /\ left' = left \ {p}
    /\ walk' = "admit"
    /\ UNCHANGED held /\ WalkOnly

\* A bug: the walk does not delete a file that is refused.
AdmitFoundOnly ==
    /\ walk = "admit"
    /\ held' \in {held, held \cup visiting}
    /\ walk' = "release"
    /\ UNCHANGED <<trackerVars, left, visiting>> /\ WalkOnly

\* storeLocalFile: offer it to the eviction policy.
AdmitFound ==
    /\ walk = "admit"
    /\ \/ held' = held \cup visiting /\ walk' = "release"
       \/ walk' = "reject" /\ UNCHANGED held
    /\ UNCHANGED <<trackerVars, left, visiting>> /\ WalkOnly

\* A file that is refused goes when the walk leaves it.
RejectFound ==
    /\ walk = "reject"
    /\ \E p \in visiting : Delete(p)
    /\ walk' = "release"
    /\ UNCHANGED <<held, left, visiting>> /\ WalkOnly

LeaveFound ==
    /\ walk = "release"
    /\ \E p \in visiting : Release(p)
    /\ walk' = "next" /\ visiting' = {}
    /\ UNCHANGED <<held, left>> /\ WalkOnly

\* NewFS returns, and goroutines may open and store.
EndWalk ==
    /\ walk = "next" /\ left = {}
    /\ walk' = "serve"
    /\ UNCHANGED <<trackerVars, held, left, visiting>> /\ WalkOnly

Walk == VisitFile \/ AdmitFound \/ RejectFound \/ LeaveFound \/ EndWalk

Step(g) ==
    /\ walk = "serve"
    /\ \/ TrackToOpen(g) \/ FastOpen(g) \/ JoinDownload(g) \/ AwaitDownload(g)
       \/ StatFile(g) \/ Download(g) \/ EndDownload(g) \/ Reopen(g)
       \/ Place(g) \/ TrackStored(g) \/ Admit(g) \/ Reject(g) \/ Leave(g)

AllOver == \A g \in Goroutines : pc[g] = "over"

Next ==
    \/ \E g \in Goroutines : Step(g)
    \/ \E p \in Paths : Evict(p)
    \/ Walk
    \/ Restart

Spec == Init /\ [][Next]_vars

\* The walk and every goroutine go on while they can, and callers close what
\* they opened.
FairSpec == Spec /\ WF_vars(Walk) /\ \A g \in Goroutines : WF_vars(Step(g))

-----------------------------------------------------------------------------
(* Properties                                                              *)

\* A file that is opened is there: Open never finds that a file it waited for
\* is gone, however downloads, stores and evictions of it fall together, and
\* fails only when the storage failed to give that very file.
OpensFind ==
    \A g \in Goroutines :
        job[g].kind = "open" =>
            /\ outcome[g] # "missing"
            /\ outcome[g] = "failed" => Path(g) \in Unreliable

\* No file takes up space that nobody accounts for: a file in the directory is
\* known to the eviction policy, is in use, is about to be tracked by the
\* goroutine that just stored it, or waits for the walk that follows a crash.
DiskIsAccounted ==
    \A p \in disk :
        \/ p \in held
        \/ InUse(p)
        \/ \E g \in Goroutines : pc[g] = "track" /\ Path(g) = p
       \/ p \in left

\* Every open and every store ends: nobody waits for a download that nobody does.
JobsEnd == <>AllOver

\* A file the eviction policy does not want leaves the directory, unless the
\* policy takes it again.
RefusedFilesGo ==
    \A p \in Paths : (p \in disk /\ p \notin held) ~> (p \notin disk \/ p \in held)
=============================================================================
