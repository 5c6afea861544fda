----------------------------- MODULE TierFSProofs -----------------------------
(* What is proved of TierFS for every number of goroutines, files and      *)
(* restarts, and for every choice of jobs.                                 *)
EXTENDS TierFS, FiniteSetTheorems, TLAPS

-----------------------------------------------------------------------------
(* The tracker's counts.                                                   *)

\* Control points of a goroutine that has told the tracker of its file and
\* has not released it.
Using == {"look", "join", "wait", "stat", "download", "forget", "reopen",
          "admit", "reject", "release"}

Users(p) == {g \in Goroutines : pc[g] \in Using /\ Path(g) = p}

\* What the walk that follows a crash adds to the count of a file.
Visits(p) == IF p \in visiting THEN 1 ELSE 0

\* The tracker counts the goroutines that use a file, and the walk if it is at
\* the file, and marks only files in use.
Counted ==
    \A p \in Paths :
        /\ tracked[p].ref = Cardinality(Users(p)) + Visits(p)
        /\ tracked[p].deleted => InUse(p)

\* The walk is at one file, or between files and at none.
AtOne ==
    IF walk \in {"next", "serve"} THEN visiting = {} ELSE \E p \in Paths : visiting = {p}

\* A job names a path, and a path a key of the lock.
LEMMA JobFields ==
    ASSUME job \in Jobs, NEW g \in Goroutines
    PROVE  /\ Path(g) \in Paths
           /\ Name(Path(g)) \in LockKeys
<1>1. Path(g) \in Paths
    BY TierAssumption DEF Path
<1>2. \A p \in Paths : Name(p) \in LockKeys
    BY TierAssumption DEF Name
<1>3. QED
    BY <1>1, <1>2

\* Users are finitely many, and a file with a user has a positive count.
LEMMA UsersFinite ==
    ASSUME NEW p
    PROVE  /\ IsFiniteSet(Users(p))
           /\ Cardinality(Users(p)) \in Nat
           /\ \A g \in Users(p) : Cardinality(Users(p)) > 0
<1>1. IsFiniteSet(Users(p))
    BY FS_Subset, TierAssumption DEF Users
<1>2. Cardinality(Users(p)) \in Nat
    BY <1>1, FS_CardinalityType
<1>3. Cardinality(Users(p)) = 0 => Users(p) = {}
    BY <1>1, FS_EmptySet
<1>4. QED
    BY <1>1, <1>2, <1>3

\* What Open does to the counts.
LEMMA OpenEffect ==
    ASSUME TrackerTypeOK, NEW q \in Paths, Open(q)
    PROVE  /\ TrackerTypeOK'
           /\ tracked[q]'.ref = tracked[q].ref + 1
           /\ \A p \in Paths \ {q} : tracked[p]' = tracked[p]
           /\ disk' = disk
    BY DEF TrackerTypeOK, Open

\* What Release does to them.
LEMMA ReleaseEffect ==
    ASSUME TrackerTypeOK, NEW q \in Paths, Release(q), tracked[q].ref > 0
    PROVE  /\ TrackerTypeOK'
           /\ tracked[q]'.ref = tracked[q].ref - 1
           /\ tracked[q].ref = 1 => ~tracked[q]'.deleted
           /\ tracked[q].ref # 1 => tracked[q]'.deleted = tracked[q].deleted
           /\ \A p \in Paths \ {q} : tracked[p]' = tracked[p]
<1>1. disk' \in SUBSET Paths
    BY DEF TrackerTypeOK, Release
<1>2. CASE tracked[q].ref = 1
    <2>1. tracked' = [tracked EXCEPT ![q] = Untracked]
        BY <1>2 DEF Release
    <2>2. QED
        BY <1>1, <1>2, <2>1 DEF TrackerTypeOK, Untracked
<1>3. CASE tracked[q].ref # 1
    <2>1. tracked' = [tracked EXCEPT ![q].ref = tracked[q].ref - 1]
        BY <1>3 DEF Release
    <2>2. QED
        BY <1>1, <1>3, <2>1 DEF TrackerTypeOK
<1>4. QED
    BY <1>2, <1>3

\* A goroutine begins to use its file.
LEMMA EnterCounted ==
    ASSUME job \in Jobs, pc \in [Goroutines -> Points], TrackerTypeOK, Counted,
           NEW g \in Goroutines, NEW x \in Using, NEW q, q = Path(g),
           pc[g] \notin Using, Open(q), Goto(g, x), job' = job, visiting' = visiting
    PROVE  TrackerTypeOK' /\ Counted'
<1>1. q \in Paths
    BY JobFields
<1>2. Users(q)' = Users(q) \cup {g} /\ \A p \in Paths \ {q} : Users(p)' = Users(p)
    BY DEF Users, Goto, Path
<1>3. g \notin Users(q)
    BY DEF Users
<1>4. Cardinality(Users(q)') = Cardinality(Users(q)) + 1
    <2>1. IsFiniteSet(Users(q))
        BY UsersFinite
    <2>2. Cardinality(Users(q) \cup {g}) = Cardinality(Users(q)) + 1
        BY <1>3, <2>1, FS_AddElement
    <2>3. QED
        BY <1>2, <2>2
<1>5. /\ TrackerTypeOK'
      /\ tracked[q]'.ref = tracked[q].ref + 1
      /\ \A p \in Paths \ {q} : tracked[p]' = tracked[p]
    BY <1>1, OpenEffect
<1>6. \A p \in Paths : Visits(p)' = Visits(p) /\ Visits(p) \in 0..1
    BY DEF Visits
<1>7. /\ tracked[q]'.ref = Cardinality(Users(q)') + Visits(q)'
      /\ tracked[q]'.ref > 0
    BY <1>1, <1>4, <1>5, <1>6, UsersFinite DEF Counted
<1>8. \A p \in Paths \ {q} : /\ tracked[p]'.ref = Cardinality(Users(p)') + Visits(p)'
                             /\ tracked[p]'.deleted => tracked[p]'.ref > 0
    BY <1>2, <1>5, <1>6 DEF Counted, InUse
<1>9. QED
    BY <1>5, <1>7, <1>8 DEF Counted, InUse

\* A goroutine is done with its file.
LEMMA ExitCounted ==
    ASSUME job \in Jobs, pc \in [Goroutines -> Points], TrackerTypeOK, Counted,
           NEW g \in Goroutines, NEW x \in Points \ Using, NEW q, q = Path(g),
           pc[g] \in Using, Release(q), Goto(g, x), job' = job, visiting' = visiting
    PROVE  TrackerTypeOK' /\ Counted'
<1>1. q \in Paths
    BY JobFields
<1>2. Users(q)' = Users(q) \ {g} /\ \A p \in Paths \ {q} : Users(p)' = Users(p)
    BY DEF Users, Goto, Path
<1>3. g \in Users(q)
    BY DEF Users
<1>4. Cardinality(Users(q)') = Cardinality(Users(q)) - 1
    <2>1. IsFiniteSet(Users(q))
        BY UsersFinite
    <2>2. Cardinality(Users(q) \ {g}) = Cardinality(Users(q)) - 1
        BY <1>3, <2>1, FS_RemoveElement
    <2>3. QED
        BY <1>2, <2>2
<1>5. /\ \A p \in Paths : Visits(p)' = Visits(p) /\ Visits(p) \in 0..1
      /\ tracked[q].ref = Cardinality(Users(q)) + Visits(q)
      /\ tracked[q].ref > 0
    <2>1. \A p \in Paths : Visits(p)' = Visits(p) /\ Visits(p) \in 0..1
        BY DEF Visits
    <2>2. tracked[q].ref = Cardinality(Users(q)) + Visits(q)
        BY <1>1 DEF Counted
    <2>3. QED
        BY <1>1, <1>3, <2>1, <2>2, UsersFinite
<1>6. /\ TrackerTypeOK'
      /\ tracked[q]'.ref = tracked[q].ref - 1
      /\ tracked[q].ref = 1 => ~tracked[q]'.deleted
      /\ \A p \in Paths \ {q} : tracked[p]' = tracked[p]
    BY <1>1, <1>5, ReleaseEffect
<1>7. /\ tracked[q]'.ref = Cardinality(Users(q)') + Visits(q)'
      /\ tracked[q]'.deleted => tracked[q]'.ref > 0
    <2>1. tracked[q]'.ref = Cardinality(Users(q)') + Visits(q)' /\ tracked[q]'.ref \in Nat
        BY <1>1, <1>4, <1>5, <1>6, UsersFinite
    <2>2. tracked[q].ref # 1 => tracked[q]'.ref > 0
        <3>1. tracked[q].ref \in Nat
            BY <1>1 DEF TrackerTypeOK
        <3>2. QED
            BY <1>5, <1>6, <3>1
    <2>3. QED
        BY <1>6, <2>1, <2>2
<1>8. \A p \in Paths \ {q} : /\ tracked[p]'.ref = Cardinality(Users(p)') + Visits(p)'
                             /\ tracked[p]'.deleted => tracked[p]'.ref > 0
    BY <1>2, <1>5, <1>6 DEF Counted, InUse
<1>9. QED
    BY <1>6, <1>7, <1>8 DEF Counted, InUse

\* No goroutine begins or ends to use a file, and the counts stay.
LEMMA SameUsersCounted ==
    ASSUME Counted, job' = job, visiting' = visiting,
           \A g \in Goroutines : pc[g]' \in Using <=> pc[g] \in Using,
           \A p \in Paths : /\ tracked[p]'.ref = tracked[p].ref
                            /\ tracked[p]'.deleted => InUse(p)
    PROVE  Counted'
<1>1. \A p \in Paths : Users(p)' = Users(p)
    BY DEF Users, Path
<1>2. QED
    BY <1>1 DEF Counted, InUse, Visits

\* Delete keeps the counts and marks only files in use.
LEMMA DeleteCounted ==
    ASSUME TrackerTypeOK, Counted, NEW p \in Paths, Delete(p), job' = job,
           visiting' = visiting,
           \A g \in Goroutines : pc[g]' \in Using <=> pc[g] \in Using
    PROVE  TrackerTypeOK' /\ Counted'
<1>1. \A q \in Paths : /\ tracked[q]'.ref = tracked[q].ref
                       /\ tracked[q]'.deleted => InUse(q)
    BY DEF Delete, TrackerTypeOK, Counted, InUse
<1>2. TrackerTypeOK'
    BY DEF Delete, TrackerTypeOK
<1>3. QED
    BY <1>1, <1>2, SameUsersCounted

-----------------------------------------------------------------------------
(* Types.                                                                  *)

Sound == TypeOK /\ AtOne /\ Counted

\* A step of one goroutine that neither begins nor ends to use its file, and
\* leaves the counts.
LEMMA QuietSound ==
    ASSUME Sound, NEW g \in Goroutines, NEW x \in Points, Goto(g, x),
           pc[g] \in Using <=> x \in Using, UNCHANGED tracked, Silent,
           OnlyOneTypeOK', disk' \in SUBSET Paths,
           outcome' \in [Goroutines -> Outcomes], held' \in SUBSET Paths
    PROVE  Sound'
<1>1. TypeOK'
    BY DEF Sound, TypeOK, Goto, Silent, walkVars, TrackerTypeOK
<1>2. \A h \in Goroutines : pc[h]' \in Using <=> pc[h] \in Using
    BY DEF Sound, TypeOK, Goto
<1>3. Counted'
    BY <1>2, SameUsersCounted DEF Sound, Silent, walkVars, Counted
<1>4. QED
    BY <1>1, <1>3 DEF Sound, AtOne, Silent, walkVars

\* Outcomes are of their type.
LEMMA GiveTyped ==
    ASSUME TypeOK, NEW g \in Goroutines, NEW o \in Outcomes, Give(g, o)
    PROVE  outcome' \in [Goroutines -> Outcomes]
    BY DEF TypeOK, Give

LEMMA OpenSound ==
    ASSUME Sound, NEW g \in Goroutines,
           FastOpen(g) \/ JoinDownload(g) \/ AwaitDownload(g) \/ StatFile(g)
           \/ Download(g) \/ EndDownload(g) \/ Reopen(g)
    PROVE  Sound'
<1>1. Path(g) \in Paths /\ Name(Path(g)) \in LockKeys
    BY JobFields DEF Sound, TypeOK
<1>2. CASE FastOpen(g)
    <2>1. PICK x \in {"admit", "join"} : Goto(g, x)
        BY <1>2 DEF FastOpen
    <2>2. QED
        BY <1>2, <2>1, QuietSound
        DEF FastOpen, Sound, TypeOK, TrackerTypeOK, Points, Using, onlyOneVars,
            OnlyOneTypeOK, trackerVars
<1>3. CASE JoinDownload(g)
    <2>1. PICK x \in {"stat", "wait"} : Goto(g, x)
        BY <1>3 DEF JoinDownload
    <2>2. OnlyOneTypeOK'
        BY <1>1, <1>3 DEF JoinDownload, Lead, Follow, Sound, TypeOK, OnlyOneTypeOK
    <2>3. QED
        BY <1>3, <2>1, <2>2, QuietSound
        DEF JoinDownload, Sound, TypeOK, TrackerTypeOK, Points, Using, trackerVars
<1>4. CASE AwaitDownload(g)
    <2>1. PICK x \in {"reopen", "release"} : Goto(g, x)
        BY <1>4 DEF AwaitDownload
    <2>2. outcome' \in [Goroutines -> Outcomes]
        BY <1>4, GiveTyped DEF AwaitDownload, Sound, TypeOK, Outcomes
    <2>3. QED
        BY <1>4, <2>1, <2>2, QuietSound
        DEF AwaitDownload, Sound, TypeOK, TrackerTypeOK, Points, Using, onlyOneVars,
            OnlyOneTypeOK, trackerVars
<1>5. CASE StatFile(g)
    <2>1. PICK x \in {"forget", "download"} : Goto(g, x)
        BY <1>5 DEF StatFile
    <2>2. OnlyOneTypeOK'
        BY <1>5 DEF StatFile, Close, Sound, TypeOK, OnlyOneTypeOK, Answers, onlyOneVars
    <2>3. QED
        BY <1>5, <2>1, <2>2, QuietSound
        DEF StatFile, Sound, TypeOK, TrackerTypeOK, Points, Using, trackerVars
<1>6. CASE Download(g)
    <2>1. OnlyOneTypeOK'
        BY <1>6 DEF Download, Close, Sound, TypeOK, OnlyOneTypeOK, Answers
    <2>2. disk' \in SUBSET Paths
        BY <1>1, <1>6 DEF Download, Sound, TypeOK, TrackerTypeOK
    <2>3. QED
        BY <1>6, <2>1, <2>2, QuietSound DEF Download, Sound, TypeOK, Points, Using
<1>7. CASE EndDownload(g)
    <2>1. PICK x \in {"reopen", "release"} : Goto(g, x)
        BY <1>7 DEF EndDownload
    <2>2. outcome' \in [Goroutines -> Outcomes]
        BY <1>7, GiveTyped DEF EndDownload, Sound, TypeOK, Outcomes
    <2>3. OnlyOneTypeOK'
        BY <1>1, <1>7 DEF EndDownload, Forget, Sound, TypeOK, OnlyOneTypeOK
    <2>4. QED
        BY <1>7, <2>1, <2>2, <2>3, QuietSound
        DEF EndDownload, Sound, TypeOK, TrackerTypeOK, Points, Using, trackerVars
<1>8. CASE Reopen(g)
    <2>1. PICK x \in {"admit", "release"} : Goto(g, x)
        BY <1>8 DEF Reopen
    <2>2. outcome' \in [Goroutines -> Outcomes]
        BY <1>8, GiveTyped DEF Reopen, Sound, TypeOK, Outcomes
    <2>3. QED
        BY <1>8, <2>1, <2>2, QuietSound
        DEF Reopen, Sound, TypeOK, TrackerTypeOK, Points, Using, onlyOneVars,
            OnlyOneTypeOK, trackerVars
<1>9. QED
    BY <1>2, <1>3, <1>4, <1>5, <1>6, <1>7, <1>8

LEMMA StoreSound ==
    ASSUME Sound, NEW g \in Goroutines, Place(g) \/ Admit(g)
    PROVE  Sound'
<1>1. Path(g) \in Paths
    BY JobFields DEF Sound, TypeOK
<1>2. CASE Place(g)
    <2>1. PICK x \in {"track", "over"} : Goto(g, x)
        BY <1>2 DEF Place
    <2>2. outcome' \in [Goroutines -> Outcomes]
        BY <1>2, GiveTyped DEF Place, Sound, TypeOK, Outcomes
    <2>3. disk' \in SUBSET Paths
        BY <1>1, <1>2 DEF Place, Sound, TypeOK, TrackerTypeOK
    <2>4. QED
        BY <1>2, <2>1, <2>2, <2>3, QuietSound
        DEF Place, Sound, TypeOK, Points, Using, onlyOneVars, OnlyOneTypeOK
<1>3. CASE Admit(g)
    <2>1. PICK x \in {"release", "reject"} : Goto(g, x)
        BY <1>3 DEF Admit
    <2>2. outcome' \in [Goroutines -> Outcomes]
        BY <1>3, GiveTyped DEF Admit, Sound, TypeOK, Outcomes
    <2>3. held' \in SUBSET Paths
        BY <1>1, <1>3 DEF Admit, Sound, TypeOK
    <2>4. QED
        BY <1>3, <2>1, <2>2, <2>3, QuietSound
        DEF Admit, Sound, TypeOK, TrackerTypeOK, Points, Using, onlyOneVars,
            OnlyOneTypeOK, trackerVars
<1>4. QED
    BY <1>2, <1>3

LEMMA TrackSound ==
    ASSUME Sound, NEW g \in Goroutines,
           TrackToOpen(g) \/ TrackStored(g) \/ Reject(g) \/ Leave(g)
    PROVE  Sound'
<1> DEFINE q == Path(g)
<1>1. q \in Paths
    BY JobFields DEF Sound, TypeOK
<1>2. PICK x \in {"look", "admit", "release", "over"} : Goto(g, x)
    BY DEF TrackToOpen, TrackStored, Reject, Leave
<1>3. outcome' \in [Goroutines -> Outcomes]
    BY GiveTyped DEF TrackToOpen, TrackStored, Reject, Leave, Sound, TypeOK, Outcomes
<1>4. TrackerTypeOK' /\ Counted'
    <2>1. CASE TrackToOpen(g)
        BY <2>1, EnterCounted DEF TrackToOpen, Sound, TypeOK, Using, Silent, walkVars
    <2>2. CASE TrackStored(g)
        BY <2>2, EnterCounted DEF TrackStored, Sound, TypeOK, Using, Silent, walkVars
    <2>3. CASE Reject(g)
        <3>1. \A h \in Goroutines : pc[h]' \in Using <=> pc[h] \in Using
            BY <2>3 DEF Reject, Goto, Sound, TypeOK, Using
        <3>2. QED
            BY <1>1, <2>3, <3>1, DeleteCounted DEF Reject, Sound, TypeOK, Silent, walkVars
    <2>4. CASE Leave(g)
        BY <2>4, ExitCounted DEF Leave, Sound, TypeOK, Using, Points, Silent, walkVars
    <2>5. QED
        BY <2>1, <2>2, <2>3, <2>4
<1>5. TypeOK'
    BY <1>2, <1>3, <1>4
    DEF TrackToOpen, TrackStored, Reject, Leave, Sound, TypeOK, Goto, Points, Silent,
        walkVars, onlyOneVars, OnlyOneTypeOK
<1>6. AtOne'
    BY DEF TrackToOpen, TrackStored, Reject, Leave, Silent, walkVars, Sound, AtOne
<1>7. QED
    BY <1>4, <1>5, <1>6 DEF Sound

LEMMA EvictSound ==
    ASSUME Sound, NEW p \in Paths, Evict(p)
    PROVE  Sound'
<1>1. TrackerTypeOK' /\ Counted'
    BY DeleteCounted DEF Evict, Sound, TypeOK, localVars, Silent, walkVars
<1>2. QED
    BY <1>1
    DEF Evict, Sound, TypeOK, AtOne, localVars, Silent, walkVars, onlyOneVars, OnlyOneTypeOK

\* The walk reaches a file that nothing else of it holds, and leaves it.
LEMMA WalkSound ==
    ASSUME Sound, Walk
    PROVE  Sound'
<1> USE DEF Walk
<1>1. UNCHANGED <<onlyOneVars, localVars, restarts>>
    BY DEF VisitFile, AdmitFound, RejectFound, LeaveFound, EndWalk, WalkOnly
<1>2. \A p \in Paths : /\ Users(p)' = Users(p)
                       /\ Cardinality(Users(p)) \in Nat
    BY <1>1, UsersFinite DEF localVars, Users, Path
<1>3. ASSUME TrackerTypeOK', Counted', AtOne', held' \in SUBSET Paths,
             walk' \in WalkPoints, left' \in SUBSET Paths, visiting' \in SUBSET Paths
      PROVE  Sound'
    BY <1>1, <1>3 DEF Sound, TypeOK, localVars, onlyOneVars, OnlyOneTypeOK
<1>4. CASE VisitFile
    <2>1. PICK q \in left : Open(q) /\ visiting' = {q} /\ left' = left \ {q}
        BY <1>4 DEF VisitFile
    <2>2. q \in Paths
        BY <2>1 DEF Sound, TypeOK
    <2>3. /\ TrackerTypeOK'
          /\ tracked[q]'.ref = tracked[q].ref + 1
          /\ \A p \in Paths \ {q} : tracked[p]' = tracked[p]
        BY <2>1, <2>2, OpenEffect DEF Sound, TypeOK
    <2>4. visiting = {}
        BY <1>4 DEF VisitFile, Sound, AtOne
    <2>5. \A p \in Paths : Visits(p) = 0 /\ Visits(p)' = IF p = q THEN 1 ELSE 0
        BY <2>1, <2>4 DEF Visits
    <2>6. /\ tracked[q]'.ref = Cardinality(Users(q)') + Visits(q)'
          /\ tracked[q]'.ref > 0
        BY <1>2, <2>2, <2>3, <2>5 DEF Sound, Counted
    <2>7. \A p \in Paths \ {q} : /\ tracked[p]'.ref = Cardinality(Users(p)') + Visits(p)'
                                 /\ tracked[p]'.deleted => tracked[p]'.ref > 0
        BY <1>2, <2>3, <2>5 DEF Sound, Counted, InUse
    <2>8. Counted'
        BY <2>6, <2>7 DEF Counted, InUse
    <2>9. QED
        BY <1>3, <1>4, <2>1, <2>2, <2>3, <2>8
        DEF VisitFile, AtOne, WalkPoints, Sound, TypeOK
<1>5. CASE AdmitFound \/ EndWalk
    <2>1. UNCHANGED <<tracked, disk, left, visiting>>
        BY <1>5 DEF AdmitFound, EndWalk, trackerVars
    <2>2. Counted'
        BY <1>2, <2>1 DEF Sound, Counted, Visits, InUse
    <2>3. AtOne' /\ walk' \in WalkPoints /\ held' \in SUBSET Paths
        BY <1>5, <2>1 DEF AdmitFound, EndWalk, Sound, AtOne, TypeOK, WalkPoints
    <2>4. QED
        BY <1>3, <2>1, <2>2, <2>3 DEF Sound, TypeOK, TrackerTypeOK
<1>6. CASE RejectFound
    <2>1. PICK q \in visiting : Delete(q)
        BY <1>6 DEF RejectFound
    <2>2. q \in Paths /\ UNCHANGED <<held, left, visiting>>
        BY <1>6 DEF RejectFound, Sound, TypeOK
    <2>3. TrackerTypeOK' /\ Counted'
        BY <1>1, <2>1, <2>2, DeleteCounted DEF Sound, TypeOK, localVars
    <2>4. AtOne' /\ walk' \in WalkPoints
        BY <1>6, <2>2 DEF RejectFound, Sound, AtOne, WalkPoints
    <2>5. QED
        BY <1>3, <2>2, <2>3, <2>4 DEF Sound, TypeOK
<1>7. CASE LeaveFound
    <2>1. PICK q \in visiting : Release(q)
        BY <1>7 DEF LeaveFound
    <2>2. q \in Paths /\ UNCHANGED <<held, left>> /\ visiting' = {} /\ walk' = "next"
        BY <1>7, <2>1 DEF LeaveFound, Sound, TypeOK
    <2>3. visiting = {q}
        BY <1>7, <2>1 DEF LeaveFound, Sound, AtOne
    <2>4. \A p \in Paths : Visits(p)' = 0 /\ Visits(p) = IF p = q THEN 1 ELSE 0
        BY <2>2, <2>3 DEF Visits
    <2>5. tracked[q].ref = Cardinality(Users(q)) + 1 /\ tracked[q].ref > 0
        BY <1>2, <2>2, <2>4 DEF Sound, Counted
    <2>6. /\ TrackerTypeOK'
          /\ tracked[q]'.ref = tracked[q].ref - 1
          /\ tracked[q].ref = 1 => ~tracked[q]'.deleted
          /\ \A p \in Paths \ {q} : tracked[p]' = tracked[p]
        BY <2>1, <2>2, <2>5, ReleaseEffect DEF Sound, TypeOK
    <2>7. /\ tracked[q]'.ref = Cardinality(Users(q)') + Visits(q)'
          /\ tracked[q].ref # 1 => tracked[q]'.ref > 0
        BY <1>2, <2>2, <2>4, <2>5, <2>6
    <2>8. \A p \in Paths \ {q} : /\ tracked[p]'.ref = Cardinality(Users(p)') + Visits(p)'
                                 /\ tracked[p]'.deleted => tracked[p]'.ref > 0
        BY <1>2, <2>4, <2>6 DEF Sound, Counted, InUse
    <2>9. Counted'
        BY <2>6, <2>7, <2>8 DEF Counted, InUse
    <2>10. QED
        BY <1>3, <2>2, <2>6, <2>9 DEF AtOne, WalkPoints, Sound, TypeOK
<1>8. QED
    BY <1>4, <1>5, <1>6, <1>7

LEMMA RestartSound ==
    ASSUME Sound, Restart
    PROVE  Sound'
<1>1. TypeOK'
    BY TierAssumption
    DEF Restart, Sound, TypeOK, TrackerTypeOK, OnlyOneTypeOK, Untracked, Points, WalkPoints
<1>2. \A p \in Paths : Users(p)' = {} /\ Visits(p)' = 0
    BY DEF Restart, Users, Visits, Using, Sound, TypeOK
<1>3. Counted'
    <2>1. \A p \in Paths : Cardinality(Users(p)') = 0
        BY <1>2, FS_EmptySet
    <2>2. \A p \in Paths : tracked'[p] = Untracked
        BY DEF Restart
    <2>3. QED
        BY <1>2, <2>1, <2>2 DEF Counted, Untracked
<1>4. QED
    BY <1>1, <1>3 DEF Sound, AtOne, Restart

LEMMA InitSound == Init => Sound
<1> SUFFICES ASSUME Init PROVE Sound
    OBVIOUS
<1>1. TypeOK
    BY TierAssumption
    DEF Init, TypeOK, TrackerInit, TrackerTypeOK, OnlyOneInit, OnlyOneTypeOK, Answers,
        Untracked, Points, Outcomes, WalkPoints
<1>2. \A p \in Paths : Users(p) = {} /\ Visits(p) = 0
    BY DEF Init, Users, Visits, Using
<1>3. Counted
    <2>1. \A p \in Paths : Cardinality(Users(p)) = 0
        BY <1>2, FS_EmptySet
    <2>2. \A p \in Paths : tracked[p] = Untracked
        BY DEF Init, TrackerInit
    <2>3. QED
        BY <1>2, <2>1, <2>2 DEF Counted, Untracked
<1>4. QED
    BY <1>1, <1>3 DEF Sound, AtOne, Init

LEMMA NextSound == Sound /\ [Next]_vars => Sound'
<1> SUFFICES ASSUME Sound, [Next]_vars PROVE Sound'
    OBVIOUS
<1>1. ASSUME NEW g \in Goroutines, Step(g) PROVE Sound'
    BY <1>1, OpenSound, StoreSound, TrackSound DEF Step
<1>2. ASSUME NEW p \in Paths, Evict(p) PROVE Sound'
    BY <1>2, EvictSound
<1>3. CASE Restart
    BY <1>3, RestartSound
<1>4. CASE UNCHANGED vars
    <2>1. \A p \in Paths : Users(p)' = Users(p) /\ Visits(p)' = Visits(p)
        BY <1>4 DEF vars, localVars, walkVars, Users, Visits, Path
    <2>2. QED
        BY <1>4, <2>1
        DEF vars, localVars, walkVars, trackerVars, onlyOneVars, Sound, TypeOK, AtOne,
            TrackerTypeOK, OnlyOneTypeOK, Counted, InUse
<1>5. CASE Walk
    BY <1>5, WalkSound
<1>6. QED
    BY <1>1, <1>2, <1>3, <1>4, <1>5 DEF Next

\* Every variable of the local tier keeps its type; in particular the tracker's
\* counts are those of the goroutines between fileTracker.Open and the end
\* of their use, and none falls below zero.
THEOREM TierTypeCorrect == Spec => []TypeOK
<1>1. Sound => TypeOK
    BY DEF Sound
<1>2. QED
    BY <1>1, InitSound, NextSound, PTL DEF Spec

-----------------------------------------------------------------------------
(* A file in use stays.                                                    *)

\* A goroutine that used its file and goes on using it finds it where it was.
LEMMA UsedFileStays ==
    ASSUME Sound, [Next]_vars, NEW g \in Goroutines,
           pc[g] \in Using, pc[g]' \in Using, Path(g) \in disk
    PROVE  Path(g) \in disk'
<1> DEFINE q == Path(g)
<1>1. q \in Paths /\ g \in Users(q)
    BY JobFields DEF Sound, TypeOK, Users
<1>2. /\ tracked[q].ref = Cardinality(Users(q)) + Visits(q) /\ Visits(q) \in 0..1
      /\ Cardinality(Users(q)) \in Nat /\ Cardinality(Users(q)) > 0
      /\ InUse(q)
    BY <1>1, UsersFinite DEF Sound, Counted, InUse, Visits
<1>3. ASSUME NEW h \in Goroutines, Leave(h) PROVE q \in disk'
    <2>1. h # g /\ pc[h] \in Using
        BY <1>3 DEF Leave, Goto, Using, Sound, TypeOK
    <2>2. CASE Path(h) = q
        <3>1. h \in Users(q) \ {g}
            BY <2>1, <2>2 DEF Users
        <3>2. IsFiniteSet(Users(q) \ {g}) /\ Cardinality(Users(q) \ {g}) = Cardinality(Users(q)) - 1
            BY <1>1, UsersFinite, FS_RemoveElement
        <3>3. Cardinality(Users(q)) # 1
            BY <3>1, <3>2, UsersFinite, FS_EmptySet
        <3>4. tracked[q].ref # 1
            BY <1>2, <3>3
        <3>5. QED
            BY <1>3, <2>2, <3>4 DEF Leave, Release
    <2>3. CASE Path(h) # q
        BY <1>3, <2>3 DEF Leave, Release
    <2>4. QED
        BY <2>2, <2>3
<1>4. ASSUME NEW p \in Paths, Delete(p) PROVE q \in disk'
    BY <1>2, <1>4 DEF Delete
<1>5. ASSUME NEW h \in Goroutines, Reject(h) PROVE q \in disk'
    BY <1>4, <1>5, JobFields DEF Reject, Sound, TypeOK
<1>6. ASSUME NEW h \in Goroutines, Step(h), ~Leave(h), ~Reject(h) PROVE disk \subseteq disk'
    BY <1>6
    DEF Step, TrackToOpen, FastOpen, JoinDownload, AwaitDownload, StatFile, Download,
        EndDownload, Reopen, Place, TrackStored, Admit, Open, trackerVars
<1>7. ~Restart
    BY DEF Restart, Using
<1>8. CASE Walk
    <2>1. CASE VisitFile \/ AdmitFound \/ EndWalk
        BY <2>1 DEF VisitFile, AdmitFound, EndWalk, Open, trackerVars
    <2>2. CASE RejectFound
        BY <1>4, <2>2 DEF RejectFound, Sound, TypeOK
    <2>3. CASE LeaveFound
        <3>1. PICK p \in visiting : Release(p)
            BY <2>3 DEF LeaveFound
        <3>2. p = q => tracked[q].ref # 1
            BY <1>2, <3>1 DEF Visits
        <3>3. QED
            BY <3>1, <3>2 DEF Release
    <2>4. QED
        BY <1>8, <2>1, <2>2, <2>3 DEF Walk
<1>9. QED
    BY <1>3, <1>4, <1>5, <1>6, <1>7, <1>8 DEF Next, Evict, vars, trackerVars

-----------------------------------------------------------------------------
(* An open finds its file.                                                 *)

\* No two files have the same name.
UniqueNames == \A p, q \in Paths : Name(p) = Name(q) => p = q

\* Who leads a computation, who waits for whom, and whose answer is given.
Led ==
    /\ \A k \in LockKeys : inflight[k] # NoOne =>
          /\ pc[inflight[k]] \in {"stat", "download", "forget"}
          /\ Name(Path(inflight[k])) = k
    /\ \A g \in Goroutines :
          /\ pc[g] = "wait" => awaits[g] \in Goroutines /\ Name(Path(awaits[g])) = Name(Path(g))
          /\ pc[g] \in {"start", "look", "join", "stat", "download"} => answer[g] = "none"
          /\ answer[g] = "failed" => Path(g) \in Unreliable

\* A goroutine that was told, or may be told, that its file is there has it.
Found ==
    \A g \in Goroutines :
        /\ pc[g] = "reopen" => Path(g) \in disk
        /\ pc[g] = "forget" /\ answer[g] = "ok" => Path(g) \in disk
        /\ pc[g] = "wait" /\ Awaited(g) = "ok" => Path(g) \in disk

FindInv == Sound /\ Led /\ Found /\ OpensFind

LEMMA InitFind == Init => FindInv
    BY InitSound, TierAssumption
    DEF Init, FindInv, Led, Found, OpensFind, OnlyOneInit, Awaited

\* What a step of goroutine h leaves to the others: they keep their control
\* points and what they wait for, and h's answer, if it is new, is true.
Apart(h) ==
    /\ \A g \in Goroutines \ {h} :
          pc'[g] = pc[g] /\ answer'[g] = answer[g] /\ awaits'[g] = awaits[g]
    /\ answer'[h] = answer[h] \/ (answer'[h] = "ok" => Path(h) \in disk')
    /\ job' = job

LEMMA OthersFound ==
    ASSUME FindInv, UniqueNames, [Next]_vars, NEW h \in Goroutines, Apart(h),
           NEW g \in Goroutines \ {h}
    PROVE  /\ pc'[g] = "reopen" => Path(g) \in disk'
           /\ pc'[g] = "forget" /\ answer'[g] = "ok" => Path(g) \in disk'
           /\ pc'[g] = "wait" /\ answer'[awaits'[g]] = "ok" => Path(g) \in disk'
<1>1. Path(g) \in disk /\ pc[g] \in Using => Path(g) \in disk'
    BY UsedFileStays DEF FindInv, Apart
<1>2. ASSUME pc[g] = "wait", answer'[awaits[g]] = "ok" PROVE Path(g) \in disk'
    <2>1. awaits[g] \in Goroutines /\ Name(Path(awaits[g])) = Name(Path(g))
        BY <1>2 DEF FindInv, Led
    <2>2. Path(awaits[g]) = Path(g)
        BY <2>1, JobFields DEF UniqueNames, FindInv, Sound, TypeOK
    <2>3. CASE answer[awaits[g]] = "ok"
        BY <1>1, <1>2, <2>3 DEF FindInv, Found, Awaited, Using
    <2>4. CASE answer[awaits[g]] # "ok"
        BY <1>2, <2>1, <2>2, <2>4 DEF Apart
    <2>5. QED
        BY <2>3, <2>4
<1>3. QED
    BY <1>1, <1>2 DEF FindInv, Found, Using, Apart

\* So the invariant holds after the step if it holds of h.
LEMMA ApartKeepsFind ==
    ASSUME FindInv, UniqueNames, [Next]_vars, NEW h \in Goroutines, Apart(h), Led',
           pc'[h] = "reopen" => Path(h) \in disk',
           pc'[h] = "forget" /\ answer'[h] = "ok" => Path(h) \in disk',
           pc'[h] = "wait" /\ answer'[awaits'[h]] = "ok" => Path(h) \in disk',
           OpensFind'
    PROVE  FindInv'
<1>1. \A g \in Goroutines :
        /\ pc'[g] = "reopen" => Path(g) \in disk'
        /\ pc'[g] = "forget" /\ answer'[g] = "ok" => Path(g) \in disk'
        /\ pc'[g] = "wait" /\ answer'[awaits'[g]] = "ok" => Path(g) \in disk'
    BY OthersFound
<1>2. Found'
    BY <1>1 DEF Found, Awaited, Path, Apart
<1>3. Sound'
    BY NextSound DEF FindInv
<1>4. QED
    BY <1>2, <1>3 DEF FindInv

\* Steps that leave the lock alone: no one begins or ends to lead or to wait.
LEMMA UnledFind ==
    ASSUME FindInv, UniqueNames, [Next]_vars, NEW g \in Goroutines,
           TrackToOpen(g) \/ FastOpen(g) \/ Reopen(g) \/ Place(g) \/ TrackStored(g)
           \/ Admit(g) \/ Reject(g) \/ Leave(g)
    PROVE  FindInv'
<1>1. PICK x \in {"look", "admit", "join", "release", "track", "over", "reject"} : Goto(g, x)
    BY DEF TrackToOpen, FastOpen, Reopen, Place, TrackStored, Admit, Reject, Leave
<1>2. UNCHANGED onlyOneVars /\ job' = job
    BY DEF TrackToOpen, FastOpen, Reopen, Place, TrackStored, Admit, Reject, Leave, Silent
<1>3. pc[g] \notin {"stat", "download", "forget", "wait"}
    BY DEF TrackToOpen, FastOpen, Reopen, Place, TrackStored, Admit, Reject, Leave
<1>4. Apart(g)
    BY <1>1, <1>2 DEF Apart, Goto, onlyOneVars, FindInv, Sound, TypeOK
<1>5. x \in {"look", "join"} => pc[g] \in {"start", "look"}
    BY <1>1
    DEF TrackToOpen, FastOpen, Reopen, Place, TrackStored, Admit, Reject, Leave, Goto,
        FindInv, Sound, TypeOK
<1>6. Led'
    BY <1>1, <1>2, <1>3, <1>5
    DEF Led, FindInv, Goto, onlyOneVars, Path, Sound, TypeOK, OnlyOneTypeOK
<1>7. OpensFind'
    <2>1. ~(pc[g] = "reopen" /\ Path(g) \notin disk)
        BY DEF FindInv, Found
    <2>2. CASE Place(g)
        BY <1>2, <2>2 DEF Place, Give, FindInv, OpensFind, Path, Sound, TypeOK
    <2>3. CASE ~Place(g)
        <3>1. UNCHANGED outcome \/ Give(g, "ok")
            BY <2>1, <2>3
            DEF TrackToOpen, FastOpen, Reopen, TrackStored, Admit, Reject, Leave
        <3>2. QED
            BY <1>2, <3>1 DEF Give, FindInv, OpensFind, Path, Sound, TypeOK
    <2>4. QED
        BY <2>2, <2>3
<1>8. pc'[g] \notin {"reopen", "forget", "wait"}
    BY <1>1 DEF Goto, FindInv, Sound, TypeOK
<1>9. QED
    BY <1>4, <1>6, <1>7, <1>8, ApartKeepsFind

\* A leader's answer is true.
LEMMA LeaderFind ==
    ASSUME FindInv, UniqueNames, [Next]_vars, NEW g \in Goroutines,
           StatFile(g) \/ Download(g) \/ EndDownload(g)
    PROVE  FindInv'
<1>1. PICK x \in {"download", "forget", "reopen", "release"} : Goto(g, x)
    BY DEF StatFile, Download, EndDownload
<1>2. job' = job /\ UNCHANGED awaits
    BY DEF StatFile, Download, EndDownload, Silent, Close, Forget, onlyOneVars
<1>3. \/ /\ pc[g] = "stat" /\ x = "download" /\ UNCHANGED <<answer, inflight>>
      \/ /\ pc[g] \in {"stat", "download"} /\ x = "forget" /\ UNCHANGED inflight
         /\ \/ answer' = [answer EXCEPT ![g] = "ok"] /\ Path(g) \in disk'
            \/ answer' = [answer EXCEPT ![g] = "failed"] /\ Path(g) \in Unreliable
      \/ /\ pc[g] = "forget" /\ x \in {"reopen", "release"} /\ UNCHANGED answer
         /\ inflight' = [inflight EXCEPT ![Name(Path(g))] = NoOne]
         /\ x = "reopen" => answer[g] = "ok"
    BY <1>1
    DEF StatFile, Download, EndDownload, Close, Forget, onlyOneVars, trackerVars, Goto,
        FindInv, Sound, TypeOK
<1>4. Apart(g)
    BY <1>1, <1>2, <1>3
    DEF Apart, Goto, FindInv, Sound, TypeOK, OnlyOneTypeOK
<1>5. Led'
    <2>1. \A k \in LockKeys : inflight'[k] # NoOne => inflight'[k] = inflight[k]
        BY <1>3, JobFields DEF FindInv, Sound, TypeOK, OnlyOneTypeOK
    <2>2. ASSUME NEW k \in LockKeys, inflight'[k] # NoOne
          PROVE  /\ pc'[inflight'[k]] \in {"stat", "download", "forget"}
                 /\ Name(Path(inflight'[k])) = k
        <3>1. /\ inflight'[k] = inflight[k] /\ inflight[k] \in Goroutines
              /\ pc[inflight[k]] \in {"stat", "download", "forget"}
              /\ Name(Path(inflight[k])) = k
            BY <2>1, <2>2 DEF FindInv, Led, Sound, TypeOK, OnlyOneTypeOK
        <3>2. inflight[k] = g => x \in {"download", "forget"}
            BY <1>3, <2>2, <3>1, JobFields DEF FindInv, Sound, TypeOK, OnlyOneTypeOK
        <3>3. QED
            BY <1>1, <3>1, <3>2 DEF Goto, FindInv, Sound, TypeOK
    <2>3. ASSUME NEW h \in Goroutines
          PROVE  /\ pc'[h] = "wait" => /\ awaits'[h] \in Goroutines
                                       /\ Name(Path(awaits'[h])) = Name(Path(h))
                 /\ pc'[h] \in {"start", "look", "join", "stat", "download"} =>
                       answer'[h] = "none"
                 /\ answer'[h] = "failed" => Path(h) \in Unreliable
        BY <1>1, <1>2, <1>3 DEF FindInv, Led, Goto, Sound, TypeOK, OnlyOneTypeOK
    <2>4. QED
        BY <1>2, <2>2, <2>3 DEF Led, Path
<1>6. OpensFind'
    <2>1. \/ UNCHANGED outcome
          \/ Give(g, "failed") /\ answer[g] = "failed"
        BY DEF StatFile, Download, EndDownload
    <2>2. QED
        BY <1>2, <2>1 DEF Give, FindInv, Led, OpensFind, Path, Sound, TypeOK
<1>7. /\ pc'[g] = "reopen" => Path(g) \in disk'
      /\ pc'[g] = "forget" /\ answer'[g] = "ok" => Path(g) \in disk'
      /\ pc'[g] # "wait"
    <2>1. UNCHANGED disk \/ pc[g] = "download"
        BY DEF StatFile, Download, EndDownload, trackerVars
    <2>2. QED
        BY <1>1, <1>3, <2>1 DEF FindInv, Found, Goto, Sound, TypeOK, OnlyOneTypeOK
<1>8. QED
    BY <1>4, <1>5, <1>6, <1>7, ApartKeepsFind

\* A goroutine that joins leads under its file's name, or waits for one that
\* leads under that name; its answer is about the same file.
LEMMA WaiterFind ==
    ASSUME FindInv, UniqueNames, [Next]_vars, NEW g \in Goroutines,
           JoinDownload(g) \/ AwaitDownload(g)
    PROVE  FindInv'
<1> DEFINE k == Name(Path(g))
<1>1. k \in LockKeys /\ job' = job
    BY JobFields DEF FindInv, Sound, TypeOK, JoinDownload, AwaitDownload, Silent
<1>2. CASE JoinDownload(g)
    <2>1. UNCHANGED <<answer, outcome, tracked, disk>> /\ pc[g] = "join"
        BY <1>2 DEF JoinDownload, Lead, Follow, trackerVars
    <2>2. answer[g] = "none"
        BY <2>1 DEF FindInv, Led
    <2>3. CASE Lead(g, k) /\ Goto(g, "stat")
        <3>1. UNCHANGED awaits /\ inflight' = [inflight EXCEPT ![k] = g]
            BY <2>3 DEF Lead
        <3>2. Apart(g)
            BY <1>1, <2>1, <2>3, <3>1 DEF Apart, Goto, FindInv, Sound, TypeOK
        <3>3. Led'
            BY <1>1, <2>1, <2>2, <2>3, <3>1
            DEF FindInv, Led, Goto, Path, Sound, TypeOK, OnlyOneTypeOK
        <3>4. OpensFind'
            BY <1>1, <2>1 DEF FindInv, OpensFind, Path
        <3>5. pc'[g] = "stat"
            BY <2>3 DEF Goto, FindInv, Sound, TypeOK
        <3>6. QED
            BY <3>2, <3>3, <3>4, <3>5, ApartKeepsFind
    <2>4. CASE Follow(g, k) /\ Goto(g, "wait")
        <3> DEFINE l == inflight[k]
        <3>1. UNCHANGED inflight /\ awaits' = [awaits EXCEPT ![g] = l] /\ l # NoOne
            BY <2>4 DEF Follow
        <3>2. /\ l \in Goroutines /\ pc[l] \in {"stat", "download", "forget"}
              /\ Name(Path(l)) = k
            BY <1>1, <3>1 DEF FindInv, Led, Sound, TypeOK, OnlyOneTypeOK
        <3>3. Path(l) = Path(g)
            BY <3>2, JobFields DEF UniqueNames, FindInv, Sound, TypeOK
        <3>4. answer[l] = "ok" => Path(g) \in disk'
            BY <2>1, <3>2, <3>3 DEF FindInv, Led, Found
        <3>5. Apart(g)
            BY <1>1, <2>1, <2>4, <3>1 DEF Apart, Goto, FindInv, Sound, TypeOK, OnlyOneTypeOK
        <3>6. Led'
            BY <1>1, <2>1, <2>2, <2>4, <3>1, <3>2
            DEF FindInv, Led, Goto, Path, Sound, TypeOK, OnlyOneTypeOK
        <3>7. OpensFind'
            BY <1>1, <2>1 DEF FindInv, OpensFind, Path
        <3>8. pc'[g] = "wait" /\ awaits'[g] = l
            BY <2>4, <3>1 DEF Goto, FindInv, Sound, TypeOK, OnlyOneTypeOK
        <3>9. QED
            BY <2>1, <3>4, <3>5, <3>6, <3>7, <3>8, ApartKeepsFind
    <2>5. QED
        BY <1>2, <2>3, <2>4 DEF JoinDownload
<1>3. CASE AwaitDownload(g)
    <2>1. UNCHANGED <<inflight, answer, awaits, tracked, disk>> /\ pc[g] = "wait"
        BY <1>3 DEF AwaitDownload, onlyOneVars, trackerVars
    <2>2. PICK x \in {"reopen", "release"} : Goto(g, x)
        BY <1>3 DEF AwaitDownload
    <2>3. Apart(g)
        BY <1>1, <2>1, <2>2 DEF Apart, Goto, FindInv, Sound, TypeOK
    <2>4. Path(awaits[g]) = Path(g) /\ awaits[g] \in Goroutines
        BY <2>1, JobFields DEF UniqueNames, FindInv, Led, Sound, TypeOK
    <2>5. Led'
        BY <1>1, <2>1, <2>2
        DEF FindInv, Led, Goto, Path, Sound, TypeOK, OnlyOneTypeOK
    <2>6. pc'[g] = "reopen" => Path(g) \in disk'
        BY <1>3, <2>1
        DEF AwaitDownload, Goto, FindInv, Found, Sound, TypeOK
    <2>7. OpensFind'
        <3>1. \/ UNCHANGED outcome
              \/ Give(g, "failed") /\ Path(g) \in Unreliable
            BY <1>3, <2>4 DEF AwaitDownload, Awaited, FindInv, Led
        <3>2. QED
            BY <1>1, <3>1 DEF Give, FindInv, OpensFind, Path, Sound, TypeOK
    <2>8. pc'[g] \notin {"wait", "forget"}
        BY <2>2 DEF Goto, FindInv, Sound, TypeOK
    <2>9. QED
        BY <2>3, <2>5, <2>6, <2>7, <2>8, ApartKeepsFind
<1>4. QED
    BY <1>2, <1>3

\* The eviction policy and the walk only mark what is in use.
LEMMA EvictFind ==
    ASSUME FindInv, [Next]_vars, Walk \/ \E p \in Paths : Evict(p)
    PROVE  FindInv'
<1>1. UNCHANGED <<inflight, answer, awaits, job, pc, outcome>>
    BY DEF Evict, Walk, VisitFile, AdmitFound, RejectFound, LeaveFound, EndWalk, WalkOnly,
           onlyOneVars, localVars
<1>2. Sound'
    BY NextSound DEF FindInv
<1>3. \A g \in Goroutines : pc[g] \in Using /\ Path(g) \in disk => Path(g) \in disk'
    BY <1>1, UsedFileStays DEF FindInv
<1>4. Found'
    BY <1>1, <1>3 DEF FindInv, Found, Using, Path, Awaited
<1>5. Led' /\ OpensFind'
    BY <1>1 DEF FindInv, Led, OpensFind, Path
<1>6. QED
    BY <1>2, <1>4, <1>5 DEF FindInv

\* After a restart nobody leads, waits or has been promised a file.
LEMMA RestartFind ==
    ASSUME FindInv, [Next]_vars, Restart
    PROVE  FindInv'
<1>1. /\ UNCHANGED <<answer, awaits, job, outcome>>
      /\ \A k \in LockKeys : inflight'[k] = NoOne
      /\ \A g \in Goroutines : pc'[g] = IF pc[g] = "start" THEN "start" ELSE "over"
    BY DEF Restart
<1>2. Sound'
    BY NextSound DEF FindInv
<1>3. Led' /\ Found' /\ OpensFind'
    BY <1>1 DEF FindInv, Led, Found, OpensFind, Path
<1>4. QED
    BY <1>2, <1>3 DEF FindInv

LEMMA NextFind == UniqueNames /\ FindInv /\ [Next]_vars => FindInv'
<1> SUFFICES ASSUME UniqueNames, FindInv, [Next]_vars PROVE FindInv'
    OBVIOUS
<1>1. ASSUME NEW g \in Goroutines, Step(g) PROVE FindInv'
    BY <1>1, UnledFind, LeaderFind, WaiterFind DEF Step
<1>2. ASSUME NEW p \in Paths, Evict(p) PROVE FindInv'
    BY <1>2, EvictFind
<1>3. CASE Restart
    BY <1>3, RestartFind
<1>4. CASE UNCHANGED vars
    <2>1. Sound'
        BY NextSound DEF FindInv
    <2>2. Led' /\ Found' /\ OpensFind'
        BY <1>4
        DEF vars, localVars, trackerVars, onlyOneVars, FindInv, Led, Found, OpensFind,
            Awaited, Path
    <2>3. QED
        BY <2>1, <2>2 DEF FindInv
<1>5. CASE Walk
    BY <1>5, EvictFind
<1>6. QED
    BY <1>1, <1>2, <1>3, <1>4, <1>5 DEF Next

\* If no two files have one name, an open finds the file it tracked, opened or
\* waited for, and fails only when the storage fails to give that very file,
\* for any number of goroutines that open, store and reject files, with
\* evictions and restarts in between.  The premise is needed: the lock of the
\* downloads is keyed by the file name without its namespace.
THEOREM TierOpensFind == UniqueNames => (Spec => []OpensFind)
<1> SUFFICES ASSUME UniqueNames PROVE Spec => []OpensFind
    OBVIOUS
<1>1. Init => FindInv
    BY InitFind
<1>2. FindInv /\ [Next]_vars => FindInv'
    BY NextFind
<1>3. FindInv => OpensFind
    BY DEF FindInv
<1>4. QED
    BY <1>1, <1>2, <1>3, PTL DEF Spec

-----------------------------------------------------------------------------
(* Every file in the directory is accounted for.                           *)

\* A goroutine that is to offer its file to the eviction policy, or to have it
\* deleted because the policy refused it.
Carer(g) ==
    \/ pc[g] \in {"track", "admit", "reject", "reopen"}
    \/ pc[g] = "forget" /\ answer[g] = "ok"

\* A file in the directory is with the policy, is to be deleted by the last
\* that uses it, or has a goroutine or the walk to see to either.
Cared ==
    \A p \in disk :
        \/ p \in held
        \/ tracked[p].deleted
        \/ p \in left
        \/ walk \in {"admit", "reject"} /\ p \in visiting
        \/ \E g \in Goroutines : Carer(g) /\ Path(g) = p

\* A step of one goroutine: what it adds to the directory it cares for, and
\* what it ceases to care for is with the policy or marked.
LEMMA StepKeepsCared ==
    ASSUME Cared, NEW g \in Goroutines, job' = job, UNCHANGED walkVars,
           \A h \in Goroutines \ {g} : pc'[h] = pc[h] /\ answer'[h] = answer[h],
           held \subseteq held',
           \A p \in disk' \ disk : p = Path(g) /\ Carer(g)',
           \A p \in disk' : tracked[p].deleted => tracked'[p].deleted,
           Carer(g) /\ Path(g) \in disk' =>
               Carer(g)' \/ Path(g) \in held' \/ tracked'[Path(g)].deleted
    PROVE  Cared'
<1> SUFFICES ASSUME NEW p \in disk'
             PROVE  \/ p \in held'
                    \/ tracked'[p].deleted
                    \/ p \in left'
                    \/ walk' \in {"admit", "reject"} /\ p \in visiting'
                    \/ \E h \in Goroutines : Carer(h)' /\ Path(h) = p
    BY DEF Cared, Path
<1>1. \A h \in Goroutines \ {g} : Carer(h) => Carer(h)'
    BY DEF Carer
<1>2. CASE p \in disk
    <2>1. CASE p \in held \/ tracked[p].deleted
        BY <2>1
    <2>2. CASE \E h \in Goroutines : Carer(h) /\ Path(h) = p
        BY <1>1, <2>2
    <2>3. QED
        BY <1>2, <2>1, <2>2 DEF Cared, walkVars
<1>3. QED
    BY <1>2

\* The steps of Open up to the file's admission.
LEMMA OpenCared ==
    ASSUME Sound, Cared, NEW g \in Goroutines,
           FastOpen(g) \/ JoinDownload(g) \/ AwaitDownload(g) \/ StatFile(g)
           \/ Download(g) \/ EndDownload(g) \/ Reopen(g)
    PROVE  Cared'
<1>1. job' = job /\ UNCHANGED <<tracked, held>> /\ UNCHANGED walkVars
    BY DEF FastOpen, JoinDownload, AwaitDownload, StatFile, Download, EndDownload, Reopen,
           Silent, trackerVars
<1>2. \A h \in Goroutines \ {g} : pc'[h] = pc[h] /\ answer'[h] = answer[h]
    BY DEF FastOpen, JoinDownload, AwaitDownload, StatFile, Download, EndDownload, Reopen,
           Lead, Follow, Close, Forget, onlyOneVars, Goto, Sound, TypeOK, OnlyOneTypeOK
<1>3. \A p \in disk' \ disk : p = Path(g) /\ Carer(g)'
    BY DEF FastOpen, JoinDownload, AwaitDownload, StatFile, Download, EndDownload, Reopen,
           Close, trackerVars, Goto, Carer, Sound, TypeOK, OnlyOneTypeOK
<1>4. Carer(g) /\ Path(g) \in disk' => Carer(g)'
    BY DEF FastOpen, JoinDownload, AwaitDownload, StatFile, Download, EndDownload, Reopen,
           Forget, trackerVars, Goto, Carer, Sound, TypeOK, OnlyOneTypeOK
<1>5. QED
    BY <1>1, <1>2, <1>3, <1>4, StepKeepsCared

\* The steps of Store, and those Open and Store share.
LEMMA TrackCared ==
    ASSUME Sound, Cared, NEW g \in Goroutines,
           TrackToOpen(g) \/ Place(g) \/ TrackStored(g) \/ Admit(g) \/ Reject(g) \/ Leave(g)
    PROVE  Cared'
<1> DEFINE q == Path(g)
<1>1. job' = job /\ UNCHANGED answer /\ held \subseteq held' /\ UNCHANGED walkVars
    BY DEF TrackToOpen, Place, TrackStored, Admit, Reject, Leave, Silent, onlyOneVars
<1>2. \A h \in Goroutines \ {g} : pc'[h] = pc[h] /\ answer'[h] = answer[h]
    BY <1>1 DEF TrackToOpen, Place, TrackStored, Admit, Reject, Leave, Goto, Sound, TypeOK
<1>3. q \in Paths
    BY JobFields DEF Sound, TypeOK
<1>4. CASE Reject(g)
    <2>1. g \in Users(q)
        BY <1>4 DEF Reject, Users, Using
    <2>2. InUse(q)
        BY <1>3, <2>1, UsersFinite DEF Sound, Counted, InUse, Visits
    <2>3. tracked' = [tracked EXCEPT ![q].deleted = TRUE] /\ disk' = disk
        BY <1>4, <2>2 DEF Reject, Delete
    <2>4. /\ tracked'[q].deleted
          /\ \A p \in disk' : tracked[p].deleted => tracked'[p].deleted
        BY <1>3, <2>3 DEF Sound, TypeOK, TrackerTypeOK
    <2>5. QED
        BY <1>1, <1>2, <2>3, <2>4, StepKeepsCared
<1>5. CASE Leave(g)
    <2>1. ~Carer(g)
        BY <1>5 DEF Leave, Carer
    <2>2. disk' \subseteq disk
        BY <1>5 DEF Leave, Release
    <2>3. \A p \in disk' : tracked[p].deleted => tracked'[p].deleted
        BY <1>3, <1>5 DEF Leave, Release, Sound, TypeOK, TrackerTypeOK
    <2>4. QED
        BY <1>1, <1>2, <2>1, <2>2, <2>3, StepKeepsCared
<1>6. CASE TrackToOpen(g) \/ Place(g) \/ TrackStored(g) \/ Admit(g)
    <2>1. \A p \in disk' : tracked[p].deleted => tracked'[p].deleted
        BY <1>3, <1>6
        DEF TrackToOpen, Place, TrackStored, Admit, Open, trackerVars, Sound, TypeOK,
            TrackerTypeOK
    <2>2. \A p \in disk' \ disk : p = Path(g) /\ Carer(g)'
        BY <1>6
        DEF TrackToOpen, Place, TrackStored, Admit, Open, trackerVars, Goto, Carer, Sound,
            TypeOK
    <2>3. Carer(g) /\ q \in disk' => Carer(g)' \/ q \in held'
        BY <1>6 DEF TrackToOpen, Place, TrackStored, Admit, Goto, Carer, Sound, TypeOK
    <2>4. QED
        BY <1>1, <1>2, <2>1, <2>2, <2>3, StepKeepsCared
<1>7. QED
    BY <1>4, <1>5, <1>6

\* What the policy gives up is deleted, or marked because it is in use.
LEMMA EvictCared ==
    ASSUME Sound, Cared, NEW p \in Paths, Evict(p)
    PROVE  Cared'
<1>1. UNCHANGED <<answer, job, pc>> /\ held \ {p} \subseteq held' /\ UNCHANGED walkVars
    BY DEF Evict, onlyOneVars, localVars, Silent
<1>2. disk' \subseteq disk /\ (p \in disk' => tracked'[p].deleted)
    BY DEF Evict, Delete, Sound, TypeOK, TrackerTypeOK
<1>3. \A q \in disk' : tracked[q].deleted => tracked'[q].deleted
    BY DEF Evict, Delete, Sound, TypeOK, TrackerTypeOK
<1>4. \A g \in Goroutines : Carer(g)' = Carer(g) /\ Path(g)' = Path(g)
    BY <1>1 DEF Carer, Path
<1>5. QED
    BY <1>1, <1>2, <1>3, <1>4 DEF Cared, walkVars

\* The file the walk comes to is offered to the policy; if it is refused, it is
\* in use by the walk, and so marked.
LEMMA WalkCared ==
    ASSUME Sound, Cared, Walk
    PROVE  Cared'
<1>1. UNCHANGED <<answer, job, pc>> /\ held \subseteq held'
    BY DEF Walk, VisitFile, AdmitFound, RejectFound, LeaveFound, EndWalk, WalkOnly,
           onlyOneVars, localVars
<1>2. \A g \in Goroutines : Carer(g)' = Carer(g) /\ Path(g)' = Path(g)
    BY <1>1 DEF Carer, Path
<1>3. ASSUME \A p \in disk' :
                /\ p \in disk
                /\ tracked[p].deleted => tracked'[p].deleted
                /\ p \in left => (p \in left' \/ (walk' = "admit" /\ p \in visiting'))
                /\ walk \in {"admit", "reject"} /\ p \in visiting =>
                      \/ p \in held' \/ tracked'[p].deleted
                      \/ walk' = "reject" /\ p \in visiting'
      PROVE  Cared'
    BY <1>1, <1>2, <1>3 DEF Cared
<1>4. CASE VisitFile \/ AdmitFound \/ EndWalk
    <2>1. disk' = disk /\ \A p \in disk : tracked'[p].deleted = tracked[p].deleted
        BY <1>4
        DEF VisitFile, AdmitFound, EndWalk, Open, trackerVars, Sound, TypeOK, TrackerTypeOK
    <2>2. QED
        BY <1>3, <1>4, <2>1 DEF VisitFile, AdmitFound, EndWalk
<1>5. CASE RejectFound
    <2>1. PICK q \in visiting : Delete(q)
        BY <1>5 DEF RejectFound
    <2>2. q \in Paths /\ visiting = {q}
        BY <1>5, <2>1 DEF RejectFound, Sound, TypeOK, AtOne
    <2>3. InUse(q)
        <3>1. tracked[q].ref = Cardinality(Users(q)) + 1
            BY <2>2 DEF Sound, Counted, Visits
        <3>2. QED
            BY <3>1, UsersFinite DEF InUse
    <2>4. tracked' = [tracked EXCEPT ![q].deleted = TRUE] /\ disk' = disk
        BY <2>1, <2>3 DEF Delete
    <2>5. tracked'[q].deleted /\ \A p \in disk' : tracked[p].deleted => tracked'[p].deleted
        BY <2>2, <2>4 DEF Sound, TypeOK, TrackerTypeOK
    <2>6. QED
        BY <1>3, <1>5, <2>2, <2>4, <2>5 DEF RejectFound
<1>6. CASE LeaveFound
    <2>1. PICK q \in visiting : Release(q)
        BY <1>6 DEF LeaveFound
    <2>2. q \in Paths /\ disk' \subseteq disk
        BY <2>1 DEF Release, Sound, TypeOK
    <2>3. \A p \in disk' : tracked[p].deleted => tracked'[p].deleted
        BY <2>1, <2>2 DEF Release, Sound, TypeOK, TrackerTypeOK
    <2>4. QED
        BY <1>3, <1>6, <2>2, <2>3 DEF LeaveFound
<1>7. QED
    BY <1>4, <1>5, <1>6 DEF Walk

LEMMA NextCared == Sound /\ Cared /\ [Next]_vars => Cared'
<1> SUFFICES ASSUME Sound, Cared, [Next]_vars PROVE Cared'
    OBVIOUS
<1>1. ASSUME NEW g \in Goroutines, Step(g) PROVE Cared'
    BY <1>1, OpenCared, TrackCared DEF Step
<1>2. ASSUME NEW p \in Paths, Evict(p) PROVE Cared'
    BY <1>2, EvictCared
<1>3. CASE Restart
    BY <1>3 DEF Restart, Cared
<1>4. CASE UNCHANGED vars
    BY <1>4 DEF vars, localVars, walkVars, trackerVars, onlyOneVars, Cared, Carer, Path
<1>5. CASE Walk
    BY <1>5, WalkCared
<1>6. QED
    BY <1>1, <1>2, <1>3, <1>4, <1>5 DEF Next

\* A file of the directory is known to the eviction policy, is in use (so the
\* last user deletes it if it is marked), was just moved into place by a store
\* that has not told the tracker yet, or waits for the walk that follows a
\* crash, whatever names the files have.
THEOREM TierDiskAccounted == Spec => []DiskIsAccounted
<1>1. Init => Sound /\ Cared
    BY InitSound DEF Init, TrackerInit, Cared
<1>2. Sound /\ Cared /\ [Next]_vars => (Sound /\ Cared)'
    BY NextSound, NextCared
<1>3. Sound /\ Cared => DiskIsAccounted
    <2> SUFFICES ASSUME Sound, Cared, NEW p \in disk
                 PROVE  \/ p \in held
                        \/ InUse(p)
                        \/ \E g \in Goroutines : pc[g] = "track" /\ Path(g) = p
                        \/ p \in left
        BY DEF DiskIsAccounted
    <2>1. p \in Paths
        BY DEF Sound, TypeOK, TrackerTypeOK
    <2>2. \A g \in Goroutines : Carer(g) /\ Path(g) = p => pc[g] = "track" \/ g \in Users(p)
        BY DEF Carer, Users, Using
    <2>3. (\E g \in Users(p) : TRUE) \/ p \in visiting => InUse(p)
        BY <2>1, UsersFinite DEF Sound, Counted, InUse, Visits
    <2>4. QED
        BY <2>1, <2>2, <2>3 DEF Sound, Counted, Cared
<1>4. QED
    BY <1>1, <1>2, <1>3, PTL DEF Spec
=============================================================================
