------------------------------ MODULE WriteProofs ------------------------------
(* Acknowledged writes are kept, heads descend and resets stand: Graveler's *)
(* AckedWritesKept, CommitsAreCausal, CommitsAreListings, ExactUntilSealed, *)
(* HeadsDescend and ResetsUndo, for every number of requests, keys, servers *)
(* and tries.  First what every step keeps of names, tombstones and unused  *)
(* tokens, then what the steps that discard nothing do to one write, then   *)
(* where each write can be (Kept), what holds until the first staging token *)
(* is sealed (ExactInv), the parents of commits (ParentInv), and where the  *)
(* writes can be that a reset has undone (ResetInv).                        *)
EXTENDS GravelerProofs, WellFoundedInduction

-----------------------------------------------------------------------------
(* The order of things in the store.                                       *)

\* The control points a request's program has.
Placed(p, pc) ==
    /\ pc \in {"retry", "apply", "recheck"} => Kind(p) \in Writes
    /\ pc \in {"condScan", "updateWrite"} => Kind(p) \in CondWrites
    /\ pc \in {"delScan", "ntScan", "bury"} => Kind(p) \in Deletes
    /\ pc = "getScan" => Kind(p) \in Reads
    /\ pc \in {"seal", "commitScan"} => Kind(p) = "commit"
    /\ pc \in {"prepare", "prepScan", "headScan"} => Kind(p) \in HeadUpdates
    /\ pc = "update" => Kind(p) \in HeadUpdates \cup {"commit", "resetHard"}
    /\ pc = "publish" => Kind(p) \in Adders \cup {"reset", "resetHard"}
    /\ pc = "hardScan" => Kind(p) = "resetHard"
    /\ pc = "keyScan" => Kind(p) = "resetKey"
    /\ pc \in {"prefixDiff", "prefixScan", "prefixWrite"} => Kind(p) = "resetPrefix"
    /\ pc = "delete" => Kind(p) = "deleteBranch"
    /\ pc = "create" => Kind(p) = "createBranch"
    /\ pc = "drop" => Kind(p) \notin Writes \cup Reads

\* A request in state r has published what it will.
Past(r) == r.pc \in {"drop"} \cup Over

Settled == {Origin} \cup {p \in Requests : Past(req[p])}

\* A record names a request's commit or token only once that is published.
Named(b) ==
    \A p \in Requests : /\ b.commit = p => Past(req[p])
                        /\ b.staging = p => ~Fresh(p, req[p])

\* An entry of key k is of a request that runs or ran; a tombstone is of one
\* that is to delete the key, or of a reset.
Owned(k, e) ==
    /\ e.live => Exists(e)
    /\ \A d \in Requests : e.by = d => req[d].pc # "start"
    /\ Exists(e) /\ ~e.live =>
          \E d \in Requests : /\ e.by = d
                              /\ Kind(d) \in Resets \/ (Kind(d) \in Deletes /\ Key(d) = k)

Order ==
    \A p \in Requests : /\ Placed(p, req[p].pc)
                        /\ p \notin before[p]
                        /\ \A q \in before[p] : req[q].pc \in Over

Names == Named(branch) /\ \A p \in Requests : Named(req[p].snap) /\ Named(req[p].pre)

Marks ==
    /\ \A t \in Tokens, k \in Keys : Owned(k, staged[t][k])
    /\ \A c \in Writers, k \in Keys : Owned(k, commits[c].content[k])
    /\ \A p \in Requests, k \in Keys :
          req[p].pc \in {"commitScan", "headScan"} => Owned(k, req[p].view[k])

Authors == \A p \in Requests : commits[p].stored => Kind(p) \in Adders

\* Nothing is staged on a token before it is installed, but by ResetPrefix.
Unused ==
    \A p \in Requests : Fresh(p, req[p]) /\ Kind(p) # "resetPrefix" => staged[p] = Blank

Scanning ==
    \A p \in Requests :
        req[p].pc \in {"commitScan", "headScan"} => Range(req[p].todo) \subseteq Range(req[p].snap.sealed)

Doomed == \A s \in Servers : doomed[s].keys # {} => doomed[s].token \in fetched[s]

StoreInv == Order /\ Names /\ Marks /\ Authors /\ Unused /\ Scanning /\ Doomed

-----------------------------------------------------------------------------
(* A step of one request, as the order of things sees it.                  *)

\* Request p moves to state r.
Moves(p, r) ==
    /\ Go(p, r)
    /\ req[p].pc \notin Over
    /\ r.pc # "start" /\ Placed(p, r.pc)
    /\ Past(req[p]) => Past(r)
    /\ Fresh(p, r) => Fresh(p, req[p])
    /\ r.snap \in {NoBranch, req[p].snap, branch}
    /\ \/ r.pre \in {NoBranch, req[p].pre, branch}
       \/ branch # NoBranch /\ \E c \in Settled : r.pre = [branch EXCEPT !.commit = c]
    /\ r.pc \in {"commitScan", "headScan"} =>
          /\ Range(r.todo) \subseteq Range(r.snap.sealed)
          /\ \A k \in Keys : Owned(k, r.view[k])

\* The record names what it named, what is settled, and what p publishes.
Renames(p, r) ==
    \/ branch' \in {branch, NoBranch}
    \/ /\ branch'.commit \in {branch.commit} \cup Settled \/ (branch'.commit = p /\ Past(r))
       /\ branch'.staging = branch.staging \/ (branch'.staging = p /\ Fresh(p, req[p]) /\ ~Fresh(p, r))

\* At most one commit is stored.
Stores ==
    \/ commits' = commits
    \/ \E c \in Requests, x \in Commits :
          /\ commits' = [commits EXCEPT ![c] = x]
          /\ Kind(c) \in Adders
          /\ \A k \in Keys : Owned(k, x.content[k])

\* At most one entry is staged, on a token that is in use.
Stages ==
    /\ UNCHANGED <<fetched, doomed>>
    /\ \/ staged' = staged
       \/ \E t \in Tokens, k \in Keys, e \in Entries :
             /\ staged' = [staged EXCEPT ![t][k] = e]
             /\ Owned(k, e)
             /\ \A q \in Requests : Fresh(q, req[q]) /\ Kind(q) # "resetPrefix" => q # t

LEMMA KnownSettled == Known \subseteq Settled
    BY DEF Known, Settled, Past, Over

LEMMA GoParts ==
    ASSUME TypeInv, NEW p \in Requests, NEW r, Go(p, r)
    PROVE  /\ task' = task
           /\ \A q \in Requests : req'[q] = IF q = p THEN r ELSE req[q]
           /\ \A q \in Requests : Kind(q)' = Kind(q) /\ Key(q)' = Key(q)
    BY DEF Go, TypeInv, RequestsTyped, Kind, Key

\* Names and tombstones that were in order before a step are so after it.
LEMMA MovesForward ==
    ASSUME TypeInv, NEW p \in Requests, NEW r, Moves(p, r)
    PROVE  /\ \A b : Named(b) => \A q \in Requests : /\ b.commit = q => Past(req'[q])
                                                     /\ b.staging = q => ~Fresh(q, req[q])'
           /\ \A k, e : Owned(k, e) => Owned(k, e)'
<1>1. /\ \A q \in Requests : req'[q] = IF q = p THEN r ELSE req[q]
      /\ \A q \in Requests : Kind(q)' = Kind(q) /\ Key(q)' = Key(q)
    BY GoParts DEF Moves
<1>2. \A q \in Requests : Past(req[q]) => Past(req'[q])
    BY <1>1 DEF Moves
<1>3. \A q \in Requests : Fresh(q, req[q])' => Fresh(q, req[q])
    BY <1>1 DEF Moves, Fresh
<1>4. \A q \in Requests : req[q].pc # "start" => req'[q].pc # "start"
    BY <1>1 DEF Moves
<1>5. QED
    BY <1>1, <1>2, <1>3, <1>4 DEF Named, Owned

LEMMA MovesKept ==
    ASSUME TypeInv, StoreInv, NEW p \in Requests, NEW r,
           Moves(p, r), Renames(p, r), Stages, Stores
    PROVE  StoreInv'
<1>1. /\ \A q \in Requests : req'[q] = IF q = p THEN r ELSE req[q]
      /\ \A q \in Requests : Kind(q)' = Kind(q) /\ Key(q)' = Key(q)
    BY GoParts DEF Moves
<1>2. Order'
    <2>1. ASSUME NEW q \in Requests PROVE q \notin before'[q] /\ \A o \in before'[q] : req'[o].pc \in Over
        <3>1. before[q] \subseteq Requests /\ q \notin before[q] /\ \A o \in before[q] : req[o].pc \in Over
            BY DEF StoreInv, Order, TypeInv, RequestsTyped
        <3>2. p \notin before[q]
            BY <3>1 DEF Moves
        <3>3. CASE before'[q] = before[q]
            BY <1>1, <3>1, <3>2, <3>3
        <3>4. CASE q = p /\ req[p].pc = "start" /\ before'[q] = {o \in Requests : req[o].pc \in Over}
            BY <1>1, <3>4 DEF Over
        <3>5. QED
            BY <3>3, <3>4 DEF Moves, Go, TypeInv, RequestsTyped
    <2>2. ASSUME NEW q \in Requests PROVE Placed(q, req[q].pc)'
        <3>1. Placed(q, req'[q].pc)
            BY <1>1 DEF Moves, StoreInv, Order
        <3>2. QED
            BY <1>1, <3>1 DEF Placed
    <2>3. QED
        BY <2>1, <2>2 DEF Order
<1>3. Names'
    <2> DEFINE After(b) == \A q \in Requests : /\ b.commit = q => Past(req'[q])
                                               /\ b.staging = q => ~Fresh(q, req[q])'
    <2>1. ASSUME NEW b, Named(b) PROVE After(b)
        BY <2>1, MovesForward
    <2>2. Named(NoBranch) /\ Named(branch)
        BY StagingAssumption DEF StoreInv, Names, Named, NoBranch
    <2>3. \A c \in Settled \cap Requests : Past(req[c])
        BY StagingAssumption DEF Settled
    <2>4. After(branch')
        <3>1. CASE branch' \in {branch, NoBranch}
            BY <2>1, <2>2, <3>1
        <3>2. CASE /\ branch'.commit \in {branch.commit} \cup Settled \/ (branch'.commit = p /\ Past(r))
                   /\ branch'.staging = branch.staging \/ (branch'.staging = p /\ Fresh(p, req[p]) /\ ~Fresh(p, r))
            <4>1. ASSUME NEW q \in Requests
                  PROVE  /\ Past(req[q]) => Past(req'[q])
                         /\ q = p => Fresh(q, req[q])' = Fresh(p, r)
                BY <1>1 DEF Moves, Fresh
            <4>2. QED
                BY <1>1, <2>1, <2>2, <2>3, <3>2, <4>1
        <3>3. QED
            BY <3>1, <3>2 DEF Renames
    <2>5. ASSUME NEW q \in Requests PROVE After(req'[q].snap) /\ After(req'[q].pre)
        <3>1. Named(req[q].snap) /\ Named(req[q].pre)
            BY DEF StoreInv, Names
        <3>2. CASE q # p
            BY <1>1, <2>1, <3>1, <3>2
        <3>3. CASE q = p
            <4>1. Named(r.snap)
                BY <2>2, <3>1, <3>3 DEF Moves
            <4>2. ASSUME NEW c \in Settled, branch # NoBranch PROVE Named([branch EXCEPT !.commit = c])
                <5>1. /\ [branch EXCEPT !.commit = c].commit = c
                      /\ [branch EXCEPT !.commit = c].staging = branch.staging
                    BY <4>2 DEF TypeInv, StoreTyped, Branches, NoBranch
                <5>2. QED
                    BY <2>2, <2>3, <5>1 DEF Named
            <4>3. Named(r.pre)
                BY <2>2, <3>1, <3>3, <4>2 DEF Moves
            <4>4. req'[q] = r
                BY <1>1, <3>3
            <4>5. QED
                BY <2>1, <4>1, <4>3, <4>4
        <3>4. QED
            BY <3>2, <3>3
    <2>6. QED
        BY <2>4, <2>5 DEF Names, Named
<1>4. Marks'
    <2>1. ASSUME NEW t \in Tokens, NEW k \in Keys PROVE Owned(k, staged'[t][k])
        <3>1. Owned(k, staged[t][k]) /\ staged \in [Tokens -> [Keys -> Entries]]
            BY DEF StoreInv, Marks, TypeInv, StoreTyped, StagingTypeOK
        <3>2. QED
            BY <3>1 DEF Stages
    <2>2. ASSUME NEW q \in Requests, NEW k \in Keys, req'[q].pc \in {"commitScan", "headScan"}
          PROVE  Owned(k, req'[q].view[k])
        BY <1>1, <2>2 DEF StoreInv, Marks, Moves
    <2>3. ASSUME NEW c \in Writers, NEW k \in Keys PROVE Owned(k, commits'[c].content[k])
        <3>1. Owned(k, commits[c].content[k]) /\ commits \in [Writers -> Commits]
            BY DEF StoreInv, Marks, TypeInv, StoreTyped
        <3>2. QED
            BY <3>1 DEF Stores
    <2>4. ASSUME NEW k, NEW e, Owned(k, e) PROVE Owned(k, e)'
        BY <2>4, MovesForward
    <2>5. QED
        BY <2>1, <2>2, <2>3, <2>4 DEF Marks, Owned
<1>5. Unused'
    <2>1. \A q \in Requests : Fresh(q, req[q])' => Fresh(q, req[q])
        BY <1>1 DEF Moves, Fresh
    <2>2. \A q \in Requests : Fresh(q, req[q]) /\ Kind(q) # "resetPrefix" => staged'[q] = staged[q]
        BY DEF Stages, TypeInv, StoreTyped, StagingTypeOK, Tokens
    <2>3. QED
        BY <1>1, <2>1, <2>2 DEF Unused, StoreInv
<1>6. Scanning'
    BY <1>1 DEF Scanning, StoreInv, Moves
<1>7. Doomed'
    BY DEF Doomed, StoreInv, Stages
<1>8. Authors'
    BY <1>1 DEF Authors, StoreInv, Stores, TypeInv, StoreTyped, Writers
<1>9. QED
    BY <1>2, <1>3, <1>4, <1>5, <1>6, <1>7, <1>8 DEF StoreInv

-----------------------------------------------------------------------------
(* Every step of a request is such a step.                                 *)

Sound(p) == \E r : Moves(p, r) /\ Renames(p, r) /\ Stages /\ Stores

StoreStays == UNCHANGED <<branch, commits, staged, fetched, doomed>>

LEMMA StoreStaysSound ==
    ASSUME NEW p, NEW r, Moves(p, r), StoreStays
    PROVE  Sound(p)
    BY DEF Sound, StoreStays, Renames, Stages, Stores

LEMMA StoreUnchangedStays ==
    ASSUME StoreUnchanged
    PROVE  StoreStays
    BY DEF StoreUnchanged, stagingVars, StoreStays

LEMMA FinishMoves ==
    ASSUME NEW p \in Requests, NEW o \in Over, Finish(p, o), req[p].pc \notin Over
    PROVE  \E r : Moves(p, r) /\ Past(r) /\ ~Fresh(p, r)
<1> DEFINE v == IF Kind(p) \in Reads THEN req[p].view ELSE Blank
           r == [NotStarted EXCEPT !.pc = o, !.view = v]
<1>1. Go(p, r)
    BY DEF Finish, NotStarted
<1>2. r.pc = o /\ r.snap = NoBranch /\ r.pre = NoBranch
    BY DEF NotStarted
<1> HIDE DEF r
<1>3. Moves(p, r) /\ Past(r) /\ ~Fresh(p, r)
    BY <1>1, <1>2 DEF Moves, Past, Fresh, Placed, Over
<1>4. QED
    BY <1>3

LEMMA NotFoundSound ==
    ASSUME NEW p \in Requests, BranchNotFound(p), req[p].pc \notin Over
    PROVE  Sound(p)
    BY FinishMoves, StoreStaysSound, StoreUnchangedStays DEF BranchNotFound, Over

LEMMA FinishSound ==
    ASSUME NEW p \in Requests, NEW o \in Over, Finish(p, o), req[p].pc \notin Over, StoreStays
    PROVE  Sound(p)
    BY FinishMoves, StoreStaysSound

LEMMA DropMoves ==
    ASSUME NEW p \in Requests, NEW s, DropThen(p, s), req[p].pc \notin Over,
           Kind(p) \notin Writes \cup Reads
    PROVE  \E r : Moves(p, r) /\ Past(r) /\ ~Fresh(p, r)
<1>1. CASE Go(p, [NotStarted EXCEPT !.pc = "drop", !.drop = s])
    <2> DEFINE r == [NotStarted EXCEPT !.pc = "drop", !.drop = s]
    <2>1. r.pc = "drop" /\ r.snap = NoBranch /\ r.pre = NoBranch /\ Go(p, r)
        BY <1>1 DEF NotStarted
    <2> HIDE DEF r
    <2>2. Moves(p, r) /\ Past(r) /\ ~Fresh(p, r)
        BY <2>1 DEF Moves, Past, Fresh, Placed, Over
    <2>3. QED
        BY <2>2
<1>2. CASE \E o \in Over : Finish(p, o)
    BY <1>2, FinishMoves
<1>3. QED
    BY <1>1, <1>2 DEF DropThen, Over

LEMMA UpdateBeginSound ==
    ASSUME TypeInv, NEW p \in Requests, NEW then, NEW layers, UpdateBegin(p, then, layers),
           ~Past(req[p]), then \notin {"start", "drop"} \cup Over, Placed(p, then),
           Fresh(p, [NotStarted EXCEPT !.pc = then]) => Fresh(p, req[p]),
           then \in {"commitScan", "headScan"} => layers = branch.sealed
    PROVE  Sound(p)
<1> DEFINE r == [req[p] EXCEPT !.pc = then, !.snap = branch, !.todo = layers,
                               !.view = Blank, !.tries = @ + 1]
<1>1. CASE BranchNotFound(p)
    BY <1>1, NotFoundSound DEF Past
<1>2. CASE Go(p, r) /\ StoreUnchanged
    <2>1. r.pc = then /\ r.snap = branch /\ r.pre = req[p].pre /\ r.todo = layers /\ r.view = Blank
        BY RequestFields DEF Requested
    <2> HIDE DEF r
    <2>2. Fresh(p, r) => Fresh(p, req[p])
        BY <2>1 DEF Fresh, NotStarted
    <2>3. \A k \in Keys : Owned(k, r.view[k])
        BY <2>1, StagingAssumption DEF Owned, Blank, Exists, NoEntry
    <2>4. Moves(p, r)
        BY <1>2, <2>1, <2>2, <2>3 DEF Moves, Past
    <2>5. QED
        BY <1>2, <2>4, StoreStaysSound, StoreUnchangedStays
<1>3. QED
    BY <1>1, <1>2 DEF UpdateBegin

LEMMA LostRaceSound ==
    ASSUME NEW p \in Requests, NEW again, NEW retried, LostRace(p, again, retried), ~Past(req[p]),
           retried => /\ again \notin {"start", "commitScan", "headScan"}
                      /\ Placed(p, again)
                      /\ Fresh(p, [NotStarted EXCEPT !.pc = again]) => Fresh(p, req[p])
    PROVE  Sound(p)
<1>1. CASE Finish(p, "failed")
    BY <1>1, FinishSound, StoreUnchangedStays DEF LostRace, Past, Over
<1>2. CASE retried /\ Go(p, [NotStarted EXCEPT !.pc = again, !.tries = req[p].tries])
    <2> DEFINE r == [NotStarted EXCEPT !.pc = again, !.tries = req[p].tries]
    <2>1. r.pc = again /\ r.snap = NoBranch /\ r.pre = NoBranch /\ Go(p, r)
        BY <1>2 DEF NotStarted
    <2> HIDE DEF r
    <2>2. Fresh(p, r) => Fresh(p, req[p])
        BY <1>2, <2>1 DEF Fresh, NotStarted
    <2>3. Moves(p, r)
        BY <1>2, <2>1, <2>2 DEF Moves, Past
    <2>4. QED
        BY <2>3, StoreStaysSound, StoreUnchangedStays DEF LostRace
<1>3. QED
    BY <1>1, <1>2 DEF LostRace

LEMMA PutStages ==
    ASSUME TypeInv, NEW t \in Tokens \cup {NoOne}, NEW k \in Keys, NEW e \in Entries,
           Put(t, k, e), Owned(k, e),
           \A q \in Requests : Fresh(q, req[q]) /\ Kind(q) # "resetPrefix" => q # t
    PROVE  Stages
<1>1. staged' = [staged EXCEPT ![t][k] = e] /\ UNCHANGED <<fetched, doomed>>
    BY DEF Put, cleanerVars
<1>2. CASE t = NoOne
    <2>1. staged' = staged
        BY <1>1, <1>2, StagingAssumption DEF TypeInv, StoreTyped, StagingTypeOK, Tokens
    <2>2. QED
        BY <1>1, <2>1 DEF Stages
<1>3. QED
    BY <1>1, <1>2 DEF Stages

LEMMA StageSound ==
    ASSUME TypeInv, StoreInv, NEW p \in Requests, NEW e \in Entries, Stage(p, e),
           req[p].pc \notin {"start", "drop"} \cup Over, Kind(p) \in Writes,
           Owned(Key(p), e)
    PROVE  Sound(p)
<1> DEFINE r == [req[p] EXCEPT !.pc = "recheck", !.view = Blank, !.seen = NoEntry]
<1>1. r.pc = "recheck" /\ r.snap = req[p].snap /\ r.pre = req[p].pre /\ Go(p, r)
    BY RequestFields DEF Requested, Stage
<1> HIDE DEF r
<1>2. Moves(p, r)
    BY <1>1 DEF Moves, Past, Placed, Fresh, Over
<1>3. Stages
    <2>1. req[p].pre.staging \in Tokens \cup {NoOne} /\ Key(p) \in Keys
        BY RequestFields, BranchFields
    <2>2. \A q \in Requests : Fresh(q, req[q]) => req[p].pre.staging # q
        BY DEF StoreInv, Names, Named
    <2>3. QED
        BY <2>1, <2>2, PutStages DEF Stage
<1>4. QED
    BY <1>2, <1>3 DEF Sound, Renames, Stage, Stores

LEMMA ReadTokenSound ==
    ASSUME TypeInv, StoreInv, NEW p \in Requests, ReadToken(p)
    PROVE  Sound(p)
<1> USE RequestFields
<1> DEFINE e  == staged[Head(req[p].todo)]
           k  == Key(p)
           t1 == IF Exists(e[k]) THEN <<>> ELSE Tail(req[p].todo)
           r1 == [req[p] EXCEPT !.view[k] = e[k], !.todo = t1]
           r2 == [req[p] EXCEPT !.view = Overlay(req[p].view, e), !.todo = Tail(req[p].todo)]
<1>1. /\ Kind(p) \in PointReads => Go(p, r1)
      /\ Kind(p) \notin PointReads => Go(p, r2)
      /\ StoreUnchanged
      /\ req[p].pc \in Scans /\ req[p].todo # <<>> /\ req[p].todo \in Seq(Tokens)
      /\ Placed(p, req[p].pc)
    BY DEF ReadToken, Requested, StoreInv, Order
<1>2. req[p].pc \notin {"start", "drop"} \cup Over
    BY <1>1 DEF Scans, Over
<1>3. /\ r1.pc = req[p].pc /\ r1.snap = req[p].snap /\ r1.pre = req[p].pre
      /\ r2.pc = req[p].pc /\ r2.snap = req[p].snap /\ r2.pre = req[p].pre
      /\ r2.todo = Tail(req[p].todo) /\ r2.view = Overlay(req[p].view, e)
    BY DEF Requested
<1>4. CASE Kind(p) \in PointReads
    <2>1. req[p].pc \notin {"commitScan", "headScan"}
        BY <1>1, <1>4 DEF PointReads, Placed, HeadUpdates, Writes, BlindWrites, CondWrites, Deletes
    <2> HIDE DEF r1
    <2>2. Fresh(p, r1) = Fresh(p, req[p])
        BY <1>3 DEF Fresh
    <2>3. Moves(p, r1)
        BY <1>1, <1>2, <1>3, <1>4, <2>1, <2>2 DEF Moves, Past
    <2>4. QED
        BY <1>1, <2>3, StoreStaysSound, StoreUnchangedStays
<1>5. CASE Kind(p) \notin PointReads
    <2>1. Head(req[p].todo) \in Tokens /\ Range(Tail(req[p].todo)) \subseteq Range(req[p].todo)
        BY <1>1, RangeFacts, HeadTailProperties
    <2>2. ASSUME req[p].pc \in {"commitScan", "headScan"}, NEW x \in Keys PROVE Owned(x, r2.view[x])
        BY <1>3, <2>1, <2>2 DEF Overlay, StoreInv, Marks
    <2>3. req[p].pc \in {"commitScan", "headScan"} => Range(r2.todo) \subseteq Range(r2.snap.sealed)
        BY <1>3, <2>1 DEF StoreInv, Scanning
    <2> HIDE DEF r2
    <2>4. Fresh(p, r2) = Fresh(p, req[p])
        BY <1>3 DEF Fresh
    <2>5. Moves(p, r2)
        BY <1>1, <1>2, <1>3, <1>5, <2>2, <2>3, <2>4 DEF Moves, Past
    <2>6. QED
        BY <1>1, <2>5, StoreStaysSound, StoreUnchangedStays
<1>6. QED
    BY <1>4, <1>5

LEMMA WriteSound ==
    ASSUME TypeInv, StoreInv, NEW p \in Requests, Write(p)
    PROVE  Sound(p)
<1> USE RequestFields
<1>1. Placed(p, req[p].pc)
    BY DEF StoreInv, Order
<1> DEFINE ready == [req[p] EXCEPT !.pre = branch, !.tries = @ + 1]
           e  == staged[req[p].pre.staging][Key(p)]
           r1 == [ready EXCEPT !.pc = "apply"]
           r2 == [ready EXCEPT !.pc = "bury"]
           r3 == [ready EXCEPT !.pc = "ntScan", !.todo = branch.sealed]
           r4 == [req[p] EXCEPT !.pc = "condScan", !.snap = branch, !.todo = Layers(branch)]
           r5 == [req[p] EXCEPT !.pc = "updateWrite", !.seen = e,
                                !.view = Blank, !.snap = NoBranch]
           r6 == [req[p] EXCEPT !.pc = "bury"]
           r7 == [req[p] EXCEPT !.pc = "delScan", !.todo = Layers(req[p].pre)]
           r8 == [NotStarted EXCEPT !.pc = "retry", !.tries = req[p].tries]
           moves == {r1, r2, r3, r4, r5, r6, r7, r8}
<1>2. /\ req[p].pc \notin {"drop"} \cup Over
      /\ Kind(p) \in Writes
    BY <1>1 DEF Write, WriteBegin, SetApply, CondDeref, UpdateRead, UpdateWrite, DeleteApply,
                Bury, DeleteDropKey, Recheck, NothingToDelete, FoundValue, FoundBuried, FoundNothing,
                Scanned, ReadDone, Placed, Over, Writes
<1>3. ASSUME NEW r \in moves
      PROVE  /\ r.pc \in {"apply", "bury", "ntScan", "condScan", "updateWrite", "delScan", "retry"}
             /\ r.snap \in {NoBranch, req[p].snap, branch}
             /\ r.pre \in {NoBranch, req[p].pre, branch}
    BY DEF Requested, NotStarted
<1>4. ASSUME NEW r \in moves, Go(p, r), StoreUnchanged, Placed(p, r.pc)
      PROVE  Sound(p)
    <2>1. ~Fresh(p, r)
        BY <1>3 DEF Fresh
    <2> HIDE DEF moves
    <2>2. Moves(p, r)
        BY <1>2, <1>3, <1>4, <2>1 DEF Moves, Past
    <2>3. QED
        BY <1>4, <2>2, StoreStaysSound, StoreUnchangedStays
<1>5. ASSUME NEW o \in Over, Finish(p, o), StoreUnchanged PROVE Sound(p)
    BY <1>2, <1>5, FinishSound, StoreUnchangedStays
<1>6. /\ Value(p) \in Entries
      /\ req[p].pc # "start" => Owned(Key(p), Value(p))
      /\ NoEntry \in Entries /\ Owned(Key(p), NoEntry)
      /\ Tombstone(p) \in Entries
      /\ Kind(p) \in Deletes /\ req[p].pc # "start" => Owned(Key(p), Tombstone(p))
    BY EntryTypes, StagingAssumption DEF Owned, Value, NoEntry, Tombstone, Exists
<1>7. CASE WriteBegin(p)
    <2>1. CASE BranchNotFound(p)
        BY <1>2, <2>1, NotFoundSound
    <2>2. CASE Go(p, r1) /\ StoreUnchanged
        BY <1>2, <1>3, <1>4, <2>2 DEF Placed
    <2>3. CASE (Go(p, r2) \/ Go(p, r3)) /\ StoreUnchanged /\ Kind(p) = "deleteNoTombstone"
        BY <1>2, <1>3, <1>4, <2>3 DEF Placed, Deletes
    <2>4. QED
        BY <1>7, <2>1, <2>2, <2>3 DEF WriteBegin
<1>8. CASE SetApply(p)
    BY <1>2, <1>6, <1>8, StageSound DEF SetApply
<1>9. CASE CondDeref(p)
    BY <1>3, <1>4, <1>9 DEF CondDeref, Placed
<1>10. CASE UpdateRead(p)
    <2>1. Kind(p) \in CondWrites
        BY <1>1, <1>10 DEF UpdateRead, ReadDone, Placed
    <2>2. CASE Finish(p, "failed") /\ StoreUnchanged
        BY <1>5, <2>2 DEF Over
    <2>3. CASE Go(p, r5) /\ StoreUnchanged
        BY <1>3, <1>4, <2>1, <2>3 DEF Placed
    <2>4. QED
        BY <1>10, <2>2, <2>3 DEF UpdateRead
<1>11. CASE UpdateWrite(p)
    <2>1. CASE Finish(p, "failed") /\ StoreUnchanged
        BY <1>5, <2>1 DEF Over
    <2>2. CASE Stage(p, Value(p))
        BY <1>2, <1>6, <1>11, <2>2, StageSound DEF UpdateWrite
    <2>3. QED
        BY <1>11, <2>1, <2>2 DEF UpdateWrite
<1>12. CASE DeleteApply(p)
    <2>1. Kind(p) \in Deletes /\ req[p].pc # "start"
        BY <1>12 DEF DeleteApply, Deletes
    <2>2. CASE Stage(p, Tombstone(p))
        BY <1>2, <1>6, <2>1, <2>2, StageSound
    <2>3. CASE (Go(p, r6) \/ Go(p, r7)) /\ StoreUnchanged
        BY <1>3, <1>4, <2>1, <2>3 DEF Placed
    <2>4. QED
        BY <1>12, <2>2, <2>3 DEF DeleteApply
<1>13. CASE Bury(p)
    <2>1. Kind(p) \in Deletes /\ req[p].pc # "start"
        BY <1>1, <1>13 DEF Bury, FoundValue, Scanned, ReadDone, Placed
    <2>2. QED
        BY <1>2, <1>6, <1>13, <2>1, StageSound DEF Bury
<1>14. CASE DeleteDropKey(p)
    <2>1. req[p].pc # "start"
        BY <1>14 DEF DeleteDropKey, FoundNothing, Scanned, ReadDone
    <2>2. QED
        BY <1>2, <1>6, <1>14, <2>1, StageSound DEF DeleteDropKey
<1>15. CASE Recheck(p)
    <2>1. CASE BranchNotFound(p)
        BY <1>2, <2>1, NotFoundSound
    <2>2. CASE (Finish(p, "ok") \/ Finish(p, "failed")) /\ StoreUnchanged
        BY <1>5, <2>2 DEF Over
    <2>3. CASE Go(p, r8) /\ StoreUnchanged
        BY <1>2, <1>3, <1>4, <2>3 DEF Placed
    <2>4. QED
        BY <1>15, <2>1, <2>2, <2>3 DEF Recheck
<1>16. QED
    BY <1>7, <1>8, <1>9, <1>10, <1>11, <1>12, <1>13, <1>14, <1>15 DEF Write

LEMMA ReadSound ==
    ASSUME TypeInv, StoreInv, NEW p \in Requests, Read(p)
    PROVE  Sound(p)
<1> USE RequestFields
<1> DEFINE r1 == [req[p] EXCEPT !.pc = "getScan", !.snap = branch, !.todo = Layers(branch)]
           result == Overlay(req[p].view, Base(req[p].snap))
           shown  == IF Kind(p) = "list" THEN Keys ELSE {Key(p)}
           r2 == [NotStarted EXCEPT !.pc = "ok",
                     !.view = [k \in Keys |-> IF k \in shown THEN result[k] ELSE NoEntry]]
<1>1. /\ r1.pc = "getScan" /\ r1.snap = branch /\ r1.pre = req[p].pre
      /\ r2.pc = "ok" /\ r2.snap = NoBranch /\ r2.pre = NoBranch
    BY DEF Requested, NotStarted
<1>2. req[p].pc \notin {"drop"} \cup Over
    BY DEF Read, ReadBegin, ReadEnd, ReadDone, Over
<1>3. CASE ReadBegin(p)
    <2> HIDE DEF r1
    <2>1. CASE BranchNotFound(p)
        BY <1>2, <2>1, NotFoundSound
    <2>2. CASE Go(p, r1) /\ StoreUnchanged
        <3>1. Moves(p, r1)
            BY <1>1, <1>2, <1>3, <2>2 DEF Moves, Past, Placed, Fresh, ReadBegin
        <3>2. QED
            BY <2>2, <3>1, StoreStaysSound, StoreUnchangedStays
    <2>3. QED
        BY <1>3, <2>1, <2>2 DEF ReadBegin, r1
<1>4. CASE ReadEnd(p)
    <2>1. Go(p, r2) /\ StoreUnchanged
        BY <1>4 DEF ReadEnd
    <2> HIDE DEF r2
    <2>2. Moves(p, r2)
        BY <1>1, <1>2, <2>1 DEF Moves, Past, Placed, Fresh, Over
    <2>3. QED
        BY <2>1, <2>2, StoreStaysSound, StoreUnchangedStays
<1>5. QED
    BY <1>3, <1>4 DEF Read

\* A compare-and-set after which p has nothing more to publish.
LEMMA ReplaceSound ==
    ASSUME NEW p, NEW r, NEW new, Moves(p, r), Replace(p, new),
           new.commit \in {branch.commit} \cup Settled \/ (new.commit = p /\ Past(r)),
           new.staging = branch.staging \/ (new.staging = p /\ Fresh(p, req[p]) /\ ~Fresh(p, r))
    PROVE  Sound(p)
    BY DEF Sound, Renames, Stages, Stores, Replace, stagingVars

LEMMA RecordFields ==
    ASSUME TypeInv, branch # NoBranch, NEW p, NEW c
    PROVE  /\ SealedRecord(p).commit = branch.commit /\ SealedRecord(p).staging = p
           /\ SealedRecord(p).sealed = <<branch.staging>> \o branch.sealed
           /\ Published(p, c).commit = c /\ Published(p, c).staging = branch.staging
           /\ Published(p, c).sealed = <<>>
           /\ ResetRecord(p).commit = branch.commit /\ ResetRecord(p).staging = p
           /\ ResetRecord(p).sealed = <<>>
           /\ [branch EXCEPT !.commit = c].commit = c
           /\ [branch EXCEPT !.commit = c].staging = branch.staging
           /\ [branch EXCEPT !.commit = c].sealed = branch.sealed
    BY DEF TypeInv, StoreTyped, Branches, SealedRecord, Published, ResetRecord

LEMMA BaseOwned ==
    ASSUME TypeInv, StoreInv, NEW c \in Writers \cup {NoOne}, NEW k \in Keys
    PROVE  Owned(k, Content(c)[k])
    BY StagingAssumption DEF StoreInv, Marks, Content, Blank, Owned, NoEntry, Exists

\* The commit of a request is in the store, and to be published.
LEMMA AddedSound ==
    ASSUME TypeInv, NEW p \in Requests, Go(p, [req[p] EXCEPT !.pc = "publish", !.view = Blank]),
           NEW x \in Commits, commits' = [commits EXCEPT ![p] = x],
           \A k \in Keys : Owned(k, x.content[k]),
           UNCHANGED <<branch, stagingVars>>, Kind(p) \in Adders, ~Past(req[p])
    PROVE  Sound(p)
<1> DEFINE r == [req[p] EXCEPT !.pc = "publish", !.view = Blank]
<1>1. r.pc = "publish" /\ r.snap = req[p].snap /\ r.pre = req[p].pre /\ Go(p, r)
    BY RequestFields DEF Requested
<1> HIDE DEF r
<1>2. Moves(p, r)
    BY <1>1 DEF Moves, Past, Placed, Fresh, Adders
<1>3. QED
    BY <1>2 DEF Sound, Renames, Stages, Stores, stagingVars

LEMMA PatchSound ==
    ASSUME TypeInv, StoreInv, NEW p \in Requests, NEW tip \in Writers \cup {NoOne}, AddPatch(p, tip),
           Kind(p) \in Adders, ~Past(req[p]), req[p].pc # "start"
    PROVE  Sound(p)
<1> DEFINE x == [parent |-> tip, stored |-> TRUE, content |-> Patch(p, tip)]
<1>1. Content(tip) \in Contents /\ Value(p) \in Entries /\ Key(p) \in Keys
    BY ContentType, EntryTypes, RequestFields DEF TypeInv, StoreTyped
<1>2. x \in Commits
    BY <1>1 DEF Commits, Patch, Contents
<1>3. Owned(Key(p), Value(p))
    BY StagingAssumption DEF Owned, Value, Exists
<1>4. \A k \in Keys : Owned(k, x.content[k])
    BY <1>1, <1>3, BaseOwned DEF Patch, Contents
<1>5. commits' = [commits EXCEPT ![p] = x] /\ UNCHANGED <<branch, stagingVars>>
      /\ Go(p, [req[p] EXCEPT !.pc = "publish", !.view = Blank])
    BY DEF AddPatch
<1> HIDE DEF x
<1>6. QED
    BY <1>2, <1>4, <1>5, AddedSound

LEMMA CommitSound ==
    ASSUME TypeInv, StoreInv, NEW p \in Requests, Commit(p) \/ Seal(p) \/ Publish(p) \/ Dirty(p)
    PROVE  Sound(p)
<1> USE RequestFields
<1>1. Placed(p, req[p].pc)
    BY DEF StoreInv, Order
<1>2. ~Past(req[p])
    BY DEF Commit, CommitSealRead, CommitRead, AddCommit, Seal, Publish, Dirty, ReadDone, Past, Over
<1>3. req[p].pc \notin Over
    BY <1>2 DEF Past
<1>4. ASSUME Finish(p, "failed"), StoreUnchanged PROVE Sound(p)
    BY <1>3, <1>4, FinishSound, StoreUnchangedStays DEF Over
<1>5. CASE CommitSealRead(p)
    <2>1. Placed(p, "seal") /\ Fresh(p, req[p])
        BY <1>5 DEF CommitSealRead, Placed, Fresh
    <2>2. QED
        BY <1>2, <1>5, <2>1, UpdateBeginSound DEF CommitSealRead, Over
<1>6. CASE CommitRead(p)
    <2>1. Placed(p, "commitScan") /\ ~Fresh(p, [NotStarted EXCEPT !.pc = "commitScan"])
        BY <1>6 DEF CommitRead, Placed, Fresh, NotStarted
    <2>2. CASE BranchNotFound(p)
        BY <1>3, <2>2, NotFoundSound
    <2>3. CASE UpdateBegin(p, "commitScan", branch.sealed)
        BY <1>2, <2>1, <2>3, UpdateBeginSound DEF Over
    <2>4. QED
        BY <1>4, <1>6, <2>2, <2>3 DEF CommitRead
<1>7. CASE AddCommit(p)
    <2> DEFINE x == [parent  |-> req[p].snap.commit, stored |-> TRUE,
                     content |-> Overlay(req[p].view, Base(req[p].snap))]
    <2>1. /\ req[p].snap.commit \in Writers \cup {NoOne}
          /\ Base(req[p].snap) \in Contents /\ req[p].view \in Contents
        BY BranchFields, BaseType DEF TypeInv, StoreTyped, Requested
    <2>2. x \in Commits
        BY <2>1, OverlayType DEF Commits
    <2>3. \A k \in Keys : Owned(k, x.content[k])
        BY <1>7, <2>1, BaseOwned DEF AddCommit, ReadDone, Overlay, Base, StoreInv, Marks
    <2>4. CASE ~NoChanges(p)
        <3>1. /\ commits' = [commits EXCEPT ![p] = x] /\ UNCHANGED <<branch, stagingVars>>
              /\ Go(p, [req[p] EXCEPT !.pc = "publish", !.view = Blank])
              /\ Kind(p) \in Adders
            BY <1>7, <2>4 DEF AddCommit, Adders
        <3> HIDE DEF x
        <3>2. QED
            BY <1>2, <2>2, <2>3, <3>1, AddedSound
    <2>5. QED
        BY <1>4, <1>7, <2>4 DEF AddCommit
<1>8. CASE Seal(p)
    <2>1. Fresh(p, req[p]) /\ Kind(p) \in HeadUpdates \cup {"commit"}
        BY <1>1, <1>8 DEF Seal, ReadDone, Fresh, Placed
    <2>2. CASE Replace(p, SealedRecord(p)) /\ Go(p, [NotStarted EXCEPT !.pc = "update"])
        <3> DEFINE r == [NotStarted EXCEPT !.pc = "update"]
        <3>1. r.pc = "update" /\ r.snap = NoBranch /\ r.pre = NoBranch /\ Go(p, r)
            BY <2>2 DEF NotStarted
        <3> HIDE DEF r
        <3>2. Moves(p, r) /\ ~Fresh(p, r)
            BY <1>2, <2>1, <3>1 DEF Moves, Past, Placed, Fresh
        <3>3. SealedRecord(p).commit = branch.commit /\ SealedRecord(p).staging = p
            BY <2>2, RecordFields DEF Replace, Unmoved
        <3>4. QED
            BY <2>1, <2>2, <3>2, <3>3, ReplaceSound
    <2>3. CASE LostRace(p, "prepare", Kind(p) # "commit")
        <3>1. Kind(p) # "commit" => Placed(p, "prepare")
            BY <2>1 DEF Placed
        <3>2. QED
            BY <1>2, <2>1, <2>3, <3>1, LostRaceSound
    <2>4. QED
        BY <1>8, <2>2, <2>3 DEF Seal
<1>9. CASE Publish(p)
    <2>1. Kind(p) \notin Writes \cup Reads /\ Placed(p, "update")
          /\ ~Fresh(p, [NotStarted EXCEPT !.pc = "update"])
        BY <1>9 DEF Publish, Writes, BlindWrites, CondWrites, Deletes, Reads, Placed, HeadUpdates,
                    Fresh, NotStarted
    <2>2. CASE Replace(p, Published(p, p)) /\ DropThen(p, req[p].snap.sealed)
        <3>1. PICK r : Moves(p, r) /\ Past(r) /\ ~Fresh(p, r)
            BY <1>3, <2>1, <2>2, DropMoves
        <3>2. QED
            BY <2>2, <3>1, RecordFields, ReplaceSound DEF Replace, Unmoved
    <2>3. CASE LostRace(p, "update", Retries(p))
        BY <1>2, <2>1, <2>3, LostRaceSound
    <2>4. QED
        BY <1>9, <2>2, <2>3 DEF Publish
<1>10. CASE Dirty(p)
    BY <1>4, <1>10 DEF Dirty
<1>11. QED
    BY <1>5, <1>6, <1>7, <1>8, <1>9, <1>10 DEF Commit

LEMMA HeadUpdateSound ==
    ASSUME TypeInv, StoreInv, NEW p \in Requests, HeadUpdate(p)
    PROVE  Sound(p)
<1> USE RequestFields
<1>1. Placed(p, req[p].pc)
    BY DEF StoreInv, Order
<1>2. ~Past(req[p]) /\ Kind(p) \in HeadUpdates
    BY <1>1 DEF HeadUpdate, PrepareBegin, HeadBegin, MergeCommit, RevertCommit, HeadPublish, ReadDone,
                Past, Over, HeadUpdates
<1>3. req[p].pc \notin Over
    BY <1>2 DEF Past
<1>4. CASE PrepareBegin(p)
    <2>1. Placed(p, "prepScan") /\ Fresh(p, req[p])
        BY <1>2, <1>4 DEF PrepareBegin, Placed, Fresh
    <2>2. QED
        BY <1>2, <1>4, <2>1, UpdateBeginSound DEF PrepareBegin, Over
<1>5. CASE HeadBegin(p)
    <2>1. Placed(p, "headScan") /\ ~Fresh(p, [NotStarted EXCEPT !.pc = "headScan"])
        BY <1>2 DEF Placed, Fresh, NotStarted
    <2>2. QED
        BY <1>2, <1>5, <2>1, UpdateBeginSound DEF HeadBegin, Over
<1>6. CASE MergeCommit(p) \/ RevertCommit(p)
    <2>1. BranchNotFound(p) \/ AddPatch(p, branch.commit) \/ AddPatch(p, req[p].snap.commit)
        BY <1>6 DEF MergeCommit, RevertCommit
    <2>2. Kind(p) \in Adders /\ req[p].pc # "start"
        BY <1>6 DEF MergeCommit, RevertCommit, Adders, ReadDone
    <2>3. branch.commit \in Writers \cup {NoOne} /\ req[p].snap.commit \in Writers \cup {NoOne}
        BY BranchFields
    <2>4. QED
        BY <1>2, <1>3, <2>1, <2>2, <2>3, NotFoundSound, PatchSound
<1>7. CASE HeadPublish(p)
    <2>1. Kind(p) \notin Writes \cup Reads /\ Placed(p, "update")
          /\ ~Fresh(p, [NotStarted EXCEPT !.pc = "update"])
        BY <1>2 DEF Writes, BlindWrites, CondWrites, Deletes, Reads, Placed, HeadUpdates,
                    Fresh, NotStarted
    <2>2. ASSUME NEW c \in Known, Replace(p, Published(p, c)), DropThen(p, req[p].snap.sealed)
          PROVE  Sound(p)
        <3>1. PICK r : Moves(p, r) /\ Past(r) /\ ~Fresh(p, r)
            BY <1>3, <2>1, <2>2, DropMoves
        <3>2. QED
            BY <2>2, <3>1, KnownSettled, RecordFields, ReplaceSound DEF Replace, Unmoved
    <2>3. CASE LostRace(p, "update", Retries(p))
        BY <1>2, <2>1, <2>3, LostRaceSound
    <2>4. QED
        BY <1>7, <2>2, <2>3 DEF HeadPublish
<1>8. QED
    BY <1>4, <1>5, <1>6, <1>7 DEF HeadUpdate

LEMMA HardSound ==
    ASSUME TypeInv, StoreInv, NEW p \in Requests, HardBegin(p) \/ HardDeref(p) \/ HardPublish(p)
    PROVE  Sound(p)
<1> USE RequestFields
<1>1. Kind(p) = "resetHard" /\ ~Past(req[p]) /\ req[p].pc \notin Over
    BY DEF HardBegin, HardDeref, HardPublish, ReadDone, Past, Over
<1>2. ~Fresh(p, [NotStarted EXCEPT !.pc = "hardScan"]) /\ ~Fresh(p, [NotStarted EXCEPT !.pc = "update"])
      /\ Placed(p, "hardScan") /\ Placed(p, "update") /\ Placed(p, "publish")
    BY <1>1 DEF Fresh, NotStarted, Placed
<1>3. CASE HardBegin(p)
    BY <1>1, <1>2, <1>3, UpdateBeginSound DEF HardBegin, Over
<1>4. CASE HardDeref(p)
    <2>1. CASE BranchNotFound(p)
        BY <1>1, <2>1, NotFoundSound
    <2>2. ASSUME NEW c \in Known, branch # NoBranch, StoreUnchanged,
                 Go(p, [req[p] EXCEPT !.pc = "publish", !.pre = [branch EXCEPT !.commit = c]])
          PROVE  Sound(p)
        <3> DEFINE b == [branch EXCEPT !.commit = c]
                   r == [req[p] EXCEPT !.pc = "publish", !.pre = b]
        <3>1. r.pc = "publish" /\ r.snap = req[p].snap /\ r.pre = b /\ Go(p, r)
            BY <2>2 DEF Requested
        <3> HIDE DEF r
        <3>2. Moves(p, r)
            BY <1>1, <1>2, <2>2, <3>1, KnownSettled DEF Moves, Past, Fresh
        <3>3. QED
            BY <2>2, <3>2, StoreStaysSound, StoreUnchangedStays
    <2>3. QED
        BY <1>4, <2>1, <2>2 DEF HardDeref
<1>5. CASE HardPublish(p)
    <2> DEFINE new == [branch EXCEPT !.commit = req[p].pre.commit]
    <2>1. CASE Replace(p, new) /\ Finish(p, "ok")
        <3>1. PICK r : Moves(p, r) /\ Past(r) /\ ~Fresh(p, r)
            BY <1>1, <2>1, FinishMoves DEF Over
        <3>2. branch' = new /\ new.commit = req[p].pre.commit /\ new.staging = branch.staging
            BY <2>1, RecordFields DEF Replace, Unmoved
        <3>3. UNCHANGED <<staged, fetched, doomed, commits>>
            BY <2>1 DEF Replace, stagingVars
        <3>4. QED
            <4>1. Named(req[p].pre) /\ req[p].pre.commit \in Writers
                <5>1. req[p].pre # NoBranch
                    BY <1>1, <1>5 DEF HardPublish, Held
                <5>2. QED
                    BY <5>1, BranchFields DEF StoreInv, Names
            <4>2. req[p].pre.commit \in Settled
                BY <4>1 DEF Named, Settled, Writers
            <4>3. QED
                BY <3>1, <3>2, <3>3, <4>2 DEF Sound, Renames, Stages, Stores
    <2>2. CASE LostRace(p, "update", Retries(p))
        BY <1>1, <1>2, <2>2, LostRaceSound
    <2>3. QED
        BY <1>5, <2>1, <2>2 DEF HardPublish
<1>6. QED
    BY <1>3, <1>4, <1>5

LEMMA UndoKeyStages ==
    ASSUME TypeInv, StoreInv, NEW p \in Requests, NEW b \in Branches, NEW k \in Keys, NEW t \in Tokens \cup {NoOne},
           UndoKey(p, b, k, t), Kind(p) \in Resets, req[p].pc # "start",
           \A q \in Requests : Fresh(q, req[q]) /\ Kind(q) # "resetPrefix" => q # t /\ q # b.staging
    PROVE  Stages
<1>1. Base(b) \in Contents
    BY BaseType DEF TypeInv, StoreTyped
<1>2. CASE Base(b)[k].live
    <2>1. Put(t, k, Base(b)[k]) /\ Base(b)[k] \in Entries /\ Owned(k, Base(b)[k])
        BY <1>1, <1>2, BranchFields, BaseOwned DEF UndoKey, Contents, Base
    <2>2. QED
        BY <2>1, PutStages
<1>3. CASE ~Base(b)[k].live
    <2>1. Put(b.staging, k, Tombstone(p)) /\ Tombstone(p) \in Entries /\ b.staging \in Tokens \cup {NoOne}
        BY <1>3, EntryTypes, BranchFields, RequestFields DEF UndoKey
    <2>2. Owned(k, Tombstone(p))
        BY DEF Owned, Tombstone
    <2>3. QED
        BY <2>1, <2>2, PutStages
<1>4. QED
    BY <1>2, <1>3

LEMMA PrefixSound ==
    ASSUME TypeInv, StoreInv, NEW p \in Requests,
           PrefixBegin(p) \/ PrefixDiff(p) \/ PrefixScanned(p) \/ PrefixUndo(p) \/ PrefixPublish(p)
    PROVE  Sound(p)
<1> USE RequestFields
<1>1. Placed(p, req[p].pc)
    BY DEF StoreInv, Order
<1>2. /\ Kind(p) = "resetPrefix" /\ ~Past(req[p]) /\ req[p].pc \notin Over /\ Fresh(p, req[p])
      /\ Kind(p) \notin Writes \cup Reads
    BY <1>1 DEF PrefixBegin, PrefixDiff, PrefixScanned, PrefixUndo, PrefixPublish, ReadDone, Past, Over,
                Placed, Fresh, Writes, BlindWrites, CondWrites, Deletes, Reads
<1>3. ASSUME DropThen(p, <<p>>), StoreUnchanged PROVE Sound(p)
    BY <1>2, <1>3, DropMoves, StoreStaysSound, StoreUnchangedStays
<1>4. ASSUME NEW r, Go(p, r), r.pc \in {"prefixScan", "prefixWrite"}, r.snap = req[p].snap,
             r.pre \in {req[p].pre, branch}
      PROVE  Moves(p, r)
    BY <1>2, <1>4 DEF Moves, Past, Placed, Over
<1>5. CASE PrefixBegin(p)
    <2>1. Placed(p, "prefixDiff")
        BY <1>2 DEF Placed
    <2>2. CASE UpdateBegin(p, "prefixDiff", <<>>)
        BY <1>2, <2>1, <2>2, UpdateBeginSound DEF Over
    <2>3. QED
        BY <1>3, <1>5, <2>2 DEF PrefixBegin
<1>6. CASE PrefixDiff(p)
    <2> DEFINE r == [req[p] EXCEPT !.pc = "prefixScan", !.pre = branch, !.todo = Layers(branch)]
    <2>1. r.pc = "prefixScan" /\ r.snap = req[p].snap /\ r.pre = branch
        BY DEF Requested
    <2>2. (DropThen(p, <<p>>) \/ Go(p, r)) /\ StoreUnchanged
        BY <1>6 DEF PrefixDiff
    <2> HIDE DEF r
    <2>3. QED
        BY <1>3, <1>4, <2>1, <2>2, StoreStaysSound, StoreUnchangedStays
<1>7. CASE PrefixScanned(p)
    <2>1. PICK left : Go(p, [req[p] EXCEPT !.pc = "prefixWrite", !.left = left])
        BY <1>7 DEF PrefixScanned
    <2> DEFINE r == [req[p] EXCEPT !.pc = "prefixWrite", !.left = left]
    <2>2. r.pc = "prefixWrite" /\ r.snap = req[p].snap /\ r.pre = req[p].pre /\ Go(p, r)
        BY <2>1 DEF Requested
    <2> HIDE DEF r
    <2>3. QED
        BY <1>4, <1>7, <2>2, StoreStaysSound, StoreUnchangedStays DEF PrefixScanned
<1>8. CASE PrefixUndo(p)
    <2>1. PICK k \in req[p].left :
              /\ UndoKey(p, req[p].snap, k, p)
              /\ Go(p, [req[p] EXCEPT !.left = @ \ {k}])
        BY <1>8 DEF PrefixUndo
    <2> DEFINE r == [req[p] EXCEPT !.left = @ \ {k}]
    <2>2. /\ r.pc = req[p].pc /\ r.snap = req[p].snap /\ r.pre = req[p].pre /\ Go(p, r)
          /\ req[p].pc = "prefixWrite" /\ k \in Keys
        BY <1>8, <2>1 DEF Requested, PrefixUndo
    <2> HIDE DEF r
    <2>3. Stages
        <3>1. \A q \in Requests : Fresh(q, req[q]) => q # req[p].snap.staging
            BY DEF StoreInv, Names, Named
        <3>2. QED
            BY <1>2, <2>1, <2>2, <3>1, UndoKeyStages DEF Resets
    <2>4. QED
        BY <1>4, <1>8, <2>2, <2>3 DEF Sound, Renames, Stores, PrefixUndo
<1>9. CASE PrefixPublish(p)
    <2>1. CASE Replace(p, SealedRecord(p)) /\ (Finish(p, "ok") \/ DropThen(p, <<p>>))
        <3>1. PICK r : Moves(p, r) /\ Past(r) /\ ~Fresh(p, r)
            BY <1>2, <2>1, FinishMoves, DropMoves DEF Over
        <3>2. SealedRecord(p).commit = branch.commit /\ SealedRecord(p).staging = p
            BY <2>1, RecordFields DEF Replace, Unmoved
        <3>3. QED
            BY <1>2, <2>1, <3>1, <3>2, ReplaceSound
    <2>2. QED
        BY <1>3, <1>9, <2>1 DEF PrefixPublish
<1>10. QED
    BY <1>5, <1>6, <1>7, <1>8, <1>9

LEMMA ResetSound ==
    ASSUME TypeInv, StoreInv, NEW p \in Requests, Reset(p)
    PROVE  Sound(p)
<1> USE RequestFields
<1>1. Placed(p, req[p].pc)
    BY DEF StoreInv, Order
<1>2. CASE ResetBegin(p)
    <2>1. Placed(p, "publish") /\ Fresh(p, req[p]) /\ ~Past(req[p])
        BY <1>2 DEF ResetBegin, Placed, Fresh, Past, Over
    <2>2. QED
        BY <1>2, <2>1, UpdateBeginSound DEF ResetBegin, Over
<1>3. CASE ResetPublish(p)
    <2>1. /\ Kind(p) \notin Writes \cup Reads /\ ~Past(req[p]) /\ req[p].pc \notin Over
          /\ Retries(p) = FALSE /\ Fresh(p, req[p])
        BY <1>3 DEF ResetPublish, Fresh, Writes, BlindWrites, CondWrites, Deletes, Reads, Past, Over, Retries
    <2>2. CASE Replace(p, ResetRecord(p)) /\ DropThen(p, Layers(req[p].snap))
        <3>1. PICK r : Moves(p, r) /\ Past(r) /\ ~Fresh(p, r)
            BY <2>1, <2>2, DropMoves
        <3>2. ResetRecord(p).commit = branch.commit /\ ResetRecord(p).staging = p
            BY <2>2, RecordFields DEF Replace, Unmoved
        <3>3. QED
            BY <2>1, <2>2, <3>1, <3>2, ReplaceSound
    <2>3. CASE LostRace(p, "start", Retries(p))
        BY <2>1, <2>3, LostRaceSound
    <2>4. QED
        BY <1>3, <2>2, <2>3 DEF ResetPublish
<1>4. CASE KeyBegin(p)
    <2> DEFINE r == [req[p] EXCEPT !.pc = "keyScan", !.pre = branch, !.todo = Layers(branch)]
    <2>1. r.pc = "keyScan" /\ r.snap = req[p].snap /\ r.pre = branch
        BY DEF Requested
    <2>2. req[p].pc = "start" /\ Kind(p) = "resetKey" /\ (BranchNotFound(p) \/ (Go(p, r) /\ StoreUnchanged))
        BY <1>4 DEF KeyBegin
    <2> HIDE DEF r
    <2>3. CASE BranchNotFound(p)
        BY <2>2, <2>3, NotFoundSound DEF Over
    <2>4. CASE Go(p, r) /\ StoreUnchanged
        <3>1. Moves(p, r)
            BY <2>1, <2>2, <2>4 DEF Moves, Past, Placed, Fresh, Over
        <3>2. QED
            BY <2>4, <3>1, StoreStaysSound, StoreUnchangedStays
    <2>5. QED
        BY <2>2, <2>3, <2>4
<1>5. CASE KeyReset(p)
    <2>1. Kind(p) = "resetKey" /\ req[p].pc = "keyScan"
        BY <1>1, <1>5 DEF KeyReset, ReadDone, Placed
    <2>2. PICK r : Moves(p, r)
        BY <1>5, <2>1, FinishMoves DEF KeyReset, Over
    <2>3. CASE StoreUnchanged
        BY <2>2, <2>3, StoreStaysSound, StoreUnchangedStays
    <2>4. CASE UndoKey(p, req[p].pre, Key(p), req[p].pre.staging) /\ UNCHANGED <<branch, commits>>
        <3>1. req[p].pre.staging \in Tokens \cup {NoOne}
            BY BranchFields
        <3>2. \A q \in Requests : Fresh(q, req[q]) => q # req[p].pre.staging
            BY DEF StoreInv, Names, Named
        <3>3. Stages
            BY <2>1, <2>4, <3>1, <3>2, UndoKeyStages DEF Resets
        <3>4. QED
            BY <2>2, <2>4, <3>3 DEF Sound, Renames, Stores
    <2>5. QED
        BY <1>5, <2>3, <2>4 DEF KeyReset
<1>6. QED
    BY <1>2, <1>3, <1>4, <1>5, HardSound, PrefixSound DEF Reset

LEMMA LifecycleSound ==
    ASSUME TypeInv, StoreInv, NEW p \in Requests, BranchLifecycle(p) \/ DropToken(p) \/ Stop(p)
    PROVE  Sound(p)
<1> USE RequestFields
<1>1. Placed(p, req[p].pc)
    BY DEF StoreInv, Order
<1>2. CASE DeleteBranchRead(p)
    <2>1. Placed(p, "delete") /\ ~Past(req[p]) /\ ~Fresh(p, [NotStarted EXCEPT !.pc = "delete"])
        BY <1>2 DEF DeleteBranchRead, Placed, Past, Over, Lifecycle, Fresh, NotStarted
    <2>2. QED
        BY <1>2, <2>1, UpdateBeginSound DEF DeleteBranchRead, Over
<1>3. CASE DeleteBranchApply(p)
    <2>1. Kind(p) \notin Writes \cup Reads /\ req[p].pc \notin Over
        BY <1>1, <1>3 DEF DeleteBranchApply, Placed, Lifecycle, Writes, BlindWrites, CondWrites, Deletes,
                          Reads, Over
    <2>2. CASE BranchNotFound(p)
        BY <2>1, <2>2, NotFoundSound
    <2>3. CASE /\ branch' = NoBranch /\ UNCHANGED <<commits, stagingVars>>
               /\ DropThen(p, req[p].snap.sealed \o <<req[p].snap.staging>>)
        <3>1. PICK r : Moves(p, r)
            BY <2>1, <2>3, DropMoves
        <3>2. QED
            BY <2>3, <3>1 DEF Sound, Renames, Stages, Stores, stagingVars
    <2>4. QED
        BY <1>3, <2>2, <2>3 DEF DeleteBranchApply
<1>4. CASE CreateBranchRead(p)
    <2> DEFINE r == [req[p] EXCEPT !.pc = "create"]
    <2>1. r.pc = "create" /\ r.snap = req[p].snap /\ r.pre = req[p].pre
        BY DEF Requested
    <2>2. req[p].pc = "start" /\ Kind(p) = "createBranch" /\ (Finish(p, "failed") \/ Go(p, r)) /\ StoreUnchanged
        BY <1>4 DEF CreateBranchRead
    <2> HIDE DEF r
    <2>3. CASE Finish(p, "failed")
        BY <2>2, <2>3, FinishSound, StoreUnchangedStays DEF Over
    <2>4. CASE Go(p, r)
        <3>1. Moves(p, r)
            BY <2>1, <2>2, <2>4 DEF Moves, Past, Placed, Fresh, Over
        <3>2. QED
            BY <2>2, <3>1, StoreStaysSound, StoreUnchangedStays
    <2>5. QED
        BY <2>2, <2>3, <2>4
<1>5. CASE CreateBranchApply(p)
    <2>1. req[p].pc \notin Over /\ Fresh(p, req[p])
        BY <1>5 DEF CreateBranchApply, Over, Fresh
    <2>2. CASE Finish(p, "failed") /\ StoreUnchanged
        BY <2>1, <2>2, FinishSound, StoreUnchangedStays DEF Over
    <2>3. CASE /\ branch' = [commit |-> Origin, staging |-> p, sealed |-> <<>>]
               /\ Finish(p, "ok") /\ UNCHANGED <<commits, stagingVars>>
        <3>1. PICK r : Moves(p, r) /\ Past(r) /\ ~Fresh(p, r)
            BY <2>1, <2>3, FinishMoves DEF Over
        <3>2. branch'.commit \in Settled /\ branch'.staging = p
            BY <2>3 DEF Settled
        <3>3. QED
            BY <2>1, <2>3, <3>1, <3>2 DEF Sound, Renames, Stages, Stores, stagingVars
    <2>4. QED
        BY <1>5, <2>2, <2>3 DEF CreateBranchApply
<1>6. CASE DropToken(p)
    <2>1. Kind(p) \notin Writes \cup Reads /\ req[p].pc \notin Over
        BY <1>1, <1>6 DEF DropToken, Placed, Over
    <2>2. PICK r : Moves(p, r)
        BY <1>6, <2>1, DropMoves DEF DropToken
    <2>3. QED
        BY <1>6, <2>2, StoreStaysSound DEF DropToken, DropAsync, cleanerVars, StoreStays
<1>7. CASE Stop(p)
    BY <1>7, FinishSound, StoreUnchangedStays DEF Stop, Over
<1>8. QED
    BY <1>2, <1>3, <1>4, <1>5, <1>6, <1>7 DEF BranchLifecycle

LEMMA StepSound ==
    ASSUME TypeInv, StoreInv, NEW p \in Requests, Step(p) \/ Stop(p)
    PROVE  Sound(p)
    BY ReadTokenSound, WriteSound, ReadSound, CommitSound, HeadUpdateSound, ResetSound, LifecycleSound
    DEF Step

\* The cleanup deletes entries of tokens it has fetched.
LEMMA CleanStaged ==
    ASSUME TypeInv, StoreInv, NEW s \in Servers, CleanStep(s)
    PROVE  /\ UNCHANGED requestVars
           /\ Doomed'
           /\ staged' = staged \/ \E t \in Condemned \cap Tokens, k \in Keys : staged' = [staged EXCEPT ![t][k] = NoEntry]
<1> USE DEF TypeInv, StoreTyped, StagingTypeOK
<1>1. UNCHANGED requestVars
    BY DEF CleanStep
<1>2. CASE FindTokens(s)
    BY <1>1, <1>2 DEF FindTokens, Doomed, StoreInv, Idle, NoDrop
<1>3. CASE ScanToken(s)
    BY <1>1, <1>3 DEF ScanToken, Doomed, StoreInv
<1>4. CASE DropEntry(s)
    <2>1. PICK k \in doomed[s].keys :
              /\ staged' = [staged EXCEPT ![doomed[s].token][k] = NoEntry]
              /\ doomed' = [doomed EXCEPT ![s].keys = @ \ {k}]
        BY <1>4 DEF DropEntry
    <2>2. doomed[s].token \in fetched[s] /\ fetched[s] \subseteq Tokens /\ k \in Keys
        BY DEF StoreInv, Doomed
    <2>3. doomed[s].token \in Condemned \cap Tokens
        BY <2>2 DEF Condemned
    <2>4. fetched' = fetched
        BY <1>4 DEF DropEntry
    <2>5. Doomed'
        BY <2>1, <2>4 DEF StoreInv, Doomed
    <2>6. QED
        BY <1>1, <2>1, <2>2, <2>3, <2>5
<1>5. CASE UnlistToken(s)
    BY <1>1, <1>5 DEF UnlistToken, Doomed, StoreInv, NoDrop
<1>6. QED
    BY <1>2, <1>3, <1>4, <1>5 DEF CleanStep, Clean

LEMMA CleanOrder ==
    ASSUME TypeInv, StoreInv, NEW s \in Servers, CleanStep(s)
    PROVE  StoreInv'
<1>1. /\ UNCHANGED <<task, branch, commits, req, before>> /\ Doomed'
      /\ staged' = staged \/ \E t \in Tokens, k \in Keys : staged' = [staged EXCEPT ![t][k] = NoEntry]
    BY CleanStaged DEF requestVars
<1>2. staged \in [Tokens -> [Keys -> Entries]]
    BY DEF TypeInv, StoreTyped, StagingTypeOK
<1>3. \A t \in Tokens, k \in Keys : staged'[t][k] \in {staged[t][k], NoEntry}
    BY <1>1, <1>2
<1>4. Order' /\ Names' /\ Scanning' /\ Authors'
    BY <1>1 DEF StoreInv, Authors, Order, Names, Scanning, Placed, Named, Past, Fresh, Kind
<1>5. \A k, e : Owned(k, e)' = Owned(k, e)
    BY <1>1 DEF Owned, Kind, Key
<1>6. \A k : Owned(k, NoEntry)
    BY StagingAssumption DEF Owned, NoEntry, Exists
<1>7. Marks'
    BY <1>1, <1>3, <1>5, <1>6 DEF StoreInv, Marks
<1>8. Unused'
    <2>1. ASSUME NEW q \in Requests, staged[q] = Blank PROVE staged'[q] = Blank
        <3>1. q \in Tokens /\ staged'[q] \in [Keys -> Entries]
            BY <1>1, <1>2, EntryTypes DEF Tokens
        <3>2. \A k \in Keys : staged'[q][k] = NoEntry
            BY <1>3, <2>1, <3>1 DEF Blank
        <3>3. QED
            BY <3>1, <3>2 DEF Blank
    <2>2. QED
        BY <1>1, <2>1 DEF StoreInv, Unused, Fresh, Kind
<1>9. QED
    BY <1>1, <1>4, <1>7, <1>8 DEF StoreInv

LEMMA InitOrder == Init => StoreInv
<1> SUFFICES ASSUME Init PROVE StoreInv
    OBVIOUS
<1> USE DEF Init, StagingInit, NotStarted
<1>1. Order
    BY DEF Order, Placed, Over
<1>2. Names
    BY StagingAssumption DEF Names, Named, NoBranch
<1>3. Marks /\ Scanning /\ Doomed /\ Unused /\ Authors
    BY StagingAssumption DEF Marks, Authors, Writers, Value, NoCommit, Owned, Exists, NoEntry, Scanning, Doomed, NoDrop, Unused, Blank, Tokens
<1>4. QED
    BY <1>1, <1>2, <1>3 DEF StoreInv

LEMMA NextOrder ==
    ASSUME TypeInv, StoreInv, [Next]_vars
    PROVE  StoreInv'
<1>1. ASSUME NEW p \in Requests, Step(p) \/ Stop(p) PROVE StoreInv'
    BY <1>1, StepSound, MovesKept DEF Sound
<1>2. ASSUME NEW s \in Servers, CleanStep(s) PROVE StoreInv'
    BY <1>2, CleanOrder
<1>3. CASE UNCHANGED vars
    BY <1>3 DEF vars, stagingVars, requestVars, StoreInv, Authors, Order, Placed, Names, Named, Past, Fresh, Marks,
                Owned, Unused, Scanning, Doomed, Kind, Key
<1>4. QED
    BY <1>1, <1>2, <1>3 DEF Next, Quiet

-----------------------------------------------------------------------------
(* What a step does to the writes of others, if it discards nothing.       *)

Undoing == Resets \cup {"updateBranch", "deleteBranch", "deleteNoTombstone"}

\* Control points between the read of the record and the write of an entry.
Armed == {"apply", "condScan", "updateWrite"}

\* Control points of a commit that has sealed the staging token.
Sealing == {"update", "commitScan", "publish", "drop", "ok"}

ScanPoints == {"commitScan", "headScan"}

\* Request p stages an entry of its own, on the token it read.
Inks(p) ==
    \/ staged' = staged
    \/ \E t \in Tokens, k \in Keys, e \in Entries :
          /\ staged' = [staged EXCEPT ![t][k] = e]
          /\ e.by = p
          /\ Kind(p) \in Sets => req[p].pc \in Armed /\ t = req[p].pre.staging

\* The branch stays.
Calm(p) ==
    /\ branch' = branch
    /\ \A c \in Writers \ {p} : commits'[c] = commits[c]
    /\ commits' = commits \/ req'[p].pc = "publish"
    /\ Kind(p) = "commit" /\ req'[p].pc \in Sealing => req[p].pc \in Sealing
    /\ Kind(p) \in Adders /\ req'[p].pc \in {"drop", "ok"} => req[p].pc \in {"drop", "ok"}
    /\ Kind(p) \in Sets /\ req'[p].pc \in Armed =>
          \/ req'[p].pre = branch
          \/ req[p].pc \in Armed /\ req'[p].pre = req[p].pre
    /\ Inks(p)

\* The steps of a request that is to publish a commit.
Begins(p) ==
    /\ req'[p].pc \in ScanPoints
    /\ req'[p].view = Blank
    /\ req'[p].todo = branch.sealed
    /\ StoreUnchanged

Overlays(p) ==
    /\ req[p].pc \in ScanPoints /\ req'[p].pc = req[p].pc
    /\ req'[p].snap = req[p].snap
    /\ req[p].todo # <<>> /\ req'[p].todo = Tail(req[p].todo)
    /\ req'[p].view = Overlay(req[p].view, staged[Head(req[p].todo)])
    /\ StoreUnchanged

Adds(p) ==
    /\ req[p].pc \in ScanPoints /\ req'[p].pc = "publish"
    /\ req'[p].snap = req[p].snap
    /\ req[p].todo = <<>>
    /\ \/ commits'[p].content = Overlay(req[p].view, Base(req[p].snap))
       \/ /\ NoChanges(p) /\ Kind(p) \in {"merge", "revert"}
          /\ \E tip \in {branch.commit, req[p].snap.commit} : commits'[p].content = Patch(p, tip)
    /\ commits'[p].parent \in {req[p].snap.commit} \cup (IF Kind(p) = "merge" THEN {branch.commit} ELSE {})
    /\ UNCHANGED <<branch, stagingVars>>

\* Request p is not about to publish, or comes closer to it.
Approaches(p) ==
    Kind(p) \in Adders /\ req'[p].pc \in ScanPoints \cup {"publish"}
        => Begins(p) \/ Overlays(p) \/ Adds(p)

\* The steps that change the branch.
Seals(p) ==
    /\ branch # NoBranch /\ branch' = SealedRecord(p) /\ Fresh(p, req[p])
    /\ req'[p].pc = "update" /\ Kind(p) \in HeadUpdates \cup {"commit"}
    /\ UNCHANGED <<commits, stagingVars>>

Publishes(p) ==
    /\ branch # NoBranch /\ branch = req[p].snap /\ branch' = Published(p, p)
    /\ Kind(p) \in Adders /\ req[p].pc = "publish" /\ req'[p].pc \in {"drop", "ok"}
    /\ UNCHANGED <<commits, stagingVars>>

Creates(p) ==
    /\ branch = NoBranch /\ branch' = [commit |-> Origin, staging |-> p, sealed |-> <<>>]
    /\ Fresh(p, req[p]) /\ Kind(p) \in Lifecycle
    /\ UNCHANGED <<commits, stagingVars>>

Discreet(p) == (Calm(p) /\ Approaches(p)) \/ Seals(p) \/ Publishes(p) \/ Creates(p)

LEMMA Moved ==
    ASSUME TypeInv, NEW p \in Requests, NEW r, Go(p, r)
    PROVE  req'[p] = r
    BY GoParts

\* A step that stays with the record and is about to publish nothing.
LEMMA Aside ==
    ASSUME TypeInv, NEW p \in Requests, UNCHANGED <<branch, commits>>, staged' = staged,
           req'[p].pc \notin Armed \cup ScanPoints \cup {"publish"},
           Kind(p) \in Adders => req'[p].pc \notin {"drop", "ok"},
           Kind(p) = "commit" => req'[p].pc # "update" \/ req[p].pc \in Sealing
    PROVE  Discreet(p)
    BY DEF Discreet, Calm, Approaches, Inks, Sealing, ScanPoints, Adders

LEMMA FailedAside ==
    ASSUME TypeInv, NEW p \in Requests, UNCHANGED <<branch, commits>>, staged' = staged,
           Finish(p, "failed")
    PROVE  Discreet(p)
<1>1. req'[p].pc = "failed"
    BY Moved DEF Finish, NotStarted
<1>2. QED
    BY <1>1, Aside DEF Armed, ScanPoints

LEMMA NotFoundAside ==
    ASSUME TypeInv, NEW p \in Requests, BranchNotFound(p)
    PROVE  Discreet(p)
    BY FailedAside DEF BranchNotFound, StoreUnchanged, stagingVars

LEMMA LostRaceAside ==
    ASSUME TypeInv, NEW p \in Requests, NEW again, NEW retried, LostRace(p, again, retried),
           again \in {"prepare", "update"},
           Kind(p) = "commit" => again # "update" \/ req[p].pc \in Sealing
    PROVE  Discreet(p)
<1>1. CASE Finish(p, "failed")
    BY <1>1, FailedAside DEF LostRace, StoreUnchanged, stagingVars
<1>2. CASE Go(p, [NotStarted EXCEPT !.pc = again, !.tries = req[p].tries])
    <2>1. req'[p].pc = again
        BY <1>2, Moved DEF NotStarted
    <2>2. QED
        BY <2>1, Aside DEF LostRace, StoreUnchanged, stagingVars, Armed, ScanPoints
<1>3. QED
    BY <1>1, <1>2 DEF LostRace

LEMMA ReadTokenDiscreet ==
    ASSUME TypeInv, StoreInv, NEW p \in Requests, ReadToken(p)
    PROVE  Discreet(p)
<1> USE RequestFields
<1> DEFINE e  == staged[Head(req[p].todo)]
           k  == Key(p)
           t1 == IF Exists(e[k]) THEN <<>> ELSE Tail(req[p].todo)
           r1 == [req[p] EXCEPT !.view[k] = e[k], !.todo = t1]
           r2 == [req[p] EXCEPT !.view = Overlay(req[p].view, e), !.todo = Tail(req[p].todo)]
<1>1. /\ Kind(p) \in PointReads => Go(p, r1)
      /\ Kind(p) \notin PointReads => Go(p, r2)
      /\ StoreUnchanged
      /\ req[p].pc \in Scans /\ req[p].todo # <<>>
      /\ Placed(p, req[p].pc)
    BY DEF ReadToken, Requested, StoreInv, Order
<1>2. /\ r1.pc = req[p].pc /\ r1.pre = req[p].pre
      /\ r2.pc = req[p].pc /\ r2.pre = req[p].pre /\ r2.snap = req[p].snap
      /\ r2.todo = Tail(req[p].todo) /\ r2.view = Overlay(req[p].view, e)
    BY DEF Requested
<1>3. CASE Kind(p) \in PointReads
    <2>1. Kind(p) \notin Adders
        BY <1>3 DEF PointReads, Adders, Writes, BlindWrites, CondWrites, Deletes
    <2>2. req'[p].pc = req[p].pc /\ req'[p].pre = req[p].pre
        BY <1>1, <1>2, <1>3, Moved
    <2>3. QED
        BY <1>1, <2>1, <2>2 DEF Discreet, Calm, Approaches, Inks, StoreUnchanged, stagingVars, Adders
<1>4. CASE Kind(p) \notin PointReads
    <2>1. Kind(p) \notin Sets
        BY <1>4 DEF PointReads, Sets, Writes
    <2>2. req'[p] = r2
        BY <1>1, <1>4, Moved
    <2>3. Calm(p)
        BY <1>1, <1>2, <2>1, <2>2 DEF Calm, Inks, StoreUnchanged, stagingVars
    <2>4. Approaches(p)
        BY <1>1, <1>2, <2>2 DEF Approaches, Overlays, Scans, ScanPoints
    <2>5. QED
        BY <2>3, <2>4 DEF Discreet
<1>5. QED
    BY <1>3, <1>4

LEMMA StageDiscreet ==
    ASSUME TypeInv, NEW p \in Requests, NEW e \in Entries, Stage(p, e), e.by = p,
           Kind(p) \in Writes, Kind(p) \in Sets => req[p].pc \in Armed
    PROVE  Discreet(p)
<1> DEFINE r == [req[p] EXCEPT !.pc = "recheck", !.view = Blank, !.seen = NoEntry]
<1>1. r.pc = "recheck"
    BY RequestFields DEF Requested
<1>2. req'[p].pc = "recheck"
    BY <1>1, Moved DEF Stage
<1>3. Kind(p) \notin Adders
    BY DEF Adders, Writes, BlindWrites, CondWrites, Deletes
<1>4. staged' = [staged EXCEPT ![req[p].pre.staging][Key(p)] = e] /\ Key(p) \in Keys
      /\ req[p].pre.staging \in Tokens \cup {NoOne}
    BY RequestFields, BranchFields DEF Stage, Put
<1>5. Inks(p)
    <2>1. CASE req[p].pre.staging = NoOne
        BY <1>4, <2>1, StagingAssumption DEF Inks, TypeInv, StoreTyped, StagingTypeOK, Tokens
    <2>2. QED
        BY <1>4, <2>1 DEF Inks
<1>6. UNCHANGED <<branch, commits>>
    BY DEF Stage
<1>7. QED
    BY <1>2, <1>3, <1>5, <1>6 DEF Discreet, Calm, Approaches, Armed, Adders

LEMMA WriteDiscreet ==
    ASSUME TypeInv, StoreInv, NEW p \in Requests, Write(p), Kind(p) \notin Undoing
    PROVE  Discreet(p)
<1> USE RequestFields
<1>1. Placed(p, req[p].pc)
    BY DEF StoreInv, Order
<1> DEFINE ready == [req[p] EXCEPT !.pre = branch, !.tries = @ + 1]
           e  == staged[req[p].pre.staging][Key(p)]
           r1 == [ready EXCEPT !.pc = "apply"]
           r4 == [req[p] EXCEPT !.pc = "condScan", !.snap = branch, !.todo = Layers(branch)]
           r5 == [req[p] EXCEPT !.pc = "updateWrite", !.seen = e,
                                !.view = Blank, !.snap = NoBranch]
           r6 == [req[p] EXCEPT !.pc = "bury"]
           r7 == [req[p] EXCEPT !.pc = "delScan", !.todo = Layers(req[p].pre)]
           r8 == [NotStarted EXCEPT !.pc = "retry", !.tries = req[p].tries]
<1>2. Kind(p) \in Writes /\ Kind(p) \notin Adders /\ Kind(p) # "deleteNoTombstone"
    BY <1>1 DEF Write, WriteBegin, SetApply, CondDeref, UpdateRead, UpdateWrite, DeleteApply,
                Bury, DeleteDropKey, Recheck, NothingToDelete, FoundValue, FoundBuried, FoundNothing,
                Scanned, ReadDone, Placed, Writes, Adders, BlindWrites, CondWrites, Deletes, Undoing
<1>3. /\ r1.pc = "apply" /\ r1.pre = branch
      /\ r4.pc = "condScan" /\ r4.pre = req[p].pre
      /\ r5.pc = "updateWrite" /\ r5.pre = req[p].pre
      /\ r6.pc = "bury" /\ r7.pc = "delScan" /\ r8.pc = "retry"
    BY DEF Requested, NotStarted
<1>4. ASSUME StoreUnchanged,
             \/ req'[p].pc \notin Armed
             \/ req'[p].pre = branch
             \/ req[p].pc \in Armed /\ req'[p].pre = req[p].pre
      PROVE  Discreet(p)
    BY <1>2, <1>4 DEF Discreet, Calm, Approaches, Inks, StoreUnchanged, stagingVars, Adders
<1>5. ASSUME NEW o \in Over, Finish(p, o), StoreUnchanged PROVE Discreet(p)
    <2>1. req'[p].pc = o
        BY <1>5, Moved DEF Finish, NotStarted
    <2>2. QED
        BY <1>4, <1>5, <2>1 DEF Over, Armed
<1>6. /\ Value(p) \in Entries /\ Value(p).by = p
      /\ Tombstone(p) \in Entries /\ Tombstone(p).by = p
    BY EntryTypes DEF Value, Tombstone
<1>7. CASE WriteBegin(p)
    <2>1. CASE BranchNotFound(p)
        BY <2>1, NotFoundAside
    <2>2. CASE Go(p, r1) /\ StoreUnchanged
        BY <1>3, <1>4, <2>2, Moved
    <2>3. QED
        BY <1>2, <1>7, <2>1, <2>2 DEF WriteBegin
<1>8. CASE SetApply(p)
    BY <1>2, <1>6, <1>8, StageDiscreet DEF SetApply, Armed
<1>9. CASE CondDeref(p)
    BY <1>3, <1>4, <1>9, Moved DEF CondDeref, Armed
<1>10. CASE UpdateRead(p)
    BY <1>3, <1>4, <1>5, <1>10, Moved DEF UpdateRead, ReadDone, Armed, Over
<1>11. CASE UpdateWrite(p)
    BY <1>2, <1>5, <1>6, <1>11, StageDiscreet DEF UpdateWrite, Armed, Over
<1>12. CASE DeleteApply(p)
    <2>1. Kind(p) \notin Sets
        BY <1>12 DEF DeleteApply, Sets, BlindWrites, CondWrites
    <2>2. CASE Stage(p, Tombstone(p))
        BY <1>2, <1>6, <2>1, <2>2, StageDiscreet
    <2>3. CASE (Go(p, r6) \/ Go(p, r7)) /\ StoreUnchanged
        BY <1>3, <1>4, <2>3, Moved DEF Armed
    <2>4. QED
        BY <1>12, <2>2, <2>3 DEF DeleteApply
<1>13. CASE Bury(p)
    <2>1. Kind(p) \notin Sets
        BY <1>1, <1>13 DEF Bury, FoundValue, Scanned, ReadDone, Placed, Deletes, Sets, BlindWrites, CondWrites
    <2>2. QED
        BY <1>2, <1>6, <1>13, <2>1, StageDiscreet DEF Bury
<1>14. CASE DeleteDropKey(p)
    BY <1>2, <1>14 DEF DeleteDropKey
<1>15. CASE Recheck(p)
    <2>1. CASE BranchNotFound(p)
        BY <2>1, NotFoundAside
    <2>2. CASE (Finish(p, "ok") \/ Finish(p, "failed")) /\ StoreUnchanged
        BY <1>5, <2>2 DEF Over
    <2>3. CASE Go(p, r8) /\ StoreUnchanged
        BY <1>3, <1>4, <2>3, Moved DEF Armed
    <2>4. QED
        BY <1>15, <2>1, <2>2, <2>3 DEF Recheck
<1>16. QED
    BY <1>7, <1>8, <1>9, <1>10, <1>11, <1>12, <1>13, <1>14, <1>15 DEF Write

LEMMA GoAside ==
    ASSUME TypeInv, NEW p \in Requests, NEW r, Go(p, r), StoreUnchanged,
           r.pc \notin Armed \cup ScanPoints \cup {"publish"},
           Kind(p) \in Adders => r.pc \notin {"drop", "ok"},
           Kind(p) = "commit" => r.pc # "update" \/ req[p].pc \in Sealing
    PROVE  Discreet(p)
    BY Moved, Aside DEF StoreUnchanged, stagingVars

LEMMA ReadDiscreet ==
    ASSUME TypeInv, StoreInv, NEW p \in Requests, Read(p)
    PROVE  Discreet(p)
<1> DEFINE r1 == [req[p] EXCEPT !.pc = "getScan", !.snap = branch, !.todo = Layers(branch)]
<1>1. r1.pc = "getScan"
    BY RequestFields DEF Requested
<1>2. Kind(p) \in Reads
    BY DEF Read, ReadBegin, ReadEnd, ReadDone, StoreInv, Order, Placed
<1>3. Kind(p) \notin Adders
    BY <1>2 DEF Reads, Adders
<1>4. CASE ReadBegin(p)
    BY <1>1, <1>3, <1>4, NotFoundAside, GoAside DEF ReadBegin, Armed, ScanPoints, Adders
<1>5. CASE ReadEnd(p)
    <2> DEFINE result == Overlay(req[p].view, Base(req[p].snap))
               shown  == IF Kind(p) = "list" THEN Keys ELSE {Key(p)}
               v      == [k \in Keys |-> IF k \in shown THEN result[k] ELSE NoEntry]
               r2     == [NotStarted EXCEPT !.pc = "ok", !.view = v]
    <2>1. r2.pc = "ok"
        BY DEF NotStarted
    <2>2. Go(p, r2) /\ StoreUnchanged
        BY <1>5 DEF ReadEnd
    <2> HIDE DEF r2
    <2>3. QED
        BY <1>3, <2>1, <2>2, GoAside DEF Armed, ScanPoints, Adders
<1>6. QED
    BY <1>4, <1>5 DEF Read

\* The read of a BranchUpdate that is to publish a commit, or is not.
LEMMA UpdateBeginDiscreet ==
    ASSUME TypeInv, NEW p \in Requests, NEW then, NEW layers, UpdateBegin(p, then, layers),
           then \notin Armed \cup {"publish", "update", "drop", "ok"},
           then \in ScanPoints => layers = branch.sealed /\ req[p].pc = "update"
    PROVE  Discreet(p)
<1> DEFINE r == [req[p] EXCEPT !.pc = then, !.snap = branch, !.todo = layers,
                               !.view = Blank, !.tries = @ + 1]
<1>1. CASE BranchNotFound(p)
    BY <1>1, NotFoundAside
<1>2. CASE Go(p, r) /\ StoreUnchanged
    <2>1. r.pc = then /\ r.view = Blank /\ r.todo = layers
        BY RequestFields DEF Requested
    <2>2. req'[p].pc = then /\ req'[p].view = Blank /\ req'[p].todo = layers
        BY <1>2, <2>1, Moved
    <2>3. Calm(p)
        BY <1>2, <2>2 DEF Calm, Inks, Sealing, ScanPoints, StoreUnchanged, stagingVars
    <2>4. Approaches(p)
        BY <1>2, <2>2 DEF Approaches, Begins
    <2>5. QED
        BY <2>3, <2>4 DEF Discreet
<1>3. QED
    BY <1>1, <1>2 DEF UpdateBegin

LEMMA AddsDiscreet ==
    ASSUME TypeInv, StoreInv, NEW p \in Requests, NEW x \in Commits,
           commits' = [commits EXCEPT ![p] = x],
           Go(p, [req[p] EXCEPT !.pc = "publish", !.view = Blank]),
           req[p].pc \in ScanPoints, req[p].todo = <<>>,
           \/ x.content = Overlay(req[p].view, Base(req[p].snap))
           \/ /\ NoChanges(p) /\ Kind(p) \in {"merge", "revert"}
              /\ \E tip \in {branch.commit, req[p].snap.commit} : x.content = Patch(p, tip),
           x.parent \in {req[p].snap.commit} \cup (IF Kind(p) = "merge" THEN {branch.commit} ELSE {}),
           UNCHANGED <<branch, stagingVars>>
    PROVE  Discreet(p)
<1> DEFINE r == [req[p] EXCEPT !.pc = "publish", !.view = Blank]
<1>1. r.pc = "publish" /\ r.snap = req[p].snap
    BY RequestFields DEF Requested
<1>2. req'[p].pc = "publish" /\ req'[p].snap = req[p].snap
    BY <1>1, Moved
<1>3. commits \in [Writers -> Commits] /\ p \in Writers
    BY DEF TypeInv, StoreTyped, Writers
<1>4. commits'[p] = x /\ \A c \in Writers \ {p} : commits'[c] = commits[c]
    BY <1>3
<1>5. Kind(p) = "commit" => req[p].pc \in Sealing
    BY DEF StoreInv, Order, Placed, ScanPoints, Sealing, HeadUpdates
<1>6. Calm(p)
    BY <1>2, <1>4, <1>5 DEF Calm, Inks, Armed, stagingVars
<1>7. Approaches(p)
    BY <1>2, <1>4 DEF Approaches, Adds
<1>8. QED
    BY <1>6, <1>7 DEF Discreet

LEMMA CommitDiscreet ==
    ASSUME TypeInv, StoreInv, NEW p \in Requests, Commit(p)
    PROVE  Discreet(p)
<1>1. CASE CommitSealRead(p)
    BY <1>1, UpdateBeginDiscreet DEF CommitSealRead, Armed, ScanPoints
<1>2. CASE CommitRead(p)
    <2>1. CASE Finish(p, "failed") /\ StoreUnchanged
        BY <2>1, FailedAside DEF StoreUnchanged, stagingVars
    <2>2. CASE BranchNotFound(p)
        BY <2>2, NotFoundAside
    <2>3. CASE UpdateBegin(p, "commitScan", branch.sealed)
        BY <1>2, <2>3, UpdateBeginDiscreet DEF CommitRead, Armed, ScanPoints
    <2>4. QED
        BY <1>2, <2>1, <2>2, <2>3 DEF CommitRead
<1>3. CASE AddCommit(p)
    <2> DEFINE x == [parent  |-> req[p].snap.commit, stored |-> TRUE,
                     content |-> Overlay(req[p].view, Base(req[p].snap))]
    <2>1. CASE NoChanges(p)
        BY <1>3, <2>1, FailedAside DEF AddCommit, StoreUnchanged, stagingVars
    <2>2. CASE ~NoChanges(p)
        <3>1. x \in Commits
            <4>1. Overlay(req[p].view, Base(req[p].snap)) \in Contents
                BY RequestFields, OverlayType, BaseType DEF Requested, TypeInv, StoreTyped
            <4>2. req[p].snap.commit \in Writers \cup {NoOne}
                BY RequestFields, BranchFields
            <4>3. QED
                BY <4>1, <4>2 DEF Commits
        <3>2. x.content = Overlay(req[p].view, Base(req[p].snap)) /\ x.parent = req[p].snap.commit
            OBVIOUS
        <3>3. /\ commits' = [commits EXCEPT ![p] = x]
              /\ Go(p, [req[p] EXCEPT !.pc = "publish", !.view = Blank])
              /\ UNCHANGED <<branch, stagingVars>>
              /\ req[p].pc = "commitScan" /\ req[p].todo = <<>>
            BY <1>3, <2>2 DEF AddCommit, ReadDone
        <3> HIDE DEF x
        <3>4. QED
            BY <3>1, <3>2, <3>3, AddsDiscreet DEF ScanPoints
    <2>3. QED
        BY <2>1, <2>2
<1>4. QED
    BY <1>1, <1>2, <1>3 DEF Commit

LEMMA SealDiscreet ==
    ASSUME TypeInv, StoreInv, NEW p \in Requests, Seal(p)
    PROVE  Discreet(p)
<1> DEFINE r == [NotStarted EXCEPT !.pc = "update"]
<1>1. Fresh(p, req[p]) /\ Kind(p) \in HeadUpdates \cup {"commit"}
    BY DEF Seal, ReadDone, Fresh, StoreInv, Order, Placed
<1>2. CASE Replace(p, SealedRecord(p)) /\ Go(p, r)
    <2>1. req'[p].pc = "update"
        BY <1>2, Moved DEF NotStarted
    <2>2. QED
        BY <1>1, <1>2, <2>1 DEF Discreet, Seals, Replace, Unmoved
<1>3. CASE LostRace(p, "prepare", Kind(p) # "commit")
    BY <1>3, LostRaceAside
<1>4. QED
    BY <1>2, <1>3 DEF Seal

LEMMA PublishDiscreet ==
    ASSUME TypeInv, StoreInv, NEW p \in Requests, Publish(p)
    PROVE  Discreet(p)
<1>1. CASE Replace(p, Published(p, p)) /\ DropThen(p, req[p].snap.sealed)
    <2>1. req'[p].pc \in {"drop", "ok"}
        BY <1>1, Moved DEF DropThen, Finish, NotStarted, Publish
    <2>2. QED
        BY <1>1, <2>1 DEF Discreet, Publishes, Replace, Unmoved, Publish, Adders
<1>2. CASE LostRace(p, "update", Retries(p))
    BY <1>2, LostRaceAside DEF Publish, Sealing
<1>3. QED
    BY <1>1, <1>2 DEF Publish

LEMMA HeadUpdateDiscreet ==
    ASSUME TypeInv, StoreInv, NEW p \in Requests, HeadUpdate(p) \/ Dirty(p), Kind(p) \notin Undoing
    PROVE  Discreet(p)
<1>1. CASE PrepareBegin(p)
    BY <1>1, UpdateBeginDiscreet DEF PrepareBegin, Armed, ScanPoints
<1>2. CASE HeadBegin(p)
    BY <1>2, UpdateBeginDiscreet DEF HeadBegin, Armed, ScanPoints
<1>3. ASSUME NEW tip \in {req[p].snap.commit} \cup (IF Kind(p) = "merge" THEN {branch.commit} ELSE {}),
             AddPatch(p, tip), NoChanges(p), Kind(p) \in {"merge", "revert"}, ReadDone(p, "headScan")
      PROVE  Discreet(p)
    <2> DEFINE x == [parent |-> tip, stored |-> TRUE, content |-> Patch(p, tip)]
    <2>1. tip \in Writers \cup {NoOne}
        BY RequestFields, BranchFields
    <2>2. Content(tip) \in Contents /\ Value(p) \in Entries /\ Key(p) \in Keys
        BY <2>1, ContentType, EntryTypes, RequestFields DEF TypeInv, StoreTyped
    <2>3. x \in Commits
        BY <2>1, <2>2 DEF Commits, Patch, Contents
    <2>4. /\ commits' = [commits EXCEPT ![p] = x] /\ UNCHANGED <<branch, stagingVars>>
          /\ Go(p, [req[p] EXCEPT !.pc = "publish", !.view = Blank])
          /\ x.content = Patch(p, tip) /\ x.parent = tip
          /\ tip \in {branch.commit, req[p].snap.commit}
        BY <1>3 DEF AddPatch
    <2> HIDE DEF x
    <2>5. QED
        BY <1>3, <2>3, <2>4, AddsDiscreet DEF ReadDone, ScanPoints
<1>4. CASE MergeCommit(p)
    BY <1>3, <1>4, NotFoundAside DEF MergeCommit
<1>5. CASE RevertCommit(p)
    BY <1>3, <1>5 DEF RevertCommit
<1>6. CASE Dirty(p)
    BY <1>6, FailedAside DEF Dirty, StoreUnchanged, stagingVars
<1>7. QED
    BY <1>1, <1>2, <1>4, <1>5, <1>6 DEF HeadUpdate, HeadPublish, Undoing

LEMMA ResetUndoes ==
    ASSUME StoreInv, NEW p \in Requests, Reset(p)
    PROVE  Kind(p) \in Resets
<1>1. Placed(p, req[p].pc)
    BY DEF StoreInv, Order
<1>2. CASE ResetBegin(p) \/ ResetPublish(p) \/ HardBegin(p) \/ HardDeref(p) \/ HardPublish(p) \/ KeyBegin(p)
    BY <1>2 DEF ResetBegin, ResetPublish, HardBegin, HardDeref, HardPublish, KeyBegin, Resets
<1>3. CASE KeyReset(p) \/ PrefixBegin(p) \/ PrefixDiff(p) \/ PrefixScanned(p) \/ PrefixUndo(p) \/ PrefixPublish(p)
    BY <1>1, <1>3 DEF Placed, KeyReset, PrefixBegin, PrefixDiff, PrefixScanned, PrefixUndo, PrefixPublish,
                      ReadDone, Resets
<1>4. QED
    BY <1>2, <1>3 DEF Reset

LEMMA LifecycleDiscreet ==
    ASSUME TypeInv, StoreInv, NEW p \in Requests, BranchLifecycle(p) \/ DropToken(p) \/ Stop(p),
           Kind(p) \notin Undoing
    PROVE  Discreet(p)
<1>1. Placed(p, req[p].pc)
    BY DEF StoreInv, Order
<1>2. ~DeleteBranchRead(p) /\ ~DeleteBranchApply(p)
    BY <1>1 DEF Placed, DeleteBranchRead, DeleteBranchApply, Undoing
<1>3. CASE CreateBranchRead(p)
    <2> DEFINE r == [req[p] EXCEPT !.pc = "create"]
    <2>1. r.pc = "create"
        BY RequestFields DEF Requested
    <2>2. (Finish(p, "failed") \/ Go(p, r)) /\ StoreUnchanged
        BY <1>3 DEF CreateBranchRead
    <2> HIDE DEF r
    <2>3. QED
        BY <2>1, <2>2, GoAside, FailedAside DEF Armed, ScanPoints, StoreUnchanged, stagingVars
<1>4. CASE CreateBranchApply(p)
    <2>1. CASE Finish(p, "failed") /\ StoreUnchanged
        BY <2>1, FailedAside DEF StoreUnchanged, stagingVars
    <2>2. CASE /\ branch = NoBranch
               /\ branch' = [commit |-> Origin, staging |-> p, sealed |-> <<>>]
               /\ Finish(p, "ok") /\ UNCHANGED <<commits, stagingVars>>
        BY <1>1, <1>4, <2>2 DEF CreateBranchApply, Placed, Discreet, Creates, Fresh, Lifecycle
    <2>3. QED
        BY <1>4, <2>1, <2>2 DEF CreateBranchApply
<1>5. CASE DropToken(p)
    <2>1. UNCHANGED <<branch, commits>> /\ staged' = staged
        BY <1>5 DEF DropToken, DropAsync
    <2> DEFINE s == Tail(req[p].drop)
               r == [NotStarted EXCEPT !.pc = "drop", !.drop = s]
    <2>2. req[p].pc = "drop" /\ req'[p].pc \in {"drop", "ok", "failed"}
        <3>1. req[p].pc = "drop" /\ (Go(p, r) \/ Finish(p, "ok") \/ Finish(p, "failed"))
            BY <1>5 DEF DropToken, DropThen
        <3>2. r.pc = "drop"
            BY DEF NotStarted
        <3> HIDE DEF r
        <3>3. CASE Go(p, r)
            BY <3>1, <3>2, <3>3, Moved
        <3>4. ASSUME NEW o \in {"ok", "failed"}, Finish(p, o) PROVE req'[p].pc = o
            BY <3>4, Moved DEF Finish, NotStarted
        <3>5. QED
            BY <3>1, <3>3, <3>4
    <2>3. QED
        BY <2>1, <2>2 DEF Discreet, Calm, Approaches, Inks, Armed, ScanPoints, Sealing
<1>6. CASE Stop(p)
    BY <1>6, FailedAside DEF Stop, StoreUnchanged, stagingVars
<1>7. QED
    BY <1>2, <1>3, <1>4, <1>5, <1>6 DEF BranchLifecycle

LEMMA StepDiscreet ==
    ASSUME TypeInv, StoreInv, NEW p \in Requests, Step(p) \/ Stop(p), Kind(p) \notin Undoing
    PROVE  Discreet(p)
<1>1. ~Reset(p)
    BY ResetUndoes DEF Undoing
<1>2. QED
    BY <1>1, ReadTokenDiscreet, WriteDiscreet, ReadDiscreet, CommitDiscreet, SealDiscreet, PublishDiscreet,
       HeadUpdateDiscreet, LifecycleDiscreet DEF Step

-----------------------------------------------------------------------------
(* What is kept of one write.                                              *)

Undone(w) == \E r \in Requests \ before[w] : Undoes(r)

\* Entries of writes that did not happen before w, and those w's success
\* allows to be shown.
Newer(w)    == {e \in Entries : e.by \notin before[w] \cup {Origin, NoOne}}
Honoured(w) == {e \in Entries : Honours(w, e)}

\* Key k read through the tokens L over entry e: the newest staged entry is
\* in N; if there is none, e is in H.
Finds(N, H, S, L, k, e) ==
    /\ \A i \in 1..Len(L) :
          Exists(S[L[i]][k]) /\ (\A j \in 1..(i - 1) : ~Exists(S[L[j]][k])) => S[L[i]][k] \in N
    /\ (\A i \in 1..Len(L) : ~Exists(S[L[i]][k])) => e \in H

Shows(w, L, e) == Finds(Newer(w), Honoured(w), staged, L, Key(w), e)

OnTop(w) == staged[branch.staging][Key(w)] \in Newer(w)

\* Writes that w happened before, and those of them that are in the sealed
\* tokens or the commit of the branch, or may still get there.
Follows(w) == {u \in Requests : Kind(u) \in Sets /\ w \in before[u]}

Sunk(u) ==
    \/ req[u].pc \in Armed /\ req[u].pre.staging # branch.staging
    \/ \E t \in Range(branch.sealed) : staged[t][Key(u)].by = u
    \/ Base(branch)[Key(u)].by = u

\* Some commit, or some write in it, knows that w succeeded: w's entry must
\* be in the sealed tokens or the commit by now.
Deep(w) ==
    \/ \E c \in Requests : Kind(c) = "commit" /\ w \in before[c] /\ req[c].pc \in Sealing
    \/ \E u \in Follows(w) : Sunk(u)

\* The writes request q read, or put in its commit.
Gathered(q) ==
    {u \in Requests : u = IF req[q].pc = "publish" THEN commits[q].content[Key(u)].by
                          ELSE req[q].view[Key(u)].by}

\* What request q read, and has to read, or its commit, shows w.
Pending(w, q) ==
    LET e == req[q].view[Key(w)]
    IN IF req[q].pc = "publish" THEN commits[q].content[Key(w)] \in Honoured(w)
       ELSE IF Exists(e) THEN e \in Newer(w)
       ELSE Shows(w, req[q].todo, Base(branch)[Key(w)])

Publishing(q) ==
    /\ Kind(q) \in Adders
    /\ req[q].pc \in ScanPoints \cup {"publish"}
    /\ branch = req[q].snap

\* The write's last look at the record will find its entry in place.
Rechecked(w) ==
    req[w].pc = "recheck" /\ branch # NoBranch /\ branch.staging = req[w].pre.staging => OnTop(w)

Acked(w) == branch # NoBranch /\ Shows(w, Layers(branch), Base(branch)[Key(w)])

Below(w) == Deep(w) => Shows(w, branch.sealed, Base(branch)[Key(w)])

\* A commit that can still be published has w, unless nothing needs it to.
Taken(w) ==
    \A q \in Requests : Publishing(q) =>
        (OnTop(w) /\ ~Deep(w) /\ Follows(w) \cap Gathered(q) = {}) \/ Pending(w, q)

Committed(w) ==
    \A c \in Requests :
        /\ Kind(c) \in Adders /\ req[c].pc \in {"drop", "ok"}
        /\ (Kind(c) = "commit" /\ w \in before[c]) \/ \E u \in Follows(w) : commits[c].content[Key(u)].by = u
        => commits[c].content[Key(w)] \in Honoured(w)

Kept(w) ==
    \/ Undone(w)
    \/ Rechecked(w) /\ (req[w].pc = "ok" => Acked(w) /\ Below(w) /\ Taken(w) /\ Committed(w))

WriteInv == \A w \in Requests : Kind(w) \in Sets => Kept(w)

-----------------------------------------------------------------------------
(* Reading a key through tokens.                                           *)

LEMMA FindsNone ==
    ASSUME NEW N, NEW H, NEW S, NEW k, NEW e
    PROVE  Finds(N, H, S, <<>>, k, e) <=> e \in H
    BY DEF Finds

LEMMA FindsOnly ==
    ASSUME NEW N, NEW H, NEW S, NEW k, NEW e, NEW t
    PROVE  Finds(N, H, S, <<t>>, k, e) <=> IF Exists(S[t][k]) THEN S[t][k] \in N ELSE e \in H
<1>1. Len(<<t>>) = 1 /\ <<t>>[1] = t
    OBVIOUS
<1>2. \A i \in 1..Len(<<t>>) : i = 1 /\ 1..(i - 1) = {}
    BY <1>1
<1>3. 1 \in 1..Len(<<t>>)
    BY <1>1
<1>4. QED
    BY <1>1, <1>2, <1>3 DEF Finds

LEMMA FindsFirst ==
    ASSUME NEW N, NEW H, NEW S, NEW k, NEW e, NEW t \in Tokens, NEW L \in Seq(Tokens)
    PROVE  Finds(N, H, S, <<t>> \o L, k, e) <=>
              IF Exists(S[t][k]) THEN S[t][k] \in N ELSE Finds(N, H, S, L, k, e)
<1> DEFINE M == <<t>> \o L
<1>1. /\ M \in Seq(Tokens) /\ Len(L) \in Nat /\ Len(M) = Len(L) + 1 /\ M[1] = t
      /\ \A i \in 1..Len(L) : M[i + 1] = L[i]
      /\ \A i \in 2..Len(M) : M[i] = L[i - 1]
    OBVIOUS
<1> HIDE DEF M
<1> DEFINE A(i) == Exists(S[M[i]][k])
           B(i) == Exists(S[L[i]][k])
<1>2. CASE A(1)
    <2>1. Finds(N, H, S, M, k, e) => S[t][k] \in N
        BY <1>1, <1>2 DEF Finds
    <2>2. S[t][k] \in N => Finds(N, H, S, M, k, e)
        <3>1. \A i \in 2..Len(M) : 1 \in 1..(i - 1)
            BY <1>1
        <3>2. \A i \in 1..Len(M) : i = 1 \/ i \in 2..Len(M)
            BY <1>1
        <3>3. ASSUME NEW i \in 1..Len(M), A(i), \A j \in 1..(i - 1) : ~A(j) PROVE i = 1
            BY <1>2, <3>1, <3>2, <3>3
        <3>4. ~ \A i \in 1..Len(M) : ~A(i)
            BY <1>1, <1>2
        <3>5. QED
            BY <1>1, <3>3, <3>4 DEF Finds
    <2>3. QED
        BY <1>1, <1>2, <2>1, <2>2 DEF M
<1>3. CASE ~A(1)
    <2>1. (\A i \in 1..Len(M) : ~A(i)) <=> (\A i \in 1..Len(L) : ~B(i))
        <3>1. ASSUME \A i \in 1..Len(M) : ~A(i), NEW i \in 1..Len(L) PROVE ~B(i)
            <4>1. i + 1 \in 1..Len(M)
                BY <1>1
            <4>2. QED
                BY <1>1, <3>1, <4>1
        <3>2. ASSUME \A i \in 1..Len(L) : ~B(i), NEW i \in 1..Len(M) PROVE ~A(i)
            <4>1. i = 1 \/ (i \in 2..Len(M) /\ i - 1 \in 1..Len(L))
                BY <1>1
            <4>2. QED
                BY <1>1, <1>3, <3>2, <4>1
        <3>3. QED
            BY <3>1, <3>2
    <2>2. ASSUME \A i \in 1..Len(M) : A(i) /\ (\A j \in 1..(i - 1) : ~A(j)) => S[M[i]][k] \in N,
                 NEW i \in 1..Len(L), B(i), \A j \in 1..(i - 1) : ~B(j)
          PROVE  S[L[i]][k] \in N
        <3>1. i + 1 \in 1..Len(M) /\ A(i + 1)
            BY <1>1, <2>2
        <3>2. ASSUME NEW j \in 1..i PROVE ~A(j)
            <4>1. j = 1 \/ (j - 1 \in 1..(i - 1) /\ j \in 2..Len(M))
                BY <1>1
            <4>2. QED
                BY <1>1, <1>3, <2>2, <4>1
        <3>3. \A j \in 1..((i + 1) - 1) : ~A(j)
            BY <1>1, <3>2
        <3>4. QED
            BY <1>1, <2>2, <3>1, <3>3
    <2>3. ASSUME \A i \in 1..Len(L) : B(i) /\ (\A j \in 1..(i - 1) : ~B(j)) => S[L[i]][k] \in N,
                 NEW i \in 1..Len(M), A(i), \A j \in 1..(i - 1) : ~A(j)
          PROVE  S[M[i]][k] \in N
        <3>1. i \in 2..Len(M) /\ i - 1 \in 1..Len(L) /\ B(i - 1)
            BY <1>1, <1>3, <2>3
        <3>2. ASSUME NEW j \in 1..((i - 1) - 1) PROVE ~B(j)
            <4>1. j \in 1..Len(L) /\ j + 1 \in 1..(i - 1)
                BY <1>1
            <4>2. QED
                BY <1>1, <2>3, <4>1
        <3>3. QED
            BY <1>1, <2>3, <3>1, <3>2
    <2>4. Finds(N, H, S, M, k, e) <=> Finds(N, H, S, L, k, e)
        BY <2>1, <2>2, <2>3 DEF Finds
    <2>5. QED
        BY <1>1, <1>3, <2>4 DEF M
<1>4. QED
    BY <1>2, <1>3

\* Entries are replaced by entries of N only.
LEMMA FindsKept ==
    ASSUME NEW N, NEW H, NEW G, NEW S, NEW Z, NEW k, NEW e, NEW L \in Seq(Tokens),
           Finds(N, H, S, L, k, e), H \subseteq G, \A x \in N : Exists(x),
           \A t \in Range(L) : Z[t][k] = S[t][k] \/ Z[t][k] \in N
    PROVE  Finds(N, G, Z, L, k, e)
<1>1. \A i \in 1..Len(L) : Z[L[i]][k] = S[L[i]][k] \/ Z[L[i]][k] \in N
    BY DEF Range
<1>2. Len(L) \in Nat
    OBVIOUS
<1>3. ASSUME NEW i \in 1..Len(L), Exists(Z[L[i]][k]), \A j \in 1..(i - 1) : ~Exists(Z[L[j]][k])
      PROVE  Z[L[i]][k] \in N
    <2>1. \A j \in 1..(i - 1) : j \in 1..Len(L)
        BY <1>2
    <2>2. \A j \in 1..(i - 1) : ~Exists(S[L[j]][k])
        BY <1>1, <1>3, <2>1
    <2>3. QED
        BY <1>1, <1>3, <2>2 DEF Finds
<1>4. (\A i \in 1..Len(L) : ~Exists(Z[L[i]][k])) => e \in G
    BY <1>1 DEF Finds
<1>5. QED
    BY <1>3, <1>4 DEF Finds

\* A set of natural numbers has a least element.
LEMMA LeastNumber ==
    ASSUME NEW I, I \subseteq Nat, I # {}
    PROVE  \E i \in I : \A j \in I : i <= j
<1> DEFINE R == OpToRel(<, Nat)
<1>1. IsWellFoundedOn(R, Nat)
    BY NatLessThanWellFounded
<1>2. \A i, j \in Nat : <<i, j>> \in R <=> i < j
    BY DEF OpToRel
<1> HIDE DEF R
<1>3. PICK i \in I : \A j \in I : <<j, i>> \notin R
    BY <1>1, WFMin, Zenon
<1>4. \A j \in I : i \in Nat /\ j \in Nat /\ ~(j < i)
    BY <1>2, <1>3
<1>5. \A j \in I : i <= j
    BY <1>4
<1>6. QED
    BY <1>5

-----------------------------------------------------------------------------
(* What a step of request p leaves of the others.                          *)

LEMMA SoundFacts ==
    ASSUME TypeInv, NEW p \in Requests, Sound(p)
    PROVE  /\ \A q \in Requests : Kind(q)' = Kind(q) /\ Key(q)' = Key(q)
           /\ \A q \in Requests \ {p} : req'[q] = req[q]
           /\ \A q \in Requests : q # p \/ req[q].pc # "start" => before'[q] = before[q]
           /\ req[p].pc \notin Over /\ req'[p].pc # "start"
           /\ Past(req[p]) => Past(req'[p])
<1>1. PICK r : Moves(p, r)
    BY DEF Sound
<1>2. /\ \A q \in Requests : Kind(q)' = Kind(q) /\ Key(q)' = Key(q)
      /\ \A q \in Requests : req'[q] = IF q = p THEN r ELSE req[q]
    BY <1>1, GoParts DEF Moves
<1>3. ASSUME NEW q \in Requests, q # p \/ req[q].pc # "start" PROVE before'[q] = before[q]
    <2>1. CASE before' = before
        BY <2>1
    <2>2. CASE req[p].pc = "start" /\ before' = [before EXCEPT ![p] = {o \in Requests : req[o].pc \in Over}]
        <3>1. q # p
            BY <1>3, <2>2
        <3>2. before \in [Requests -> SUBSET Requests]
            BY DEF TypeInv, RequestsTyped
        <3>3. QED
            BY <2>2, <3>1, <3>2
    <2>3. QED
        BY <1>1, <2>1, <2>2 DEF Moves, Go
<1>4. QED
    BY <1>1, <1>2, <1>3 DEF Moves

LEMMA HonoursParts ==
    ASSUME NEW w, NEW e
    PROVE  Honours(w, e) <=>
              \/ e.by \notin before[w] \cup {Origin, NoOne}
              \/ ~e.live /\ Buries(w)
              \/ Undone(w)
    BY DEF Honours, Undone

LEMMA NewerHonoured ==
    ASSUME NEW w
    PROVE  /\ Newer(w) \subseteq Honoured(w)
           /\ \A e \in Newer(w) : Exists(e)
    BY HonoursParts DEF Newer, Honoured, Exists

\* To the write w of another request, a step of p that is not over yet.
LEMMA OtherKept ==
    ASSUME TypeInv, StoreInv, NEW p \in Requests, Sound(p), NEW w \in Requests, w # p
    PROVE  /\ before'[w] = before[w] /\ Newer(w)' = Newer(w) /\ Honoured(w) \subseteq Honoured(w)'
           /\ Undone(w) => Undone(w)'
           /\ \A e \in Entries : e.by = p => e \in Newer(w)
<1> USE SoundFacts
<1>1. before'[w] = before[w]
    OBVIOUS
<1>2. Newer(w)' = Newer(w)
    BY <1>1 DEF Newer
<1>3. \A q \in Requests : req[q].pc # "start" => req'[q].pc # "start"
    OBVIOUS
<1>4. Undone(w) => Undone(w)'
    BY <1>1, <1>3 DEF Undone, Undoes
<1>5. Buries(w) => Buries(w)'
    BY <1>1, <1>3 DEF Buries
<1>6. Honoured(w) \subseteq Honoured(w)'
    BY <1>1, <1>4, <1>5, HonoursParts DEF Honoured, Honours, Undone, Buries
<1>7. p \notin before[w]
    BY DEF StoreInv, Order
<1>8. p # Origin /\ p # NoOne
    BY StagingAssumption
<1>9. QED
    BY <1>1, <1>2, <1>4, <1>6, <1>7, <1>8 DEF Newer

LEMMA FollowsStay ==
    ASSUME TypeInv, NEW p \in Requests, Sound(p), NEW w \in Requests, NEW u \in Requests,
           req[u].pc # "start"
    PROVE  u \in Follows(w)' <=> u \in Follows(w)
    BY SoundFacts DEF Follows

\* The write discards something itself.
LEMMA UndoingUndone ==
    ASSUME TypeInv, StoreInv, NEW p \in Requests, Sound(p), Kind(p) \in Undoing,
           NEW w \in Requests, Kind(w) \in Sets
    PROVE  Undone(w)'
<1>1. w # p
    BY DEF Sets, BlindWrites, CondWrites, Undoing, Resets
<1>2. p \notin before[w] /\ before'[w] = before[w] /\ req'[p].pc # "start" /\ Kind(p)' = Kind(p)
    BY <1>1, SoundFacts DEF StoreInv, Order
<1>3. QED
    BY <1>2 DEF Undone, Undoes, Undoing

-----------------------------------------------------------------------------
(* The steps of the write itself.                                          *)

LEMMA ClientActs ==
    ASSUME TypeInv, StoreInv, NEW p \in Requests, Kind(p) \in Writes \cup Reads, Step(p) \/ Stop(p)
    PROVE  ReadToken(p) \/ Write(p) \/ Read(p) \/ Stop(p)
<1>1. Placed(p, req[p].pc)
    BY DEF StoreInv, Order
<1>2. Kind(p) \notin HeadUpdates \cup Resets \cup Lifecycle \cup {"commit"}
    BY DEF Writes, BlindWrites, CondWrites, Deletes, Reads, HeadUpdates, Resets, Lifecycle
<1>3. ~Commit(p) /\ ~Seal(p) /\ ~Publish(p) /\ ~HeadUpdate(p)
    BY <1>1, <1>2 DEF Placed, Commit, CommitSealRead, CommitRead, AddCommit, ReadDone,
          Seal, Publish, HeadUpdate, PrepareBegin, HeadBegin, MergeCommit, RevertCommit, HeadPublish, HeadUpdates
<1>4. ~Dirty(p) /\ ~Reset(p) /\ ~BranchLifecycle(p) /\ ~DropToken(p)
    <2>1. ~Reset(p)
        BY <1>2, ResetUndoes
    <2>2. ~Dirty(p)
        BY <1>1, <1>2 DEF Dirty, ReadDone, Placed, Resets
    <2>3. ~BranchLifecycle(p)
        BY <1>1, <1>2 DEF Placed, BranchLifecycle, DeleteBranchRead, DeleteBranchApply, CreateBranchRead,
              CreateBranchApply, Lifecycle
    <2>4. ~DropToken(p)
        BY <1>1 DEF Placed, DropToken
    <2>5. QED
        BY <2>1, <2>2, <2>3, <2>4
<1>5. QED
    BY <1>3, <1>4 DEF Step

LEMMA ActKinds ==
    ASSUME StoreInv, NEW p \in Requests
    PROVE  (Write(p) => Kind(p) \in Writes) /\ (Read(p) => Kind(p) \in Reads)
    BY DEF StoreInv, Order, Write, WriteBegin, SetApply, CondDeref, UpdateRead, UpdateWrite, DeleteApply,
           Bury, DeleteDropKey, Recheck, NothingToDelete, FoundValue, FoundBuried, FoundNothing,
           Scanned, ReadDone, Placed, Writes, Read, ReadBegin, ReadEnd

LEMMA WriterSteps ==
    ASSUME TypeInv, StoreInv, NEW w \in Requests, Kind(w) \in Sets, Step(w) \/ Stop(w)
    PROVE  \/ req'[w].pc \notin {"recheck", "ok"}
           \/ Stage(w, Value(w)) /\ req[w].pc # "start"
           \/ /\ req[w].pc = "recheck" /\ branch # NoBranch /\ branch.staging = req[w].pre.staging
              /\ UNCHANGED <<branch, commits, staged>>
<1>1. Placed(w, req[w].pc)
    BY DEF StoreInv, Order
<1>2. Kind(w) \notin Deletes \cup Reads \cup HeadUpdates \cup Resets \cup Lifecycle \cup {"commit"}
    BY DEF Sets, BlindWrites, CondWrites, Deletes, Reads, HeadUpdates, Resets, Lifecycle
<1>3. ReadToken(w) \/ Write(w) \/ Stop(w)
    BY <1>2, ClientActs, ActKinds DEF Sets, Writes
<1>6. ASSUME Finish(w, "failed") PROVE req'[w].pc = "failed"
    BY <1>6, Moved DEF Finish, NotStarted
<1>7. ASSUME NEW r, Go(w, r), r.pc \notin {"recheck", "ok"} PROVE req'[w].pc \notin {"recheck", "ok"}
    BY <1>7, Moved
<1> USE RequestFields DEF Requested
<1>8. CASE ReadToken(w)
    <2>1. req'[w].pc = req[w].pc /\ req[w].pc \in Scans
        <3> DEFINE e  == staged[Head(req[w].todo)]
                   t1 == IF Exists(e[Key(w)]) THEN <<>> ELSE Tail(req[w].todo)
                   r1 == [req[w] EXCEPT !.view[Key(w)] = e[Key(w)], !.todo = t1]
                   r2 == [req[w] EXCEPT !.view = Overlay(req[w].view, e), !.todo = Tail(req[w].todo)]
        <3>1. Go(w, r1) \/ Go(w, r2)
            BY <1>8 DEF ReadToken
        <3>2. r1.pc = req[w].pc /\ r2.pc = req[w].pc
            OBVIOUS
        <3> HIDE DEF r1, r2
        <3>3. QED
            BY <1>8, <3>1, <3>2, Moved DEF ReadToken
    <2>2. QED
        BY <2>1 DEF Scans
<1>9. CASE WriteBegin(w)
    <2> DEFINE r == [[req[w] EXCEPT !.pre = branch, !.tries = @ + 1] EXCEPT !.pc = "apply"]
    <2>1. BranchNotFound(w) \/ Go(w, r)
        BY <1>2, <1>9 DEF WriteBegin, Deletes
    <2>2. r.pc = "apply"
        OBVIOUS
    <2> HIDE DEF r
    <2>3. QED
        BY <1>6, <1>7, <2>1, <2>2 DEF BranchNotFound
<1>10. CASE SetApply(w)
    BY <1>10 DEF SetApply
<1>11. CASE CondDeref(w)
    BY <1>7, <1>11 DEF CondDeref
<1>12. CASE UpdateRead(w)
    BY <1>6, <1>7, <1>12 DEF UpdateRead
<1>13. CASE UpdateWrite(w)
    BY <1>6, <1>13 DEF UpdateWrite
<1>14. CASE DeleteApply(w) \/ Bury(w) \/ DeleteDropKey(w)
    BY <1>1, <1>2, <1>14 DEF DeleteApply, Bury, FoundValue, Scanned, ReadDone, Placed, DeleteDropKey, Deletes
<1>15. CASE Recheck(w)
    <2>1. req[w].pc = "recheck"
        BY <1>1, <1>2, <1>15 DEF Recheck, NothingToDelete, FoundBuried, FoundNothing, Scanned, ReadDone, Placed
    <2>2. CASE BranchNotFound(w)
        BY <1>6, <2>2 DEF BranchNotFound
    <2>3. CASE branch # NoBranch /\ branch.staging = req[w].pre.staging /\ StoreUnchanged
        BY <2>1, <2>3 DEF StoreUnchanged, stagingVars
    <2>4. CASE Finish(w, "failed") \/ Go(w, [NotStarted EXCEPT !.pc = "retry", !.tries = req[w].tries])
        <3>1. [NotStarted EXCEPT !.pc = "retry", !.tries = req[w].tries].pc = "retry"
            BY DEF NotStarted
        <3>2. QED
            BY <1>6, <1>7, <2>4, <3>1
    <2>5. QED
        BY <1>15, <2>2, <2>3, <2>4 DEF Recheck
<1>16. CASE Stop(w)
    BY <1>6, <1>16 DEF Stop
<1>17. QED
    BY <1>3, <1>8, <1>9, <1>10, <1>11, <1>12, <1>13, <1>14, <1>15, <1>16 DEF Write

LEMMA WriterKept ==
    ASSUME TypeInv, StoreInv, NEW w \in Requests, Kind(w) \in Sets, Step(w) \/ Stop(w), Kept(w)
    PROVE  Kept(w)'
<1> USE SoundFacts, StepSound, RequestFields
<1>1. CASE req'[w].pc \notin {"recheck", "ok"}
    BY <1>1 DEF Kept, Rechecked
<1>2. CASE Stage(w, Value(w)) /\ req[w].pc # "start"
    <2>1. /\ branch' = branch /\ req'[w].pc = "recheck" /\ req'[w].pre = req[w].pre
          /\ staged' = [staged EXCEPT ![req[w].pre.staging][Key(w)] = Value(w)]
        <3> DEFINE r == [req[w] EXCEPT !.pc = "recheck", !.view = Blank, !.seen = NoEntry]
        <3>1. r.pc = "recheck" /\ r.pre = req[w].pre /\ Go(w, r)
            BY <1>2 DEF Requested, Stage
        <3> HIDE DEF r
        <3>2. req'[w] = r
            BY <3>1, Moved
        <3>3. QED
            BY <1>2, <3>1, <3>2 DEF Stage, Put
    <2>2. before'[w] = before[w] /\ w \notin before[w] /\ Key(w)' = Key(w)
        BY <1>2 DEF StoreInv, Order
    <2>3. Value(w) \in Newer(w)'
        BY <2>2, EntryTypes, StagingAssumption DEF Newer, Value
    <2>4. ASSUME branch # NoBranch, branch.staging = req[w].pre.staging
          PROVE  staged'[branch.staging][Key(w)] = Value(w)
        BY <2>1, <2>4, BranchFields DEF TypeInv, StoreTyped, StagingTypeOK
    <2>5. Rechecked(w)'
        BY <2>1, <2>2, <2>3, <2>4 DEF Rechecked, OnTop
    <2>6. QED
        BY <2>1, <2>5 DEF Kept
<1>3. CASE /\ req[w].pc = "recheck" /\ branch # NoBranch /\ branch.staging = req[w].pre.staging
           /\ UNCHANGED <<branch, commits, staged>>
    <2>1. before' = before /\ req[w].pc \notin Over
        BY <1>3 DEF Sound, Moves, Go
    <2>2. \A q \in Requests : w \notin before[q]
        BY <2>1 DEF StoreInv, Order
    <2>3. Follows(w)' = {} /\ ~Deep(w)'
        BY <2>1, <2>2 DEF Follows, Deep
    <2>4. CASE Undone(w)
        <3>1. \A r \in Requests : Kind(r)' = Kind(r) /\ (req[r].pc # "start" => req'[r].pc # "start")
            OBVIOUS
        <3>2. Undone(w)'
            BY <2>1, <2>4, <3>1 DEF Undone, Undoes
        <3>3. QED
            BY <3>2 DEF Kept
    <2>5. CASE OnTop(w)
        <3>1. Newer(w)' = Newer(w) /\ Key(w)' = Key(w)
            BY <2>1 DEF Newer
        <3>2. OnTop(w)'
            BY <1>3, <2>5, <3>1 DEF OnTop
        <3>3. Acked(w)'
            <4>1. Exists(staged[branch.staging][Key(w)]) /\ staged[branch.staging][Key(w)] \in Newer(w)
                BY <2>5, NewerHonoured DEF OnTop
            <4>2. branch.staging \in Tokens /\ branch.sealed \in Seq(Tokens)
                BY <1>3, BranchFields
            <4>3. ASSUME NEW H, NEW e
                  PROVE  Finds(Newer(w), H, staged, <<branch.staging>> \o branch.sealed, Key(w), e)
                BY <4>1, <4>2, FindsFirst
            <4>4. Layers(branch) = <<branch.staging>> \o branch.sealed
                BY <1>3 DEF Layers
            <4>5. Layers(branch)' = Layers(branch)
                BY <1>3 DEF Layers
            <4>6. QED
                BY <1>3, <3>1, <4>3, <4>4, <4>5 DEF Acked, Shows
        <3>4. Below(w)' /\ Taken(w)' /\ Committed(w)' /\ Rechecked(w)'
            BY <2>1, <2>2, <2>3, <3>2 DEF Below, Taken, Committed, Rechecked
        <3>5. QED
            BY <3>3, <3>4 DEF Kept
    <2>6. QED
        BY <1>3, <2>4, <2>5 DEF Kept, Rechecked
<1>4. QED
    BY <1>1, <1>2, <1>3, WriterSteps

-----------------------------------------------------------------------------
(* Steps of other requests that leave the branch as it is.                 *)

LEMMA CalmBase ==
    ASSUME TypeInv, StoreInv, NEW p \in Requests, Sound(p), Calm(p)
    PROVE  branch' = branch /\ Base(branch)' = Base(branch) /\ Layers(branch)' = Layers(branch)
<1>1. branch' = branch
    BY DEF Calm
<1>2. branch.commit \in Writers \cup {NoOne}
    BY RequestFields, BranchFields
<1>3. CASE commits' = commits
    BY <1>1, <1>3 DEF Base, Content, Layers
<1>4. CASE req'[p].pc = "publish"
    <2>1. ~Past(req[p])
        BY <1>4, SoundFacts DEF Past, Over
    <2>2. branch.commit # p
        BY <2>1 DEF StoreInv, Names, Named
    <2>3. branch.commit # NoOne => commits'[branch.commit] = commits[branch.commit]
        BY <1>2, <2>2 DEF Calm
    <2>4. QED
        BY <1>1, <2>3 DEF Base, Content, Layers
<1>5. QED
    BY <1>3, <1>4 DEF Calm

LEMMA BaseStarted ==
    ASSUME TypeInv, StoreInv, NEW u \in Requests, Base(branch)[Key(u)].by = u
    PROVE  req[u].pc # "start"
<1>1. branch.commit \in Writers \cup {NoOne} /\ Key(u) \in Keys
    BY RequestFields, BranchFields
<1>2. CASE branch.commit = NoOne
    BY <1>1, <1>2, StagingAssumption DEF Base, Content, Blank, NoEntry
<1>3. CASE branch.commit # NoOne
    BY <1>1, <1>3 DEF Base, Content, StoreInv, Marks, Owned
<1>4. QED
    BY <1>2, <1>3

LEMMA CalmSunk ==
    ASSUME TypeInv, StoreInv, Distinct, NEW p \in Requests, Sound(p), Calm(p), branch # NoBranch,
           NEW u \in Requests, Kind(u) \in Sets, Sunk(u)'
    PROVE  Sunk(u) /\ req[u].pc # "start"
<1> USE SoundFacts
<1>1. branch' = branch /\ Base(branch)' = Base(branch) /\ Key(u)' = Key(u) /\ Key(u) \in Keys
    BY CalmBase, RequestFields
<1>2. CASE req'[u].pc \in Armed /\ req'[u].pre.staging # branch'.staging
    BY <1>1, <1>2 DEF Calm, Sunk, Armed
<1>3. ASSUME NEW t \in Range(branch.sealed), staged'[t][Key(u)].by = u
      PROVE  Sunk(u) /\ req[u].pc # "start"
    <2>1. t \in Tokens /\ t # branch.staging
        BY RequestFields, RangeOfSeq DEF Distinct
    <2>2. CASE staged[t][Key(u)].by = u
        BY <1>1, <1>3, <2>1, <2>2 DEF Sunk, StoreInv, Marks, Owned
    <2>3. CASE staged[t][Key(u)].by # u
        <3>1. PICK z \in Tokens, k \in Keys, e \in Entries :
                  /\ staged' = [staged EXCEPT ![z][k] = e]
                  /\ e.by = p
                  /\ Kind(p) \in Sets => req[p].pc \in Armed /\ z = req[p].pre.staging
            BY <1>3, <2>3 DEF Calm, Inks
        <3>2. z = t /\ k = Key(u) /\ u = p
            BY <1>1, <1>3, <2>1, <2>3, <3>1 DEF TypeInv, StoreTyped, StagingTypeOK
        <3>3. QED
            BY <2>1, <3>1, <3>2 DEF Sunk, Armed
    <2>4. QED
        BY <2>2, <2>3
<1>4. CASE Base(branch)[Key(u)].by = u
    BY <1>4, BaseStarted DEF Sunk
<1>5. QED
    BY <1>1, <1>2, <1>3, <1>4 DEF Sunk

LEMMA CalmDeep ==
    ASSUME TypeInv, StoreInv, Distinct, NEW p \in Requests, Sound(p), Calm(p), branch # NoBranch,
           NEW w \in Requests, Deep(w)'
    PROVE  Deep(w)
<1> USE SoundFacts
<1>1. ASSUME NEW c \in Requests, Kind(c) = "commit", w \in before'[c], req'[c].pc \in Sealing
      PROVE  Deep(w)
    <2>1. req[c].pc \in Sealing
        BY <1>1 DEF Calm
    <2>2. before'[c] = before[c]
        BY <2>1 DEF Sealing
    <2>3. QED
        BY <1>1, <2>1, <2>2 DEF Deep
<1>2. ASSUME NEW u \in Follows(w)', Sunk(u)' PROVE Deep(w)
    <2>1. u \in Requests /\ Kind(u) \in Sets
        BY <1>2 DEF Follows
    <2>2. Sunk(u) /\ req[u].pc # "start"
        BY <1>2, <2>1, CalmSunk
    <2>3. QED
        BY <1>2, <2>1, <2>2, FollowsStay DEF Deep
<1>3. QED
    BY <1>1, <1>2 DEF Deep

\* The staged entries that change are of p, which did not happen before w.
LEMMA CalmEntries ==
    ASSUME TypeInv, StoreInv, NEW p \in Requests, Sound(p), Inks(p), NEW w \in Requests, w # p
    PROVE  \A t \in Tokens, k \in Keys : staged'[t][k] = staged[t][k] \/ staged'[t][k] \in Newer(w)
    BY OtherKept DEF Inks, TypeInv, StoreTyped, StagingTypeOK

LEMMA CalmShows ==
    ASSUME TypeInv, StoreInv, NEW p \in Requests, Sound(p), Inks(p), NEW w \in Requests, w # p,
           NEW L \in Seq(Tokens), NEW e, Shows(w, L, e)
    PROVE  Finds(Newer(w)', Honoured(w)', staged', L, Key(w)', e)
<1>1. Newer(w)' = Newer(w) /\ Honoured(w) \subseteq Honoured(w)' /\ Key(w)' = Key(w) /\ Key(w) \in Keys
    BY OtherKept, SoundFacts, RequestFields
<1>2. \A t \in Range(L) : t \in Tokens
    BY RangeOfSeq
<1>3. \A t \in Range(L) : staged'[t][Key(w)] = staged[t][Key(w)] \/ staged'[t][Key(w)] \in Newer(w)
    BY <1>1, <1>2, CalmEntries
<1>4. Finds(Newer(w), Honoured(w)', staged', L, Key(w), e)
    BY <1>1, <1>3, FindsKept, NewerHonoured DEF Shows
<1>5. QED
    BY <1>1, <1>4

LEMMA CalmOnTop ==
    ASSUME TypeInv, StoreInv, NEW p \in Requests, Sound(p), Inks(p), NEW w \in Requests, w # p,
           branch # NoBranch, OnTop(w)
    PROVE  staged'[branch.staging][Key(w)'] \in Newer(w)'
<1>1. branch.staging \in Tokens /\ Key(w) \in Keys
    BY BranchFields, RequestFields
<1>2. QED
    BY <1>1, CalmEntries, OtherKept, SoundFacts DEF OnTop

LEMMA GatheredStarted ==
    ASSUME TypeInv, StoreInv, NEW q \in Requests, req[q].pc \in ScanPoints \cup {"publish"},
           NEW u \in Gathered(q)
    PROVE  u \in Requests /\ req[u].pc # "start"
<1>1. u \in Requests /\ Key(u) \in Keys /\ q \in Writers
    BY RequestFields DEF Gathered
<1>2. QED
    BY <1>1 DEF Gathered, StoreInv, Marks, Owned, ScanPoints

\* What another request is to publish is not touched.
LEMMA CalmOtherTaken ==
    ASSUME TypeInv, StoreInv, Distinct, NEW p \in Requests, Sound(p), Calm(p), branch # NoBranch,
           NEW w \in Requests, w # p, NEW q \in Requests, q # p, Publishing(q)',
           (OnTop(w) /\ ~Deep(w) /\ Follows(w) \cap Gathered(q) = {}) \/ Pending(w, q)
    PROVE  (OnTop(w) /\ ~Deep(w) /\ Follows(w) \cap Gathered(q) = {})' \/ Pending(w, q)'
<1> USE SoundFacts
<1>1. /\ branch' = branch /\ Base(branch)' = Base(branch) /\ req'[q] = req[q] /\ Key(w)' = Key(w)
      /\ commits'[q] = commits[q] /\ Newer(w)' = Newer(w) /\ Honoured(w) \subseteq Honoured(w)'
      /\ Inks(p)
    BY CalmBase, OtherKept, RequestFields DEF Calm
<1>2. req[q].pc \in ScanPoints \cup {"publish"}
    BY <1>1 DEF Publishing
<1>3. CASE OnTop(w) /\ ~Deep(w) /\ Follows(w) \cap Gathered(q) = {}
    <2>1. OnTop(w)'
        BY <1>1, <1>3, CalmOnTop DEF OnTop
    <2>2. ~Deep(w)'
        BY <1>3, CalmDeep
    <2>3. ASSUME NEW u \in Follows(w)', u \in Gathered(q)' PROVE FALSE
        <3>1. u \in Requests
            BY <2>3 DEF Follows
        <3>2. u \in Gathered(q)
            BY <1>1, <2>3, <3>1 DEF Gathered
        <3>3. u \in Follows(w)
            BY <1>2, <2>3, <3>1, <3>2, GatheredStarted, FollowsStay
        <3>4. QED
            BY <1>3, <3>2, <3>3
    <2>4. QED
        BY <2>1, <2>2, <2>3
<1>4. CASE Pending(w, q)
    <2>1. req[q].todo \in Seq(Tokens)
        BY RequestFields DEF Requested
    <2>2. ASSUME Shows(w, req[q].todo, Base(branch)[Key(w)])
          PROVE  Finds(Newer(w)', Honoured(w)', staged', req[q].todo, Key(w)', Base(branch)[Key(w)])
        BY <1>1, <2>1, <2>2, CalmShows
    <2>3. Pending(w, q)'
        BY <1>1, <1>4, <2>2 DEF Pending, Shows
    <2>4. QED
        BY <2>3
<1>5. QED
    BY <1>3, <1>4

LEMMA CalmCommitted ==
    ASSUME TypeInv, StoreInv, NEW p \in Requests, Sound(p), Calm(p),
           NEW w \in Requests, w # p, Committed(w)
    PROVE  Committed(w)'
<1> USE SoundFacts
<1>1. Key(w)' = Key(w) /\ Honoured(w) \subseteq Honoured(w)'
    BY OtherKept
<1>2. SUFFICES ASSUME NEW c \in Requests, Kind(c) \in Adders, req'[c].pc \in {"drop", "ok"},
                      \/ Kind(c) = "commit" /\ w \in before'[c]
                      \/ \E u \in Follows(w)' : commits'[c].content[Key(u)].by = u
               PROVE  commits'[c].content[Key(w)] \in Honoured(w)'
    <2>1. \A u \in Follows(w)' : Key(u)' = Key(u)
        BY DEF Follows
    <2>2. QED
        BY <1>1, <1>2, <2>1 DEF Committed
<1>3. req[c].pc \in {"drop", "ok"}
    BY <1>2 DEF Calm
<1>4. commits'[c] = commits[c] /\ before'[c] = before[c] /\ c \in Writers
    BY <1>2, <1>3, RequestFields DEF Calm
<1>5. ASSUME NEW u \in Follows(w)', commits[c].content[Key(u)].by = u PROVE u \in Follows(w)
    <2>1. u \in Requests /\ Key(u) \in Keys
        BY <1>5, RequestFields DEF Follows
    <2>2. req[u].pc # "start"
        BY <1>4, <1>5, <2>1 DEF StoreInv, Marks, Owned
    <2>3. QED
        BY <1>5, <2>1, <2>2, FollowsStay
<1>6. commits[c].content[Key(w)] \in Honoured(w)
    BY <1>2, <1>3, <1>4, <1>5 DEF Committed
<1>7. QED
    BY <1>1, <1>4, <1>6

-----------------------------------------------------------------------------
(* The steps towards a commit.                                             *)

\* The staging token has w or a later write, or nothing, and then the rest
\* of the branch shows w.
LEMMA AckedParts ==
    ASSUME TypeInv, NEW w \in Requests, Acked(w)
    PROVE  /\ branch # NoBranch /\ branch.staging \in Tokens /\ branch.sealed \in Seq(Tokens)
           /\ \/ OnTop(w)
              \/ /\ ~Exists(staged[branch.staging][Key(w)])
                 /\ Shows(w, branch.sealed, Base(branch)[Key(w)])
<1>1. branch # NoBranch /\ branch.staging \in Tokens /\ branch.sealed \in Seq(Tokens)
    BY RequestFields, BranchFields DEF Acked
<1>2. Layers(branch) = <<branch.staging>> \o branch.sealed
    BY <1>1 DEF Layers
<1>3. QED
    BY <1>1, <1>2, FindsFirst DEF Acked, Shows, OnTop

LEMMA BeginsTaken ==
    ASSUME TypeInv, StoreInv, NEW p \in Requests, Sound(p), Begins(p),
           NEW w \in Requests, w # p, Acked(w), Below(w), Deep(w)' => Deep(w)
    PROVE  (OnTop(w) /\ ~Deep(w) /\ Follows(w) \cap Gathered(p) = {})' \/ Pending(w, p)'
<1> USE SoundFacts
<1>1. /\ UNCHANGED <<branch, commits, staged>> /\ req'[p].pc \in ScanPoints
      /\ req'[p].view = Blank /\ req'[p].todo = branch.sealed
    BY DEF Begins, StoreUnchanged, stagingVars
<1>2. /\ Key(w)' = Key(w) /\ Key(w) \in Keys /\ Newer(w)' = Newer(w)
      /\ Honoured(w) \subseteq Honoured(w)' /\ Base(branch)' = Base(branch)
    BY <1>1, OtherKept, RequestFields DEF Base, Content
<1>3. Gathered(p)' = {}
    <2>1. ASSUME NEW u \in Gathered(p)' PROVE FALSE
        <3>1. u \in Requests /\ Key(u)' \in Keys
            BY <2>1, RequestFields DEF Gathered
        <3>2. u = NoOne
            BY <1>1, <2>1, <3>1 DEF Gathered, ScanPoints, Blank, NoEntry
        <3>3. QED
            BY <3>1, <3>2, StagingAssumption
    <2>2. QED
        BY <2>1
<1>4. CASE OnTop(w) /\ ~Deep(w)
    <2>1. OnTop(w)'
        BY <1>1, <1>2, <1>4 DEF OnTop
    <2>2. QED
        BY <1>3, <1>4, <2>1
<1>5. CASE Shows(w, branch.sealed, Base(branch)[Key(w)])
    <2>1. Finds(Newer(w)', Honoured(w)', staged', branch.sealed, Key(w)', Base(branch)[Key(w)])
        <3>1. branch.sealed \in Seq(Tokens)
            BY AckedParts
        <3>2. Finds(Newer(w), Honoured(w)', staged', branch.sealed, Key(w), Base(branch)[Key(w)])
            BY <1>1, <1>2, <1>5, <3>1, FindsKept, NewerHonoured DEF Shows
        <3>3. QED
            BY <1>2, <3>2
    <2>2. ~Exists(req'[p].view[Key(w)'])
        BY <1>1, <1>2 DEF Blank, NoEntry, Exists
    <2>3. Pending(w, p)'
        BY <1>1, <1>2, <2>1, <2>2 DEF Pending, Shows, ScanPoints
    <2>4. QED
        BY <2>3
<1>6. QED
    BY <1>4, <1>5, AckedParts DEF Below

LEMMA OverlaysTaken ==
    ASSUME TypeInv, StoreInv, NEW p \in Requests, Sound(p), Overlays(p), req[p].snap = branch,
           NEW w \in Requests, w # p, Deep(w)' => Deep(w),
           (OnTop(w) /\ ~Deep(w) /\ Follows(w) \cap Gathered(p) = {}) \/ Pending(w, p)
    PROVE  (OnTop(w) /\ ~Deep(w) /\ Follows(w) \cap Gathered(p) = {})' \/ Pending(w, p)'
<1> USE SoundFacts
<1> DEFINE h == Head(req[p].todo)
           L == Tail(req[p].todo)
<1>1. /\ UNCHANGED <<branch, commits, staged>>
      /\ req[p].pc \in ScanPoints /\ req'[p].pc = req[p].pc
      /\ req'[p].view = Overlay(req[p].view, staged[h]) /\ req'[p].todo = L
    BY DEF Overlays, StoreUnchanged, stagingVars
<1>2. /\ Key(w)' = Key(w) /\ Key(w) \in Keys /\ Newer(w)' = Newer(w)
      /\ Honoured(w) \subseteq Honoured(w)' /\ Base(branch)' = Base(branch)
    BY <1>1, OtherKept, RequestFields DEF Base, Content
<1>3. h \in Tokens /\ L \in Seq(Tokens) /\ req[p].todo = <<h>> \o L /\ h \in Range(branch.sealed)
    <2>1. req[p].todo \in Seq(Tokens) /\ req[p].todo # <<>>
        BY RequestFields DEF Requested, Overlays
    <2>2. h \in Range(req[p].todo)
        BY <2>1, RangeFacts, RequestFields
    <2>3. h \in Range(branch.sealed)
        BY <1>1, <2>2 DEF StoreInv, Scanning, ScanPoints
    <2>4. QED
        BY <2>1, <2>3
<1> HIDE DEF h, L
<1>4. \A k \in Keys : req'[p].view[k] = IF Exists(req[p].view[k]) THEN req[p].view[k] ELSE staged[h][k]
    BY <1>1 DEF Overlay
<1>5. CASE OnTop(w) /\ ~Deep(w) /\ Follows(w) \cap Gathered(p) = {}
    <2>1. OnTop(w)'
        BY <1>1, <1>2, <1>5 DEF OnTop
    <2>2. ASSUME NEW u \in Follows(w)', u \in Gathered(p)' PROVE FALSE
        <3>1. u \in Requests /\ Key(u)' = Key(u) /\ Key(u) \in Keys
            BY <2>2, RequestFields DEF Follows
        <3>2. req'[p].view[Key(u)].by = u
            BY <1>1, <2>2, <3>1 DEF Gathered, ScanPoints
        <3>3. CASE req[p].view[Key(u)].by = u
            <4>1. u \in Gathered(p)
                BY <1>1, <3>1, <3>3 DEF Gathered, ScanPoints
            <4>2. u \in Follows(w)
                BY <1>1, <2>2, <3>1, <4>1, GatheredStarted, FollowsStay
            <4>3. QED
                BY <1>5, <4>1, <4>2
        <3>4. CASE staged[h][Key(u)].by = u
            <4>1. req[u].pc # "start"
                BY <1>3, <3>1, <3>4 DEF StoreInv, Marks, Owned
            <4>2. u \in Follows(w) /\ Sunk(u)
                BY <1>3, <2>2, <3>1, <3>4, <4>1, FollowsStay DEF Sunk
            <4>3. QED
                BY <1>5, <4>2 DEF Deep
        <3>5. QED
            BY <1>4, <3>1, <3>2, <3>3, <3>4
    <2>3. QED
        BY <1>5, <2>1, <2>2
<1>6. CASE Pending(w, p)
    <2>1. CASE Exists(req[p].view[Key(w)])
        <3>1. req'[p].view[Key(w)] = req[p].view[Key(w)] /\ req[p].view[Key(w)] \in Newer(w)
            BY <1>1, <1>2, <1>4, <1>6, <2>1 DEF Pending, ScanPoints
        <3>2. QED
            BY <1>1, <1>2, <2>1, <3>1 DEF Pending, ScanPoints
    <2>2. CASE ~Exists(req[p].view[Key(w)])
        <3>1. Shows(w, req[p].todo, Base(branch)[Key(w)])
            BY <1>1, <1>6, <2>2 DEF Pending, ScanPoints
        <3>2. IF Exists(staged[h][Key(w)]) THEN staged[h][Key(w)] \in Newer(w)
              ELSE Finds(Newer(w), Honoured(w), staged, L, Key(w), Base(branch)[Key(w)])
            BY <1>3, <3>1, FindsFirst DEF Shows
        <3>3. req'[p].view[Key(w)] = staged[h][Key(w)]
            BY <1>2, <1>4, <2>2
        <3>4. ASSUME Finds(Newer(w), Honoured(w), staged, L, Key(w), Base(branch)[Key(w)])
              PROVE  Finds(Newer(w)', Honoured(w)', staged', L, Key(w)', Base(branch)'[Key(w)'])
            <4>1. Finds(Newer(w), Honoured(w)', staged', L, Key(w), Base(branch)[Key(w)])
                BY <1>1, <1>2, <1>3, <3>4, FindsKept, NewerHonoured
            <4>2. QED
                BY <1>2, <4>1
        <3>5. Pending(w, p)'
            BY <1>1, <1>2, <3>2, <3>3, <3>4 DEF Pending, Shows, ScanPoints
        <3>6. QED
            BY <3>5
    <2>3. QED
        BY <2>1, <2>2
<1>7. QED
    BY <1>5, <1>6

\* A merge or a revert found no change in the tokens it read: what it read
\* may be dropped.
LEMMA UnchangedHonoured ==
    ASSUME TypeInv, StoreInv, NEW p \in Requests, req[p].pc \in ScanPoints, NoChanges(p),
           NEW w \in Requests, ~Undone(w), req[p].view[Key(w)] \in Newer(w)
    PROVE  Base(req[p].snap)[Key(w)] \in Honoured(w)
<1> DEFINE e == req[p].view[Key(w)]
           b == Base(req[p].snap)[Key(w)]
<1>1. Key(w) \in Keys /\ Exists(e) /\ e \in Entries
    BY RequestFields, NewerHonoured DEF Newer
<1>2. b \in Entries
    BY <1>1, RequestFields, BaseType DEF TypeInv, StoreTyped, Contents
<1>3. e.live = b.live /\ (e.live => e.by = b.by)
    BY <1>1, <1>2 DEF NoChanges, Changes, Entries
<1>4. CASE e.live
    <2>1. b \in Newer(w)
        BY <1>2, <1>3, <1>4 DEF Newer
    <2>2. QED
        BY <2>1, NewerHonoured
<1>5. CASE ~e.live
    <2>1. PICK d \in Requests : /\ e.by = d
                                /\ Kind(d) \in Resets \/ (Kind(d) \in Deletes /\ Key(d) = Key(w))
        BY <1>1, <1>5 DEF StoreInv, Marks, Owned, ScanPoints
    <2>2. d \notin before[w] /\ req[d].pc # "start"
        BY <1>1, <2>1 DEF Newer, StoreInv, Marks, Owned, ScanPoints
    <2>3. Kind(d) \notin Resets
        BY <2>2 DEF Undone, Undoes
    <2>4. Buries(w)
        BY <2>1, <2>2, <2>3 DEF Buries
    <2>5. QED
        BY <1>2, <1>3, <1>5, <2>4 DEF Honoured, Honours
<1>6. QED
    BY <1>4, <1>5

LEMMA AddsTaken ==
    ASSUME TypeInv, StoreInv, NEW p \in Requests, Sound(p), Adds(p), req[p].snap = branch,
           branch # NoBranch, NEW w \in Requests, w # p, ~Undone(w), Deep(w)' => Deep(w),
           (OnTop(w) /\ ~Deep(w) /\ Follows(w) \cap Gathered(p) = {}) \/ Pending(w, p)
    PROVE  (OnTop(w) /\ ~Deep(w) /\ Follows(w) \cap Gathered(p) = {})' \/ Pending(w, p)'
<1> USE SoundFacts
<1> DEFINE content == commits'[p].content
           base == Base(branch)
<1>1. /\ branch' = branch /\ staged' = staged
      /\ req[p].pc \in ScanPoints /\ req'[p].pc = "publish" /\ req[p].todo = <<>>
    BY DEF Adds, stagingVars
<1>2. /\ Key(w)' = Key(w) /\ Key(w) \in Keys /\ Newer(w)' = Newer(w)
      /\ Honoured(w) \subseteq Honoured(w)'
    BY <1>1, OtherKept, RequestFields
<1>3. \/ \A k \in Keys : content[k] = IF Exists(req[p].view[k]) THEN req[p].view[k] ELSE base[k]
      \/ /\ NoChanges(p) /\ Kind(p) \notin Sets
         /\ \A k \in Keys : content[k] = IF k = Key(p) THEN Value(p) ELSE base[k]
    <2>1. CASE content = Overlay(req[p].view, base)
        BY <2>1 DEF Overlay
    <2>2. CASE /\ NoChanges(p) /\ Kind(p) \in {"merge", "revert"}
               /\ \E tip \in {branch.commit, req[p].snap.commit} : content = Patch(p, tip)
        <3>1. content = [base EXCEPT ![Key(p)] = Value(p)]
            BY <2>2 DEF Patch, Base
        <3>2. base \in Contents
            BY RequestFields, BaseType DEF TypeInv, StoreTyped
        <3>3. QED
            BY <2>2, <3>1, <3>2 DEF Contents, Sets, BlindWrites, CondWrites
    <2>3. QED
        BY <2>1, <2>2 DEF Adds
<1> HIDE DEF content, base
<1>4. CASE OnTop(w) /\ ~Deep(w) /\ Follows(w) \cap Gathered(p) = {}
    <2>1. OnTop(w)'
        BY <1>1, <1>2, <1>4 DEF OnTop
    <2>2. ASSUME NEW u \in Follows(w)', u \in Gathered(p)' PROVE FALSE
        <3>1. u \in Requests /\ Key(u)' = Key(u) /\ Key(u) \in Keys /\ Kind(u) \in Sets
            BY <2>2, RequestFields DEF Follows
        <3>2. content[Key(u)].by = u
            BY <1>1, <2>2, <3>1 DEF Gathered, content
        <3>3. CASE req[p].view[Key(u)].by = u
            <4>1. u \in Gathered(p)
                BY <1>1, <3>1, <3>3 DEF Gathered, ScanPoints
            <4>2. u \in Follows(w)
                BY <1>1, <2>2, <3>1, <4>1, GatheredStarted, FollowsStay
            <4>3. QED
                BY <1>4, <4>1, <4>2
        <3>4. CASE base[Key(u)].by = u
            <4>1. req[u].pc # "start"
                BY <3>1, <3>4, BaseStarted DEF base
            <4>2. u \in Follows(w) /\ Sunk(u)
                BY <2>2, <3>1, <3>4, <4>1, FollowsStay DEF Sunk, base
            <4>3. QED
                BY <1>4, <4>2 DEF Deep
        <3>5. CASE Kind(p) \notin Sets /\ Value(p).by = u
            BY <3>1, <3>5 DEF Value
        <3>6. QED
            BY <1>3, <3>1, <3>2, <3>3, <3>4, <3>5
    <2>3. QED
        BY <1>4, <2>1, <2>2
<1>5. CASE Pending(w, p)
    <2>1. IF Exists(req[p].view[Key(w)]) THEN req[p].view[Key(w)] \in Newer(w) ELSE base[Key(w)] \in Honoured(w)
        BY <1>1, <1>5, FindsNone DEF Pending, Shows, ScanPoints, base
    <2>2. NoChanges(p) => base[Key(w)] \in Honoured(w)
        BY <1>1, <2>1, UnchangedHonoured DEF base
    <2>3. Value(p) \in Honoured(w)
        BY OtherKept, EntryTypes, RequestFields, NewerHonoured DEF Value
    <2>4. content[Key(w)] \in Honoured(w)
        BY <1>2, <1>3, <2>1, <2>2, <2>3, NewerHonoured
    <2>5. Pending(w, p)'
        BY <1>1, <1>2, <2>4 DEF Pending, content
    <2>6. QED
        BY <2>5
<1>6. QED
    BY <1>4, <1>5

LEMMA CalmKept ==
    ASSUME TypeInv, StoreInv, Distinct, NEW p \in Requests, Sound(p), Calm(p), Approaches(p),
           NEW w \in Requests, w # p, Kept(w)
    PROVE  Kept(w)'
<1> USE SoundFacts
<1>1. /\ branch' = branch /\ Base(branch)' = Base(branch) /\ Layers(branch)' = Layers(branch)
      /\ Inks(p) /\ req'[w] = req[w] /\ Key(w)' = Key(w)
    BY CalmBase DEF Calm
<1>2. CASE Undone(w)
    BY <1>2, OtherKept DEF Kept
<1>3. CASE ~Undone(w)
    <2>1. Rechecked(w)'
        BY <1>1, <1>3, CalmOnTop DEF Kept, Rechecked, OnTop
    <2>2. ASSUME req[w].pc = "ok" PROVE Acked(w)' /\ Below(w)' /\ Taken(w)' /\ Committed(w)'
        <3>1. Acked(w) /\ Below(w) /\ Taken(w) /\ Committed(w)
            BY <1>3, <2>2 DEF Kept
        <3>2. branch # NoBranch /\ branch.sealed \in Seq(Tokens) /\ Layers(branch) \in Seq(Tokens)
            BY <3>1, AckedParts, RequestFields
        <3>3. Acked(w)'
            BY <1>1, <3>1, <3>2, CalmShows DEF Acked, Shows
        <3>4. Deep(w)' => Deep(w)
            BY <3>2, CalmDeep
        <3>5. Below(w)'
            BY <1>1, <3>1, <3>2, <3>4, CalmShows DEF Below, Shows
        <3>6. ASSUME NEW q \in Requests, Publishing(q)'
              PROVE  (OnTop(w) /\ ~Deep(w) /\ Follows(w) \cap Gathered(q) = {})' \/ Pending(w, q)'
            <4>1. CASE q # p
                <5>1. Publishing(q)
                    BY <1>1, <3>6, <4>1 DEF Publishing
                <5>2. QED
                    BY <3>1, <3>2, <3>6, <4>1, <5>1, CalmOtherTaken DEF Taken
            <4>2. CASE q = p
                <5>1. Kind(p) \in Adders /\ req'[p].pc \in ScanPoints \cup {"publish"} /\ req'[p].snap = branch
                    BY <1>1, <3>6, <4>2 DEF Publishing
                <5>2. CASE Begins(p)
                    BY <3>1, <3>4, <4>2, <5>2, BeginsTaken
                <5>3. CASE Overlays(p) \/ Adds(p)
                    <6>1. req[p].snap = branch /\ Publishing(p)
                        BY <5>1, <5>3 DEF Publishing, Overlays, Adds
                    <6>2. (OnTop(w) /\ ~Deep(w) /\ Follows(w) \cap Gathered(p) = {}) \/ Pending(w, p)
                        BY <3>1, <6>1 DEF Taken
                    <6>3. QED
                        BY <1>3, <3>2, <3>4, <4>2, <5>3, <6>1, <6>2, OverlaysTaken, AddsTaken
                <5>4. QED
                    BY <5>1, <5>2, <5>3 DEF Approaches
            <4>3. QED
                BY <4>1, <4>2
        <3>7. Taken(w)'
            BY <3>6 DEF Taken
        <3>8. Committed(w)'
            BY <3>1, CalmCommitted
        <3>9. QED
            BY <3>3, <3>5, <3>7, <3>8
    <2>3. QED
        BY <1>1, <2>1, <2>2 DEF Kept
<1>4. QED
    BY <1>2, <1>3

-----------------------------------------------------------------------------
(* The steps of other requests that change the branch.                     *)

\* A new token is in nobody's hands: no commit in the making is of the
\* record that has it.
LEMMA SealsWrites ==
    ASSUME TypeInv, StoreInv, NEW p \in Requests, Sound(p), Seals(p),
           NEW w \in Requests, w # p, Kept(w)
    PROVE  Kept(w)'
<1> USE SoundFacts
<1>1. /\ branch # NoBranch /\ branch' = SealedRecord(p) /\ UNCHANGED <<commits, staged>>
      /\ Fresh(p, req[p]) /\ req'[p].pc = "update" /\ Kind(p) \in HeadUpdates \cup {"commit"}
      /\ p \in Tokens /\ p # NoOne
    BY StagingAssumption, RequestFields DEF Seals, stagingVars
<1>2. /\ branch'.commit = branch.commit /\ branch'.staging = p
      /\ branch'.sealed = <<branch.staging>> \o branch.sealed /\ branch' # NoBranch
    BY <1>1, RequestFields, BranchFields DEF SealedRecord, Branches, NoBranch
<1>3. /\ req'[w] = req[w] /\ Key(w)' = Key(w) /\ Newer(w)' = Newer(w)
      /\ Honoured(w) \subseteq Honoured(w)' /\ Base(branch)' = Base(branch) /\ Key(w) \in Keys
    BY <1>1, <1>2, OtherKept, RequestFields DEF Base, Content
<1>4. \A q \in Requests : req[q].snap.staging # p /\ req[q].pre.staging # p
    BY <1>1 DEF StoreInv, Names, Named
<1>5. CASE Undone(w)
    BY <1>5, OtherKept DEF Kept
<1>6. CASE ~Undone(w)
    <2>1. Rechecked(w)'
        BY <1>2, <1>3, <1>4 DEF Rechecked
    <2>2. ASSUME req[w].pc = "ok" PROVE Acked(w)' /\ Below(w)' /\ Taken(w)' /\ Committed(w)'
        <3>1. Acked(w) /\ Committed(w)
            BY <1>6, <2>2 DEF Kept
        <3>2. branch.staging \in Tokens /\ branch.sealed \in Seq(Tokens) /\ Layers(branch) \in Seq(Tokens)
            BY <3>1, AckedParts, RequestFields
        <3>3. branch'.sealed = Layers(branch)
            BY <1>1, <1>2 DEF Layers
        <3>4. Finds(Newer(w)', Honoured(w)', staged', branch'.sealed, Key(w)', Base(branch)'[Key(w)'])
            <4>1. Finds(Newer(w), Honoured(w)', staged, Layers(branch), Key(w), Base(branch)[Key(w)])
                BY <1>3, <3>1, <3>2, FindsKept, NewerHonoured DEF Acked, Shows
            <4>2. QED
                BY <1>1, <1>3, <3>3, <4>1
        <3>5. Below(w)'
            BY <3>4 DEF Below, Shows
        <3>6. Acked(w)'
            <4>1. staged'[p][Key(w)'] = NoEntry
                BY <1>1, <1>3 DEF StoreInv, Unused, Blank, HeadUpdates
            <4>2. ~Exists(staged'[p][Key(w)'])
                BY <4>1 DEF Exists, NoEntry
            <4>3. Layers(branch)' = <<p>> \o branch'.sealed
                BY <1>2 DEF Layers
            <4>4. branch'.sealed \in Seq(Tokens)
                BY <3>2, <3>3
            <4>5. Finds(Newer(w)', Honoured(w)', staged', <<p>> \o branch'.sealed, Key(w)', Base(branch)'[Key(w)'])
                BY <1>1, <3>4, <4>2, <4>4, FindsFirst
            <4>6. QED
                BY <1>2, <4>3, <4>5 DEF Acked, Shows
        <3>7. ASSUME NEW q \in Requests, Publishing(q)' PROVE FALSE
            <4>1. q # p
                BY <1>1, <3>7 DEF Publishing, ScanPoints
            <4>2. QED
                BY <1>2, <1>4, <3>7, <4>1 DEF Publishing
        <3>8. Taken(w)'
            BY <3>7 DEF Taken
        <3>9. Committed(w)'
            <4>1. Follows(w)' \subseteq Follows(w)
                BY <1>1 DEF Follows, Sets, BlindWrites, CondWrites, HeadUpdates
            <4>2. ASSUME NEW c \in Requests, req'[c].pc \in {"drop", "ok"}
                  PROVE  req'[c] = req[c] /\ before'[c] = before[c]
                BY <1>1, <4>2
            <4>3. \A u \in Requests : Key(u)' = Key(u) /\ Kind(u)' = Kind(u)
                OBVIOUS
            <4>4. QED
                BY <1>1, <1>3, <3>1, <4>1, <4>2, <4>3 DEF Committed, Follows
        <3>10. QED
            BY <3>5, <3>6, <3>8, <3>9
    <2>3. QED
        BY <1>3, <2>1, <2>2 DEF Kept
<1>7. QED
    BY <1>5, <1>6

LEMMA CreatesWrites ==
    ASSUME TypeInv, StoreInv, NEW p \in Requests, Sound(p), Creates(p),
           NEW w \in Requests, w # p, Kept(w)
    PROVE  Kept(w)'
<1> USE SoundFacts
<1>1. branch = NoBranch /\ branch'.staging = p /\ Fresh(p, req[p])
    BY DEF Creates
<1>2. req'[w] = req[w] /\ req[w].pre.staging # p
    BY <1>1 DEF StoreInv, Names, Named
<1>3. CASE Undone(w)
    BY <1>3, OtherKept DEF Kept
<1>4. CASE Rechecked(w) /\ req[w].pc # "ok"
    BY <1>1, <1>2, <1>4 DEF Kept, Rechecked
<1>5. QED
    BY <1>1, <1>3, <1>4 DEF Kept, Acked

\* What a commit leaves out of the tokens it lets go of, the staging token
\* has.
LEMMA PublishesWrites ==
    ASSUME TypeInv, StoreInv, NEW p \in Requests, Sound(p), Publishes(p),
           NEW w \in Requests, w # p, Kept(w)
    PROVE  Kept(w)'
<1> USE SoundFacts
<1> DEFINE content == commits[p].content
<1>1. /\ branch # NoBranch /\ branch = req[p].snap /\ branch' = Published(p, p)
      /\ UNCHANGED <<commits, staged>> /\ Kind(p) \in Adders /\ Kind(p) \notin Sets
      /\ req[p].pc = "publish" /\ req'[p].pc \in {"drop", "ok"}
      /\ p \in Writers /\ p # NoOne
    BY StagingAssumption, RequestFields DEF Publishes, stagingVars, Adders, Sets, BlindWrites, CondWrites
<1>2. /\ branch'.commit = p /\ branch'.staging = branch.staging
      /\ branch'.sealed = <<>> /\ branch' # NoBranch
    BY <1>1, RequestFields, BranchFields DEF Published, Branches, NoBranch
<1>3. /\ req'[w] = req[w] /\ Key(w)' = Key(w) /\ Newer(w)' = Newer(w)
      /\ Honoured(w) \subseteq Honoured(w)' /\ Base(branch)' = content /\ Key(w) \in Keys
    BY <1>1, <1>2, OtherKept, RequestFields DEF Base, Content
<1>4. \A q \in Requests : req[q].snap.commit # p
    <2>1. ~Past(req[p])
        BY <1>1 DEF Past, Over
    <2>2. QED
        BY <2>1 DEF StoreInv, Names, Named
<1>5. CASE Undone(w)
    BY <1>5, OtherKept DEF Kept
<1>6. CASE ~Undone(w)
    <2>1. Rechecked(w)'
        BY <1>1, <1>2, <1>3, <1>6 DEF Kept, Rechecked, OnTop
    <2>2. ASSUME req[w].pc = "ok" PROVE Acked(w)' /\ Below(w)' /\ Taken(w)' /\ Committed(w)'
        <3>1. Acked(w) /\ Below(w) /\ Taken(w) /\ Committed(w)
            BY <1>6, <2>2 DEF Kept
        <3>2. branch.staging \in Tokens
            BY <3>1, AckedParts
        <3>3. \/ OnTop(w) /\ ~Deep(w) /\ Follows(w) \cap Gathered(p) = {}
              \/ content[Key(w)] \in Honoured(w)
            BY <1>1, <3>1 DEF Taken, Publishing, Pending
        <3>4. OnTop(w) \/ (~Exists(staged[branch.staging][Key(w)]) /\ content[Key(w)] \in Honoured(w))
            BY <3>1, <3>3, AckedParts
        <3>5. Acked(w)'
            <4>1. Finds(Newer(w), Honoured(w), staged, <<branch.staging>>, Key(w), content[Key(w)])
                BY <3>2, <3>4, FindsOnly, NewerHonoured DEF OnTop
            <4>2. Finds(Newer(w), Honoured(w)', staged, <<branch.staging>>, Key(w), content[Key(w)])
                <5>1. <<branch.staging>> \in Seq(Tokens)
                    BY <3>2
                <5>2. QED
                    BY <1>3, <4>1, <5>1, FindsKept, NewerHonoured
            <4>3. Layers(branch)' = <<branch.staging>>
                BY <1>2, <3>2 DEF Layers
            <4>4. QED
                BY <1>1, <1>2, <1>3, <4>2, <4>3 DEF Acked, Shows
        <3>6. ASSUME NEW u \in Follows(w)', content[Key(u)].by = u
              PROVE  u \in Follows(w) \cap Gathered(p)
            <4>1. u \in Requests /\ Key(u) \in Keys
                BY <3>6, RequestFields DEF Follows
            <4>2. u \in Gathered(p)
                BY <1>1, <3>6, <4>1 DEF Gathered
            <4>3. QED
                BY <1>1, <3>6, <4>1, <4>2, GatheredStarted, FollowsStay
        <3>7. Deep(w)' => Deep(w) \/ Follows(w) \cap Gathered(p) # {}
            <4>1. ASSUME NEW c \in Requests, Kind(c) = "commit", w \in before'[c], req'[c].pc \in Sealing
                  PROVE  Deep(w)
                <5>1. req[c].pc \in Sealing /\ before'[c] = before[c]
                    BY <1>1, <4>1 DEF Sealing
                <5>2. QED
                    BY <4>1, <5>1 DEF Deep
            <4>2. ASSUME NEW u \in Follows(w)', Sunk(u)'
                  PROVE  Deep(w) \/ Follows(w) \cap Gathered(p) # {}
                <5>1. u \in Requests /\ Kind(u) \in Sets /\ Key(u)' = Key(u) /\ u # p /\ req'[u] = req[u]
                    BY <1>1, <4>2 DEF Follows
                <5>2. CASE req[u].pc \in Armed /\ req[u].pre.staging # branch.staging
                    <6>1. u \in Follows(w)
                        BY <4>2, <5>1, <5>2, FollowsStay DEF Armed
                    <6>2. QED
                        BY <5>2, <6>1 DEF Deep, Sunk
                <5>3. CASE content[Key(u)].by = u
                    BY <3>6, <4>2, <5>3
                <5>4. Range(branch'.sealed) = {}
                    BY <1>2, RangeFacts, EmptySeq, <3>2
                <5>5. QED
                    BY <1>2, <1>3, <4>2, <5>1, <5>2, <5>3, <5>4 DEF Sunk
            <4>3. QED
                BY <4>1, <4>2 DEF Deep
        <3>8. Below(w)'
            <4>1. ASSUME Deep(w)' PROVE content[Key(w)] \in Honoured(w)'
                BY <1>3, <3>3, <3>7, <4>1
            <4>2. QED
                BY <1>2, <1>3, <4>1, FindsNone DEF Below, Shows
        <3>9. ASSUME NEW q \in Requests, Publishing(q)' PROVE FALSE
            <4>1. q # p
                BY <1>1, <3>9 DEF Publishing, ScanPoints
            <4>2. QED
                BY <1>2, <1>4, <3>9, <4>1 DEF Publishing
        <3>10. Taken(w)'
            BY <3>9 DEF Taken
        <3>11. Committed(w)'
            <4>1. SUFFICES ASSUME NEW c \in Requests, Kind(c) \in Adders, req'[c].pc \in {"drop", "ok"},
                                  \/ Kind(c) = "commit" /\ w \in before'[c]
                                  \/ \E u \in Follows(w)' : commits[c].content[Key(u)].by = u
                           PROVE  commits[c].content[Key(w)] \in Honoured(w)'
                <5>1. \A u \in Follows(w)' : Key(u)' = Key(u)
                    BY DEF Follows
                <5>2. QED
                    BY <1>1, <1>3, <4>1, <5>1 DEF Committed
            <4>2. CASE c = p
                <5>1. Kind(p) = "commit" /\ w \in before'[p] => Deep(w)
                    BY <1>1 DEF Deep, Sealing
                <5>2. QED
                    BY <1>3, <3>3, <3>6, <4>1, <4>2, <5>1
            <4>3. CASE c # p
                <5>1. req[c].pc \in {"drop", "ok"} /\ before'[c] = before[c] /\ c \in Writers
                    BY <4>1, <4>3, RequestFields
                <5>2. ASSUME NEW u \in Follows(w)', commits[c].content[Key(u)].by = u PROVE u \in Follows(w)
                    <6>1. u \in Requests /\ Key(u) \in Keys
                        BY <5>2, RequestFields DEF Follows
                    <6>2. req[u].pc # "start"
                        BY <5>1, <5>2, <6>1 DEF StoreInv, Marks, Owned
                    <6>3. QED
                        BY <5>2, <6>1, <6>2, FollowsStay
                <5>3. commits[c].content[Key(w)] \in Honoured(w)
                    BY <3>1, <4>1, <5>1, <5>2 DEF Committed
                <5>4. QED
                    BY <1>3, <5>3
            <4>4. QED
                BY <4>2, <4>3
        <3>12. QED
            BY <3>5, <3>8, <3>10, <3>11
    <2>3. QED
        BY <1>3, <2>1, <2>2 DEF Kept
<1>7. QED
    BY <1>5, <1>6

-----------------------------------------------------------------------------
(* The cleanup, and the theorems.                                          *)

LEMMA CleanWrites ==
    ASSUME TypeInv, StoreInv, LiveTokensKept, UNCHANGED requestVars,
           \/ staged' = staged
           \/ \E t \in Condemned \cap Tokens, k \in Keys : staged' = [staged EXCEPT ![t][k] = NoEntry],
           NEW w \in Requests, Kept(w)
    PROVE  Kept(w)'
<1>1. /\ UNCHANGED <<task, branch, commits, req, before>>
      /\ Newer(w)' = Newer(w) /\ Honoured(w)' = Honoured(w) /\ Follows(w)' = Follows(w)
      /\ (Undone(w) => Undone(w)') /\ Base(branch)' = Base(branch) /\ Layers(branch)' = Layers(branch)
      /\ \A u : Key(u)' = Key(u) /\ Kind(u)' = Kind(u)
      /\ \A q : Gathered(q)' = Gathered(q)
    BY DEF requestVars, Newer, Honoured, Honours, Buries, Undone, Undoes, Kind, Key, Base, Content, Layers,
           Follows, Gathered
<1>2. \A t \in LayerSet(branch), k \in Keys : staged'[t][k] = staged[t][k]
    <2>1. CASE staged' = staged
        BY <2>1
    <2>2. ASSUME NEW t \in Condemned \cap Tokens, NEW k \in Keys, staged' = [staged EXCEPT ![t][k] = NoEntry],
                 NEW z \in LayerSet(branch)
          PROVE  staged'[z] = staged[z]
        <3>1. z # t
            BY <2>2 DEF LiveTokensKept, Dropped
        <3>2. z \in Tokens
            BY <2>2, RequestFields, BranchFields, RangeOfSeq DEF LayerSet, TypeInv, StoreTyped
        <3>3. QED
            BY <2>2, <3>1, <3>2 DEF TypeInv, StoreTyped, StagingTypeOK
    <2>3. QED
        BY <2>1, <2>2
<1>3. CASE Undone(w)
    BY <1>1, <1>3 DEF Kept
<1>4. CASE ~Undone(w)
    <2>1. Key(w) \in Keys /\ (branch # NoBranch => branch.staging \in LayerSet(branch))
        BY RequestFields DEF LayerSet
    <2>2. branch # NoBranch /\ OnTop(w) => OnTop(w)'
        BY <1>1, <1>2, <2>1 DEF OnTop
    <2>3. Rechecked(w)'
        BY <1>1, <1>4, <2>2 DEF Kept, Rechecked
    <2>4. ASSUME req[w].pc = "ok" PROVE Acked(w)' /\ Below(w)' /\ Taken(w)' /\ Committed(w)'
        <3>1. Acked(w) /\ Below(w) /\ Taken(w) /\ Committed(w)
            BY <1>4, <2>4 DEF Kept
        <3>2. /\ branch # NoBranch /\ branch.staging \in Tokens
              /\ branch.sealed \in Seq(Tokens) /\ Layers(branch) \in Seq(Tokens)
            BY <3>1, AckedParts, RequestFields
        <3>3. LayerSet(branch) = Range(Layers(branch)) /\ Range(branch.sealed) \subseteq LayerSet(branch)
            BY <3>2, RangeFacts DEF LayerSet, Layers
        <3>4. ASSUME NEW L \in Seq(Tokens), Range(L) \subseteq LayerSet(branch), NEW e, Shows(w, L, e)
              PROVE  Finds(Newer(w)', Honoured(w)', staged', L, Key(w)', e)
            <4>1. \A t \in Range(L) : staged'[t][Key(w)] = staged[t][Key(w)]
                BY <1>2, <2>1, <3>4
            <4>2. Finds(Newer(w), Honoured(w), staged', L, Key(w), e)
                BY <3>4, <4>1, FindsKept, NewerHonoured DEF Shows
            <4>3. QED
                BY <1>1, <4>2
        <3>5. Acked(w)'
            BY <1>1, <3>1, <3>2, <3>3, <3>4 DEF Acked, Shows
        <3>6. Deep(w)' => Deep(w)
            <4>1. ASSUME NEW u \in Follows(w), Sunk(u)' PROVE Sunk(u)
                <5>1. Key(u) \in Keys
                    BY RequestFields DEF Follows
                <5>2. QED
                    BY <1>1, <1>2, <3>3, <4>1, <5>1 DEF Sunk
            <4>2. QED
                BY <1>1, <4>1 DEF Deep
        <3>7. Below(w)'
            BY <1>1, <3>1, <3>2, <3>3, <3>4, <3>6 DEF Below, Shows
        <3>8. ASSUME NEW q \in Requests, Publishing(q)'
              PROVE  (OnTop(w) /\ ~Deep(w) /\ Follows(w) \cap Gathered(q) = {})' \/ Pending(w, q)'
            <4>1. Publishing(q)
                BY <1>1, <3>8 DEF Publishing
            <4>2. CASE OnTop(w) /\ ~Deep(w) /\ Follows(w) \cap Gathered(q) = {}
                BY <1>1, <2>2, <3>2, <3>6, <4>2
            <4>3. CASE Pending(w, q)
                <5>1. req[q].pc # "publish" => Range(req[q].todo) \subseteq LayerSet(branch)
                    BY <3>3, <4>1 DEF Publishing, StoreInv, Scanning, ScanPoints
                <5>2. req[q].todo \in Seq(Tokens)
                    BY RequestFields DEF Requested
                <5>3. Pending(w, q)'
                    BY <1>1, <3>4, <4>3, <5>1, <5>2 DEF Pending, Shows
                <5>4. QED
                    BY <5>3
            <4>4. QED
                BY <3>1, <4>1, <4>2, <4>3 DEF Taken
        <3>9. Taken(w)'
            BY <3>8 DEF Taken
        <3>10. Committed(w)'
            BY <1>1, <3>1 DEF Committed
        <3>11. QED
            BY <3>5, <3>7, <3>9, <3>10
    <2>5. QED
        BY <1>1, <2>3, <2>4 DEF Kept
<1>5. QED
    BY <1>3, <1>4

LEMMA InitWrites == Init => WriteInv
    BY DEF Init, NotStarted, WriteInv, Kept, Rechecked

LEMMA NextWrites ==
    ASSUME TypeInv, TokenInv, StoreInv, WriteInv, [Next]_vars
    PROVE  WriteInv'
<1>1. ASSUME NEW p \in Requests, Step(p) \/ Stop(p) PROVE WriteInv'
    <2>1. Sound(p)
        BY <1>1, StepSound
    <2>2. ASSUME NEW w \in Requests, Kind(w) \in Sets PROVE Kept(w)'
        <3>1. Kept(w)
            BY <2>2 DEF WriteInv
        <3>2. CASE w = p
            BY <1>1, <2>2, <3>1, <3>2, WriterKept
        <3>3. CASE w # p /\ Kind(p) \in Undoing
            BY <2>1, <2>2, <3>3, UndoingUndone DEF Kept
        <3>4. CASE w # p /\ Kind(p) \notin Undoing
            <4>1. Discreet(p)
                BY <1>1, <3>4, StepDiscreet
            <4>2. QED
                BY <2>1, <3>1, <3>4, <4>1, CalmKept, SealsWrites, PublishesWrites, CreatesWrites DEF Discreet, TokenInv
        <3>5. QED
            BY <3>2, <3>3, <3>4
    <2>3. \A w \in Requests : Kind(w)' = Kind(w)
        BY <2>1, SoundFacts
    <2>4. QED
        BY <2>2, <2>3 DEF WriteInv
<1>2. ASSUME UNCHANGED requestVars, \A w \in Requests : Kept(w) => Kept(w)' PROVE WriteInv'
    BY <1>2 DEF WriteInv, requestVars, Kind
<1>3. ASSUME NEW s \in Servers, CleanStep(s) PROVE WriteInv'
    BY <1>2, <1>3, CleanStaged, CleanWrites DEF TokenInv
<1>4. CASE UNCHANGED vars
    <2>1. UNCHANGED requestVars /\ staged' = staged
        BY <1>4 DEF vars, stagingVars
    <2>2. QED
        BY <1>2, <2>1, CleanWrites DEF TokenInv
<1>5. QED
    BY <1>1, <1>3, <1>4 DEF Next, Quiet

LEMMA KeptOf ==
    ASSUME WriteInv, NEW w \in Succeeded, Kind(w) \in Sets
    PROVE  /\ w \in Requests
           /\ Undone(w) \/ (Acked(w) /\ Committed(w))
           /\ Undone(w) => \A e : Honours(w, e)
    BY HonoursParts DEF Succeeded, WriteInv, Kept

LEMMA AckedShown ==
    ASSUME TypeInv, WriteInv
    PROVE  AckedWritesKept
<1> SUFFICES ASSUME branch # NoBranch, NEW w \in Succeeded, Kind(w) \in Sets
             PROVE  Honours(w, Shown(Key(w)))
    BY DEF AckedWritesKept
<1>1. CASE Undone(w)
    BY <1>1, KeptOf
<1>2. CASE Acked(w)
    <2> DEFINE L == Layers(branch)
               x(i) == staged[L[i]][Key(w)]
               I == {i \in 1..Len(L) : Exists(x(i))}
    <2>1. Finds(Newer(w), Honoured(w), staged, L, Key(w), Base(branch)[Key(w)])
        BY <1>2 DEF Acked, Shows
    <2>2. CASE I = {}
        <3>1. Shown(Key(w)) = Base(branch)[Key(w)]
            BY <2>2 DEF Shown
        <3>2. Base(branch)[Key(w)] \in Honoured(w)
            BY <2>1, <2>2 DEF Finds
        <3>3. QED
            BY <3>1, <3>2 DEF Honoured
    <2>3. CASE I # {}
        <3> DEFINE i == CHOOSE n \in I : \A j \in I : n <= j
        <3>1. I \subseteq Nat /\ Len(L) \in Nat
            BY KeptOf, RequestFields
        <3>2. \E n \in I : \A j \in I : n <= j
            BY <2>3, <3>1, LeastNumber
        <3>3. i \in I /\ \A j \in I : i <= j
            BY <3>2
        <3>4. Shown(Key(w)) = x(i)
            BY <2>3 DEF Shown
        <3> HIDE DEF i
        <3>5. i \in 1..Len(L) /\ Exists(x(i)) /\ \A j \in 1..(i - 1) : ~Exists(x(j))
            BY <3>1, <3>3
        <3>6. x(i) \in Newer(w)
            BY <2>1, <3>5 DEF Finds
        <3>7. QED
            BY <3>4, <3>6, NewerHonoured DEF Honoured
    <2>4. QED
        BY <2>2, <2>3
<1>3. QED
    BY <1>1, <1>2, KeptOf

LEMMA CommittedCausal ==
    ASSUME WriteInv, StoreInv
    PROVE  CommitsAreCausal /\ CommitsAreListings
<1>1. ASSUME NEW c \in Requests, Kind(c) \in Adders, req[c].pc \in {"drop", "ok"},
             NEW v \in Succeeded, Kind(v) \in Sets,
             (Kind(c) = "commit" /\ v \in before[c]) \/ \E u \in Follows(v) : commits[c].content[Key(u)].by = u
      PROVE  Honours(v, commits[c].content[Key(v)])
    <2>1. CASE Undone(v)
        BY <1>1, <2>1, KeptOf
    <2>2. CASE Committed(v)
        BY <1>1, <2>2 DEF Committed, Honoured
    <2>3. QED
        BY <1>1, <2>1, <2>2, KeptOf
<1>2. CommitsAreCausal
    BY <1>1 DEF CommitsAreCausal, Earlier, Adders
<1>3. CommitsAreListings
    <2> SUFFICES ASSUME NEW c \in Known \ {Origin}, NEW w \in Requests, Kind(w) \in Sets,
                        commits[c].content[Key(w)].by = w, NEW v \in Earlier(w), Kind(v) \in Sets
                 PROVE  Honours(v, commits[c].content[Key(v)])
        BY DEF CommitsAreListings
    <2>1. c \in Requests /\ Kind(c) \in Adders /\ req[c].pc \in {"drop", "ok"}
        BY DEF Known, StoreInv, Authors
    <2>2. v \in Succeeded /\ w \in Follows(v)
        BY DEF Earlier, Follows
    <2>3. QED
        BY <1>1, <2>1, <2>2
<1>4. QED
    BY <1>2, <1>3

WritesSafe == TypeInv /\ TokenInv /\ StoreInv /\ WriteInv

LEMMA WritesInductive == Unsure = {} => (Spec => []WritesSafe)
<1> SUFFICES ASSUME Unsure = {} PROVE Spec => []WritesSafe
    OBVIOUS
<1>1. Init => WritesSafe
    BY InitTyped, InitKept, InitOrder, InitWrites DEF WritesSafe
<1>2. WritesSafe /\ [Next]_vars => WritesSafe'
    BY NextTyped, NextKept, NextOrder, NextWrites DEF WritesSafe
<1>3. QED
    BY <1>1, <1>2, PTL DEF Spec

\* If a compare-and-set that reports a failure was not applied, a write that
\* was acknowledged is what the branch shows, or a write that did not happen
\* before it, unless it was deleted or undone: through every seal, commit,
\* merge, revert and cleanup that runs meanwhile or stops half way.
THEOREM WritesKept == Unsure = {} => (Spec => []AckedWritesKept)
<1> SUFFICES ASSUME Unsure = {} PROVE Spec => []AckedWritesKept
    OBVIOUS
<1>1. Spec => []WritesSafe
    BY WritesInductive
<1>2. WritesSafe => AckedWritesKept
    BY AckedShown DEF WritesSafe
<1>3. QED
    BY <1>1, <1>2, PTL

\* Under the same condition a commit has every write that was acknowledged
\* before the commit began, or a newer one.
THEOREM CommitsCausal == Unsure = {} => (Spec => []CommitsAreCausal)
<1> SUFFICES ASSUME Unsure = {} PROVE Spec => []CommitsAreCausal
    OBVIOUS
<1>1. Spec => []WritesSafe
    BY WritesInductive
<1>2. WritesSafe => CommitsAreCausal
    BY CommittedCausal DEF WritesSafe
<1>3. QED
    BY <1>1, <1>2, PTL

\* And a commit, a merge or a revert that has a write has, for every other
\* key, the writes that happened before it.
THEOREM CommitsListed == Unsure = {} => (Spec => []CommitsAreListings)
<1> SUFFICES ASSUME Unsure = {} PROVE Spec => []CommitsAreListings
    OBVIOUS
<1>1. Spec => []WritesSafe
    BY WritesInductive
<1>2. WritesSafe => CommitsAreListings
    BY CommittedCausal DEF WritesSafe
<1>3. QED
    BY <1>1, <1>2, PTL
-----------------------------------------------------------------------------
(* As long as the branch has its first staging token.                      *)

First      == [commit |-> Origin, staging |-> Origin, sealed |-> <<>>]
Foundation == [k \in Keys |-> IF k \in Initial THEN Value(Origin) ELSE NoEntry]

Pristine == branch.staging = Origin

\* What a request can have read, and where it can be.
FirstState(p, r) ==
    /\ r.pre \in {NoBranch, First} /\ r.snap \in {NoBranch, First}
    /\ r.todo \in {<<>>, <<Origin>>}
    /\ Origin \notin Range(r.drop)
    /\ Kind(p) \in HeadUpdates \cup {"commit"} => r.pc \notin Sealing \cup {"headScan"}

FirstStore ==
    /\ branch = First
    /\ commits[Origin].content = Foundation
    /\ \A c \in Requests : ~commits[c].stored
    /\ Origin \notin Condemned

FirstInv == Pristine => FirstStore /\ \A p \in Requests : FirstState(p, req[p])

\* The entry the branch shows for a key.
Now(k) == IF Exists(staged[Origin][k]) THEN staged[Origin][k] ELSE Foundation[k]

\* A write is in the first token, or about to be found there.
Landed(p) == req[p].pc = "ok" \/ (req[p].pc = "recheck" /\ req[p].pre.staging = Origin)

\* A delete looks for the key in the first token, and has found no value.
Seeks(p) == req[p].pc = "delScan" /\ req[p].pre.staging = Origin

Unfound(p) ==
    LET e == req[p].view[Key(p)]
    IN Seeks(p) /\ req[p].todo = <<>> /\ (Exists(e) => ~e.live)

StagedHolds(p) ==
    /\ Kind(p) \in Sets /\ Landed(p) => Honours(p, Now(Key(p)))
    /\ Kind(p) = "delete" =>
          /\ req[p].pc # "ntScan"
          /\ Seeks(p) => Key(p) \notin Initial
          /\ Landed(p) \/ Unfound(p) => Honours(p, Now(Key(p)))

\* What a reader that sees v is to see.
Answers(p, v) ==
    \A w \in Earlier(p) :
        Kind(w) \in Sets /\ (Kind(p) = "list" \/ Key(p) = Key(w)) => Honours(w, v[Key(w)])

ReadHolds(p) ==
    Kind(p) \in Reads =>
        /\ req[p].pc = "start" => req[p].view = Blank
        /\ req[p].pc = "getScan" => req[p].snap = First
        /\ req[p].pc = "getScan" =>
              \/ req[p].todo = <<Origin>> /\ req[p].view = Blank
              \/ req[p].todo = <<>> /\ Answers(p, Overlay(req[p].view, Foundation))
        /\ req[p].pc = "ok" => Answers(p, req[p].view)

\* Nothing is to take an entry of the key away.
Steady(k) == ~\E d \in Requests : Undoes(d) \/ (Kind(d) \in Deletes /\ Key(d) = k)

\* A conditional upload found nothing, and it was the first.
AbsenceHolds(p) ==
    Kind(p) \in Sets /\ Steady(Key(p)) =>
        /\ Landed(p) => Exists(staged[Origin][Key(p)])
        /\ Kind(p) = "setIfAbsent" =>
              /\ req[p].pc = "updateWrite" /\ req[p].pre.staging = Origin => ~Exists(req[p].seen)
              /\ Landed(p) =>
                    \A w \in Requests \ {p} :
                        Kind(w) \in Sets /\ Key(w) = Key(p) /\ Landed(w) =>
                            Kind(w) # "setIfAbsent" /\ w \notin before[p]

ExactInv ==
    Pristine => \A p \in Requests : StagedHolds(p) /\ ReadHolds(p) /\ AbsenceHolds(p)

LEMMA FirstRecord ==
    /\ First # NoBranch /\ First.commit = Origin /\ First.staging = Origin /\ First.sealed = <<>>
    /\ Layers(First) = <<Origin>> /\ NoBranch.staging # Origin /\ Layers(NoBranch) = <<>>
<1>1. NoOne # Origin
    BY StagingAssumption
<1>2. <<Origin>> \o <<>> = <<Origin>>
    OBVIOUS
<1>3. QED
    BY <1>1, <1>2 DEF First, NoBranch, Layers

\* A request that moves on while the branch stays.
LEMMA FirstGo ==
    ASSUME TypeInv, FirstInv, NEW p \in Requests, NEW r, Go(p, r), FirstState(p, r),
           UNCHANGED <<branch, commits, fetched>>, cleanup' \subseteq cleanup \cup (Tokens \ {Origin})
    PROVE  FirstInv'
<1> SUFFICES ASSUME Pristine' PROVE FirstStore' /\ \A q \in Requests : FirstState(q, req[q])'
    BY DEF FirstInv
<1>1. Pristine /\ FirstStore /\ \A q \in Requests : FirstState(q, req[q])
    BY DEF Pristine, FirstInv
<1>2. /\ \A q \in Requests : req'[q] = IF q = p THEN r ELSE req[q]
      /\ \A q \in Requests : Kind(q)' = Kind(q)
    BY GoParts
<1>3. FirstStore'
    BY <1>1 DEF FirstStore, Condemned
<1>4. ASSUME NEW q \in Requests PROVE FirstState(q, req[q])'
    BY <1>1, <1>2 DEF FirstState
<1>5. QED
    BY <1>3, <1>4

\* The same where the store stays as well.
LEMMA FirstStays ==
    ASSUME TypeInv, FirstInv, NEW p \in Requests, NEW r, Go(p, r), FirstState(p, r), StoreUnchanged
    PROVE  FirstInv'
    BY FirstGo DEF StoreUnchanged, stagingVars, cleanerVars

LEMMA FirstFresh ==
    ASSUME NEW p, NEW r, r.pre = NoBranch, r.snap = NoBranch, r.todo = <<>>, r.drop = <<>>,
           Kind(p) \in HeadUpdates \cup {"commit"} => r.pc \notin Sealing \cup {"headScan"}
    PROVE  FirstState(p, r)
    BY DEF FirstState, Range

LEMMA FirstFinish ==
    ASSUME TypeInv, FirstInv, NEW p \in Requests, NEW o \in Over, Finish(p, o),
           UNCHANGED <<branch, commits, fetched, cleanup>>,
           Kind(p) \in HeadUpdates \cup {"commit"} => o = "failed"
    PROVE  FirstInv'
<1> DEFINE v == IF Kind(p) \in Reads THEN req[p].view ELSE Blank
           r == [NotStarted EXCEPT !.pc = o, !.view = v]
<1>1. Go(p, r) /\ r.pc = o /\ r.pre = NoBranch /\ r.snap = NoBranch /\ r.todo = <<>> /\ r.drop = <<>>
    BY DEF Finish, NotStarted
<1> HIDE DEF r
<1>2. FirstState(p, r)
    BY <1>1, FirstFresh DEF Sealing
<1>3. QED
    BY <1>1, <1>2, FirstGo

LEMMA FirstFails ==
    ASSUME TypeInv, FirstInv, NEW p \in Requests, BranchNotFound(p) \/ (Finish(p, "failed") /\ StoreUnchanged)
    PROVE  FirstInv'
    BY FirstFinish DEF BranchNotFound, StoreUnchanged, stagingVars, Over

LEMMA FirstBegin ==
    ASSUME TypeInv, FirstInv, NEW p \in Requests, NEW then, NEW layers, UpdateBegin(p, then, layers),
           Pristine => layers \in {<<>>, <<Origin>>},
           Kind(p) \in HeadUpdates \cup {"commit"} => then \notin Sealing \cup {"headScan"}
    PROVE  FirstInv'
<1>1. CASE BranchNotFound(p)
    BY <1>1, FirstFails
<1>2. CASE Go(p, [req[p] EXCEPT !.pc = then, !.snap = branch, !.todo = layers, !.view = Blank, !.tries = @ + 1])
           /\ StoreUnchanged
    <2> DEFINE r == [req[p] EXCEPT !.pc = then, !.snap = branch, !.todo = layers,
                                   !.view = Blank, !.tries = @ + 1]
    <2>1. r.pc = then /\ r.snap = branch /\ r.pre = req[p].pre /\ r.todo = layers /\ r.drop = req[p].drop
        BY RequestFields DEF Requested
    <2> HIDE DEF r
    <2>2. CASE Pristine
        <3>1. FirstState(p, r)
            BY <2>1, <2>2 DEF FirstInv, FirstState, FirstStore
        <3>2. QED
            BY <1>2, <3>1, FirstStays DEF r
    <2>3. CASE ~Pristine
        BY <1>2, <2>3 DEF StoreUnchanged, FirstInv, Pristine
    <2>4. QED
        BY <2>2, <2>3
<1>3. QED
    BY <1>1, <1>2 DEF UpdateBegin

LEMMA FirstLost ==
    ASSUME TypeInv, FirstInv, NEW p \in Requests, NEW again, NEW retried, LostRace(p, again, retried),
           Kind(p) \in HeadUpdates \cup {"commit"} => again \notin Sealing \cup {"headScan"}
    PROVE  FirstInv'
<1>1. CASE Finish(p, "failed")
    BY <1>1, FirstFails DEF LostRace
<1>2. CASE Go(p, [NotStarted EXCEPT !.pc = again, !.tries = req[p].tries])
    <2> DEFINE r == [NotStarted EXCEPT !.pc = again, !.tries = req[p].tries]
    <2>1. r.pc = again /\ r.snap = NoBranch /\ r.pre = NoBranch /\ r.todo = <<>> /\ r.drop = <<>>
        BY DEF NotStarted
    <2> HIDE DEF r
    <2>2. FirstState(p, r)
        BY <2>1, FirstFresh
    <2>3. QED
        BY <1>2, <2>2, FirstStays DEF LostRace, r
<1>3. QED
    BY <1>1, <1>2 DEF LostRace

LEMMA FirstDrop ==
    ASSUME TypeInv, FirstInv, NEW p \in Requests, NEW s, DropThen(p, s), Origin \notin Range(s),
           UNCHANGED <<branch, commits, fetched>>, cleanup' \subseteq cleanup \cup (Tokens \ {Origin}),
           Kind(p) \notin HeadUpdates \cup {"commit"}
    PROVE  FirstInv'
<1>1. CASE Go(p, [NotStarted EXCEPT !.pc = "drop", !.drop = s])
    <2> DEFINE r == [NotStarted EXCEPT !.pc = "drop", !.drop = s]
    <2>1. r.pc = "drop" /\ r.snap = NoBranch /\ r.pre = NoBranch /\ r.todo = <<>> /\ r.drop = s
        BY DEF NotStarted
    <2> HIDE DEF r
    <2>2. FirstState(p, r)
        BY <2>1 DEF FirstState
    <2>3. QED
        BY <1>1, <2>2, FirstGo DEF r
<1>2. CASE \E o \in Over : Finish(p, o)
    <2>1. PICK o \in Over : Finish(p, o)
        BY <1>2
    <2> DEFINE v == IF Kind(p) \in Reads THEN req[p].view ELSE Blank
               r == [NotStarted EXCEPT !.pc = o, !.view = v]
    <2>2. Go(p, r) /\ r.pc = o /\ r.pre = NoBranch /\ r.snap = NoBranch /\ r.todo = <<>> /\ r.drop = <<>>
        BY <2>1 DEF Finish, NotStarted
    <2> HIDE DEF r
    <2>3. FirstState(p, r)
        BY <2>2, FirstFresh
    <2>4. QED
        BY <2>2, <2>3, FirstGo
<1>3. QED
    BY <1>1, <1>2 DEF DropThen, Over

\* A compare-and-set that installs another token.
LEMMA FirstEnds ==
    ASSUME NEW p \in Requests, NEW new, Replace(p, new), new.staging # Origin
    PROVE  FirstInv'
    BY DEF Replace, FirstInv, Pristine

\* What a request has read of the branch.
LEMMA FirstFields ==
    ASSUME TypeInv, StoreInv, FirstInv, Pristine, NEW p \in Requests
    PROVE  /\ branch = First /\ FirstState(p, req[p]) /\ Placed(p, req[p].pc)
           /\ Layers(branch) = <<Origin>> /\ branch.sealed = <<>>
           /\ Layers(req[p].pre) \in {<<>>, <<Origin>>} /\ req[p].snap.sealed = <<>>
<1>1. branch = First /\ FirstState(p, req[p]) /\ Placed(p, req[p].pc)
    BY DEF FirstInv, FirstStore, StoreInv, Order
<1>2. NoBranch.sealed = <<>>
    BY DEF NoBranch
<1>3. QED
    BY <1>1, <1>2, FirstRecord DEF FirstState

LEMMA OtherBranch ==
    ASSUME UNCHANGED branch, ~Pristine
    PROVE  FirstInv'
    BY DEF FirstInv, Pristine

LEMMA FirstReadToken ==
    ASSUME TypeInv, StoreInv, FirstInv, NEW p \in Requests, ReadToken(p)
    PROVE  FirstInv'
<1> USE RequestFields
<1> DEFINE e  == staged[Head(req[p].todo)]
           t1 == IF Exists(e[Key(p)]) THEN <<>> ELSE Tail(req[p].todo)
           r1 == [req[p] EXCEPT !.view[Key(p)] = e[Key(p)], !.todo = t1]
           r2 == [req[p] EXCEPT !.view = Overlay(req[p].view, e), !.todo = Tail(req[p].todo)]
<1>1. CASE ~Pristine
    BY <1>1, OtherBranch DEF ReadToken, StoreUnchanged
<1>2. CASE Pristine
    <2>1. (Go(p, r1) \/ Go(p, r2)) /\ StoreUnchanged /\ req[p].todo = <<Origin>>
        BY <1>2, FirstFields DEF ReadToken, FirstState
    <2>2. Tail(<<Origin>>) = <<>>
        OBVIOUS
    <2>3. ASSUME NEW r \in {r1, r2}
          PROVE  r.pc = req[p].pc /\ r.snap = req[p].snap /\ r.pre = req[p].pre /\ r.drop = req[p].drop /\ r.todo = <<>>
        BY <2>1, <2>2 DEF Requested
    <2>4. ASSUME NEW r \in {r1, r2} PROVE FirstState(p, r)
        BY <1>2, <2>3, FirstFields DEF FirstState
    <2> HIDE DEF r1, r2
    <2>5. QED
        BY <2>1, <2>4, FirstStays
<1>3. QED
    BY <1>1, <1>2

LEMMA FirstWrite ==
    ASSUME TypeInv, StoreInv, FirstInv, NEW p \in Requests, Write(p)
    PROVE  FirstInv'
<1> USE RequestFields
<1>1. UNCHANGED <<branch, commits, fetched, cleanup>>
    BY DEF Write, WriteBegin, SetApply, CondDeref, UpdateRead, UpdateWrite, DeleteApply, Bury, DeleteDropKey, Recheck,
           BranchNotFound, Stage, Put, StoreUnchanged, stagingVars, cleanerVars
<1>2. CASE ~Pristine
    BY <1>1, <1>2, OtherBranch
<1>3. CASE Pristine
    <2> DEFINE ready == [req[p] EXCEPT !.pre = branch, !.tries = @ + 1]
               e  == staged[req[p].pre.staging][Key(p)]
               r1 == [ready EXCEPT !.pc = "apply"]
               r2 == [ready EXCEPT !.pc = "bury"]
               r3 == [ready EXCEPT !.pc = "ntScan", !.todo = branch.sealed]
               r4 == [req[p] EXCEPT !.pc = "condScan", !.snap = branch, !.todo = Layers(branch)]
               r5 == [req[p] EXCEPT !.pc = "updateWrite", !.seen = e,
                                    !.view = Blank, !.snap = NoBranch]
               r6 == [req[p] EXCEPT !.pc = "bury"]
               r7 == [req[p] EXCEPT !.pc = "delScan", !.todo = Layers(req[p].pre)]
               r8 == [NotStarted EXCEPT !.pc = "retry", !.tries = req[p].tries]
               r9 == [req[p] EXCEPT !.pc = "recheck", !.view = Blank, !.seen = NoEntry]
               moves == {r1, r2, r3, r4, r5, r6, r7, r8, r9}
    <2>1. Kind(p) \in Writes
        BY FirstFields, <1>3 DEF Write, WriteBegin, SetApply, CondDeref, UpdateRead, UpdateWrite, DeleteApply,
              Bury, DeleteDropKey, Recheck, NothingToDelete, FoundValue, FoundBuried, FoundNothing,
              Scanned, ReadDone, Placed, Writes
    <2>2. Kind(p) \notin HeadUpdates \cup {"commit"}
        BY <2>1 DEF Writes, BlindWrites, CondWrites, Deletes, HeadUpdates
    <2>3. ASSUME NEW r \in moves
          PROVE  /\ r.snap \in {NoBranch, req[p].snap, branch}
                 /\ r.pre \in {NoBranch, req[p].pre, branch}
                 /\ r.todo \in {<<>>, req[p].todo, branch.sealed, Layers(branch), Layers(req[p].pre)}
                 /\ r.drop \in {<<>>, req[p].drop}
        BY DEF Requested, NotStarted
    <2>4. Origin \notin Range(<<>>)
        BY DEF Range
    <2>5. \/ \E r \in moves : Go(p, r)
          \/ \E o \in Over : Finish(p, o)
        BY DEF Write, WriteBegin, SetApply, CondDeref, UpdateRead, UpdateWrite, DeleteApply, Bury, DeleteDropKey, Recheck,
               BranchNotFound, Stage, Over
    <2> HIDE DEF moves
    <2>6. ASSUME NEW r \in moves PROVE FirstState(p, r)
        BY <1>3, <2>2, <2>3, <2>4, FirstFields DEF FirstState
    <2>7. QED
        BY <1>1, <2>2, <2>5, <2>6, FirstGo, FirstFinish
<1>4. QED
    BY <1>2, <1>3

LEMMA FirstRead ==
    ASSUME TypeInv, StoreInv, FirstInv, NEW p \in Requests, Read(p)
    PROVE  FirstInv'
<1> USE RequestFields
<1> DEFINE r1 == [req[p] EXCEPT !.pc = "getScan", !.snap = branch, !.todo = Layers(branch)]
           result == Overlay(req[p].view, Base(req[p].snap))
           shown  == IF Kind(p) = "list" THEN Keys ELSE {Key(p)}
           r2 == [NotStarted EXCEPT !.pc = "ok",
                     !.view = [k \in Keys |-> IF k \in shown THEN result[k] ELSE NoEntry]]
<1>1. CASE ~Pristine
    BY <1>1, OtherBranch DEF Read, ReadBegin, ReadEnd, StoreUnchanged, BranchNotFound
<1>2. CASE Pristine
    <2>1. Kind(p) \notin HeadUpdates \cup {"commit"}
        BY <1>2, FirstFields DEF Read, ReadBegin, ReadEnd, ReadDone, Placed, Reads, HeadUpdates
    <2>2. BranchNotFound(p) \/ ((Go(p, r1) \/ Go(p, r2)) /\ StoreUnchanged)
        BY DEF Read, ReadBegin, ReadEnd
    <2>3. /\ r1.snap = branch /\ r1.pre = req[p].pre /\ r1.todo = Layers(branch) /\ r1.drop = req[p].drop
          /\ r2.snap = NoBranch /\ r2.pre = NoBranch /\ r2.todo = <<>> /\ r2.drop = <<>>
        BY DEF Requested, NotStarted
    <2> HIDE DEF r1, r2
    <2>4. FirstState(p, r1) /\ FirstState(p, r2)
        BY <1>2, <2>1, <2>3, FirstFields, FirstFresh DEF FirstState
    <2>5. QED
        BY <2>2, <2>4, FirstFails, FirstStays
<1>3. QED
    BY <1>1, <1>2

\* The steps of commits and of what moves the head: they come no further
\* than the seal.
LEMMA FirstHeads ==
    ASSUME TypeInv, StoreInv, FirstInv, NEW p \in Requests,
           Commit(p) \/ Seal(p) \/ Publish(p) \/ HeadUpdate(p) \/ Dirty(p)
    PROVE  FirstInv'
<1> USE RequestFields
<1>1. ASSUME NEW new, Replace(p, new), Pristine, new.staging # Origin PROVE FirstInv'
    BY <1>1, FirstEnds
<1>2. branch # NoBranch => SealedRecord(p).staging = p /\ p # Origin
    BY RecordFields, StagingAssumption
<1>3. CASE Dirty(p)
    BY <1>3, FirstFails DEF Dirty
<1>4. CASE CommitSealRead(p)
    BY <1>4, FirstBegin DEF CommitSealRead, Sealing
<1>5. CASE PrepareBegin(p)
    BY <1>5, FirstBegin, FirstFields DEF PrepareBegin, Sealing
<1>6. CASE Seal(p)
    <2>1. CASE Replace(p, SealedRecord(p))
        BY <1>2, <2>1, FirstEnds DEF Replace, Unmoved
    <2>2. CASE LostRace(p, "prepare", Kind(p) # "commit")
        BY <2>2, FirstLost DEF Sealing
    <2>3. QED
        BY <1>6, <2>1, <2>2 DEF Seal
<1>7. CASE /\ CommitRead(p) \/ AddCommit(p) \/ Publish(p) \/ HeadBegin(p) \/ MergeCommit(p)
                  \/ RevertCommit(p) \/ HeadPublish(p)
    <2>1. /\ req[p].pc \in Sealing \cup {"headScan"}
          /\ Kind(p) \in HeadUpdates \cup {"commit"}
        BY <1>7 DEF CommitRead, AddCommit, Publish, HeadBegin, MergeCommit, RevertCommit, HeadPublish, ReadDone,
               Sealing, HeadUpdates
    <2>2. ~Pristine
        BY <2>1 DEF FirstInv, FirstState
    <2>3. CASE branch' = branch
        BY <2>2, <2>3, OtherBranch
    <2>4. CASE \E c : Replace(p, Published(p, c))
        BY <2>2, <2>4, RecordFields DEF Replace, Unmoved, FirstInv, Pristine
    <2>5. QED
        BY <1>7, <2>3, <2>4 DEF CommitRead, AddCommit, Publish, HeadBegin, MergeCommit, RevertCommit, HeadPublish,
               UpdateBegin, BranchNotFound, AddPatch, LostRace, StoreUnchanged
<1>8. QED
    BY <1>3, <1>4, <1>5, <1>6, <1>7 DEF Commit, HeadUpdate

\* Nothing but the first commit is known.
LEMMA FirstKnown ==
    ASSUME TypeInv, FirstInv, Pristine
    PROVE  Known = {Origin}
    BY DEF FirstInv, FirstStore, Known

\* One entry is staged, and the request moves on.
LEMMA FirstReset ==
    ASSUME TypeInv, StoreInv, FirstInv, NEW p \in Requests, Reset(p)
    PROVE  FirstInv'
<1> USE RequestFields
<1>1. p # Origin
    BY StagingAssumption
<1>2. Kind(p) \in Resets /\ Kind(p) \notin HeadUpdates \cup {"commit"}
    BY ResetUndoes DEF Resets, HeadUpdates
<1>3. CASE ResetBegin(p)
    BY <1>2, <1>3, FirstBegin DEF ResetBegin
<1>4. CASE ResetPublish(p)
    <2>1. CASE Replace(p, ResetRecord(p))
        <3>1. ResetRecord(p).staging = p
            BY <2>1, RecordFields DEF Replace, Unmoved
        <3>2. QED
            BY <1>1, <2>1, <3>1, FirstEnds
    <2>2. QED
        BY <1>2, <1>4, <2>1, FirstLost DEF ResetPublish
<1>5. CASE HardBegin(p)
    BY <1>2, <1>5, FirstBegin, FirstFields DEF HardBegin
<1>6. CASE HardDeref(p)
    <2>1. CASE BranchNotFound(p)
        BY <2>1, FirstFails
    <2>2. CASE ~Pristine
        BY <1>6, <2>2, OtherBranch DEF HardDeref, BranchNotFound, StoreUnchanged
    <2>3. CASE Pristine /\ ~BranchNotFound(p)
        <3>1. StoreUnchanged /\ Go(p, [req[p] EXCEPT !.pc = "publish", !.pre = [branch EXCEPT !.commit = Origin]])
            BY <1>6, <2>3, FirstKnown DEF HardDeref
        <3>2. branch = First /\ [First EXCEPT !.commit = Origin] = First
            BY <2>3, FirstFields DEF First
        <3> DEFINE r == [req[p] EXCEPT !.pc = "publish", !.pre = First]
        <3>3. r.pre = First /\ r.snap = req[p].snap /\ r.todo = req[p].todo /\ r.drop = req[p].drop
            BY DEF Requested
        <3> HIDE DEF r
        <3>4. FirstState(p, r)
            BY <1>2, <2>3, <3>3, FirstFields DEF FirstState
        <3>5. QED
            BY <3>1, <3>2, <3>4, FirstStays DEF r
    <2>4. QED
        BY <2>1, <2>2, <2>3
<1>7. CASE HardPublish(p)
    <2> DEFINE new == [branch EXCEPT !.commit = req[p].pre.commit]
    <2>1. CASE Replace(p, new) /\ Finish(p, "ok")
        <3>1. branch # NoBranch /\ branch' = new
            BY <2>1 DEF Replace, Unmoved
        <3>2. new.staging = branch.staging
            BY <3>1, RecordFields
        <3>3. CASE ~Pristine
            BY <3>1, <3>2, <3>3 DEF FirstInv, Pristine
        <3>4. CASE Pristine
            <4>1. req[p].pre = First /\ branch = First
                BY <1>7, <3>4, FirstFields DEF HardPublish, Held, FirstState
            <4>2. [First EXCEPT !.commit = First.commit] = First
                BY DEF First
            <4>3. branch' = branch
                BY <3>1, <4>1, <4>2
            <4>4. QED
                BY <1>2, <2>1, <4>3, FirstFinish DEF Replace, stagingVars, cleanerVars, Over
        <3>5. QED
            BY <3>3, <3>4
    <2>2. QED
        BY <1>2, <1>7, <2>1, FirstLost DEF HardPublish
<1>8. ASSUME UNCHANGED <<branch, commits, fetched, cleanup>>, DropThen(p, <<p>>) PROVE FirstInv'
    <2>1. Origin \notin Range(<<p>>)
        BY <1>1 DEF Range
    <2>2. QED
        BY <1>2, <1>8, <2>1, FirstDrop
<1>9. CASE KeyBegin(p) \/ PrefixDiff(p) \/ PrefixScanned(p) \/ PrefixUndo(p)
    <2> DEFINE r1 == [req[p] EXCEPT !.pc = "keyScan", !.pre = branch, !.todo = Layers(branch)]
               r2 == [req[p] EXCEPT !.pc = "prefixScan", !.pre = branch, !.todo = Layers(branch)]
               r3 == [req[p] EXCEPT !.pc = "prefixWrite",
                         !.left = {k \in Changes(req[p].view, Base(req[p].pre)) :
                                      NeedsReset(req[p].snap, k, req[p].view[k])}]
               r4(k) == [req[p] EXCEPT !.left = @ \ {k}]
               moves == {r1, r2, r3} \cup {r4(k) : k \in req[p].left}
    <2>1. UNCHANGED <<branch, commits, fetched, cleanup>>
        BY <1>9 DEF KeyBegin, PrefixDiff, PrefixScanned, PrefixUndo, StoreUnchanged, BranchNotFound, stagingVars,
               cleanerVars, UndoKey, Put
    <2>2. CASE ~Pristine
        BY <2>1, <2>2, OtherBranch
    <2>3. CASE Pristine
        <3>1. \/ BranchNotFound(p) \/ DropThen(p, <<p>>)
              \/ \E r \in moves : Go(p, r)
            BY <1>9 DEF KeyBegin, PrefixDiff, PrefixScanned, PrefixUndo
        <3>2. ASSUME NEW r \in moves
              PROVE  /\ r.snap = req[p].snap /\ r.pre \in {req[p].pre, branch}
                     /\ r.todo \in {req[p].todo, Layers(branch)} /\ r.drop = req[p].drop
            BY DEF Requested
        <3> HIDE DEF moves
        <3>3. ASSUME NEW r \in moves PROVE FirstState(p, r)
            BY <1>2, <2>3, <3>2, FirstFields DEF FirstState
        <3>4. QED
            BY <1>8, <2>1, <3>1, <3>3, FirstGo, FirstFails
    <2>4. QED
        BY <2>2, <2>3
<1>10. CASE KeyReset(p)
    <2>1. UNCHANGED <<branch, commits, fetched, cleanup>>
        BY <1>10 DEF KeyReset, StoreUnchanged, stagingVars, cleanerVars, UndoKey, Put
    <2>2. QED
        BY <1>2, <1>10, <2>1, FirstFinish DEF KeyReset, Over
<1>11. CASE PrefixBegin(p)
    <2>1. CASE DropThen(p, <<p>>) /\ StoreUnchanged
        BY <1>8, <2>1 DEF StoreUnchanged, stagingVars, cleanerVars
    <2>2. QED
        BY <1>2, <1>11, <2>1, FirstBegin DEF PrefixBegin
<1>12. CASE PrefixPublish(p)
    <2>1. CASE Replace(p, SealedRecord(p))
        <3>1. SealedRecord(p).staging = p
            BY <2>1, RecordFields DEF Replace, Unmoved
        <3>2. QED
            BY <1>1, <2>1, <3>1, FirstEnds
    <2>2. CASE DropThen(p, <<p>>) /\ StoreUnchanged
        BY <1>8, <2>2 DEF StoreUnchanged, stagingVars, cleanerVars
    <2>3. QED
        BY <1>12, <2>1, <2>2 DEF PrefixPublish
<1>13. QED
    BY <1>3, <1>4, <1>5, <1>6, <1>7, <1>9, <1>10, <1>11, <1>12 DEF Reset

LEMMA FirstLifecycle ==
    ASSUME TypeInv, StoreInv, FirstInv, NEW p \in Requests, BranchLifecycle(p) \/ DropToken(p) \/ Stop(p)
    PROVE  FirstInv'
<1> USE RequestFields
<1>1. CASE DeleteBranchRead(p)
    BY <1>1, FirstBegin DEF DeleteBranchRead, Lifecycle, Sealing
<1>2. CASE DeleteBranchApply(p)
    <2>1. CASE branch' = NoBranch
        BY <2>1, FirstRecord DEF FirstInv, Pristine
    <2>2. QED
        BY <1>2, <2>1, FirstFails DEF DeleteBranchApply
<1>3. CASE CreateBranchRead(p)
    <2> DEFINE r == [req[p] EXCEPT !.pc = "create"]
    <2>1. r.pc = "create" /\ r.pre = req[p].pre /\ r.snap = req[p].snap /\ r.todo = req[p].todo /\ r.drop = req[p].drop
        BY DEF Requested
    <2>2. (Finish(p, "failed") \/ Go(p, r)) /\ StoreUnchanged
        BY <1>3 DEF CreateBranchRead
    <2> HIDE DEF r
    <2>3. CASE Pristine
        <3>1. FirstState(p, r)
            BY <2>1, <2>3, FirstFields DEF FirstState, Sealing
        <3>2. QED
            BY <2>2, <3>1, FirstFails, FirstStays
    <2>4. CASE ~Pristine
        BY <2>2, <2>4, OtherBranch DEF StoreUnchanged
    <2>5. QED
        BY <2>3, <2>4
<1>4. CASE CreateBranchApply(p)
    <2>1. CASE branch'.staging = p
        BY <2>1, StagingAssumption DEF FirstInv, Pristine
    <2>2. QED
        BY <1>4, <2>1, FirstFails DEF CreateBranchApply
<1>5. CASE DropToken(p)
    <2>1. CASE ~Pristine
        BY <1>5, <2>1, OtherBranch DEF DropToken
    <2>2. CASE Pristine
        <3>1. req[p].drop \in Seq(Tokens) /\ req[p].drop # <<>>
            BY <1>5 DEF DropToken, Held, Requested
        <3>2. Head(req[p].drop) \in Range(req[p].drop) /\ Range(Tail(req[p].drop)) \subseteq Range(req[p].drop)
              /\ Head(req[p].drop) \in Tokens
            BY <3>1, RangeFacts, HeadTailProperties
        <3>3. Origin \notin Range(req[p].drop) /\ Kind(p) \notin HeadUpdates \cup {"commit"}
            BY <1>5, <2>2, FirstFields DEF FirstState, DropToken, Sealing
        <3>4. UNCHANGED <<branch, commits, fetched>> /\ cleanup' = cleanup \cup {Head(req[p].drop)}
            BY <1>5 DEF DropToken, DropAsync, cleanerVars
        <3>5. Origin \notin Range(Tail(req[p].drop)) /\ cleanup' \subseteq cleanup \cup (Tokens \ {Origin})
            BY <3>2, <3>3, <3>4
        <3>6. QED
            BY <1>5, <3>3, <3>4, <3>5, FirstDrop DEF DropToken
    <2>3. QED
        BY <2>1, <2>2
<1>6. CASE Stop(p)
    BY <1>6, FirstFails DEF Stop
<1>7. QED
    BY <1>1, <1>2, <1>3, <1>4, <1>5, <1>6 DEF BranchLifecycle

\* The cleanup finds no other tokens than are listed.
LEMMA FirstClean ==
    ASSUME TypeInv, FirstInv, NEW s \in Servers, CleanStep(s)
    PROVE  FirstInv'
<1>1. UNCHANGED <<task, branch, commits, req, before>>
    BY DEF CleanStep, requestVars
<1>2. Condemned' \subseteq Condemned
    <2>1. fetched \in [Servers -> SUBSET Tokens]
        BY DEF TypeInv, StoreTyped, StagingTypeOK
    <2>2. CASE FindTokens(s)
        BY <2>1, <2>2 DEF FindTokens, Condemned
    <2>3. CASE ScanToken(s) \/ DropEntry(s)
        BY <2>3 DEF ScanToken, DropEntry, Condemned
    <2>4. CASE UnlistToken(s)
        BY <2>1, <2>4 DEF UnlistToken, Condemned
    <2>5. QED
        BY <2>2, <2>3, <2>4 DEF CleanStep, Clean
<1>3. QED
    BY <1>1, <1>2 DEF FirstInv, FirstStore, FirstState, Pristine, Kind

LEMMA NextFirst ==
    ASSUME TypeInv, StoreInv, FirstInv, [Next]_vars
    PROVE  FirstInv'
<1>1. ASSUME NEW p \in Requests, Step(p) \/ Stop(p) PROVE FirstInv'
    BY <1>1, FirstReadToken, FirstWrite, FirstRead, FirstHeads, FirstReset, FirstLifecycle DEF Step
<1>2. ASSUME NEW s \in Servers, CleanStep(s) PROVE FirstInv'
    BY <1>2, FirstClean
<1>3. CASE UNCHANGED vars
    BY <1>3 DEF vars, stagingVars, requestVars, FirstInv, FirstStore, FirstState, Pristine, Kind, Condemned
<1>4. QED
    BY <1>1, <1>2, <1>3 DEF Next, Quiet

LEMMA InitFirst == Init => FirstInv
<1> SUFFICES ASSUME Init PROVE FirstInv
    OBVIOUS
<1>1. FirstStore
    BY StagingAssumption DEF Init, StagingInit, FirstStore, First, Foundation, Condemned, Writers, NoCommit
<1>2. \A p \in Requests : FirstState(p, req[p])
    BY FirstFresh DEF Init, NotStarted, Sealing
<1>3. QED
    BY <1>1, <1>2 DEF FirstInv

-----------------------------------------------------------------------------
(* What a step leaves of what the others rely on.                          *)

LEMMA PristineKept ==
    ASSUME TypeInv, NEW p \in Requests, Sound(p), Pristine'
    PROVE  Pristine
<1>1. p # Origin /\ NoBranch.staging # Origin
    BY FirstRecord, StagingAssumption
<1>2. branch'.staging \in {branch.staging, NoBranch.staging, p}
    BY DEF Sound, Renames
<1>3. QED
    BY <1>1, <1>2 DEF Pristine

LEMMA FoundationType == Foundation \in Contents /\ \A k \in Keys : Foundation[k].live <=> k \in Initial
    BY EntryTypes DEF Foundation, Contents, NoEntry, Value, Writers

LEMMA NowType ==
    ASSUME TypeInv, NEW k \in Keys
    PROVE  Now(k) \in Entries /\ staged[Origin] \in Contents /\ staged[Origin][k] \in Entries
    BY FoundationType DEF Now, Contents, TypeInv, StoreTyped, StagingTypeOK, Tokens

\* A request that discards nothing leaves an entry, or stages its own.
LEMMA OriginStaged ==
    ASSUME TypeInv, StoreInv, NEW p \in Requests, Step(p) \/ Stop(p), Kind(p) \notin Undoing, NEW k \in Keys
    PROVE  staged'[Origin][k] = staged[Origin][k] \/ (staged'[Origin][k] \in Entries /\ staged'[Origin][k].by = p)
<1>1. Discreet(p)
    BY StepDiscreet
<1>2. staged' = staged \/ Inks(p)
    BY <1>1 DEF Discreet, Calm, Seals, Publishes, Creates, stagingVars
<1>3. staged \in [Tokens -> [Keys -> Entries]] /\ Origin \in Tokens
    BY DEF TypeInv, StoreTyped, StagingTypeOK, Tokens
<1>4. ASSUME NEW t \in Tokens, NEW j \in Keys, NEW e \in Entries, e.by = p,
             staged' = [staged EXCEPT ![t][j] = e]
      PROVE  staged'[Origin][k] \in {staged[Origin][k], e}
    BY <1>3, <1>4
<1>5. QED
    BY <1>2, <1>4 DEF Inks

LEMMA NowSteps ==
    ASSUME TypeInv, StoreInv, NEW p \in Requests, Step(p) \/ Stop(p), Kind(p) \notin Undoing, NEW k \in Keys
    PROVE  /\ Now(k)' = Now(k) \/ (Now(k)' \in Entries /\ Now(k)'.by = p)
           /\ Exists(staged[Origin][k]) => Exists(staged[Origin][k])'
<1>1. p # NoOne
    BY StagingAssumption
<1>2. QED
    BY <1>1, OriginStaged DEF Now, Exists

\* What honours the write or the delete of another request goes on to do so.
LEMMA OtherHonoured ==
    ASSUME TypeInv, StoreInv, NEW p \in Requests, Step(p) \/ Stop(p), NEW w \in Requests, w # p
    PROVE  /\ \A e \in Entries : Honours(w, e) => Honours(w, e)'
           /\ \A k \in Keys : Honours(w, Now(k)) => Honours(w, Now(k))'
<1> USE StepSound
<1>1. ASSUME NEW e \in Entries, Honours(w, e) PROVE Honours(w, e)'
    BY <1>1, OtherKept DEF Honoured
<1>2. ASSUME NEW k \in Keys, Honours(w, Now(k)) PROVE Honours(w, Now(k))'
    <2>1. CASE Kind(p) \in Undoing
        <3>1. p \notin before[w] /\ before'[w] = before[w] /\ req'[p].pc # "start" /\ Kind(p)' = Kind(p)
            BY SoundFacts DEF StoreInv, Order
        <3>2. \E r \in Requests \ before'[w] : Undoes(r)'
            BY <2>1, <3>1 DEF Undoes, Undoing
        <3>3. QED
            BY <3>2 DEF Honours
    <2>2. CASE Kind(p) \notin Undoing
        <3>1. CASE Now(k)' = Now(k)
            <4>1. Honours(w, Now(k)) => \A e \in {Now(k)} : Honours(w, e)'
                BY <1>1, NowType
            <4>2. QED
                BY <1>2, <3>1, <4>1 DEF Honours
        <3>2. CASE Now(k)' \in Entries /\ Now(k)'.by = p
            <4>1. Now(k)' \in Newer(w) /\ before'[w] = before[w]
                BY <3>2, OtherKept
            <4>2. QED
                BY <4>1 DEF Honours, Newer
        <3>3. QED
            BY <2>2, <3>1, <3>2, NowSteps
    <2>3. QED
        BY <2>1, <2>2
<1>3. QED
    BY <1>1, <1>2

LEMMA EarlierKept ==
    ASSUME TypeInv, StoreInv, NEW p \in Requests, Sound(p), NEW q \in Requests, q # p \/ req[p].pc # "start"
    PROVE  Earlier(q)' = Earlier(q) /\ \A w \in Earlier(q) : w \in Requests /\ w # p
<1>1. before'[q] = before[q] /\ before[q] \subseteq Requests
    BY SoundFacts DEF TypeInv, RequestsTyped
<1>2. \A o \in before[q] : o # p /\ req'[o] = req[o]
    BY <1>1, SoundFacts DEF StoreInv, Order
<1>3. QED
    BY <1>1, <1>2 DEF Earlier, Succeeded

LEMMA AnswersKept ==
    ASSUME TypeInv, StoreInv, NEW p \in Requests, Step(p) \/ Stop(p), NEW q \in Requests, q # p \/ req[p].pc # "start",
           NEW v \in Contents, Answers(q, v)
    PROVE  Answers(q, v)'
<1>1. \A r \in Requests : Kind(r)' = Kind(r) /\ Key(r)' = Key(r)
    BY StepSound, SoundFacts
<1>2. Earlier(q)' = Earlier(q) /\ \A w \in Earlier(q) : w \in Requests /\ w # p
    BY StepSound, EarlierKept
<1>3. ASSUME NEW w \in Earlier(q), Kind(w) \in Sets, Kind(q) = "list" \/ Key(q) = Key(w)
      PROVE  Honours(w, v[Key(w)])'
    <2>1. Key(w) \in Keys /\ v[Key(w)] \in Entries /\ Honours(w, v[Key(w)])
        BY <1>2, <1>3, RequestFields DEF Answers, Contents
    <2>2. Honours(w, v[Key(w)]) => \A e \in {v[Key(w)]} : Honours(w, e)'
        BY <1>2, <2>1, OtherHonoured
    <2>3. Key(w)' = Key(w)
        BY <1>1, <1>2
    <2>4. QED
        BY <2>1, <2>2, <2>3 DEF Honours
<1>4. QED
    BY <1>1, <1>2, <1>3 DEF Answers

LEMMA SteadyBack ==
    ASSUME TypeInv, NEW p \in Requests, Sound(p), NEW k, Steady(k)'
    PROVE  Steady(k) /\ Kind(p) \notin Undoing
<1>1. \A r \in Requests : /\ Kind(r)' = Kind(r) /\ Key(r)' = Key(r)
                          /\ req[r].pc # "start" => req'[r].pc # "start"
    BY SoundFacts
<1>2. req'[p].pc # "start"
    BY SoundFacts
<1>3. QED
    BY <1>1, <1>2 DEF Steady, Undoes, Undoing

-----------------------------------------------------------------------------
(* The steps of readers, writers and deleters themselves.                  *)

LEMMA ReadTokenStays ==
    ASSUME TypeInv, NEW p \in Requests, ReadToken(p)
    PROVE  /\ req'[p].pc = req[p].pc /\ req'[p].pre = req[p].pre /\ req'[p].snap = req[p].snap
           /\ req[p].pc \in Scans /\ StoreUnchanged
           /\ Kind(p) \in PointReads =>
                /\ req'[p].view = [req[p].view EXCEPT ![Key(p)] = staged[Head(req[p].todo)][Key(p)]]
                /\ req'[p].todo = IF Exists(staged[Head(req[p].todo)][Key(p)]) THEN <<>> ELSE Tail(req[p].todo)
           /\ Kind(p) \notin PointReads =>
                /\ req'[p].view = Overlay(req[p].view, staged[Head(req[p].todo)])
                /\ req'[p].todo = Tail(req[p].todo)
<1> USE RequestFields
<1> DEFINE e  == staged[Head(req[p].todo)]
           t1 == IF Exists(e[Key(p)]) THEN <<>> ELSE Tail(req[p].todo)
           r1 == [req[p] EXCEPT !.view[Key(p)] = e[Key(p)], !.todo = t1]
           r2 == [req[p] EXCEPT !.view = Overlay(req[p].view, e), !.todo = Tail(req[p].todo)]
<1>1. Kind(p) \in PointReads => req'[p] = r1
    BY Moved DEF ReadToken
<1>2. Kind(p) \notin PointReads => req'[p] = r2
    BY Moved DEF ReadToken
<1>3. /\ r1.pc = req[p].pc /\ r1.pre = req[p].pre /\ r1.snap = req[p].snap
      /\ r1.view = [req[p].view EXCEPT ![Key(p)] = e[Key(p)]] /\ r1.todo = t1
    BY DEF Requested
<1>4. /\ r2.pc = req[p].pc /\ r2.pre = req[p].pre /\ r2.snap = req[p].snap
      /\ r2.view = Overlay(req[p].view, e) /\ r2.todo = Tail(req[p].todo)
    BY DEF Requested
<1> HIDE DEF r1, r2
<1>5. QED
    BY <1>1, <1>2, <1>3, <1>4 DEF ReadToken

LEMMA StopsFailed ==
    ASSUME TypeInv, NEW p \in Requests, Stop(p) \/ BranchNotFound(p) \/ Finish(p, "failed")
    PROVE  req'[p].pc = "failed"
    BY Moved DEF Stop, BranchNotFound, Finish, NotStarted

LEMMA Staging ==
    ASSUME TypeInv, NEW p \in Requests, NEW e, Stage(p, e)
    PROVE  /\ req'[p].pc = "recheck" /\ req'[p].pre = req[p].pre /\ branch' = branch
           /\ req[p].pre.staging = Origin => staged'[Origin][Key(p)] = e
<1> DEFINE r == [req[p] EXCEPT !.pc = "recheck", !.view = Blank, !.seen = NoEntry]
<1>1. r.pc = "recheck" /\ r.pre = req[p].pre
    BY RequestFields DEF Requested
<1>2. req'[p] = r
    BY Moved DEF Stage
<1> HIDE DEF r
<1>3. Key(p) \in Keys /\ Origin \in Tokens
    BY RequestFields DEF Tokens
<1>4. QED
    BY <1>1, <1>2, <1>3 DEF Stage, Put, TypeInv, StoreTyped, StagingTypeOK

\* A write counts only if the branch has the token it was staged on.
LEMMA Rechecking ==
    ASSUME TypeInv, NEW p \in Requests, Recheck(p), Kind(p) \notin Reads
    PROVE  \/ req'[p].pc \in {"failed", "retry"}
           \/ /\ req'[p].pc = "ok" /\ branch.staging = req[p].pre.staging /\ branch # NoBranch
              /\ StoreUnchanged
<1>1. CASE BranchNotFound(p) \/ Finish(p, "failed")
    BY <1>1, StopsFailed
<1>2. CASE Go(p, [NotStarted EXCEPT !.pc = "retry", !.tries = req[p].tries])
    BY <1>2, Moved DEF NotStarted
<1>3. CASE branch # NoBranch /\ branch.staging = req[p].pre.staging /\ Finish(p, "ok") /\ StoreUnchanged
    BY <1>3, Moved DEF Finish, NotStarted
<1>4. QED
    BY <1>1, <1>2, <1>3 DEF Recheck

LEMMA SelfHonoured ==
    ASSUME TypeInv, StoreInv, NEW p \in Requests, Sound(p), req[p].pc # "start"
    PROVE  /\ before'[p] = before[p] /\ p \notin before[p] /\ p \notin {Origin, NoOne}
           /\ \A e : Honours(p, e) => Honours(p, e)'
           /\ Kind(p) \in Deletes => Buries(p)'
<1>1. before'[p] = before[p] /\ p \notin before[p] /\ p \notin {Origin, NoOne}
    BY SoundFacts, StagingAssumption DEF StoreInv, Order
<1>2. /\ \A r \in Requests : Kind(r)' = Kind(r) /\ Key(r)' = Key(r)
      /\ \A r \in Requests : req[r].pc # "start" => req'[r].pc # "start"
      /\ req'[p].pc # "start"
    BY SoundFacts
<1>3. Buries(p) => Buries(p)'
    BY <1>1, <1>2 DEF Buries
<1>4. Undone(p) => Undone(p)'
    BY <1>1, <1>2 DEF Undone, Undoes
<1>5. ASSUME NEW e, Honours(p, e) PROVE Honours(p, e)'
    BY <1>1, <1>3, <1>4, <1>5 DEF Honours, Undone
<1>6. Kind(p) \in Deletes => Buries(p)'
    BY <1>1, <1>2 DEF Buries
<1>7. QED
    BY <1>1, <1>5, <1>6

LEMMA OwnSet ==
    ASSUME TypeInv, StoreInv, Pristine, NEW p \in Requests, Kind(p) \in Sets, Step(p) \/ Stop(p),
           StagedHolds(p)
    PROVE  StagedHolds(p)'
<1>1. Kind(p)' = Kind(p) /\ Key(p)' = Key(p) /\ Kind(p) # "delete" /\ Key(p) \in Keys
    BY StepSound, SoundFacts, RequestFields DEF Sets, BlindWrites, CondWrites
<1> SUFFICES ASSUME Landed(p)' PROVE Honours(p, Now(Key(p)))'
    BY <1>1 DEF StagedHolds
<1>2. CASE Stage(p, Value(p)) /\ req[p].pc # "start"
    <2>1. staged'[Origin][Key(p)] = Value(p)
        BY <1>2, Staging DEF Landed
    <2>2. Now(Key(p))' = Value(p) /\ p \notin before'[p] \cup {Origin, NoOne}
        BY <1>1, <1>2, <2>1, SelfHonoured, StepSound DEF Now, Exists, Value
    <2>3. QED
        BY <2>2 DEF Honours, Value
<1>3. CASE /\ req[p].pc = "recheck" /\ branch # NoBranch /\ branch.staging = req[p].pre.staging
           /\ UNCHANGED <<branch, commits, staged>>
    <2>1. Honours(p, Now(Key(p))) /\ Now(Key(p))' = Now(Key(p))
        BY <1>1, <1>3 DEF Landed, Pristine, StagedHolds, Now
    <2>2. \A e : Honours(p, e) => Honours(p, e)'
        BY <1>3, SelfHonoured, StepSound
    <2>3. \A e \in {Now(Key(p))} : Honours(p, e)'
        BY <2>1, <2>2
    <2>4. QED
        BY <2>1, <2>3 DEF Honours
<1>4. QED
    BY <1>2, <1>3, WriterSteps DEF Landed

LEMMA OwnDelete ==
    ASSUME TypeInv, StoreInv, FirstInv, Pristine, NEW p \in Requests, Kind(p) = "delete", Step(p) \/ Stop(p),
           StagedHolds(p)
    PROVE  StagedHolds(p)'
<1> USE RequestFields
<1>1. Kind(p)' = Kind(p) /\ Key(p)' = Key(p) /\ Key(p) \in Keys /\ Kind(p) \notin Sets \cup Reads /\ Kind(p) \in Deletes
      /\ Kind(p) \in PointReads
    BY StepSound, SoundFacts DEF Sets, BlindWrites, CondWrites, Reads, Deletes, PointReads, Writes
<1> DEFINE lost == req'[p].pc \in {"failed", "retry", "apply", "bury"}
<1>2. lost => StagedHolds(p)'
    BY <1>1 DEF StagedHolds, Landed, Seeks, Unfound
<1>3. ASSUME req[p].pc # "start", ~Now(Key(p))'.live PROVE Honours(p, Now(Key(p)))'
    <2>1. Buries(p)'
        BY <1>1, <1>3, SelfHonoured, StepSound
    <2>2. QED
        BY <1>1, <1>3, <2>1 DEF Honours, Buries
<1>4. ASSUME Stage(p, Tombstone(p)), req[p].pc # "start" PROVE StagedHolds(p)'
    <2>1. req'[p].pc = "recheck" /\ (Landed(p)' => staged'[Origin][Key(p)] = Tombstone(p))
        BY <1>4, Staging DEF Landed
    <2>2. Landed(p)' => ~Now(Key(p))'.live
        BY <1>1, <2>1, StagingAssumption DEF Now, Exists, Tombstone
    <2>3. QED
        BY <1>1, <1>3, <1>4, <2>1, <2>2 DEF StagedHolds, Seeks, Unfound
<1>5. CASE Stop(p)
    BY <1>2, <1>5, StopsFailed
<1>6. CASE ReadToken(p)
    <2>1. req'[p].pc = req[p].pc /\ req'[p].pre = req[p].pre /\ staged' = staged /\ req[p].pc \in Scans
          /\ req'[p].view[Key(p)] = staged[Head(req[p].todo)][Key(p)]
        BY <1>1, <1>6, ReadTokenStays DEF StoreUnchanged, stagingVars, Requested, Contents
    <2>2. ~Landed(p)' /\ req'[p].pc # "ntScan" /\ (Seeks(p)' => Seeks(p))
        BY <1>1, <2>1 DEF Landed, Seeks, Unfound, StagedHolds, Scans
    <2>3. ASSUME Seeks(p)', Exists(req'[p].view[Key(p)]) => ~req'[p].view[Key(p)].live
          PROVE  Honours(p, Now(Key(p)))'
        <3>1. req[p].todo = <<Origin>> /\ Head(<<Origin>>) = Origin
            BY <1>6, FirstFields DEF FirstState, ReadToken
        <3>2. ~Now(Key(p))'.live
            BY <1>1, <2>1, <2>2, <2>3, <3>1, FoundationType DEF Now, StagedHolds
        <3>3. QED
            BY <1>3, <2>1, <3>2 DEF Scans
    <2>4. QED
        BY <1>1, <2>2, <2>3 DEF StagedHolds, Seeks, Unfound
<1>7. CASE WriteBegin(p)
    <2> DEFINE r == [[req[p] EXCEPT !.pre = branch, !.tries = @ + 1] EXCEPT !.pc = "apply"]
    <2>1. BranchNotFound(p) \/ Go(p, r)
        BY <1>7 DEF WriteBegin
    <2>2. r.pc = "apply"
        BY DEF Requested
    <2> HIDE DEF r
    <2>3. QED
        BY <1>2, <2>1, <2>2, Moved, StopsFailed
<1>8. CASE DeleteApply(p)
    <2> DEFINE r1 == [req[p] EXCEPT !.pc = "bury"]
               r2 == [req[p] EXCEPT !.pc = "delScan", !.todo = Layers(req[p].pre)]
    <2>1. \/ Stage(p, Tombstone(p))
          \/ Go(p, r1)
          \/ Go(p, r2) /\ ~Base(req[p].pre)[Key(p)].live
        BY <1>8 DEF DeleteApply
    <2>2. r1.pc = "bury" /\ r2.pc = "delScan" /\ r2.todo = Layers(req[p].pre) /\ r2.pre = req[p].pre
        BY DEF Requested
    <2> HIDE DEF r1, r2
    <2>3. CASE Go(p, r2) /\ ~Base(req[p].pre)[Key(p)].live
        <3>1. req'[p] = r2
            BY <2>3, Moved
        <3>2. ~Landed(p)'
            BY <2>2, <3>1 DEF Landed
        <3>3. ASSUME Seeks(p)' PROVE req'[p].todo # <<>> /\ Key(p) \notin Initial
            <4>1. req[p].pre.staging = Origin /\ FirstState(p, req[p])
                BY <2>2, <3>1, <3>3, FirstFields DEF Seeks
            <4>2. req[p].pre = First
                BY <4>1, FirstRecord DEF FirstState
            <4>3. Base(req[p].pre) = Foundation
                BY <4>2, FirstRecord, StagingAssumption DEF Base, Content, FirstInv, FirstStore
            <4>4. <<Origin>> # <<>>
                OBVIOUS
            <4>5. QED
                BY <1>1, <2>2, <2>3, <3>1, <4>2, <4>3, <4>4, FirstRecord, FoundationType
        <3>4. QED
            BY <1>1, <2>2, <3>1, <3>2, <3>3 DEF StagedHolds, Seeks, Unfound
    <2>4. QED
        BY <1>2, <1>4, <1>8, <2>1, <2>2, <2>3, Moved DEF DeleteApply
<1>9. CASE Bury(p)
    BY <1>4, <1>9 DEF Bury, FoundValue, Scanned, ReadDone
<1>10. CASE Recheck(p)
    <2>1. CASE req'[p].pc \in {"failed", "retry"}
        BY <1>2, <2>1
    <2>2. CASE req'[p].pc = "ok" /\ branch.staging = req[p].pre.staging /\ branch # NoBranch /\ StoreUnchanged
        <3>1. Landed(p) \/ Unfound(p)
            BY <1>1, <1>10, <2>2 DEF Recheck, NothingToDelete, FoundBuried, FoundNothing, Scanned, ReadDone,
                  Landed, Seeks, Unfound, Pristine, StagedHolds
        <3>2. Honours(p, Now(Key(p))) /\ Now(Key(p))' = Now(Key(p)) /\ req[p].pc # "start"
            BY <1>1, <2>2, <3>1 DEF StagedHolds, StoreUnchanged, stagingVars, Now, Landed, Seeks, Unfound
        <3>3. \A e \in {Now(Key(p))} : Honours(p, e)'
            BY <3>2, SelfHonoured, StepSound
        <3>4. Honours(p, Now(Key(p)))'
            BY <1>1, <3>2, <3>3 DEF Honours
        <3>5. QED
            BY <1>1, <2>2, <3>4 DEF StagedHolds, Seeks, Unfound
    <2>3. QED
        BY <1>1, <1>10, <2>1, <2>2, Rechecking
<1>11. CASE SetApply(p) \/ CondDeref(p) \/ UpdateRead(p) \/ UpdateWrite(p) \/ DeleteDropKey(p)
    BY <1>1, <1>11 DEF SetApply, CondDeref, UpdateRead, UpdateWrite, DeleteDropKey, StoreInv, Order, Placed, ReadDone, Sets
<1>12. QED
    BY <1>1, <1>5, <1>6, <1>7, <1>8, <1>9, <1>10, <1>11, ClientActs, ActKinds DEF Write, Writes

LEMMA OwnRead ==
    ASSUME TypeInv, StoreInv, FirstInv, Pristine, NEW p \in Requests, Kind(p) \in Reads, Step(p) \/ Stop(p),
           ReadHolds(p), \A w \in Requests : StagedHolds(w)
    PROVE  ReadHolds(p)'
<1> USE RequestFields
<1>1. Kind(p)' = Kind(p) /\ Key(p)' = Key(p) /\ Key(p) \in Keys /\ Kind(p) \notin Writes
      /\ (Kind(p) \in PointReads <=> Kind(p) # "list") /\ req'[p].pc # "start"
    BY StepSound, SoundFacts DEF Writes, BlindWrites, CondWrites, Reads, Deletes, PointReads
<1>2. CASE req'[p].pc = "failed"
    BY <1>1, <1>2 DEF ReadHolds
<1>3. CASE Stop(p)
    BY <1>2, <1>3, StopsFailed
<1>4. CASE ReadBegin(p)
    <2> DEFINE r == [req[p] EXCEPT !.pc = "getScan", !.snap = branch, !.todo = Layers(branch)]
    <2>1. BranchNotFound(p) \/ Go(p, r)
        BY <1>4 DEF ReadBegin
    <2>2. r.pc = "getScan" /\ r.snap = branch /\ r.todo = Layers(branch) /\ r.view = req[p].view
        BY DEF Requested
    <2> HIDE DEF r
    <2>3. req[p].view = Blank /\ branch = First /\ Layers(branch) = <<Origin>>
        BY <1>4, FirstFields DEF ReadHolds, ReadBegin
    <2>4. CASE Go(p, r)
        <3>1. req'[p] = r
            BY <2>4, Moved
        <3>2. QED
            BY <1>1, <2>2, <2>3, <3>1 DEF ReadHolds
    <2>5. QED
        BY <1>2, <2>1, <2>4, StopsFailed
<1>5. CASE ReadToken(p)
    <2>1. /\ req'[p].pc = req[p].pc /\ req'[p].snap = req[p].snap /\ req[p].pc = "getScan" /\ staged' = staged
          /\ req[p].todo # <<>>
        BY <1>1, <1>5, ReadTokenStays DEF StoreUnchanged, stagingVars, StoreInv, Order, Placed, Scans,
              Reads, CondWrites, Deletes, HeadUpdates, ReadToken
    <2>2. req[p].todo = <<Origin>> /\ req[p].view = Blank /\ Head(<<Origin>>) = Origin /\ Tail(<<Origin>>) = <<>>
        BY <2>1 DEF ReadHolds
    <2>3. req'[p].todo = <<>>
        BY <1>1, <1>5, <2>2, ReadTokenStays
    <2>4. ASSUME NEW k \in Keys, Kind(p) = "list" \/ Key(p) = k
          PROVE  Overlay(req'[p].view, Foundation)[k] = Now(k)
        <3>1. req'[p].view[k] = IF Kind(p) = "list" THEN Overlay(Blank, staged[Origin])[k] ELSE staged[Origin][k]
            <4>1. CASE Kind(p) = "list"
                BY <1>1, <1>5, <2>2, <4>1, ReadTokenStays
            <4>2. CASE Kind(p) # "list"
                <5>1. Kind(p) \in PointReads /\ Key(p) = k /\ Head(req[p].todo) = Origin
                    BY <1>1, <2>2, <2>4, <4>2
                <5>2. req'[p].view = [req[p].view EXCEPT ![Key(p)] = staged[Head(req[p].todo)][Key(p)]]
                    BY <1>5, <5>1, ReadTokenStays
                <5>3. req'[p].view = [Blank EXCEPT ![k] = staged[Origin][k]]
                    BY <2>2, <5>1, <5>2
                <5>4. QED
                    BY <4>2, <5>3 DEF Blank
            <4>3. QED
                BY <4>1, <4>2
        <3>2. Overlay(Blank, staged[Origin])[k] = staged[Origin][k]
            BY DEF Overlay, Blank, Exists, NoEntry
        <3>3. QED
            BY <3>1, <3>2 DEF Overlay, Now
    <2>5. Answers(p, Overlay(req[p].view, Foundation))'
        <3> SUFFICES ASSUME NEW w \in Earlier(p)', Kind(w)' \in Sets, Kind(p)' = "list" \/ Key(p)' = Key(w)'
                     PROVE  Honours(w, Overlay(req[p].view, Foundation)[Key(w)])'
            BY DEF Answers
        <3>1. w \in Earlier(p) /\ w \in Requests /\ w # p
            BY <2>1, StepSound, EarlierKept
        <3>2. Kind(w)' = Kind(w) /\ Key(w)' = Key(w) /\ Key(w) \in Keys /\ Landed(w)
            BY <3>1, StepSound, SoundFacts DEF Earlier, Succeeded, Landed
        <3>3. Honours(w, Now(Key(w))) /\ Now(Key(w))' = Now(Key(w))
            BY <2>1, <3>1, <3>2 DEF StagedHolds, Now
        <3>4. \A e \in {Now(Key(w))} : Honours(w, e)'
            BY <3>1, <3>2, <3>3, OtherHonoured, NowType
        <3>5. Overlay(req'[p].view, Foundation)[Key(w)] = Now(Key(w))
            BY <1>1, <2>4, <3>2
        <3>6. QED
            BY <3>2, <3>4, <3>5 DEF Honours
    <2>6. QED
        BY <1>1, <2>1, <2>3, <2>5 DEF ReadHolds
<1>6. CASE ReadEnd(p)
    <2> DEFINE result == Overlay(req[p].view, Base(req[p].snap))
               shown  == IF Kind(p) = "list" THEN Keys ELSE {Key(p)}
               v == [k \in Keys |-> IF k \in shown THEN result[k] ELSE NoEntry]
               r == [NotStarted EXCEPT !.pc = "ok", !.view = v]
    <2>1. req'[p] = r /\ req[p].pc = "getScan" /\ req[p].todo = <<>>
        BY <1>6, Moved DEF ReadEnd, ReadDone
    <2>2. r.pc = "ok" /\ r.view = v
        BY DEF NotStarted
    <2> HIDE DEF r
    <2>3. Base(req[p].snap) = Foundation
        BY <2>1, FirstRecord, StagingAssumption DEF ReadHolds, Base, Content, FirstInv, FirstStore
    <2>4. Answers(p, result) /\ result \in Contents
        <3>1. <<>> # <<Origin>>
            OBVIOUS
        <3>2. QED
            BY <2>1, <2>3, <3>1, OverlayType, FoundationType DEF ReadHolds, Requested
    <2> HIDE DEF result
    <2>5. PICK c \in Contents : c = result
        BY <2>4
    <2>6. Answers(p, c)'
        BY <2>1, <2>4, <2>5, AnswersKept
    <2>7. Answers(p, req[p].view)'
        <3> SUFFICES ASSUME NEW w \in Earlier(p)', Kind(w)' \in Sets, Kind(p)' = "list" \/ Key(p)' = Key(w)'
                     PROVE  Honours(w, req[p].view[Key(w)])'
            BY DEF Answers
        <3>1. w \in Requests
            BY <2>1, StepSound, EarlierKept
        <3>2. Key(w)' = Key(w) /\ Key(w) \in Keys
            BY <3>1, StepSound, SoundFacts
        <3>3. req'[p].view[Key(w)] = c[Key(w)]
            BY <1>1, <2>1, <2>2, <2>5, <3>2
        <3>4. Honours(w, c[Key(w)])'
            BY <2>6 DEF Answers
        <3>5. QED
            BY <3>2, <3>3, <3>4 DEF Honours
    <2>8. QED
        BY <1>1, <2>1, <2>2, <2>7 DEF ReadHolds
<1>7. QED
    BY <1>1, <1>3, <1>4, <1>5, <1>6, ClientActs, ActKinds DEF Read

LEMMA AbsentActs ==
    ASSUME TypeInv, StoreInv, NEW p \in Requests, Kind(p) = "setIfAbsent", Step(p) \/ Stop(p)
    PROVE  \/ req'[p].pc \notin {"recheck", "ok", "updateWrite"}
           \/ UpdateRead(p)
           \/ UpdateWrite(p) /\ req'[p].pc = "recheck"
           \/ req[p].pc = "recheck" /\ branch.staging = req[p].pre.staging /\ StoreUnchanged /\ req'[p].pc = "ok"
<1> USE RequestFields
<1>1. Kind(p) \notin BlindWrites \cup Deletes \cup Reads /\ Kind(p) \in Writes /\ Placed(p, req[p].pc)
    BY DEF Writes, BlindWrites, CondWrites, Deletes, Reads, StoreInv, Order
<1>2. CASE Stop(p)
    BY <1>2, StopsFailed
<1>3. CASE ReadToken(p)
    BY <1>3, ReadTokenStays DEF Scans
<1>4. CASE WriteBegin(p)
    <2> DEFINE r == [[req[p] EXCEPT !.pre = branch, !.tries = @ + 1] EXCEPT !.pc = "apply"]
    <2>1. BranchNotFound(p) \/ Go(p, r)
        BY <1>4 DEF WriteBegin
    <2>2. r.pc = "apply"
        BY DEF Requested
    <2> HIDE DEF r
    <2>3. QED
        BY <2>1, <2>2, Moved, StopsFailed
<1>5. CASE CondDeref(p)
    <2> DEFINE r == [req[p] EXCEPT !.pc = "condScan", !.snap = branch, !.todo = Layers(branch)]
    <2>1. req'[p] = r
        BY <1>5, Moved DEF CondDeref
    <2>2. r.pc = "condScan"
        BY DEF Requested
    <2>3. QED
        BY <2>1, <2>2
<1>6. CASE UpdateWrite(p)
    BY <1>6, Staging, StopsFailed DEF UpdateWrite
<1>7. CASE Recheck(p)
    BY <1>1, <1>7, Rechecking DEF Recheck, NothingToDelete, FoundBuried, FoundNothing, Scanned, ReadDone, Placed
<1>8. ~SetApply(p) /\ ~DeleteApply(p) /\ ~Bury(p) /\ ~DeleteDropKey(p)
    BY <1>1 DEF SetApply, DeleteApply, Bury, DeleteDropKey, FoundValue, Scanned, ReadDone, Placed, Deletes
<1>9. QED
    BY <1>1, <1>2, <1>3, <1>4, <1>5, <1>6, <1>7, <1>8, ClientActs, ActKinds DEF Write

\* The conditional upload's predicate is what its read had seen: nothing.
LEMMA SeesNothing ==
    ASSUME TypeInv, StoreInv, NEW p \in Requests, Kind(p) = "setIfAbsent", UpdateRead(p), Steady(Key(p)),
           req'[p].pc \in {"recheck", "ok", "updateWrite"}
    PROVE  /\ req'[p].pc = "updateWrite" /\ req'[p].pre = req[p].pre
           /\ req[p].pre.staging = Origin => ~Exists(req'[p].seen)
<1> USE RequestFields
<1> DEFINE e == staged[req[p].pre.staging][Key(p)]
           latest == IF Exists(e) THEN e ELSE Overlay(req[p].view, Base(req[p].snap))[Key(p)]
           r == [req[p] EXCEPT !.pc = "updateWrite", !.seen = e, !.view = Blank, !.snap = NoBranch]
<1>1. req'[p] = r /\ Condition(p, latest)
    BY Moved, StopsFailed DEF UpdateRead
<1>2. r.pc = "updateWrite" /\ r.pre = req[p].pre /\ r.seen = e
    BY DEF Requested
<1> HIDE DEF r
<1>3. ASSUME req[p].pre.staging = Origin, Exists(e) PROVE FALSE
    <2>1. ~e.live
        BY <1>1, <1>3 DEF Condition
    <2>2. Owned(Key(p), e)
        BY <1>3 DEF StoreInv, Marks, Tokens
    <2>3. PICK d \in Requests : e.by = d /\ (Kind(d) \in Resets \/ (Kind(d) \in Deletes /\ Key(d) = Key(p)))
        BY <1>3, <2>1, <2>2 DEF Owned
    <2>4. req[d].pc # "start"
        BY <2>2, <2>3 DEF Owned
    <2>5. QED
        BY <2>3, <2>4 DEF Steady, Undoes
<1>4. QED
    BY <1>1, <1>2, <1>3

\* When a conditional upload lands, nothing had been staged.
LEMMA AbsentLands ==
    ASSUME TypeInv, StoreInv, Pristine, NEW p \in Requests, Kind(p) = "setIfAbsent", Step(p) \/ Stop(p),
           AbsenceHolds(p), Steady(Key(p)), Landed(p)', ~Landed(p)
    PROVE  ~Exists(staged[Origin][Key(p)])
<1>1. req'[p].pc \in {"recheck", "ok"}
    BY DEF Landed
<1>2. UpdateWrite(p) /\ req'[p].pc = "recheck"
    BY <1>1, AbsentActs, SeesNothing DEF Landed, Pristine
<1>3. req[p].pc = "updateWrite" /\ Stage(p, Value(p)) /\ SameEntry(staged[req[p].pre.staging][Key(p)], req[p].seen)
    BY <1>2, StopsFailed DEF UpdateWrite
<1>4. req[p].pre.staging = Origin
    BY <1>1, <1>2, <1>3, Staging DEF Landed
<1>5. ~Exists(req[p].seen)
    BY <1>3, <1>4 DEF AbsenceHolds, Sets, CondWrites
<1>6. QED
    BY <1>3, <1>4, <1>5 DEF SameEntry

LEMMA OwnAbsence ==
    ASSUME TypeInv, StoreInv, Pristine, NEW p \in Requests, Kind(p) \in Sets, Step(p) \/ Stop(p),
           \A w \in Requests : AbsenceHolds(w)
    PROVE  AbsenceHolds(p)'
<1>1. Kind(p)' = Kind(p) /\ Key(p)' = Key(p) /\ Key(p) \in Keys
    BY StepSound, SoundFacts, RequestFields
<1> SUFFICES ASSUME Steady(Key(p))'
             PROVE  /\ Landed(p)' => Exists(staged[Origin][Key(p)])'
                    /\ Kind(p)' = "setIfAbsent" =>
                          /\ req'[p].pc = "updateWrite" /\ req'[p].pre.staging = Origin => ~Exists(req'[p].seen)
                          /\ Landed(p)' =>
                                \A w \in Requests \ {p} :
                                    Kind(w)' \in Sets /\ Key(w)' = Key(p)' /\ Landed(w)' =>
                                        Kind(w)' # "setIfAbsent" /\ w \notin before'[p]
    BY <1>1 DEF AbsenceHolds
<1>2. Steady(Key(p))
    <2>1. PICK k : k = Key(p)
        OBVIOUS
    <2>2. Steady(k)'
        BY <1>1, <2>1 DEF Steady
    <2>3. QED
        BY <2>1, <2>2, SteadyBack, StepSound
<1>3. ASSUME Landed(p)'
      PROVE  /\ Exists(staged[Origin][Key(p)])'
             /\ Landed(p) => before'[p] = before[p]
    <2>1. CASE Stage(p, Value(p)) /\ req[p].pc # "start"
        <3>1. staged'[Origin][Key(p)] = Value(p)
            BY <1>3, <2>1, Staging DEF Landed
        <3>2. QED
            BY <1>1, <2>1, <3>1, StagingAssumption, SelfHonoured, StepSound DEF Exists, Value
    <2>2. CASE /\ req[p].pc = "recheck" /\ branch # NoBranch /\ branch.staging = req[p].pre.staging
               /\ UNCHANGED <<branch, commits, staged>>
        BY <1>1, <1>2, <2>2, SelfHonoured, StepSound DEF Landed, Pristine, AbsenceHolds
    <2>3. QED
        BY <1>3, <2>1, <2>2, WriterSteps DEF Landed
<1>4. ASSUME Kind(p) = "setIfAbsent", req'[p].pc = "updateWrite", req'[p].pre.staging = Origin
      PROVE  ~Exists(req'[p].seen)
    BY <1>2, <1>4, AbsentActs, SeesNothing
<1>5. ASSUME Kind(p) = "setIfAbsent", Landed(p)', NEW w \in Requests \ {p},
             Kind(w)' \in Sets, Key(w)' = Key(p)', Landed(w)'
      PROVE  Kind(w)' # "setIfAbsent" /\ w \notin before'[p]
    <2>1. Kind(w)' = Kind(w) /\ Key(w) = Key(p) /\ Landed(w)
        BY <1>1, <1>5, StepSound, SoundFacts DEF Landed
    <2>2. CASE Landed(p)
        BY <1>2, <1>3, <1>5, <2>1, <2>2 DEF AbsenceHolds
    <2>3. CASE ~Landed(p)
        <3>1. ~Exists(staged[Origin][Key(p)])
            BY <1>2, <1>5, <2>3, AbsentLands
        <3>2. Exists(staged[Origin][Key(w)])
            BY <1>2, <1>5, <2>1 DEF AbsenceHolds
        <3>3. QED
            BY <2>1, <3>1, <3>2
    <2>4. QED
        BY <2>2, <2>3
<1>6. QED
    BY <1>1, <1>3, <1>4, <1>5

-----------------------------------------------------------------------------
(* The steps of the others, and the theorem.                               *)

LEMMA OtherStaged ==
    ASSUME TypeInv, StoreInv, NEW p \in Requests, Step(p) \/ Stop(p), NEW q \in Requests, q # p, StagedHolds(q)
    PROVE  StagedHolds(q)'
<1>1. req'[q] = req[q] /\ Kind(q)' = Kind(q) /\ Key(q)' = Key(q) /\ Key(q) \in Keys
    BY StepSound, SoundFacts, RequestFields
<1>2. Honours(q, Now(Key(q))) => Honours(q, Now(Key(q)))'
    <2>1. ASSUME NEW k \in Keys, k = Key(q), Honours(q, Now(k)) PROVE Honours(q, Now(Key(q)))'
        <3>1. Honours(q, Now(k))'
            BY <2>1, OtherHonoured
        <3>2. Key(q)' = k
            BY <1>1, <2>1
        <3>3. QED
            BY <3>1, <3>2 DEF Honours, Now
    <2>2. QED
        BY <1>1, <2>1
<1>3. QED
    BY <1>1, <1>2 DEF StagedHolds, Landed, Seeks, Unfound

LEMMA OtherRead ==
    ASSUME TypeInv, StoreInv, NEW p \in Requests, Step(p) \/ Stop(p), NEW q \in Requests, q # p, ReadHolds(q)
    PROVE  ReadHolds(q)'
<1>1. req'[q] = req[q] /\ Kind(q)' = Kind(q) /\ req[q].view \in Contents
    BY StepSound, SoundFacts, RequestFields DEF Requested
<1>2. Overlay(req[q].view, Foundation) \in Contents
    BY <1>1, OverlayType, FoundationType
<1>3. ASSUME NEW v \in Contents, Answers(q, v) PROVE Answers(q, v)'
    BY <1>3, AnswersKept
<1>4. PICK v \in Contents, o \in Contents : v = req[q].view /\ o = Overlay(req[q].view, Foundation)
    BY <1>1, <1>2
<1>5. /\ Answers(q, v) => Answers(q, req[q].view)'
      /\ Answers(q, o) => Answers(q, Overlay(req[q].view, Foundation))'
    <2>1. /\ Answers(q, v) => Answers(q, v)'
          /\ Answers(q, o) => Answers(q, o)'
        BY <1>3
    <2>2. v = req'[q].view /\ o = Overlay(req'[q].view, Foundation)
        BY <1>1, <1>4
    <2>3. QED
        BY <2>1, <2>2 DEF Answers, Honours
<1>6. QED
    BY <1>1, <1>4, <1>5 DEF ReadHolds

LEMMA OtherAbsence ==
    ASSUME TypeInv, StoreInv, Pristine, NEW p \in Requests, Step(p) \/ Stop(p), NEW q \in Requests, q # p,
           \A w \in Requests : AbsenceHolds(w)
    PROVE  AbsenceHolds(q)'
<1>1. /\ req'[q] = req[q] /\ Key(q) \in Keys /\ before'[q] = before[q]
      /\ \A w \in Requests : Kind(w)' = Kind(w) /\ Key(w)' = Key(w)
      /\ \A w \in Requests \ {p} : req'[w] = req[w]
    BY StepSound, SoundFacts, RequestFields
<1> SUFFICES ASSUME Kind(q) \in Sets, Steady(Key(q))' PROVE AbsenceHolds(q)'
    BY <1>1 DEF AbsenceHolds
<1>2. Steady(Key(q)) /\ Kind(p) \notin Undoing
    <2>1. PICK k : k = Key(q)
        OBVIOUS
    <2>2. Steady(k)'
        BY <1>1, <2>1 DEF Steady
    <2>3. QED
        BY <2>1, <2>2, SteadyBack, StepSound
<1>3. Landed(q)' <=> Landed(q)
    BY <1>1 DEF Landed
<1>4. Landed(q) => Exists(staged[Origin][Key(q)]) /\ Exists(staged[Origin][Key(q)])'
    <2>1. \A k \in Keys : Exists(staged[Origin][k]) => Exists(staged[Origin][k])'
        BY <1>2, NowSteps
    <2>2. QED
        BY <1>1, <1>2, <2>1 DEF AbsenceHolds
<1>5. ASSUME Kind(q) = "setIfAbsent", Landed(q), NEW w \in Requests \ {q},
             Kind(w) \in Sets, Key(w) = Key(q), Landed(w)'
      PROVE  Kind(w) # "setIfAbsent" /\ w \notin before[q]
    <2>1. CASE Landed(w)
        BY <1>2, <1>5, <2>1 DEF AbsenceHolds
    <2>2. CASE ~Landed(w)
        <3>1. w = p
            BY <1>1, <1>5, <2>2 DEF Landed
        <3>2. p \notin before[q]
            BY StepSound, SoundFacts DEF StoreInv, Order
        <3>3. Kind(p) # "setIfAbsent"
            BY <1>2, <1>4, <1>5, <2>2, <3>1, AbsentLands
        <3>4. QED
            BY <3>1, <3>2, <3>3
    <2>3. QED
        BY <2>1, <2>2
<1>6. QED
    BY <1>1, <1>2, <1>3, <1>4, <1>5 DEF AbsenceHolds

LEMMA StepExact ==
    ASSUME TypeInv, StoreInv, FirstInv, ExactInv, NEW p \in Requests, Step(p) \/ Stop(p)
    PROVE  ExactInv'
<1> SUFFICES ASSUME Pristine', NEW q \in Requests
             PROVE  StagedHolds(q)' /\ ReadHolds(q)' /\ AbsenceHolds(q)'
    BY DEF ExactInv
<1>1. Pristine /\ \A w \in Requests : StagedHolds(w) /\ ReadHolds(w) /\ AbsenceHolds(w)
    BY PristineKept, StepSound DEF ExactInv
<1>2. CASE q # p
    BY <1>1, <1>2, OtherStaged, OtherRead, OtherAbsence
<1>3. CASE q = p
    <2>1. Kind(p)' = Kind(p)
        BY StepSound, SoundFacts
    <2>2. StagedHolds(p)'
        BY <1>1, <2>1, OwnSet, OwnDelete DEF StagedHolds
    <2>3. ReadHolds(p)'
        BY <1>1, <2>1, OwnRead DEF ReadHolds
    <2>4. AbsenceHolds(p)'
        BY <1>1, <2>1, OwnAbsence DEF AbsenceHolds
    <2>5. QED
        BY <1>3, <2>2, <2>3, <2>4
<1>4. QED
    BY <1>2, <1>3

\* The cleanup leaves the first token alone.
LEMMA CleanExact ==
    ASSUME TypeInv, StoreInv, FirstInv, ExactInv, NEW s \in Servers, CleanStep(s)
    PROVE  ExactInv'
<1>1. UNCHANGED <<task, branch, commits, req, before>>
    BY DEF CleanStep, requestVars
<1> SUFFICES ASSUME Pristine PROVE ExactInv'
    BY <1>1 DEF ExactInv, Pristine
<1>2. staged'[Origin] = staged[Origin]
    <2>1. Origin \notin Condemned /\ Origin \in Tokens
        BY DEF FirstInv, FirstStore, Tokens
    <2>2. QED
        BY <2>1, CleanStaged DEF TypeInv, StoreTyped, StagingTypeOK
<1>3. \A w, e : Honours(w, e)' <=> Honours(w, e)
    BY <1>1 DEF Honours, Buries, Undoes, Kind, Key
<1>4. \A k : Now(k)' = Now(k)
    BY <1>2 DEF Now
<1>5. \A w : Honours(w, Now(Key(w)))' <=> Honours(w, Now(Key(w)))
    BY <1>1, <1>4 DEF Honours, Buries, Undoes, Kind, Key
<1>6. ASSUME NEW q \in Requests PROVE (StagedHolds(q) => StagedHolds(q)') /\ (AbsenceHolds(q) => AbsenceHolds(q)')
    BY <1>1, <1>2, <1>5 DEF StagedHolds, Landed, Seeks, Unfound, AbsenceHolds, Steady, Undoes, Kind, Key
<1>7. ASSUME NEW q \in Requests PROVE ReadHolds(q) => ReadHolds(q)'
    BY <1>1, <1>3 DEF ReadHolds, Answers, Earlier, Succeeded, Honours, Buries, Undoes, Kind, Key
<1>8. QED
    BY <1>6, <1>7 DEF ExactInv, Pristine

LEMMA NextExact ==
    ASSUME TypeInv, StoreInv, FirstInv, ExactInv, [Next]_vars
    PROVE  ExactInv'
<1>1. CASE UNCHANGED vars
    BY <1>1 DEF vars, stagingVars, requestVars, ExactInv, Pristine, StagedHolds, ReadHolds, AbsenceHolds, Now, Landed,
           Seeks, Unfound, Answers, Earlier, Succeeded, Steady, Honours, Buries, Undoes, Kind, Key
<1>2. QED
    BY <1>1, StepExact, CleanExact DEF Next, Quiet

LEMMA InitExact == Init => ExactInv
    BY DEF Init, NotStarted, ExactInv, StagedHolds, ReadHolds, AbsenceHolds, Landed, Seeks, Unfound

LEMMA ExactHolds ==
    ASSUME TypeInv, StoreInv, FirstInv, ExactInv
    PROVE  ExactUntilSealed
<1> SUFFICES ASSUME Pristine PROVE ReadsAreFresh /\ AckedDeletesKept /\ AbsentMeansAbsent
    BY DEF ExactUntilSealed, Pristine
<1>1. \A w \in Requests : StagedHolds(w) /\ ReadHolds(w) /\ AbsenceHolds(w)
    BY DEF ExactInv
<1>2. ReadsAreFresh
    BY <1>1 DEF ReadsAreFresh, ReadHolds, Answers, Succeeded
<1>3. AckedDeletesKept
    <2> SUFFICES ASSUME NEW w \in Succeeded, Kind(w) \in Deletes PROVE Honours(w, Shown(Key(w)))
        BY DEF AckedDeletesKept
    <2>1. w \in Requests /\ req[w].pc = "ok" /\ w \notin before[w] /\ Key(w) \in Keys
        BY RequestFields DEF Succeeded, StoreInv, Order
    <2>2. CASE Kind(w) = "deleteNoTombstone"
        BY <2>1, <2>2 DEF Honours, Undoes
    <2>3. CASE Kind(w) = "delete"
        <3>1. Honours(w, Now(Key(w)))
            BY <1>1, <2>1, <2>3 DEF StagedHolds, Landed
        <3>2. Shown(Key(w)) = Now(Key(w))
            <4>1. Layers(branch) = <<Origin>> /\ Base(branch) = Foundation
                BY FirstRecord, StagingAssumption DEF FirstInv, FirstStore, Base, Content
            <4> DEFINE I == {i \in 1..Len(<<Origin>>) : Exists(staged[<<Origin>>[i]][Key(w)])}
            <4>2. I = IF Exists(staged[Origin][Key(w)]) THEN {1} ELSE {}
                OBVIOUS
            <4>3. Shown(Key(w)) = IF I = {} THEN Foundation[Key(w)]
                                  ELSE staged[<<Origin>>[CHOOSE i \in I : \A j \in I : i <= j]][Key(w)]
                BY <4>1 DEF Shown
            <4> HIDE DEF I
            <4>4. I = {1} => (CHOOSE i \in I : \A j \in I : i <= j) = 1
                OBVIOUS
            <4>5. <<Origin>>[1] = Origin
                OBVIOUS
            <4>6. QED
                BY <4>2, <4>3, <4>4, <4>5 DEF Now
        <3>3. QED
            BY <3>1, <3>2
    <2>4. QED
        BY <2>2, <2>3 DEF Deletes
<1>4. AbsentMeansAbsent
    BY <1>1 DEF AbsentMeansAbsent, AbsenceHolds, Landed, Steady, Succeeded, Sets, CondWrites
<1>5. QED
    BY <1>2, <1>3, <1>4

ExactSafe == TypeInv /\ StoreInv /\ FirstInv /\ ExactInv

\* Until its first staging token is sealed, a branch serves concurrent
\* requests exactly: reads and listings show what was written before they
\* began, deletes that succeeded leave nothing older, and of the uploads that
\* require the key to be absent one succeeds, and only if it is the first.
THEOREM ExactBeforeSeal == Spec => []ExactUntilSealed
<1>1. Init => ExactSafe
    BY InitTyped, InitOrder, InitFirst, InitExact DEF ExactSafe
<1>2. ExactSafe /\ [Next]_vars => ExactSafe'
    BY NextTyped, NextOrder, NextFirst, NextExact DEF ExactSafe
<1>3. ExactSafe => ExactUntilSealed
    BY ExactHolds DEF ExactSafe
<1>4. QED
    BY <1>1, <1>2, <1>3, PTL DEF Spec

-----------------------------------------------------------------------------
(* Heads descend: what a step does to the head and to the stored commits,  *)
(* and the parent of the commit each request is to publish (ParentInv).    *)

Movers == {"resetHard", "updateBranch"}

\* The commit that request p is to publish, and the record it read.
ParentHolds(p) ==
    LET snap == req[p].snap
    IN IF Kind(p) = "merge"
       THEN \/ Rewound(p)
            \/ branch # NoBranch /\ branch.staging = snap.staging /\ branch.commit = snap.commit
                  => commits[p].parent = snap.commit
       ELSE commits[p].parent = snap.commit

ParentInv == \A p \in Requests : Kind(p) \in Adders /\ req[p].pc = "publish" => ParentHolds(p)

\* The records that the steps of request p write.
NewRecord(p) ==
    \/ branch' \in {branch, NoBranch}
    \/ /\ Fresh(p, req[p])
       /\ \/ branch # NoBranch /\ branch' \in {SealedRecord(p), ResetRecord(p)}
          \/ branch = NoBranch /\ branch' = [commit |-> Origin, staging |-> p, sealed |-> <<>>]
    \/ branch # NoBranch /\ branch' = Published(p, p) /\ ~Past(req[p])
    \/ /\ branch # NoBranch /\ Kind(p) \in Movers /\ req'[p].pc \in {"drop"} \cup Over
       /\ \E c \in Writers : branch' \in {Published(p, c), [branch EXCEPT !.commit = c]}

\* The head moves to a new commit, to one that was named, or with the token.
HeadMoves(p) ==
    \/ branch' \in {branch, NoBranch}
    \/ branch'.staging = p /\ Fresh(p, req[p])
    \/ /\ branch'.staging = branch.staging
       /\ \/ branch'.commit = p /\ ~Past(req[p])
          \/ Kind(p) \in Movers /\ req'[p].pc \in {"drop"} \cup Over

LEMMA StepRecord ==
    ASSUME TypeInv, StoreInv, NEW p \in Requests, Step(p) \/ Stop(p)
    PROVE  NewRecord(p)
<1>1. CASE Kind(p) \notin Undoing
    <2>1. Discreet(p)
        BY <1>1, StepDiscreet
    <2>2. QED
        BY <2>1 DEF Discreet, Calm, Seals, Publishes, Creates, NewRecord, Past, Over
<1>2. CASE Kind(p) \in Undoing
    <2>1. Placed(p, req[p].pc)
        BY DEF StoreInv, Order
    <2>2. ASSUME NEW s, DropThen(p, s) PROVE req'[p].pc \in {"drop"} \cup Over
        <3>1. CASE Go(p, [NotStarted EXCEPT !.pc = "drop", !.drop = s])
            BY <3>1, Moved DEF NotStarted
        <3>2. CASE \E o \in Over : Finish(p, o)
            BY <3>2, Moved DEF NotStarted, Finish
        <3>3. QED
            BY <2>2, <3>1, <3>2 DEF DropThen, Over
    <2>3. CASE branch' = branch
        BY <2>3 DEF NewRecord
    <2>4. CASE HeadUpdate(p)
        <3>1. Kind(p) \in Movers /\ (branch' = branch \/ HeadPublish(p))
            BY <1>2, <2>4 DEF HeadUpdate, PrepareBegin, HeadBegin, MergeCommit, RevertCommit, HeadPublish,
                  UpdateBegin, BranchNotFound, StoreUnchanged, HeadUpdates, Undoing, Resets, Movers
        <3>2. CASE branch' = branch
            BY <3>2 DEF NewRecord
        <3>3. CASE \E c \in Known : Replace(p, Published(p, c)) /\ DropThen(p, req[p].snap.sealed)
            BY <2>2, <3>1, <3>3, KnownWriters DEF NewRecord, Replace, Unmoved
        <3>4. QED
            BY <3>1, <3>2, <3>3 DEF HeadPublish, LostRace, StoreUnchanged
    <2>5. CASE ResetPublish(p) \/ PrefixPublish(p)
        <3>1. Fresh(p, req[p])
            BY <2>1, <2>5 DEF ResetPublish, PrefixPublish, Fresh, Placed
        <3>2. CASE Replace(p, ResetRecord(p)) \/ Replace(p, SealedRecord(p))
            BY <3>1, <3>2 DEF NewRecord, Replace, Unmoved
        <3>3. CASE branch' = branch
            BY <3>3 DEF NewRecord
        <3>4. QED
            BY <2>5, <3>2, <3>3 DEF ResetPublish, PrefixPublish, LostRace, StoreUnchanged
    <2>6. CASE HardPublish(p)
        <3>1. CASE Replace(p, [branch EXCEPT !.commit = req[p].pre.commit]) /\ Finish(p, "ok")
            <4>1. req'[p].pc = "ok"
                BY <3>1, Moved DEF NotStarted, Finish
            <4>2. req[p].pre.commit \in Writers
                BY <2>6, RequestFields, BranchFields DEF HardPublish, Held
            <4>3. QED
                BY <2>6, <3>1, <4>1, <4>2 DEF NewRecord, Replace, Unmoved, HardPublish, Movers, Over
        <3>2. QED
            BY <2>3, <2>6, <3>1 DEF HardPublish, LostRace, StoreUnchanged
    <2>7. CASE Seal(p)
        <3>1. Fresh(p, req[p])
            BY <2>1, <2>7 DEF Seal, ReadDone, Fresh, Placed
        <3>2. QED
            BY <2>3, <2>7, <3>1 DEF Seal, Replace, Unmoved, LostRace, StoreUnchanged, NewRecord
    <2>8. CASE BranchLifecycle(p)
        <3>1. ~CreateBranchRead(p) /\ ~CreateBranchApply(p)
            BY <1>2, <2>1 DEF CreateBranchRead, CreateBranchApply, Placed, Undoing, Resets
        <3>2. QED
            BY <2>8, <3>1 DEF BranchLifecycle, DeleteBranchRead, DeleteBranchApply, UpdateBegin, BranchNotFound,
                  StoreUnchanged, NewRecord
    <2>9. ~Publish(p) /\ ~Commit(p)
        BY <1>2, <2>1 DEF Publish, Commit, CommitSealRead, CommitRead, AddCommit, Undoing, Resets
    <2>10. CASE Write(p) \/ Read(p) \/ ReadToken(p) \/ Dirty(p) \/ DropToken(p) \/ Stop(p)
        BY <2>3, <2>10 DEF Write, WriteBegin, SetApply, CondDeref, UpdateRead, UpdateWrite, DeleteApply, Bury,
              DeleteDropKey, Recheck, Stage, BranchNotFound, Read, ReadBegin, ReadEnd, ReadToken, Dirty,
              DropToken, Stop, StoreUnchanged
    <2>11. CASE Reset(p) /\ ~ResetPublish(p) /\ ~PrefixPublish(p) /\ ~HardPublish(p)
        BY <2>3, <2>11 DEF Reset, ResetBegin, HardBegin, HardDeref, KeyBegin, KeyReset, PrefixBegin, PrefixDiff,
              PrefixScanned, PrefixUndo, UpdateBegin, BranchNotFound, StoreUnchanged
    <2>12. QED
        BY <2>4, <2>5, <2>6, <2>7, <2>8, <2>9, <2>10, <2>11 DEF Step
<1>3. QED
    BY <1>1, <1>2

LEMMA StepMoves ==
    ASSUME TypeInv, StoreInv, NEW p \in Requests, Step(p) \/ Stop(p)
    PROVE  HeadMoves(p)
<1>1. CASE branch # NoBranch /\ branch' \notin {branch, NoBranch}
    <2>1. NewRecord(p)
        BY StepRecord
    <2>2. CASE Fresh(p, req[p]) /\ branch' \in {SealedRecord(p), ResetRecord(p)}
        BY <1>1, <2>2, RecordFields DEF HeadMoves
    <2>3. CASE branch' = Published(p, p) /\ ~Past(req[p])
        BY <1>1, <2>3, RecordFields DEF HeadMoves
    <2>4. CASE /\ Kind(p) \in Movers /\ req'[p].pc \in {"drop"} \cup Over
               /\ \E c \in Writers : branch' \in {Published(p, c), [branch EXCEPT !.commit = c]}
        <3>1. PICK c \in Writers : branch' \in {Published(p, c), [branch EXCEPT !.commit = c]}
            BY <2>4
        <3>2. branch'.staging = branch.staging
            <4>1. CASE branch' = Published(p, c)
                BY <1>1, <4>1, RecordFields
            <4>2. CASE branch' = [branch EXCEPT !.commit = c]
                BY <1>1, <4>2, RecordFields
            <4>3. QED
                BY <3>1, <4>1, <4>2
        <3>3. QED
            BY <2>4, <3>2 DEF HeadMoves
    <2>5. QED
        BY <1>1, <2>1, <2>2, <2>3, <2>4 DEF NewRecord
<1>2. CASE branch = NoBranch \/ branch' \in {branch, NoBranch}
    BY <1>2, StepRecord DEF NewRecord, HeadMoves
<1>3. QED
    BY <1>1, <1>2

\* A request stores a commit of its own only, before it publishes.
LEMMA StepCommits ==
    ASSUME TypeInv, StoreInv, NEW p \in Requests, Step(p) \/ Stop(p)
    PROVE  /\ \A c \in Writers \ {p} : commits'[c] = commits[c]
           /\ commits' = commits \/ ~Past(req[p])
<1>1. CASE Kind(p) \notin Undoing
    <2>1. Discreet(p)
        BY <1>1, StepDiscreet
    <2>2. CASE Calm(p)
        BY <2>2, StepSound, SoundFacts DEF Calm, Past, Over
    <2>3. QED
        BY <2>1, <2>2 DEF Discreet, Seals, Publishes, Creates
<1>2. CASE Kind(p) \in Undoing
    <2>1. ~Commit(p) /\ ~MergeCommit(p) /\ ~RevertCommit(p)
        BY <1>2 DEF Commit, CommitSealRead, CommitRead, AddCommit, MergeCommit, RevertCommit, Undoing, Resets
    <2>2. CASE Write(p) \/ Read(p) \/ ReadToken(p) \/ Dirty(p) \/ DropToken(p) \/ Stop(p)
        BY <2>2 DEF Write, WriteBegin, SetApply, CondDeref, UpdateRead, UpdateWrite, DeleteApply, Bury,
              DeleteDropKey, Recheck, Stage, BranchNotFound, Read, ReadBegin, ReadEnd, ReadToken, Dirty,
              DropToken, Stop, StoreUnchanged
    <2>3. CASE Reset(p)
        BY <2>3 DEF Reset, ResetBegin, ResetPublish, HardBegin, HardDeref, HardPublish, KeyBegin, KeyReset, PrefixBegin,
              PrefixDiff, PrefixScanned, PrefixUndo, PrefixPublish, UpdateBegin, LostRace, Replace, BranchNotFound, StoreUnchanged
    <2>4. CASE HeadUpdate(p) \/ Seal(p) \/ Publish(p)
        BY <2>1, <2>4 DEF HeadUpdate, PrepareBegin, HeadBegin, HeadPublish, Seal, Publish, UpdateBegin, LostRace, Replace,
              BranchNotFound, StoreUnchanged
    <2>5. CASE BranchLifecycle(p)
        BY <2>5 DEF BranchLifecycle, DeleteBranchRead, DeleteBranchApply, CreateBranchRead, CreateBranchApply,
              UpdateBegin, BranchNotFound, StoreUnchanged
    <2>6. QED
        BY <2>1, <2>2, <2>3, <2>4, <2>5 DEF Step
<1>3. QED
    BY <1>1, <1>2

\* A merge of another goes on not to notice, or someone named a commit.
LEMMA OtherParent ==
    ASSUME TypeInv, StoreInv, NEW p \in Requests, Step(p) \/ Stop(p), NEW q \in Requests, q # p,
           Kind(q) \in Adders, req[q].pc = "publish", ParentHolds(q)
    PROVE  ParentHolds(q)'
<1>1. /\ req'[q] = req[q] /\ Kind(q)' = Kind(q) /\ before'[q] = before[q]
      /\ p \notin before[q] /\ req[p].pc \notin Over
      /\ Past(req[p]) => Past(req'[p])
      /\ \A r \in Requests \ {p} : req'[r] = req[r]
      /\ \A r \in Requests : Kind(r)' = Kind(r)
    BY StepSound, SoundFacts DEF StoreInv, Order
<1>2. commits'[q] = commits[q]
    BY StepCommits DEF Writers
<1>3. CASE Kind(q) # "merge"
    BY <1>1, <1>2, <1>3 DEF ParentHolds
<1>4. CASE Kind(q) = "merge"
    <2> DEFINE snap == req[q].snap
    <2>1. snap \in Branches /\ Named(snap)
        BY RequestFields DEF StoreInv, Names
    <2>2. Rewound(q) => Rewound(q)'
        BY <1>1 DEF Rewound, Past
    <2>3. CASE Kind(p) \in Movers /\ req'[p].pc \in {"drop"} \cup Over
        <3>1. Rewound(q)'
            BY <1>1, <2>3 DEF Rewound, Movers
        <3>2. QED
            BY <1>1, <1>4, <3>1 DEF ParentHolds
    <2>4. CASE branch' = branch
        BY <1>1, <1>2, <1>4, <2>2, <2>4 DEF ParentHolds
    <2>5. CASE /\ branch'.staging = branch.staging
               /\ branch'.commit = p /\ ~Past(req[p])
        <3>1. snap.commit # p
            BY <2>1, <2>5 DEF Named
        <3>2. QED
            BY <1>1, <1>4, <2>5, <3>1 DEF ParentHolds
    <2>6. CASE branch'.staging = p /\ Fresh(p, req[p])
        <3>1. snap.staging # p
            BY <2>1, <2>6 DEF Named
        <3>2. QED
            BY <1>1, <1>4, <2>6, <3>1 DEF ParentHolds
    <2>7. CASE branch' = NoBranch
        BY <1>1, <1>4, <2>7 DEF ParentHolds
    <2>8. QED
        BY <2>3, <2>4, <2>5, <2>6, <2>7, StepMoves DEF HeadMoves
<1>5. QED
    BY <1>3, <1>4

\* The commit is made of the record that was read, or of the one there is.
LEMMA OwnParent ==
    ASSUME TypeInv, StoreInv, NEW p \in Requests, Step(p) \/ Stop(p), Kind(p) \in Adders, req'[p].pc = "publish"
    PROVE  ParentHolds(p)'
<1>1. Discreet(p) /\ Kind(p)' = Kind(p)
    BY StepDiscreet, StepSound, SoundFacts DEF Adders, Undoing, Resets
<1>2. ~Seals(p) /\ ~Publishes(p) /\ ~Creates(p)
    BY DEF Seals, Publishes, Creates, Adders, Lifecycle
<1>3. Adds(p)
    BY <1>1, <1>2 DEF Discreet, Approaches, Begins, Overlays, ScanPoints
<1>4. QED
    BY <1>1, <1>3 DEF Adds, ParentHolds

LEMMA NextParent ==
    ASSUME TypeInv, StoreInv, ParentInv, [Next]_vars
    PROVE  ParentInv'
<1>1. ASSUME NEW p \in Requests, Step(p) \/ Stop(p) PROVE ParentInv'
    <2> SUFFICES ASSUME NEW q \in Requests, Kind(q)' \in Adders, req'[q].pc = "publish" PROVE ParentHolds(q)'
        BY DEF ParentInv
    <2>1. Kind(q)' = Kind(q) /\ (q # p => req'[q] = req[q])
        BY <1>1, StepSound, SoundFacts
    <2>2. QED
        BY <1>1, <2>1, OwnParent, OtherParent DEF ParentInv
<1>2. CASE UNCHANGED requestVars
    BY <1>2 DEF requestVars, ParentInv, ParentHolds, Rewound, Kind
<1>3. QED
    BY <1>1, <1>2 DEF Next, CleanStep, Quiet, vars

ParentSafe == TypeInv /\ StoreInv /\ ParentInv

\* Heads move to new commits from their parents.
THEOREM CommitsFollowHeads == Spec => HeadsDescend
<1>1. Init => ParentSafe
    <2>1. Init => ParentInv
        BY DEF Init, NotStarted, ParentInv
    <2>2. QED
        BY <2>1, InitTyped, InitOrder DEF ParentSafe
<1>2. ParentSafe /\ [Next]_vars => ParentSafe'
    BY NextTyped, NextOrder, NextParent DEF ParentSafe
<1> DEFINE A == \A p \in Requests :
                   /\ Kind(p) \in {"commit", "merge", "revert"}
                   /\ req[p].pc = "publish" /\ req'[p].pc \in {"drop", "ok"}
                   => commits[p].parent = branch.commit \/ (Kind(p) = "merge" /\ Rewound(p))
<1>3. ParentSafe /\ [Next]_vars => [A]_vars
    <2> SUFFICES ASSUME ParentSafe, Next, NEW p \in Requests, Kind(p) \in Adders,
                        req[p].pc = "publish", req'[p].pc \in {"drop", "ok"}
                 PROVE  commits[p].parent = branch.commit \/ (Kind(p) = "merge" /\ Rewound(p))
        BY DEF Adders
    <2>1. PICK q \in Requests : Step(q) \/ Stop(q)
        BY DEF Next, CleanStep, Quiet, vars, requestVars
    <2>2. q = p
        BY <2>1, StepSound, SoundFacts DEF ParentSafe
    <2>3. Discreet(p)
        BY <2>1, <2>2, StepDiscreet DEF ParentSafe, Adders, Undoing, Resets
    <2>4. branch # NoBranch /\ branch = req[p].snap
        BY <2>3 DEF Discreet, Calm, Adders, Seals, Publishes, Creates, Lifecycle
    <2>5. ParentHolds(p)
        BY DEF ParentSafe, ParentInv
    <2>6. QED
        BY <2>4, <2>5 DEF ParentHolds
<1>4. QED
    BY <1>1, <1>2, <1>3, PTL DEF Spec, HeadsDescend

-----------------------------------------------------------------------------
(* Resets: where the entries of a write can be that a reset has undone.    *)

Undoers == {"reset", "resetKey", "resetPrefix", "deleteBranch"}

\* Write w of key k is on token t; something else is.
Marked(w, k, t) == staged[t][k].by = w
Solid(w, k, t)  == Exists(staged[t][k]) /\ staged[t][k].by # w

\* Of the first n layers in L, those of the branch that have w are hidden.
Screened(w, k, L, n) ==
    \A i \in 1..n : Marked(w, k, L[i]) /\ L[i] \in LayerSet(branch)
                       => \E j \in 1..(i - 1) : Solid(w, k, L[j])

Hidden(w, k) == Screened(w, k, Layers(branch), Len(Layers(branch)))

\* A commit that is, or was to be, published has w.
Took(w, k) == \E c \in Requests : Past(req[c]) /\ commits[c].content[k].by = w

\* The tokens that requests have yet to install.
Unborn == {q \in Requests : Fresh(q, req[q])}

\* Since record b was read, tokens came on top and went at the bottom, and
\* those that came do not have w.
Tracks(w, k, b) ==
    LET B == Layers(branch)
        L == Layers(b)
    IN /\ \A t \in LayerSet(branch) : t \in LayerSet(b) \/ ~Marked(w, k, t)
       /\ Unborn \cap LayerSet(b) = {}
       /\ \A i \in 1..Len(B), j \in 1..Len(L) :
             B[i] = L[j] => \A m \in 1..(j - 1) : \E n \in 1..(i - 1) : B[n] = L[m]

\* What a scan of record b that has still to read todo has found of key k: w,
\* something that hides w, or nothing.
ScanSees(w, k, b, todo, e) ==
    LET L == Layers(b)
        n == Len(L) - Len(todo)
    IN /\ Tracks(w, k, b)
       /\ \/ e.by = w /\ e.live
          \/ Exists(e) /\ e.by # w /\ Screened(w, k, L, Len(L))
          \/ /\ ~Exists(e)
             /\ Len(todo) <= Len(L)
             /\ \A i \in 1..Len(todo) : todo[i] = L[n + i]
             /\ Screened(w, k, L, n)

\* ResetPrefix has written over w, on its token or on the one it seals.
Undid(r, w, k) ==
    \/ Solid(w, k, r)
    \/ req[r].snap.staging \in LayerSet(branch) => Solid(w, k, req[r].snap.staging)

ResetHolds(r, w, k) ==
    \/ Took(w, k)
    \/ Uncovers(r, k)
    \/ /\ (req[r].pc = "ok" \/ (req[r].pc = "drop" /\ Kind(r) # "resetPrefix")) => Hidden(w, k)
       /\ req[r].pc \in {"keyScan", "prefixScan"} => ScanSees(w, k, req[r].pre, req[r].todo, req[r].view[k])
       /\ req[r].pc = "keyScan" /\ Exists(req[r].view[k]) => req[r].todo = <<>>
       /\ req[r].pc = "prefixWrite" => Hidden(w, k) \/ k \in req[r].left \/ Undid(r, w, k)

\* Reset r is to undo write w of key k, which had succeeded before.
Concerns(r, w, k) ==
    /\ Kind(r) \in Undoers
    /\ w \in before[r] /\ req[w].pc = "ok"
    /\ Kind(w) \in Sets /\ Key(w) = k
    /\ Kind(r) = "resetKey" => Key(r) = k

ResetInv == \A r \in Requests, w \in Requests, k \in Keys : Concerns(r, w, k) => ResetHolds(r, w, k)

Apart == \A i, j \in 1..Len(Layers(branch)) : Layers(branch)[i] = Layers(branch)[j] => i = j

\* What a token that is still to be installed has was committed.
MarkInv ==
    /\ \A k \in Keys : commits[Origin].content[k].by \in {Origin, NoOne}
    /\ \A q \in Unborn, w \in Requests, k \in Keys : Marked(w, k, q) => Took(w, k)
    /\ Apart
    /\ \A p \in Requests : req[p].pc \in {"start", "prefixDiff"} => req[p].view = Blank

-----------------------------------------------------------------------------
(* The layers of a record, and what a step makes of them.                  *)

LEMMA LayerFacts ==
    ASSUME NEW b \in Branches
    PROVE  /\ Layers(b) \in Seq(Tokens) /\ Len(Layers(b)) \in Nat
           /\ \A i \in 1..Len(Layers(b)) : Layers(b)[i] \in LayerSet(b) /\ Layers(b)[i] \in Tokens
           /\ \A t \in LayerSet(b) : t \in Tokens /\ \E i \in 1..Len(Layers(b)) : Layers(b)[i] = t
           /\ b # NoBranch => Len(Layers(b)) >= 1 /\ Layers(b)[1] = b.staging
<1>1. Layers(b) \in Seq(Tokens)
    BY LayersType
<1>2. Range(Layers(b)) = LayerSet(b)
    <2>1. CASE b = NoBranch
        BY <2>1, RangeFacts DEF Layers, LayerSet, Tokens, Range
    <2>2. CASE b # NoBranch
        BY <2>2, BranchFields, RangeFacts DEF Layers, LayerSet
    <2>3. QED
        BY <2>1, <2>2
<1>3. /\ Range(Layers(b)) = {Layers(b)[i] : i \in 1..Len(Layers(b))}
      /\ Len(Layers(b)) \in Nat
    BY <1>1, RangeEquality, LenProperties
<1>4. ASSUME b # NoBranch PROVE Len(Layers(b)) >= 1 /\ Layers(b)[1] = b.staging
    <2>1. Layers(b) = <<b.staging>> \o b.sealed /\ b.staging \in Tokens /\ b.sealed \in Seq(Tokens)
        BY <1>4, BranchFields DEF Layers
    <2>2. QED
        BY <2>1
<1>5. \A i \in 1..Len(Layers(b)) : Layers(b)[i] \in Tokens
    BY <1>1
<1>6. QED
    BY <1>1, <1>2, <1>3, <1>4, <1>5

\* The layers of a record that a step of p writes.
Relayers(p) ==
    LET B == Layers(branch)
        C == Layers(branch)'
    IN \/ C = B
       \/ p \in Unborn /\ (C = <<p>> \o B \/ C = <<p>>)
       \/ branch # NoBranch /\ C = <<branch.staging>>
       \/ C = <<>>

LEMMA StepLayers ==
    ASSUME TypeInv, StoreInv, NEW p \in Requests, Step(p) \/ Stop(p)
    PROVE  Relayers(p)
<1>1. NewRecord(p)
    BY StepRecord
<1>2. CASE branch' \in {branch, NoBranch}
    BY <1>2 DEF Relayers, Layers
<1>3. CASE branch = NoBranch /\ Fresh(p, req[p]) /\ branch' = [commit |-> Origin, staging |-> p, sealed |-> <<>>]
    <2>1. branch' # NoBranch /\ branch'.staging = p /\ branch'.sealed = <<>>
        BY <1>3, StagingAssumption DEF NoBranch
    <2>2. Layers(branch)' = <<p>>
        BY <2>1 DEF Layers
    <2>3. QED
        BY <1>3, <2>2 DEF Relayers, Unborn
<1>4. CASE branch # NoBranch /\ branch' \notin {branch, NoBranch}
    <2>1. branch.staging \in Tokens /\ branch.sealed \in Seq(Tokens) /\ Layers(branch) = <<branch.staging>> \o branch.sealed
        BY <1>4, BranchFields DEF TypeInv, StoreTyped, Layers
    <2>2. Layers(branch)' = <<branch'.staging>> \o branch'.sealed
        BY <1>4 DEF Layers
    <2>3. CASE Fresh(p, req[p]) /\ branch' = SealedRecord(p)
        <3>1. branch'.staging = p /\ branch'.sealed = Layers(branch)
            BY <1>4, <2>1, <2>3, RecordFields
        <3>2. QED
            BY <2>2, <2>3, <3>1 DEF Relayers, Unborn
    <2>4. CASE Fresh(p, req[p]) /\ branch' = ResetRecord(p)
        <3>1. branch'.staging = p /\ branch'.sealed = <<>>
            BY <1>4, <2>4, RecordFields
        <3>2. Layers(branch)' = <<p>>
            BY <2>2, <3>1
        <3>3. QED
            BY <2>4, <3>2 DEF Relayers, Unborn
    <2>5. CASE \E c \in Writers : branch' = Published(p, c)
        <3>1. branch'.staging = branch.staging /\ branch'.sealed = <<>>
            BY <1>4, <2>5, RecordFields
        <3>2. Layers(branch)' = <<branch.staging>>
            BY <2>2, <3>1
        <3>3. QED
            BY <1>4, <3>2 DEF Relayers
    <2>6. CASE \E c \in Writers : branch' = [branch EXCEPT !.commit = c]
        <3>1. branch'.staging = branch.staging /\ branch'.sealed = branch.sealed
            BY <1>4, <2>6, RecordFields
        <3>2. QED
            BY <2>1, <2>2, <3>1 DEF Relayers
    <2>7. QED
        BY <1>1, <1>4, <2>3, <2>4, <2>5, <2>6 DEF NewRecord, Writers
<1>5. QED
    BY <1>1, <1>2, <1>3, <1>4 DEF NewRecord

\* Every layer of the new record is to be installed, or was a layer; what was
\* above it still is.
Lowers ==
    LET B == Layers(branch)
        C == Layers(branch)'
    IN \A i \in 1..Len(C) :
          \/ C[i] \in Unborn
          \/ \E h \in 1..Len(B) : C[i] = B[h] /\ \A n \in 1..(h - 1) : \E m \in 1..(i - 1) : C[m] = B[n]

LEMMA RelayersLowers ==
    ASSUME TypeInv, TokenInv, Apart, NEW p \in Requests, Relayers(p)
    PROVE  Lowers /\ Apart'
<1> DEFINE B == Layers(branch)
           C == Layers(branch)'
<1>1. /\ B \in Seq(Tokens) /\ Len(B) \in Nat
      /\ \A i \in 1..Len(B) : B[i] \in LayerSet(branch)
      /\ branch # NoBranch => Len(B) >= 1 /\ B[1] = branch.staging
      /\ p \in Tokens
    BY LayerFacts DEF TypeInv, StoreTyped, Tokens
<1>2. p \in Unborn => \A i \in 1..Len(B) : B[i] # p
    BY <1>1 DEF TokenInv, FreshUnclaimed, Claimed, Unborn
<1>3. \A i, j \in 1..Len(B) : B[i] = B[j] => i = j
    BY DEF Apart
<1>4. SUFFICES /\ \A i \in 1..Len(C) :
                    \/ C[i] \in Unborn
                    \/ \E h \in 1..Len(B) : C[i] = B[h] /\ \A n \in 1..(h - 1) : \E m \in 1..(i - 1) : C[m] = B[n]
               /\ \A i, j \in 1..Len(C) : C[i] = C[j] => i = j
    BY DEF Lowers, Apart
<1>5. \/ C = B
      \/ p \in Unborn /\ (C = <<p>> \o B \/ C = <<p>>)
      \/ branch # NoBranch /\ C = <<branch.staging>>
      \/ C = <<>>
    BY DEF Relayers
<1> HIDE DEF B, C
<1>6. CASE C = B
    <2>1. ASSUME NEW i \in 1..Len(B)
          PROVE  \E h \in 1..Len(B) : B[i] = B[h] /\ \A n \in 1..(h - 1) : \E m \in 1..(i - 1) : B[m] = B[n]
        OBVIOUS
    <2>2. QED
        BY <1>3, <1>6, <2>1
<1>7. CASE p \in Unborn /\ C = <<p>> \o B
    <2>1. Len(C) = Len(B) + 1 /\ C[1] = p /\ \A i \in 1..Len(B) : C[i + 1] = B[i]
        BY <1>1, <1>7
    <2>2. \A i \in 2..Len(C) : i - 1 \in 1..Len(B) /\ C[i] = B[i - 1]
        BY <1>1, <2>1
    <2>3. ASSUME NEW i \in 1..Len(C), i # 1
          PROVE  \E h \in 1..Len(B) : C[i] = B[h] /\ \A n \in 1..(h - 1) : \E m \in 1..(i - 1) : C[m] = B[n]
        <3>1. i - 1 \in 1..Len(B) /\ C[i] = B[i - 1]
            BY <1>1, <2>2, <2>3
        <3>2. \A n \in 1..((i - 1) - 1) : n + 1 \in 1..(i - 1) /\ C[n + 1] = B[n]
            BY <1>1, <2>1, <3>1
        <3>3. QED
            BY <3>1, <3>2
    <2>4. \A i, j \in 1..Len(C) : C[i] = C[j] => i = j
        BY <1>1, <1>2, <1>3, <1>7, <2>1, <2>2
    <2>5. QED
        BY <1>7, <2>1, <2>3, <2>4
<1>8. CASE p \in Unborn /\ C = <<p>>
    BY <1>8
<1>9. CASE branch # NoBranch /\ C = <<branch.staging>>
    <2>1. Len(C) = 1 /\ C[1] = B[1] /\ 1 \in 1..Len(B)
        BY <1>1, <1>9
    <2>2. QED
        BY <2>1
<1>10. CASE C = <<>>
    BY <1>10
<1>11. QED
    BY <1>5, <1>6, <1>7, <1>8, <1>9, <1>10

-----------------------------------------------------------------------------
(* What a step stages.                                                     *)

\* An entry of p, what drops a key, or an entry that is committed.
Dots(p) ==
    \/ staged' = staged
    \/ \E t \in Tokens, k \in Keys, e \in Entries :
          /\ staged' = [staged EXCEPT ![t][k] = e]
          /\ \/ e.by = p /\ t \notin Unborn
             \/ /\ ~Exists(e) /\ t \notin Unborn
                /\ Kind(p) = "deleteNoTombstone" /\ Key(p) = k /\ req[p].pc # "start"
             \/ e.live /\ \E b \in Branches : Named(b) /\ e = Base(b)[k]

LEMMA PutDots ==
    ASSUME TypeInv, NEW p \in Requests, NEW t \in Tokens \cup {NoOne}, NEW k \in Keys, NEW e \in Entries,
           Put(t, k, e),
           \/ e.by = p /\ t \notin Unborn
           \/ /\ ~Exists(e) /\ t \notin Unborn
              /\ Kind(p) = "deleteNoTombstone" /\ Key(p) = k /\ req[p].pc # "start"
           \/ e.live /\ \E b \in Branches : Named(b) /\ e = Base(b)[k]
    PROVE  Dots(p)
<1>1. staged' = [staged EXCEPT ![t][k] = e]
    BY DEF Put
<1>2. CASE t = NoOne
    <2>1. staged' = staged
        BY <1>1, <1>2, StagingAssumption DEF TypeInv, StoreTyped, StagingTypeOK, Tokens
    <2>2. QED
        BY <2>1 DEF Dots
<1>3. CASE t \in Tokens
    BY <1>1, <1>3 DEF Dots
<1>4. QED
    BY <1>2, <1>3

LEMMA NamedNotUnborn ==
    ASSUME NEW b, Named(b)
    PROVE  b.staging \notin Unborn
    BY DEF Named, Unborn

LEMMA UndoKeyDots ==
    ASSUME TypeInv, StoreInv, NEW p \in Requests, NEW b \in Branches, Named(b), NEW k \in Keys,
           NEW t \in Tokens \cup {NoOne}, UndoKey(p, b, k, t)
    PROVE  Dots(p)
<1>1. CASE Base(b)[k].live
    <2>1. Base(b)[k] \in Entries
        BY BaseType DEF TypeInv, StoreTyped, Contents
    <2>2. QED
        BY <1>1, <2>1, PutDots DEF UndoKey
<1>2. CASE ~Base(b)[k].live
    <2>1. b.staging \in Tokens \cup {NoOne} /\ Tombstone(p) \in Entries /\ Tombstone(p).by = p
        BY BranchFields, EntryTypes, RequestFields DEF Tombstone
    <2>2. QED
        BY <1>2, <2>1, NamedNotUnborn, PutDots DEF UndoKey
<1>3. QED
    BY <1>1, <1>2

LEMMA StepDots ==
    ASSUME TypeInv, StoreInv, NEW p \in Requests, Step(p) \/ Stop(p)
    PROVE  Dots(p)
<1>1. CASE staged' = staged
    BY <1>1 DEF Dots
<1>2. Placed(p, req[p].pc) /\ Named(req[p].pre) /\ Named(req[p].snap) /\ Key(p) \in Keys
      /\ req[p].pre \in Branches /\ req[p].snap \in Branches
      /\ req[p].pre.staging \in Tokens \cup {NoOne} /\ p \in Tokens /\ p \in Writers
    BY RequestFields, BranchFields DEF StoreInv, Order, Names
<1>3. ASSUME NEW e \in {Value(p), Tombstone(p), NoEntry}, Stage(p, e),
             e = NoEntry => Kind(p) = "deleteNoTombstone" /\ req[p].pc # "start"
      PROVE  Dots(p)
    <2>1. e \in Entries /\ (e # NoEntry => e.by = p)
        <3>1. e \in Entries
            BY <1>2, <1>3, EntryTypes
        <3>2. Value(p).by = p /\ Tombstone(p).by = p
            BY DEF Value, Tombstone
        <3>3. QED
            BY <1>3, <3>1, <3>2
    <2>2. req[p].pre.staging \notin Unborn
        BY <1>2, NamedNotUnborn
    <2>3. ~Exists(NoEntry)
        BY DEF Exists, NoEntry
    <2>4. QED
        BY <1>2, <1>3, <2>1, <2>2, <2>3, PutDots DEF Stage
<1>4. CASE Write(p)
    <2>1. CASE WriteBegin(p) \/ CondDeref(p) \/ UpdateRead(p) \/ Recheck(p)
        BY <1>1, <2>1 DEF WriteBegin, CondDeref, UpdateRead, Recheck, BranchNotFound, StoreUnchanged, stagingVars
    <2>2. CASE SetApply(p) \/ UpdateWrite(p) \/ DeleteApply(p) \/ Bury(p)
        <3>1. staged' = staged \/ Stage(p, Value(p)) \/ Stage(p, Tombstone(p))
            BY <2>2 DEF SetApply, UpdateWrite, DeleteApply, Bury, StoreUnchanged, stagingVars
        <3>2. Value(p) # NoEntry /\ Tombstone(p) # NoEntry
            BY StagingAssumption DEF Value, Tombstone, NoEntry
        <3>3. QED
            BY <1>1, <1>3, <3>1, <3>2
    <2>3. CASE DeleteDropKey(p)
        BY <1>3, <2>3 DEF DeleteDropKey, FoundNothing, Scanned, ReadDone
    <2>4. QED
        BY <1>4, <2>1, <2>2, <2>3 DEF Write
<1>5. CASE Reset(p)
    <2>1. CASE KeyReset(p)
        <3>1. CASE UndoKey(p, req[p].pre, Key(p), req[p].pre.staging)
            BY <1>2, <3>1, UndoKeyDots
        <3>2. QED
            BY <1>1, <2>1, <3>1 DEF KeyReset, StoreUnchanged, stagingVars
    <2>2. CASE PrefixUndo(p)
        <3>1. req[p].left \subseteq Keys
            BY RequestFields DEF Requested
        <3>2. QED
            BY <1>2, <2>2, <3>1, UndoKeyDots DEF PrefixUndo
    <2>3. CASE ~KeyReset(p) /\ ~PrefixUndo(p)
        BY <1>1, <1>5, <2>3 DEF Reset, ResetBegin, ResetPublish, HardBegin, HardDeref, HardPublish, KeyBegin, PrefixBegin,
              PrefixDiff, PrefixScanned, PrefixPublish, UpdateBegin, LostRace, Replace, BranchNotFound, StoreUnchanged, stagingVars
    <2>4. QED
        BY <2>1, <2>2, <2>3
<1>6. CASE ReadToken(p) \/ Read(p) \/ Dirty(p) \/ DropToken(p) \/ Stop(p)
    BY <1>1, <1>6 DEF ReadToken, Read, ReadBegin, ReadEnd, Dirty, DropToken, DropAsync, Stop, BranchNotFound,
          StoreUnchanged, stagingVars
<1>7. CASE Commit(p) \/ Seal(p) \/ Publish(p)
    BY <1>1, <1>7 DEF Commit, CommitSealRead, CommitRead, AddCommit, Seal, Publish, UpdateBegin, LostRace, Replace,
          BranchNotFound, StoreUnchanged, stagingVars
<1>8. CASE HeadUpdate(p)
    BY <1>1, <1>8 DEF HeadUpdate, PrepareBegin, HeadBegin, MergeCommit, RevertCommit, AddPatch, HeadPublish, UpdateBegin,
          LostRace, Replace, BranchNotFound, StoreUnchanged, stagingVars
<1>9. CASE BranchLifecycle(p)
    BY <1>1, <1>9 DEF BranchLifecycle, DeleteBranchRead, DeleteBranchApply, CreateBranchRead, CreateBranchApply,
          UpdateBegin, BranchNotFound, StoreUnchanged, stagingVars
<1>10. QED
    BY <1>4, <1>5, <1>6, <1>7, <1>8, <1>9 DEF Step

-----------------------------------------------------------------------------
(* What every step keeps of one write that is over and was not taken.      *)

\* No layer comes to have w, none but of a condemned token is uncovered.
Settles(w, k) ==
    \A t \in Tokens : /\ Marked(w, k, t)' => Marked(w, k, t)
                      /\ Solid(w, k, t) /\ t \notin Condemned => Solid(w, k, t)'

LEMMA ScanPrimed ==
    ASSUME NEW r, NEW w, NEW k, NEW b, NEW todo, NEW e, ScanSees(w, k, b, todo, e)',
           req'[r].pre = b, req'[r].todo = todo, req'[r].view[k] = e
    PROVE  ScanSees(w, k, req[r].pre, req[r].todo, req[r].view[k])'
<1> DEFINE a == req[r].pre
<1>1. Layers(a)' = Layers(b)' /\ LayerSet(a)' = LayerSet(b)' /\ Len(req[r].todo)' = Len(todo)
    BY DEF Layers, LayerSet
<1>2. Tracks(w, k, a)'
    <2>1. Tracks(w, k, b)'
        BY DEF ScanSees
    <2>2. QED
        BY <1>1, <2>1 DEF Tracks
<1>3. \A n : Screened(w, k, Layers(a), n)' <=> Screened(w, k, Layers(b), n)'
    BY <1>1 DEF Screened, Marked, Solid
<1> HIDE DEF a
<1>4. QED
    BY <1>1, <1>2, <1>3 DEF ScanSees, Exists

LEMMA TookBase ==
    ASSUME TypeInv, MarkInv, NEW b \in Branches, Named(b), NEW w \in Requests, NEW k \in Keys, Base(b)[k].by = w
    PROVE  Took(w, k)
<1>1. b.commit \in Writers \cup {NoOne} /\ w # NoOne /\ w # Origin
    BY BranchFields, StagingAssumption
<1>2. CASE b.commit = NoOne
    BY <1>1, <1>2 DEF Base, Content, Blank, NoEntry
<1>3. CASE b.commit = Origin
    BY <1>1, <1>3, StagingAssumption DEF Base, Content, MarkInv
<1>4. CASE b.commit \in Requests
    <2>1. Past(req[b.commit]) /\ commits[b.commit].content[k].by = w
        BY <1>4, StagingAssumption DEF Named, Base, Content
    <2>2. QED
        BY <1>4, <2>1 DEF Took
<1>5. QED
    BY <1>1, <1>2, <1>3, <1>4 DEF Writers

LEMMA TookKept ==
    ASSUME TypeInv, StoreInv, NEW p \in Requests, Step(p) \/ Stop(p), NEW w, NEW k, Took(w, k)
    PROVE  Took(w, k)'
<1>1. PICK c \in Requests : Past(req[c]) /\ commits[c].content[k].by = w
    BY DEF Took
<1>2. Past(req'[c])
    BY <1>1, StepSound, SoundFacts
<1>3. commits'[c] = commits[c]
    BY <1>1, StepCommits DEF Writers
<1>4. QED
    BY <1>1, <1>2, <1>3 DEF Took

LEMMA UnbornFalls ==
    ASSUME TypeInv, StoreInv, NEW p \in Requests, Step(p) \/ Stop(p)
    PROVE  Unborn' \subseteq Unborn
<1>1. PICK r : Moves(p, r)
    BY StepSound DEF Sound
<1>2. \A q \in Requests : req'[q] = IF q = p THEN r ELSE req[q]
    BY <1>1, GoParts DEF Moves
<1>3. \A q \in Requests : Kind(q)' = Kind(q)
    BY <1>1, GoParts DEF Moves
<1>4. QED
    BY <1>1, <1>2, <1>3 DEF Moves, Unborn, Fresh

LEMMA StepSettles ==
    ASSUME TypeInv, StoreInv, MarkInv, NEW p \in Requests, Step(p) \/ Stop(p),
           NEW w \in Requests, w # p, NEW k \in Keys, ~Took(w, k),
           ~(Kind(p) = "deleteNoTombstone" /\ Key(p) = k /\ req[p].pc # "start")
    PROVE  Settles(w, k)
<1>1. staged \in [Tokens -> [Keys -> Entries]]
    BY DEF TypeInv, StoreTyped, StagingTypeOK
<1>2. CASE staged' = staged
    BY <1>2 DEF Settles, Marked, Solid
<1>3. ASSUME NEW t \in Tokens, NEW e \in Entries, staged' = [staged EXCEPT ![t][k] = e], Exists(e), e.by # w
      PROVE  Settles(w, k)
    <2>1. ASSUME NEW u \in Tokens PROVE staged'[u][k] = IF u = t THEN e ELSE staged[u][k]
        BY <1>1, <1>3
    <2>2. QED
        BY <1>3, <2>1 DEF Settles, Marked, Solid
<1>4. ASSUME NEW t \in Tokens, NEW h \in Keys, h # k, NEW e \in Entries, staged' = [staged EXCEPT ![t][h] = e]
      PROVE  Settles(w, k)
    <2>1. ASSUME NEW u \in Tokens PROVE staged'[u][k] = staged[u][k]
        BY <1>1, <1>4
    <2>2. QED
        BY <2>1 DEF Settles, Marked, Solid
<1>5. CASE staged' # staged
    <2>1. PICK t \in Tokens, h \in Keys, e \in Entries :
              /\ staged' = [staged EXCEPT ![t][h] = e]
              /\ \/ e.by = p
                 \/ Kind(p) = "deleteNoTombstone" /\ Key(p) = h /\ req[p].pc # "start"
                 \/ e.live /\ \E b \in Branches : Named(b) /\ e = Base(b)[h]
        BY <1>5, StepDots DEF Dots
    <2>2. CASE h # k
        BY <1>4, <2>1, <2>2
    <2>3. CASE h = k /\ e.by = p
        BY <1>3, <2>1, <2>3, StagingAssumption DEF Exists
    <2>4. CASE h = k /\ e.live /\ \E b \in Branches : Named(b) /\ e = Base(b)[h]
        <3>1. PICK b \in Branches : Named(b) /\ e = Base(b)[k]
            BY <2>4
        <3>2. e.by # w
            BY <3>1, TookBase
        <3>3. Owned(k, e)
            BY <3>1, BaseOwned, BranchFields DEF Base
        <3>4. Exists(e)
            BY <2>4, <3>3 DEF Owned
        <3>5. QED
            BY <1>3, <2>1, <2>4, <3>2, <3>4
    <2>5. QED
        BY <2>1, <2>2, <2>3, <2>4
<1>6. QED
    BY <1>2, <1>5

LEMMA CleanSettles ==
    ASSUME TypeInv, StoreInv, NEW s \in Servers, CleanStep(s), NEW w \in Requests, NEW k \in Keys
    PROVE  Settles(w, k)
<1>1. staged \in [Tokens -> [Keys -> Entries]]
    BY DEF TypeInv, StoreTyped, StagingTypeOK
<1>2. CASE staged' = staged
    BY <1>2 DEF Settles, Marked, Solid
<1>3. ASSUME NEW t \in Condemned \cap Tokens, NEW h \in Keys, staged' = [staged EXCEPT ![t][h] = NoEntry]
      PROVE  Settles(w, k)
    <2>1. ASSUME NEW u \in Tokens PROVE staged'[u][k] = IF u = t /\ h = k THEN NoEntry ELSE staged[u][k]
        BY <1>1, <1>3
    <2>2. NoEntry.by # w
        BY StagingAssumption DEF NoEntry
    <2>3. QED
        BY <1>3, <2>1, <2>2 DEF Settles, Marked, Solid
<1>4. QED
    BY <1>2, <1>3, CleanStaged

\* Tokens that are, or will be, layers are not condemned.
LEMMA KeptTokens ==
    ASSUME TokenInv
    PROVE  \A t \in LayerSet(branch) \cup Unborn : t \notin Condemned
    BY DEF TokenInv, LiveTokensKept, FreshUnclaimed, Unborn, Claimed, Dropped

LEMMA LayersFall ==
    ASSUME branch \in Branches, branch' \in Branches, Lowers
    PROVE  LayerSet(branch)' \subseteq LayerSet(branch) \cup Unborn
<1> SUFFICES ASSUME NEW t \in LayerSet(branch)' PROVE t \in LayerSet(branch) \cup Unborn
    OBVIOUS
<1>1. LayerSet(branch)' = LayerSet(branch') /\ Layers(branch)' = Layers(branch')
    BY DEF LayerSet, Layers
<1>2. PICK i \in 1..Len(Layers(branch)') : Layers(branch)'[i] = t
    BY <1>1, LayerFacts
<1>3. QED
    BY <1>2, LayerFacts DEF Lowers

LEMMA HiddenKept ==
    ASSUME TypeInv, TokenInv, branch' \in Branches, Lowers, NEW w, NEW k, Settles(w, k),
           \A q \in Unborn : ~Marked(w, k, q)', Hidden(w, k)
    PROVE  Hidden(w, k)'
<1> DEFINE B == Layers(branch)
           C == Layers(branch)'
<1>1. /\ \A i \in 1..Len(B) : B[i] \in LayerSet(branch) /\ B[i] \in Tokens
      /\ Len(B) \in Nat
    BY LayerFacts DEF TypeInv, StoreTyped
<1>2. ASSUME NEW i \in 1..Len(C), staged'[C[i]][k].by = w
      PROVE  \E j \in 1..(i - 1) : Exists(staged'[C[j]][k]) /\ staged'[C[j]][k].by # w
    <2>1. PICK h \in 1..Len(B) : C[i] = B[h] /\ \A n \in 1..(h - 1) : \E m \in 1..(i - 1) : C[m] = B[n]
        BY <1>2 DEF Lowers, Marked
    <2>2. Marked(w, k, B[h])
        BY <1>1, <1>2, <2>1 DEF Settles, Marked
    <2>3. PICK n \in 1..(h - 1) : Solid(w, k, B[n])
        BY <1>1, <2>2 DEF Hidden, Screened
    <2>4. n \in 1..Len(B)
        BY <1>1
    <2>5. PICK m \in 1..(i - 1) : C[m] = B[n]
        BY <2>1
    <2>6. PICK t : t = B[n]
        OBVIOUS
    <2>7. Solid(w, k, t) /\ t \in Tokens /\ t \notin Condemned
        BY <1>1, <2>3, <2>4, <2>6, KeptTokens
    <2>8. Solid(w, k, t)'
        BY <2>7 DEF Settles
    <2>9. C[m] = t /\ Exists(staged'[t][k]) /\ staged'[t][k].by # w
        BY <2>5, <2>6, <2>8 DEF Solid, Exists
    <2>10. QED
        BY <2>9
<1>3. QED
    BY <1>2 DEF Hidden, Screened, Marked, Solid

LEMMA TracksKept ==
    ASSUME TypeInv, branch' \in Branches, Lowers, NEW w, NEW k, Settles(w, k),
           \A q \in Unborn : ~Marked(w, k, q)', Unborn' \subseteq Unborn, NEW b \in Branches, Tracks(w, k, b)
    PROVE  Tracks(w, k, b)'
<1> DEFINE B == Layers(branch)
           C == Layers(branch)'
           L == Layers(b)
<1>1. /\ \A i \in 1..Len(B) : B[i] \in LayerSet(branch) /\ B[i] \in Tokens
      /\ \A j \in 1..Len(L) : L[j] \in LayerSet(b)
      /\ \A t \in LayerSet(branch) : t \in Tokens
      /\ Len(B) \in Nat
    BY LayerFacts DEF TypeInv, StoreTyped
<1>2. Layers(b)' = L /\ LayerSet(b)' = LayerSet(b)
    BY DEF Layers, LayerSet
<1>3. ASSUME NEW t \in LayerSet(branch)' PROVE t \in LayerSet(b) \/ ~Marked(w, k, t)'
    BY <1>1, LayersFall DEF Tracks, Settles, TypeInv, StoreTyped
<1>4. ASSUME NEW i \in 1..Len(C), NEW j \in 1..Len(L), C[i] = L[j], NEW m \in 1..(j - 1)
      PROVE  \E n \in 1..(i - 1) : C[n] = L[m]
    <2>1. C[i] \notin Unborn
        BY <1>1, <1>4 DEF Tracks
    <2>2. PICK h \in 1..Len(B) : C[i] = B[h] /\ \A n \in 1..(h - 1) : \E x \in 1..(i - 1) : C[x] = B[n]
        BY <2>1 DEF Lowers
    <2>3. PICK n \in 1..(h - 1) : B[n] = L[m]
        BY <1>4, <2>2 DEF Tracks
    <2>4. QED
        BY <2>2, <2>3
<1>5. Unborn' \cap LayerSet(b) = {}
    BY DEF Tracks
<1>6. QED
    BY <1>2, <1>3, <1>4, <1>5 DEF Tracks

LEMMA ScreenedKept ==
    ASSUME TypeInv, TokenInv, branch' \in Branches, Lowers, NEW w, NEW k, Settles(w, k), NEW b \in Branches,
           Tracks(w, k, b), NEW n \in 0..Len(Layers(b)), Screened(w, k, Layers(b), n)
    PROVE  Screened(w, k, Layers(b), n)'
<1> DEFINE B == Layers(branch)
           L == Layers(b)
<1>1. /\ \A i \in 1..Len(B) : B[i] \in LayerSet(branch)
      /\ \A t \in LayerSet(branch) : t \in Tokens /\ \E i \in 1..Len(B) : B[i] = t
      /\ \A j \in 1..Len(L) : L[j] \in LayerSet(b) /\ L[j] \in Tokens
      /\ Len(B) \in Nat /\ Len(L) \in Nat
    BY LayerFacts DEF TypeInv, StoreTyped
<1>2. Layers(b)' = L
    BY DEF Layers
<1>3. ASSUME NEW i \in 1..n, Marked(w, k, L[i])', L[i] \in LayerSet(branch)'
      PROVE  \E j \in 1..(i - 1) : Solid(w, k, L[j])'
    <2>1. i \in 1..Len(L)
        BY <1>1
    <2>2. L[i] \in LayerSet(branch) /\ Marked(w, k, L[i])
        <3>1. L[i] \notin Unborn
            BY <1>1, <2>1 DEF Tracks
        <3>2. QED
            BY <1>1, <1>3, <2>1, <3>1, LayersFall DEF Settles, TypeInv, StoreTyped
    <2>3. PICK j \in 1..(i - 1) : Solid(w, k, L[j])
        BY <2>2 DEF Screened
    <2>4. PICK h \in 1..Len(B) : B[h] = L[i]
        BY <1>1, <2>2
    <2>5. PICK x \in 1..(h - 1) : B[x] = L[j]
        BY <2>1, <2>4 DEF Tracks
    <2>6. L[j] \in LayerSet(branch) /\ L[j] \in Tokens
        <3>1. x \in 1..Len(B)
            BY <1>1
        <3>2. QED
            BY <1>1, <2>5, <3>1
    <2>7. Solid(w, k, L[j])'
        BY <2>3, <2>6, KeptTokens DEF Settles
    <2>8. QED
        BY <2>7
<1>4. QED
    BY <1>2, <1>3 DEF Screened

\* What is hidden in the record that was read is hidden in the branch.
LEMMA ScreenedHides ==
    ASSUME TypeInv, NEW w, NEW k, NEW b \in Branches, Tracks(w, k, b), Screened(w, k, Layers(b), Len(Layers(b)))
    PROVE  Hidden(w, k)
<1> DEFINE B == Layers(branch)
           L == Layers(b)
<1>1. /\ \A i \in 1..Len(B) : B[i] \in LayerSet(branch)
      /\ \A t \in LayerSet(b) : \E j \in 1..Len(L) : L[j] = t
      /\ Len(B) \in Nat /\ Len(L) \in Nat
    BY LayerFacts DEF TypeInv, StoreTyped
<1>2. ASSUME NEW i \in 1..Len(B), Marked(w, k, B[i]) PROVE \E n \in 1..(i - 1) : Solid(w, k, B[n])
    <2>1. PICK j \in 1..Len(L) : L[j] = B[i]
        BY <1>1, <1>2 DEF Tracks
    <2>2. PICK m \in 1..(j - 1) : Solid(w, k, L[m])
        BY <1>1, <1>2, <2>1 DEF Screened
    <2>3. PICK n \in 1..(i - 1) : B[n] = L[m]
        BY <2>1 DEF Tracks
    <2>4. QED
        BY <2>2, <2>3
<1>3. QED
    BY <1>2 DEF Hidden, Screened

LEMMA UndidKept ==
    ASSUME TypeInv, TokenInv, StoreInv, branch' \in Branches, Lowers,
           NEW r \in Requests, req'[r].snap = req[r].snap, req[r].pc = "prefixWrite",
           NEW w, NEW k, Settles(w, k), Undid(r, w, k)
    PROVE  Undid(r, w, k)'
<1>1. r \in Unborn /\ r \in Tokens /\ Named(req[r].snap)
    BY DEF Unborn, Fresh, Tokens, StoreInv, Names
<1>2. CASE Solid(w, k, r)
    <2>1. Solid(w, k, r)'
        BY <1>1, <1>2, KeptTokens DEF Settles
    <2>2. QED
        BY <2>1 DEF Undid
<1>3. CASE req[r].snap.staging \in LayerSet(branch) => Solid(w, k, req[r].snap.staging)
    <2>1. PICK t : t = req[r].snap.staging
        OBVIOUS
    <2>2. ASSUME t \in LayerSet(branch)' PROVE Solid(w, k, t)'
        <3>1. t \in LayerSet(branch)
            BY <1>1, <2>1, <2>2, LayersFall, NamedNotUnborn DEF TypeInv, StoreTyped
        <3>2. t \in Tokens /\ t \notin Condemned /\ Solid(w, k, t)
            BY <1>3, <2>1, <3>1, KeptTokens, LayerFacts DEF TypeInv, StoreTyped
        <3>3. QED
            BY <3>2 DEF Settles
    <2>3. QED
        BY <2>1, <2>2 DEF Undid
<1>4. QED
    BY <1>2, <1>3 DEF Undid

\* Steps of others, and of the cleanup.
LEMMA OtherHolds ==
    ASSUME TypeInv, TokenInv, StoreInv, branch' \in Branches, Lowers, Unborn' \subseteq Unborn,
           NEW r \in Requests, req'[r] = req[r], Kind(r)' = Kind(r),
           NEW w \in Requests, NEW k \in Keys, Settles(w, k), \A q \in Unborn : ~Marked(w, k, q)',
           ResetHolds(r, w, k), ~Took(w, k), ~Uncovers(r, k)
    PROVE  ResetHolds(r, w, k)'
<1>1. Hidden(w, k) => Hidden(w, k)'
    BY HiddenKept
<1>2. ASSUME req[r].pc \in {"keyScan", "prefixScan"}
      PROVE  ScanSees(w, k, req[r].pre, req[r].todo, req[r].view[k])'
    <2>1. PICK b \in Branches, todo \in Seq(Tokens), e \in Entries :
              b = req[r].pre /\ todo = req[r].todo /\ e = req[r].view[k]
        <3>1. req[r].pre \in Branches /\ req[r].todo \in Seq(Tokens) /\ req[r].view[k] \in Entries
            BY RequestFields DEF Requested, Contents
        <3>2. QED
            BY <3>1
    <2>2. ScanSees(w, k, b, todo, e)
        BY <1>2, <2>1 DEF ResetHolds
    <2>3. Tracks(w, k, b) /\ Tracks(w, k, b)'
        BY <2>2, TracksKept DEF ScanSees
    <2>4. \A n \in 0..Len(Layers(b)) : Screened(w, k, Layers(b), n) => Screened(w, k, Layers(b), n)'
        BY <2>3, ScreenedKept
    <2>5. Len(Layers(b)) \in Nat /\ Len(todo) \in Nat /\ Layers(b)' = Layers(b)
        BY LayerFacts, LenProperties DEF Layers
    <2>6. PICK L, x : L = Layers(b) /\ x = Len(L) - Len(todo)
        OBVIOUS
    <2>7. Screened(w, k, L, Len(L)) => Screened(w, k, L, Len(L))'
        BY <2>4, <2>5, <2>6 DEF Screened
    <2>8. Len(todo) <= Len(L) /\ Screened(w, k, L, x) => Screened(w, k, L, x)'
        <3>1. Len(todo) <= Len(L) => x \in 0..Len(L)
            BY <2>5, <2>6
        <3>2. QED
            BY <2>4, <2>5, <2>6, <3>1 DEF Screened
    <2>9. ScanSees(w, k, b, todo, e)'
        BY <2>2, <2>3, <2>5, <2>6, <2>7, <2>8 DEF ScanSees
    <2>10. QED
        BY <2>1, <2>9, ScanPrimed
<1>3. req[r].pc = "prefixWrite" /\ Undid(r, w, k) => Undid(r, w, k)'
    BY UndidKept
<1>4. QED
    BY <1>1, <1>2, <1>3 DEF ResetHolds

-----------------------------------------------------------------------------
(* The steps of a reset.                                                   *)

\* What a reset does, point by point.
LEMMA UndoerActs ==
    ASSUME TypeInv, StoreInv, NEW r \in Requests, Kind(r) \in Undoers, Step(r) \/ Stop(r)
    PROVE  \/ ReadToken(r) \/ ResetBegin(r) \/ ResetPublish(r) \/ KeyBegin(r) \/ KeyReset(r)
           \/ PrefixBegin(r) \/ PrefixDiff(r) \/ PrefixScanned(r) \/ PrefixUndo(r) \/ PrefixPublish(r)
           \/ DeleteBranchRead(r) \/ DeleteBranchApply(r) \/ DropToken(r) \/ Stop(r)
<1>1. Placed(r, req[r].pc)
    BY DEF StoreInv, Order
<1>2. ~Write(r)
    BY <1>1 DEF Write, WriteBegin, SetApply, CondDeref, UpdateRead, UpdateWrite, DeleteApply, Bury, FoundValue,
          DeleteDropKey, Recheck, NothingToDelete, FoundBuried, FoundNothing, Scanned, ReadDone, Placed,
          Undoers, Writes, CondWrites, BlindWrites, Deletes
<1>3. ~Read(r) /\ ~Commit(r) /\ ~Seal(r) /\ ~Publish(r) /\ ~Dirty(r)
    BY <1>1 DEF Read, ReadBegin, ReadEnd, Commit, CommitSealRead, CommitRead, AddCommit, Seal, Publish, Dirty, ReadDone,
          Placed, Undoers, Reads, HeadUpdates
<1>4. ~HeadUpdate(r) /\ ~CreateBranchRead(r) /\ ~CreateBranchApply(r)
    BY <1>1 DEF HeadUpdate, PrepareBegin, HeadBegin, MergeCommit, RevertCommit, HeadPublish, CreateBranchRead,
          CreateBranchApply, Placed, Undoers, HeadUpdates
<1>5. ~HardBegin(r) /\ ~HardDeref(r) /\ ~HardPublish(r)
    BY DEF HardBegin, HardDeref, HardPublish, Undoers
<1>6. QED
    BY <1>2, <1>3, <1>4, <1>5 DEF Step, Reset, BranchLifecycle

\* Points at which something is known of what r is to undo.
Claims == {"ok", "drop", "keyScan", "prefixScan", "prefixWrite"}

LEMMA NothingClaimed ==
    ASSUME NEW r \in Requests, NEW w, NEW k, req'[r].pc \notin Claims
    PROVE  ResetHolds(r, w, k)'
    BY DEF ResetHolds, Claims

\* A scan begins with nothing found and everything to read.
LEMMA ScanBegins ==
    ASSUME TypeInv, TokenInv, MarkInv, NEW r \in Requests, NEW w, NEW k \in Keys, StoreUnchanged,
           Unborn' \subseteq Unborn, req'[r].pre = branch, req'[r].todo = Layers(branch), req'[r].view = Blank
    PROVE  ScanSees(w, k, req[r].pre, req[r].todo, req[r].view[k])'
<1>1. PICK b \in Branches : b = branch
    BY DEF TypeInv, StoreTyped
<1>2. Len(Layers(b)) \in Nat
    BY LayerFacts
<1>3. branch' = b /\ staged' = staged
    BY <1>1 DEF StoreUnchanged, stagingVars
<1>4. Unborn \cap LayerSet(b) = {}
    BY <1>1 DEF TokenInv, FreshUnclaimed, Unborn, Claimed
<1>5. \A i, j \in 1..Len(Layers(b)) : Layers(b)[i] = Layers(b)[j] => i = j
    BY <1>1 DEF MarkInv, Apart
<1>6. Tracks(w, k, b)'
    <2>1. Layers(b)' = Layers(b) /\ Layers(branch)' = Layers(b) /\ LayerSet(b)' = LayerSet(b) /\ LayerSet(branch)' = LayerSet(b)
        BY <1>3 DEF Layers, LayerSet
    <2>2. QED
        BY <1>2, <1>4, <1>5, <2>1 DEF Tracks
<1>7. ~Exists(Blank[k])
    BY DEF Exists, Blank, NoEntry
<1>8. ScanSees(w, k, b, Layers(b), Blank[k])'
    <2>1. Layers(b)' = Layers(b)
        BY DEF Layers
    <2>2. PICK L : L = Layers(b)
        OBVIOUS
    <2>3. Screened(w, k, L, Len(L) - Len(L))'
        BY <1>2, <2>2 DEF Screened
    <2>4. \A i \in 1..Len(L) : L[i] = L[(Len(L) - Len(L)) + i]
        BY <1>2, <2>2
    <2>5. QED
        BY <1>2, <1>6, <1>7, <2>1, <2>2, <2>3, <2>4 DEF ScanSees, Blank
<1>9. req'[r].pre = b /\ req'[r].todo = Layers(b) /\ req'[r].view[k] = Blank[k]
    BY <1>1
<1>10. QED
    BY <1>8, <1>9, ScanPrimed

\* One more token is read.
LEMMA ScanGoesOn ==
    ASSUME TypeInv, StoreInv, NEW b \in Branches, NEW w \in Requests, NEW k \in Keys, Kind(w) \in Sets,
           NEW todo \in Seq(Tokens), todo # <<>>, NEW e \in Entries, ScanSees(w, k, b, todo, e)
    PROVE  LET new == staged[Head(todo)][k]
           IN /\ ScanSees(w, k, b, Tail(todo), IF Exists(e) THEN e ELSE new)
              /\ ~Exists(e) /\ Exists(new) => ScanSees(w, k, b, <<>>, new)
<1> DEFINE L == Layers(b)
           n == Len(L) - Len(todo)
           new == staged[Head(todo)][k]
<1>1. /\ L \in Seq(Tokens) /\ Len(L) \in Nat /\ Len(todo) \in Nat /\ Len(todo) >= 1
      /\ Head(todo) = todo[1] /\ Head(todo) \in Tokens
      /\ Len(Tail(todo)) = Len(todo) - 1
      /\ \A i \in 1..(Len(todo) - 1) : Tail(todo)[i] = todo[i + 1]
    BY LayerFacts
<1>2. Tracks(w, k, b)
    BY DEF ScanSees
<1>3. CASE Exists(e)
    BY <1>3 DEF ScanSees
<1>4. CASE ~Exists(e)
    <2>1. /\ Len(todo) <= Len(L) /\ Screened(w, k, L, n)
          /\ \A i \in 1..Len(todo) : todo[i] = L[n + i]
        <3>1. e.by # w
            BY <1>4, StagingAssumption DEF Exists
        <3>2. QED
            BY <1>4, <3>1 DEF ScanSees
    <2>2. n \in Nat /\ n + 1 \in 1..Len(L) /\ Head(todo) = L[n + 1] /\ Len(L) - Len(Tail(todo)) = n + 1
        BY <1>1, <2>1
    <2> HIDE DEF n
    <2>3. CASE new.by = w
        <3>1. Owned(k, new)
            BY <1>1 DEF StoreInv, Marks
        <3>2. Exists(new) /\ new.live
            BY <2>3, <3>1, StagingAssumption DEF Owned, Exists, Sets, BlindWrites, CondWrites, Resets, Deletes
        <3>3. QED
            BY <1>2, <1>4, <2>3, <3>2 DEF ScanSees
    <2>4. CASE Exists(new) /\ new.by # w
        <3>1. Screened(w, k, L, Len(L))
            <4> SUFFICES ASSUME NEW i \in 1..Len(L), Marked(w, k, L[i]), L[i] \in LayerSet(branch)
                         PROVE  \E j \in 1..(i - 1) : Solid(w, k, L[j])
                BY DEF Screened
            <4>1. Solid(w, k, L[n + 1]) /\ ~Marked(w, k, L[n + 1])
                BY <2>2, <2>4 DEF Solid, Marked
            <4>2. CASE i <= n
                BY <2>1, <2>2, <4>2 DEF Screened
            <4>3. CASE i > n + 1
                BY <1>1, <2>2, <4>1, <4>3
            <4>4. QED
                BY <1>1, <2>2, <4>1, <4>2, <4>3
        <3>2. QED
            BY <1>2, <1>4, <2>4, <3>1 DEF ScanSees
    <2>5. CASE ~Exists(new) /\ new.by # w
        <3>1. Screened(w, k, L, n + 1)
            <4> SUFFICES ASSUME NEW i \in 1..(n + 1), Marked(w, k, L[i]), L[i] \in LayerSet(branch)
                         PROVE  \E j \in 1..(i - 1) : Solid(w, k, L[j])
                BY DEF Screened
            <4>1. ~Marked(w, k, L[n + 1])
                BY <2>2, <2>5 DEF Marked
            <4>2. i \in 1..n
                BY <2>2, <4>1
            <4>3. QED
                BY <2>1, <4>2 DEF Screened
        <3>2. \A i \in 1..Len(Tail(todo)) : Tail(todo)[i] = L[(n + 1) + i]
            <4> SUFFICES ASSUME NEW i \in 1..(Len(todo) - 1) PROVE todo[i + 1] = L[(n + 1) + i]
                BY <1>1
            <4>1. i + 1 \in 1..Len(todo) /\ n + (i + 1) = (n + 1) + i
                BY <1>1, <2>2
            <4>2. QED
                BY <2>1, <4>1 DEF n
        <3>3. ScanSees(w, k, b, Tail(todo), new)
            BY <1>1, <1>2, <2>2, <2>5, <3>1, <3>2 DEF ScanSees
        <3>4. QED
            BY <1>4, <2>5, <3>3
    <2>6. QED
        BY <2>3, <2>4, <2>5
<1>5. QED
    BY <1>3, <1>4

-----------------------------------------------------------------------------
(* The steps of a reset keep what is known of what it undoes.              *)

LEMMA ScanStays ==
    ASSUME StoreUnchanged, Unborn' \subseteq Unborn, NEW w, NEW k, NEW b, NEW todo, NEW e, ScanSees(w, k, b, todo, e)
    PROVE  ScanSees(w, k, b, todo, e)'
<1>1. branch' = branch /\ staged' = staged
    BY DEF StoreUnchanged, stagingVars
<1>2. Layers(branch)' = Layers(branch) /\ LayerSet(branch)' = LayerSet(branch)
      /\ Layers(b)' = Layers(b) /\ LayerSet(b)' = LayerSet(b)
    BY <1>1 DEF Layers, LayerSet
<1>3. \A t : /\ Marked(w, k, t)' <=> Marked(w, k, t)
             /\ Solid(w, k, t)' <=> Solid(w, k, t)
    BY <1>1 DEF Marked, Solid
<1>4. Tracks(w, k, b)'
    <2>1. Tracks(w, k, b)
        BY DEF ScanSees
    <2>2. QED
        BY <1>2, <1>3, <2>1 DEF Tracks
<1>5. \A L, n : Screened(w, k, L, n)' <=> Screened(w, k, L, n)
    BY <1>2, <1>3 DEF Screened
<1>6. QED
    BY <1>2, <1>4, <1>5 DEF ScanSees

LEMMA UncoversKept ==
    ASSUME TypeInv, StoreInv, NEW p \in Requests, Step(p) \/ Stop(p),
           NEW r \in Requests, before'[r] = before[r], NEW k, Uncovers(r, k)
    PROVE  Uncovers(r, k)'
<1>1. PICK d \in Requests \ before[r] : Kind(d) = "deleteNoTombstone" /\ Key(d) = k /\ req[d].pc # "start"
    BY DEF Uncovers
<1>2. /\ Kind(d)' = Kind(d) /\ Key(d)' = Key(d)
      /\ d # p => req'[d] = req[d]
      /\ req'[p].pc # "start"
    BY StepSound, SoundFacts
<1>3. QED
    BY <1>1, <1>2 DEF Uncovers

LEMMA FinishPoint ==
    ASSUME TypeInv, NEW p \in Requests, NEW o, Finish(p, o)
    PROVE  req'[p].pc = o
    BY Moved DEF NotStarted, Finish

\* DropThen ends, or goes on to drop; ResetPrefix does not succeed that way.
LEMMA DropPoints ==
    ASSUME TypeInv, NEW p \in Requests, NEW s, DropThen(p, s)
    PROVE  /\ req'[p].pc \in {"drop", "ok", "failed"}
           /\ Kind(p) = "resetPrefix" => req'[p].pc # "ok"
<1>1. CASE Go(p, [NotStarted EXCEPT !.pc = "drop", !.drop = s])
    BY <1>1, Moved DEF NotStarted
<1>2. CASE Finish(p, IF Kind(p) = "resetPrefix" THEN "failed" ELSE "ok")
    BY <1>2, FinishPoint
<1>3. QED
    BY <1>1, <1>2 DEF DropThen

\* What is written on the staging token of the record that was read hides
\* what was in that record.
LEMMA TopHides ==
    ASSUME TypeInv, branch' = branch, NEW w, NEW k, Settles(w, k), NEW b \in Branches, b # NoBranch,
           Tracks(w, k, b), Solid(w, k, b.staging)'
    PROVE  Hidden(w, k)'
<1> DEFINE B == Layers(branch)
           L == Layers(b)
<1>1. /\ \A i \in 1..Len(B) : B[i] \in LayerSet(branch) /\ B[i] \in Tokens
      /\ \A t \in LayerSet(b) : \E j \in 1..Len(L) : L[j] = t
      /\ Len(B) \in Nat /\ Len(L) \in Nat /\ Len(L) >= 1 /\ L[1] = b.staging
    BY LayerFacts DEF TypeInv, StoreTyped
<1>2. ASSUME NEW i \in 1..Len(B), Marked(w, k, B[i])'
      PROVE  \E n \in 1..(i - 1) : Solid(w, k, B[n])'
    <2>1. PICK t : t = B[i]
        OBVIOUS
    <2>2. Marked(w, k, t)' /\ t \in LayerSet(branch) /\ t \in Tokens
        BY <1>1, <1>2, <2>1 DEF Marked
    <2>3. t \in LayerSet(b)
        BY <2>2 DEF Settles, Tracks
    <2>4. PICK j \in 1..Len(L) : L[j] = t
        BY <1>1, <2>3
    <2>5. t # b.staging
        BY <2>2 DEF Marked, Solid
    <2>6. 1 \in 1..(j - 1)
        BY <1>1, <2>4, <2>5
    <2>7. PICK n \in 1..(i - 1) : B[n] = L[1]
        BY <2>1, <2>4, <2>6 DEF Tracks
    <2>8. Solid(w, k, B[n])'
        BY <1>1, <2>7 DEF Solid
    <2>9. QED
        BY <2>8
<1>3. Layers(branch)' = B
    BY DEF Layers
<1>4. QED
    BY <1>2, <1>3 DEF Hidden, Screened, Marked, Solid

\* An entry that undoes w is not w, and is not nothing.
LEMMA UndoSolid ==
    ASSUME TypeInv, StoreInv, MarkInv, NEW r \in Requests, NEW w \in Requests, w # r, NEW k \in Keys, ~Took(w, k),
           NEW b \in Branches, Named(b), NEW t \in Tokens, UndoKey(r, b, k, t)
    PROVE  \/ Base(b)[k].live /\ Solid(w, k, t)'
           \/ b.staging \in Tokens => Solid(w, k, b.staging)'
<1>1. staged \in [Tokens -> [Keys -> Entries]]
    BY DEF TypeInv, StoreTyped, StagingTypeOK
<1>2. CASE Base(b)[k].live
    <2>1. staged'[t][k] = Base(b)[k]
        BY <1>1, <1>2 DEF UndoKey, Put
    <2>2. Base(b)[k].by # w
        BY TookBase
    <2>3. Exists(Base(b)[k])
        BY <1>2, BaseOwned, BranchFields DEF Base, Owned
    <2>4. QED
        BY <1>2, <2>1, <2>2, <2>3 DEF Solid
<1>3. CASE ~Base(b)[k].live
    <2>1. b.staging \in Tokens => staged'[b.staging][k] = Tombstone(r)
        BY <1>1, <1>3 DEF UndoKey, Put
    <2>2. Exists(Tombstone(r)) /\ Tombstone(r).by # w
        BY StagingAssumption DEF Tombstone, Exists
    <2>3. QED
        BY <2>1, <2>2 DEF Solid
<1>4. QED
    BY <1>2, <1>3

\* An entry of w over a record that does not have it is a change to reset.
LEMMA NeedsW ==
    ASSUME TypeInv, MarkInv, NEW w \in Requests, NEW k \in Keys, ~Took(w, k),
           NEW b \in Branches, Named(b), NEW e, e.by = w, e.live
    PROVE  NeedsReset(b, k, e)
<1>1. Base(b)[k].by # w
    BY TookBase
<1>2. QED
    BY <1>1 DEF NeedsReset

\* A scan that has read everything and did not find w.
LEMMA ScannedHides ==
    ASSUME TypeInv, NEW w \in Requests, NEW k, NEW b \in Branches, NEW e, ScanSees(w, k, b, <<>>, e), ~(e.by = w /\ e.live)
    PROVE  Hidden(w, k)
<1>1. Len(Layers(b)) \in Nat /\ Len(<<>>) = 0
    BY LayerFacts
<1>2. PICK n : n = Len(Layers(b))
    OBVIOUS
<1>3. n - 0 = n
    BY <1>1, <1>2
<1>4. Tracks(w, k, b) /\ Screened(w, k, Layers(b), n)
    BY <1>1, <1>2, <1>3 DEF ScanSees
<1>5. QED
    BY <1>2, <1>4, ScreenedHides

\* What a step of another, or of the reset itself, makes of the branch.
Leaves(w, k) ==
    /\ branch' \in Branches /\ Lowers
    /\ Unborn' \subseteq Unborn
    /\ Settles(w, k)
    /\ \A q \in Unborn : ~Marked(w, k, q)'

LEMMA OwnReads ==
    ASSUME TypeInv, StoreInv, NEW r \in Requests, Kind(r) \in Undoers, ReadToken(r),
           NEW w \in Requests, Kind(w) \in Sets, NEW k \in Keys, Kind(r) = "resetKey" => Key(r) = k,
           Leaves(w, k), ResetHolds(r, w, k), ~Took(w, k), ~Uncovers(r, k)
    PROVE  ResetHolds(r, w, k)'
<1>1. /\ req[r].pc \in {"keyScan", "prefixScan"}
      /\ req[r].pc = "keyScan" => Kind(r) = "resetKey"
      /\ req[r].pc = "prefixScan" => Kind(r) = "resetPrefix"
    BY DEF ReadToken, StoreInv, Order, Placed, Scans, Undoers, Reads, HeadUpdates, CondWrites, Deletes
<1>2. PICK b \in Branches, todo \in Seq(Tokens), e \in Entries, view \in Contents :
          b = req[r].pre /\ todo = req[r].todo /\ e = view[k] /\ view = req[r].view
    <2>1. req[r].pre \in Branches /\ req[r].todo \in Seq(Tokens) /\ req[r].view \in Contents /\ req[r].view[k] \in Entries
        BY RequestFields DEF Requested, Contents
    <2>2. QED
        BY <2>1
<1>3. todo # <<>> /\ StoreUnchanged /\ Head(todo) \in Tokens /\ Unborn' \subseteq Unborn
    BY <1>2 DEF ReadToken, Leaves
<1>4. ScanSees(w, k, b, todo, e)
    BY <1>1, <1>2 DEF ResetHolds
<1>5. PICK new \in Entries : new = staged[Head(todo)][k]
    BY <1>3 DEF TypeInv, StoreTyped, StagingTypeOK
<1>6. /\ ScanSees(w, k, b, Tail(todo), IF Exists(e) THEN e ELSE new)
      /\ ~Exists(e) /\ Exists(new) => ScanSees(w, k, b, <<>>, new)
    BY <1>3, <1>4, <1>5, ScanGoesOn
<1>7. ASSUME NEW v, NEW s, ScanSees(w, k, b, s, v), req'[r].pre = b, req'[r].todo = s, req'[r].view[k] = v
      PROVE  ScanSees(w, k, req[r].pre, req[r].todo, req[r].view[k])'
    BY <1>3, <1>7, ScanStays, ScanPrimed
<1>8. CASE req[r].pc = "keyScan"
    <2> DEFINE s == IF Exists(new) THEN <<>> ELSE Tail(todo)
               x == [req[r] EXCEPT !.view[k] = new, !.todo = s]
    <2>1. ~Exists(e)
        BY <1>2, <1>3, <1>8 DEF ResetHolds
    <2>2. Go(r, x)
        <3>1. Kind(r) \in PointReads /\ Key(r) = k
            BY <1>1, <1>8 DEF PointReads
        <3>2. QED
            BY <1>2, <1>5, <3>1 DEF ReadToken
    <2>3. req'[r] = x
        BY <2>2, Moved
    <2>4. req'[r].pc = "keyScan" /\ req'[r].pre = b /\ req'[r].todo = s /\ req'[r].view[k] = new
        BY <1>2, <1>8, <2>3, RequestFields DEF Requested, Contents
    <2>5. ScanSees(w, k, b, s, new)
        BY <1>6, <2>1
    <2> HIDE DEF x
    <2>6. ScanSees(w, k, req[r].pre, req[r].todo, req[r].view[k])'
        BY <1>7, <2>4, <2>5
    <2>7. Exists(req'[r].view[k]) => req'[r].todo = <<>>
        BY <2>4
    <2>8. QED
        BY <2>4, <2>6, <2>7 DEF ResetHolds, Exists
<1>9. CASE req[r].pc = "prefixScan"
    <2> DEFINE x == [req[r] EXCEPT !.view = Overlay(@, staged[Head(todo)]), !.todo = Tail(@)]
               v == IF Exists(e) THEN e ELSE new
    <2>1. Go(r, x)
        <3>1. Kind(r) \notin PointReads
            BY <1>1, <1>9 DEF PointReads, Writes, BlindWrites, CondWrites, Deletes
        <3>2. QED
            BY <1>2, <3>1 DEF ReadToken
    <2>2. req'[r] = x
        BY <2>1, Moved
    <2>3. req'[r].pc = "prefixScan" /\ req'[r].pre = b /\ req'[r].todo = Tail(todo)
          /\ req'[r].view = Overlay(view, staged[Head(todo)])
        BY <1>2, <1>9, <2>2, RequestFields DEF Requested
    <2>4. req'[r].view[k] = v
        BY <1>2, <1>5, <2>3 DEF Overlay
    <2> HIDE DEF x
    <2>5. ScanSees(w, k, req[r].pre, req[r].todo, req[r].view[k])'
        BY <1>6, <1>7, <2>3, <2>4
    <2>6. QED
        BY <2>3, <2>5 DEF ResetHolds
<1>10. QED
    BY <1>1, <1>8, <1>9

LEMMA OwnKey ==
    ASSUME TypeInv, TokenInv, StoreInv, MarkInv, NEW r \in Requests, KeyReset(r),
           NEW w \in Requests, w # r, NEW k \in Keys, Key(r) = k,
           Leaves(w, k), ResetHolds(r, w, k), ~Took(w, k), ~Uncovers(r, k)
    PROVE  ResetHolds(r, w, k)'
<1>1. PICK b \in Branches, e \in Entries : b = req[r].pre /\ e = req[r].view[k]
    <2>1. req[r].pre \in Branches /\ req[r].view[k] \in Entries
        BY RequestFields DEF Requested, Contents
    <2>2. QED
        BY <2>1
<1>2. Named(b)
    BY <1>1 DEF StoreInv, Names
<1>3. ScanSees(w, k, b, <<>>, e)
    BY <1>1 DEF KeyReset, ReadDone, ResetHolds
<1>4. req'[r].pc = "ok"
    BY FinishPoint DEF KeyReset
<1>5. SUFFICES Hidden(w, k)'
    BY <1>4 DEF ResetHolds
<1>6. ASSUME Hidden(w, k) PROVE Hidden(w, k)'
    BY <1>6, HiddenKept DEF Leaves
<1>7. CASE ~(e.by = w /\ e.live)
    BY <1>3, <1>6, <1>7, ScannedHides
<1>8. CASE e.by = w /\ e.live /\ b = NoBranch
    <2>1. Tracks(w, k, b)
        BY <1>3 DEF ScanSees
    <2>2. Screened(w, k, Layers(b), Len(Layers(b)))
        <3>1. Layers(b) = <<>>
            BY <1>8 DEF Layers
        <3>2. QED
            BY <3>1 DEF Screened
    <2>3. QED
        BY <1>6, <2>1, <2>2, ScreenedHides
<1>9. CASE e.by = w /\ e.live /\ b # NoBranch
    <2>1. Exists(e) /\ NeedsReset(b, k, e)
        BY <1>2, <1>9, NeedsW, StagingAssumption DEF Exists
    <2>2. UndoKey(r, b, k, b.staging) /\ branch' = branch
        BY <1>1, <2>1 DEF KeyReset
    <2>3. b.staging \in Tokens
        BY <1>9, BranchFields
    <2>4. Solid(w, k, b.staging)'
        BY <1>2, <2>2, <2>3, UndoSolid
    <2>5. Tracks(w, k, b)
        BY <1>3 DEF ScanSees
    <2>6. QED
        BY <1>9, <2>2, <2>4, <2>5, TopHides DEF Leaves
<1>10. QED
    BY <1>7, <1>8, <1>9

LEMMA OwnPrefix ==
    ASSUME Unsure = {}, TypeInv, TokenInv, StoreInv, MarkInv, NEW r \in Requests, Kind(r) = "resetPrefix",
           PrefixScanned(r) \/ PrefixUndo(r) \/ PrefixPublish(r),
           NEW w \in Requests, w # r, NEW k \in Keys,
           Leaves(w, k), ResetHolds(r, w, k), ~Took(w, k), ~Uncovers(r, k)
    PROVE  ResetHolds(r, w, k)'
<1>1. PICK b \in Branches, a \in Branches, e \in Entries, left \in SUBSET Keys :
          b = req[r].snap /\ a = req[r].pre /\ e = req[r].view[k] /\ left = req[r].left
    <2>1. req[r].pre \in Branches /\ req[r].snap \in Branches /\ req[r].view[k] \in Entries /\ req[r].left \in SUBSET Keys
        BY RequestFields DEF Requested, Contents
    <2>2. QED
        BY <2>1
<1>2. Named(b) /\ Named(a) /\ r \in Tokens
    BY <1>1 DEF StoreInv, Names, Tokens
<1>3. ASSUME Hidden(w, k) PROVE Hidden(w, k)'
    BY <1>3, HiddenKept DEF Leaves
<1>4. CASE PrefixScanned(r)
    <2>1. ScanSees(w, k, a, <<>>, e)
        BY <1>1, <1>4 DEF PrefixScanned, ReadDone, ResetHolds
    <2>2. /\ req'[r].pc = "prefixWrite"
          /\ req'[r].left = {h \in Changes(req[r].view, Base(a)) : NeedsReset(b, h, req[r].view[h])}
        <3>1. PICK X : X = {h \in Changes(req[r].view, Base(a)) : NeedsReset(b, h, req[r].view[h])}
            OBVIOUS
        <3>2. Go(r, [req[r] EXCEPT !.pc = "prefixWrite", !.left = X])
            BY <1>1, <1>4, <3>1 DEF PrefixScanned
        <3>3. QED
            BY <3>1, <3>2, Moved, RequestFields DEF Requested
    <2>3. CASE ~(e.by = w /\ e.live)
        <3>1. Hidden(w, k)'
            BY <1>3, <2>1, <2>3, ScannedHides
        <3>2. QED
            BY <2>2, <3>1 DEF ResetHolds
    <2>4. CASE e.by = w /\ e.live
        <3>1. NeedsReset(b, k, e)
            BY <1>2, <2>4, NeedsW
        <3>2. Base(a)[k].by # w
            BY <1>2, TookBase
        <3>3. k \in Changes(req[r].view, Base(a))
            BY <1>1, <2>4, <3>2, StagingAssumption DEF Changes, Exists
        <3>4. k \in req'[r].left
            BY <1>1, <2>2, <3>1, <3>3
        <3>5. QED
            BY <2>2, <3>4 DEF ResetHolds
    <2>5. QED
        BY <2>3, <2>4
<1>5. CASE PrefixUndo(r)
    <2>1. PICK h \in left : UndoKey(r, b, h, r) /\ Go(r, [req[r] EXCEPT !.left = @ \ {h}])
        BY <1>1, <1>5 DEF PrefixUndo
    <2>2. req'[r].pc = "prefixWrite" /\ req'[r].left = left \ {h} /\ req'[r].snap = b /\ req[r].pc = "prefixWrite"
        BY <1>1, <1>5, <2>1, Moved, RequestFields DEF PrefixUndo, Requested
    <2>3. Hidden(w, k) \/ k \in left \/ Undid(r, w, k)
        BY <1>1, <2>2 DEF ResetHolds
    <2>4. CASE Hidden(w, k)
        BY <1>3, <2>2, <2>4 DEF ResetHolds
    <2>5. CASE Undid(r, w, k)
        <3>1. Undid(r, w, k)'
            BY <1>1, <2>2, <2>5, UndidKept DEF Leaves
        <3>2. QED
            BY <2>2, <3>1 DEF ResetHolds
    <2>6. CASE k \in left /\ h # k
        BY <2>2, <2>6 DEF ResetHolds
    <2>7. CASE h = k
        <3>1. Solid(w, k, r)' \/ (b.staging \in Tokens => Solid(w, k, b.staging)')
            BY <1>2, <2>1, <2>7, UndoSolid
        <3>2. b.staging \in LayerSet(branch)' => b.staging \in Tokens
            <4>1. \A t \in LayerSet(branch') : t \in Tokens
                BY LayerFacts DEF Leaves
            <4>2. QED
                BY <4>1 DEF LayerSet
        <3>3. Undid(r, w, k)'
            BY <2>2, <3>1, <3>2 DEF Undid, Solid
        <3>4. QED
            BY <2>2, <3>3 DEF ResetHolds
    <2>8. QED
        BY <2>3, <2>4, <2>5, <2>6, <2>7
<1>6. CASE PrefixPublish(r)
    <2>1. CASE DropThen(r, <<r>>)
        <3>1. req'[r].pc \in {"drop", "failed"} /\ Kind(r)' = Kind(r)
            BY <2>1, DropPoints, GoParts DEF DropThen, Finish
        <3>2. QED
            BY <3>1 DEF ResetHolds
    <2>2. CASE Replace(r, SealedRecord(r)) /\ Finish(r, "ok")
        <3>1. /\ branch # NoBranch /\ branch = b /\ branch' = SealedRecord(r) /\ staged' = staged
              /\ req[r].pc = "prefixWrite" /\ left = {}
            BY <1>1, <1>6, <2>2 DEF PrefixPublish, Replace, Unmoved, stagingVars
        <3>2. Hidden(w, k) \/ Undid(r, w, k)
            BY <1>1, <3>1 DEF ResetHolds
        <3>3. req'[r].pc = "ok"
            BY <2>2, FinishPoint
        <3>4. CASE Hidden(w, k)
            BY <1>3, <3>3, <3>4 DEF ResetHolds
        <3>5. CASE Undid(r, w, k)
            <4> DEFINE B == Layers(branch)
                       C == Layers(branch)'
            <4>1. B \in Seq(Tokens) /\ Len(B) \in Nat /\ Len(B) >= 1 /\ B[1] = b.staging
                BY <3>1, LayerFacts
            <4>2. C = <<r>> \o B
                <5>1. branch.staging \in Tokens /\ branch.sealed \in Seq(Tokens)
                    BY <3>1, BranchFields
                <5>2. branch'.staging = r /\ branch'.sealed = <<branch.staging>> \o branch.sealed
                    BY <3>1, RecordFields
                <5>3. branch' # NoBranch
                    BY <5>2, StagingAssumption DEF NoBranch
                <5>4. C = <<r>> \o (<<branch.staging>> \o branch.sealed)
                    BY <5>2, <5>3 DEF Layers
                <5>5. QED
                    BY <3>1, <5>4 DEF Layers
            <4>3. Len(C) = Len(B) + 1 /\ C[1] = r /\ C[2] = b.staging
                BY <1>2, <4>1, <4>2
            <4>4. r \in Unborn
                BY <3>1 DEF Unborn, Fresh
            <4>5. ~Marked(w, k, r)
                BY <3>1, <4>4 DEF Leaves, Marked
            <4>6. Solid(w, k, r) \/ Solid(w, k, b.staging)
                <5>1. b.staging \in LayerSet(branch)
                    BY <3>1 DEF LayerSet
                <5>2. QED
                    BY <1>1, <3>5, <5>1 DEF Undid
            <4> HIDE DEF B, C
            <4>7. ASSUME NEW i \in 1..Len(C), Marked(w, k, C[i])
                  PROVE  \E n \in 1..(i - 1) : Solid(w, k, C[n])
                <5>1. i # 1
                    BY <4>3, <4>5, <4>7
                <5>2. CASE Solid(w, k, r)
                    BY <4>1, <4>3, <5>1, <5>2
                <5>3. CASE Solid(w, k, b.staging)
                    <6>1. i # 2
                        BY <4>3, <4>7, <5>3 DEF Marked, Solid
                    <6>2. 2 \in 1..(i - 1)
                        BY <4>1, <4>3, <5>1, <6>1
                    <6>3. QED
                        BY <4>3, <5>3, <6>2
                <5>4. QED
                    BY <4>6, <5>2, <5>3
            <4>8. ASSUME NEW i \in 1..Len(C), staged'[C[i]][k].by = w
                  PROVE  \E n \in 1..(i - 1) : Exists(staged'[C[n]][k]) /\ staged'[C[n]][k].by # w
                BY <3>1, <4>7, <4>8 DEF Marked, Solid
            <4>9. Hidden(w, k)'
                BY <4>8 DEF Hidden, Screened, Marked, Solid, C
            <4>10. QED
                BY <3>3, <4>9 DEF ResetHolds
        <3>6. QED
            BY <3>2, <3>4, <3>5
    <2>3. QED
        BY <1>6, <2>1, <2>2 DEF PrefixPublish
<1>7. QED
    BY <1>4, <1>5, <1>6

LEMMA OwnDrops ==
    ASSUME TypeInv, TokenInv, StoreInv, NEW r \in Requests, ResetPublish(r) \/ DeleteBranchApply(r) \/ DropToken(r),
           NEW w \in Requests, NEW k \in Keys, Leaves(w, k), ResetHolds(r, w, k), ~Took(w, k), ~Uncovers(r, k)
    PROVE  ResetHolds(r, w, k)'
<1>1. Placed(r, req[r].pc) /\ Kind(r)' = Kind(r)
    BY GoParts DEF StoreInv, Order, ResetPublish, DeleteBranchApply, DropToken, DropThen, LostRace, BranchNotFound, Finish
<1>2. ASSUME Hidden(w, k)', req'[r].pc \in {"drop", "ok", "failed"} PROVE ResetHolds(r, w, k)'
    BY <1>2 DEF ResetHolds
<1>3. CASE ResetPublish(r)
    <2>1. CASE LostRace(r, "start", Retries(r))
        <3>1. ~Retries(r)
            BY <1>3 DEF Retries, ResetPublish
        <3>2. req'[r].pc = "failed"
            BY <2>1, <3>1, FinishPoint DEF LostRace
        <3>3. QED
            BY <3>2, NothingClaimed DEF Claims
    <2>2. CASE Replace(r, ResetRecord(r)) /\ DropThen(r, Layers(req[r].snap))
        <3>1. branch # NoBranch /\ branch' = ResetRecord(r) /\ req[r].pc = "publish" /\ Kind(r) = "reset"
            BY <1>3, <2>2 DEF ResetPublish, Replace, Unmoved
        <3>2. r \in Unborn
            BY <3>1 DEF Unborn, Fresh
        <3>3. Layers(branch)' = <<r>>
            <4>1. branch'.staging = r /\ branch'.sealed = <<>>
                BY <3>1, RecordFields
            <4>2. branch' # NoBranch
                BY <4>1, StagingAssumption DEF NoBranch
            <4>3. QED
                BY <4>1, <4>2 DEF Layers
        <3>4. staged'[r][k].by # w
            BY <3>2 DEF Leaves, Marked
        <3>5. Hidden(w, k)'
            BY <3>3, <3>4 DEF Hidden, Screened, Marked
        <3>6. QED
            BY <1>2, <2>2, <3>5, DropPoints
    <2>3. QED
        BY <1>3, <2>1, <2>2 DEF ResetPublish
<1>4. CASE DeleteBranchApply(r)
    <2>1. CASE BranchNotFound(r)
        <3>1. req'[r].pc = "failed"
            BY <2>1, FinishPoint DEF BranchNotFound
        <3>2. QED
            BY <3>1, NothingClaimed DEF Claims
    <2>2. CASE branch' = NoBranch /\ \E s : DropThen(r, s)
        <3>1. Layers(branch)' = <<>>
            BY <2>2 DEF Layers
        <3>2. Hidden(w, k)'
            BY <3>1 DEF Hidden, Screened
        <3>3. QED
            BY <1>2, <2>2, <3>2, DropPoints
    <2>3. QED
        BY <1>4, <2>1, <2>2 DEF DeleteBranchApply
<1>5. CASE DropToken(r)
    <2>1. req[r].pc = "drop" /\ DropThen(r, Tail(req[r].drop))
        BY <1>5 DEF DropToken
    <2>2. req'[r].pc \in {"drop", "ok", "failed"} /\ (Kind(r) = "resetPrefix" => req'[r].pc # "ok")
        BY <2>1, DropPoints
    <2>3. CASE Kind(r) = "resetPrefix"
        BY <1>1, <2>2, <2>3 DEF ResetHolds
    <2>4. CASE Kind(r) # "resetPrefix"
        <3>1. Hidden(w, k)
            BY <2>1, <2>4 DEF ResetHolds
        <3>2. Hidden(w, k)'
            BY <3>1, HiddenKept DEF Leaves
        <3>3. QED
            BY <1>2, <2>2, <3>2
    <2>5. QED
        BY <2>3, <2>4
<1>6. QED
    BY <1>3, <1>4, <1>5

\* The steps of a reset that read the record.
LEMMA OwnBegins ==
    ASSUME TypeInv, TokenInv, StoreInv, MarkInv, NEW r \in Requests, Kind(r) \in Undoers,
           \/ ResetBegin(r) \/ KeyBegin(r) \/ PrefixBegin(r) \/ PrefixDiff(r) \/ DeleteBranchRead(r) \/ Stop(r),
           NEW w \in Requests, NEW k \in Keys, Unborn' \subseteq Unborn
    PROVE  ResetHolds(r, w, k)'
<1>1. ASSUME BranchNotFound(r) \/ Finish(r, "failed") PROVE ResetHolds(r, w, k)'
    <2>1. req'[r].pc = "failed"
        BY <1>1, FinishPoint DEF BranchNotFound
    <2>2. QED
        BY <2>1, NothingClaimed DEF Claims
<1>2. ASSUME NEW then, UpdateBegin(r, then, <<>>), then \notin Claims PROVE ResetHolds(r, w, k)'
    <2>1. CASE Go(r, [req[r] EXCEPT !.pc = then, !.snap = branch, !.todo = <<>>, !.view = Blank, !.tries = @ + 1])
        <3>1. req'[r].pc = then
            BY <2>1, Moved, RequestFields DEF Requested
        <3>2. QED
            BY <1>2, <3>1, NothingClaimed
    <2>2. QED
        BY <1>1, <1>2, <2>1 DEF UpdateBegin
<1>3. ASSUME DropThen(r, <<r>>), Kind(r) = "resetPrefix" PROVE ResetHolds(r, w, k)'
    <2>1. req'[r].pc \in {"drop", "failed"} /\ Kind(r)' = Kind(r)
        BY <1>3, DropPoints, GoParts DEF DropThen, Finish
    <2>2. QED
        BY <1>3, <2>1 DEF ResetHolds
<1>4. ASSUME NEW scan \in {"keyScan", "prefixScan"}, StoreUnchanged, req[r].view = Blank,
             Go(r, [req[r] EXCEPT !.pc = scan, !.pre = branch, !.todo = Layers(branch)])
      PROVE  ResetHolds(r, w, k)'
    <2>1. req'[r].pc = scan /\ req'[r].pre = branch /\ req'[r].todo = Layers(branch) /\ req'[r].view = Blank
        BY <1>4, Moved, RequestFields DEF Requested
    <2>2. ScanSees(w, k, req[r].pre, req[r].todo, req[r].view[k])'
        BY <1>4, <2>1, ScanBegins
    <2>3. ~Exists(req'[r].view[k])
        BY <2>1 DEF Blank, NoEntry, Exists
    <2>4. QED
        BY <2>1, <2>2, <2>3 DEF ResetHolds, Exists
<1>5. CASE ResetBegin(r) \/ DeleteBranchRead(r)
    BY <1>2, <1>5 DEF ResetBegin, DeleteBranchRead, Claims
<1>6. CASE Stop(r)
    BY <1>1, <1>6 DEF Stop
<1>7. CASE KeyBegin(r)
    <2>1. req[r].view = Blank
        BY <1>7 DEF KeyBegin, MarkInv
    <2>2. QED
        BY <1>1, <1>4, <1>7, <2>1 DEF KeyBegin
<1>8. CASE PrefixBegin(r)
    BY <1>2, <1>3, <1>8 DEF PrefixBegin, Claims
<1>9. CASE PrefixDiff(r)
    <2>1. req[r].view = Blank /\ Kind(r) = "resetPrefix"
        BY <1>9 DEF PrefixDiff, MarkInv, StoreInv, Order, Placed
    <2>2. QED
        BY <1>3, <1>4, <1>9, <2>1 DEF PrefixDiff
<1>10. QED
    BY <1>5, <1>6, <1>7, <1>8, <1>9

LEMMA OwnHolds ==
    ASSUME Unsure = {}, TypeInv, TokenInv, StoreInv, MarkInv, NEW r \in Requests, Step(r) \/ Stop(r),
           NEW w \in Requests, NEW k \in Keys, Concerns(r, w, k)', w # r, Leaves(w, k), ~Took(w, k),
           req[r].pc # "start" => ResetHolds(r, w, k) /\ ~Uncovers(r, k)
    PROVE  ResetHolds(r, w, k)'
<1>1. /\ Kind(r) \in Undoers /\ Kind(w) \in Sets
      /\ Kind(r) = "resetKey" => Key(r) = k
    BY StepSound, SoundFacts DEF Concerns
<1>2. CASE ResetBegin(r) \/ KeyBegin(r) \/ PrefixBegin(r) \/ PrefixDiff(r) \/ DeleteBranchRead(r) \/ Stop(r)
    BY <1>1, <1>2, OwnBegins DEF Leaves
<1>3. CASE ReadToken(r)
    BY <1>1, <1>3, OwnReads DEF ReadToken, Scans
<1>4. CASE KeyReset(r)
    <2>1. Kind(r) = "resetKey" /\ req[r].pc # "start"
        BY <1>4 DEF KeyReset, ReadDone, StoreInv, Order, Placed
    <2>2. QED
        BY <1>1, <1>4, <2>1, OwnKey
<1>5. CASE PrefixScanned(r) \/ PrefixUndo(r) \/ PrefixPublish(r)
    <2>1. Kind(r) = "resetPrefix" /\ req[r].pc # "start"
        BY <1>5 DEF PrefixScanned, PrefixUndo, PrefixPublish, ReadDone, StoreInv, Order, Placed
    <2>2. QED
        BY <1>5, <2>1, OwnPrefix
<1>6. CASE ResetPublish(r) \/ DeleteBranchApply(r) \/ DropToken(r)
    <2>1. req[r].pc # "start"
        BY <1>6 DEF ResetPublish, DeleteBranchApply, DropToken
    <2>2. QED
        BY <1>6, <2>1, OwnDrops
<1>7. QED
    BY <1>1, <1>2, <1>3, <1>4, <1>5, <1>6, UndoerActs

-----------------------------------------------------------------------------
(* The invariant is kept.                                                  *)

LEMMA BlankKept ==
    ASSUME TypeInv, StoreInv, MarkInv, NEW p \in Requests, Step(p) \/ Stop(p), req'[p].pc \in {"start", "prefixDiff"}
    PROVE  req'[p].view = Blank
<1>1. PICK s0 : Moves(p, s0) /\ req'[p] = s0
    BY StepSound, Moved DEF Sound, Moves
<1>2. req'[p].pc = "prefixDiff" /\ Kind(p) = "resetPrefix"
    BY <1>1 DEF Moves, Placed
<1>3. \/ ReadToken(p) \/ PrefixBegin(p) \/ PrefixDiff(p) \/ PrefixScanned(p) \/ PrefixUndo(p) \/ PrefixPublish(p)
      \/ DropToken(p) \/ Stop(p)
    BY <1>2, UndoerActs DEF Undoers, ResetBegin, ResetPublish, KeyBegin, KeyReset, ReadDone, DeleteBranchRead,
          DeleteBranchApply, StoreInv, Order, Placed
<1>4. CASE PrefixBegin(p)
    <2>1. CASE UpdateBegin(p, "prefixDiff", <<>>) /\ branch # NoBranch
        <3>1. Go(p, [req[p] EXCEPT !.pc = "prefixDiff", !.snap = branch, !.todo = <<>>, !.view = Blank, !.tries = @ + 1])
            BY <2>1 DEF UpdateBegin, BranchNotFound
        <3>2. QED
            BY <3>1, Moved, RequestFields DEF Requested
    <2>2. CASE DropThen(p, <<p>>)
        BY <1>2, <2>2, DropPoints
    <2>3. QED
        BY <1>4, <2>1, <2>2 DEF PrefixBegin
<1>5. CASE PrefixDiff(p)
    <2>1. CASE DropThen(p, <<p>>)
        BY <1>2, <2>1, DropPoints
    <2>2. CASE Go(p, [req[p] EXCEPT !.pc = "prefixScan", !.pre = branch, !.todo = Layers(branch)])
        BY <1>2, <2>2, Moved, RequestFields DEF Requested
    <2>3. QED
        BY <1>5, <2>1, <2>2 DEF PrefixDiff
<1>6. CASE PrefixScanned(p)
    BY <1>2, <1>6, Moved, RequestFields DEF PrefixScanned, Requested
<1>7. CASE PrefixUndo(p)
    <2>1. PICK h : Go(p, [req[p] EXCEPT !.left = @ \ {h}])
        BY <1>7 DEF PrefixUndo
    <2>2. req'[p].pc = "prefixWrite"
        BY <1>7, <2>1, Moved, RequestFields DEF PrefixUndo, Requested
    <2>3. QED
        BY <1>2, <2>2
<1>8. CASE PrefixPublish(p) \/ DropToken(p) \/ Stop(p)
    <2>1. (\E s : DropThen(p, s)) \/ Finish(p, "ok") \/ Finish(p, "failed")
        BY <1>8 DEF PrefixPublish, DropToken, Stop
    <2>2. QED
        BY <1>2, <2>1, DropPoints, FinishPoint
<1>9. CASE ReadToken(p)
    <2>1. PICK v, s : Go(p, [req[p] EXCEPT !.view = v, !.todo = s])
        <3>1. \A x : [req[p] EXCEPT !.view[Key(p)] = x] = [req[p] EXCEPT !.view = [@ EXCEPT ![Key(p)] = x]]
            OBVIOUS
        <3>2. Kind(p) \notin PointReads
            BY <1>2 DEF PointReads, Writes, BlindWrites, CondWrites, Deletes
        <3>3. QED
            BY <1>9, <3>2 DEF ReadToken
    <2>2. req'[p].pc = req[p].pc /\ req[p].pc \in Scans
        BY <1>9, <2>1, Moved, RequestFields DEF ReadToken, Requested
    <2>3. QED
        BY <1>2, <2>2 DEF Scans
<1>10. QED
    BY <1>3, <1>4, <1>5, <1>6, <1>7, <1>8, <1>9

LEMMA StepMarks ==
    ASSUME TypeInv, TokenInv, StoreInv, MarkInv, NEW p \in Requests, Step(p) \/ Stop(p)
    PROVE  MarkInv' /\ Lowers
<1>1. Lowers /\ Apart'
    BY StepLayers, RelayersLowers DEF MarkInv
<1>2. \A k \in Keys : commits'[Origin].content[k].by \in {Origin, NoOne}
    BY StepCommits, StagingAssumption DEF MarkInv, Writers
<1>3. ASSUME NEW q \in Unborn', NEW w \in Requests, NEW k \in Keys, Marked(w, k, q)' PROVE Took(w, k)'
    <2>1. q \in Unborn /\ q \in Tokens /\ q \in Requests
        BY <1>3, UnbornFalls DEF Unborn, Tokens
    <2>2. SUFFICES Took(w, k)
        BY TookKept
    <2>3. CASE staged'[q][k] = staged[q][k]
        BY <1>3, <2>1, <2>3 DEF MarkInv, Marked
    <2>4. CASE staged'[q][k] # staged[q][k]
        <3>1. PICK t \in Tokens, h \in Keys, e \in Entries :
                  /\ staged' = [staged EXCEPT ![t][h] = e]
                  /\ t \notin Unborn \/ (e.live /\ \E b \in Branches : Named(b) /\ e = Base(b)[h])
            BY <2>4, StepDots DEF Dots
        <3>2. staged \in [Tokens -> [Keys -> Entries]]
            BY DEF TypeInv, StoreTyped, StagingTypeOK
        <3>3. t = q /\ h = k /\ staged'[q][k] = e
            BY <2>1, <2>4, <3>1, <3>2
        <3>4. PICK b \in Branches : Named(b) /\ e = Base(b)[k]
            BY <2>1, <3>1, <3>3
        <3>5. Base(b)[k].by = w
            BY <1>3, <3>3, <3>4 DEF Marked
        <3>6. QED
            BY <3>4, <3>5, TookBase
    <2>5. QED
        BY <2>3, <2>4
<1>4. ASSUME NEW q \in Requests, req'[q].pc \in {"start", "prefixDiff"} PROVE req'[q].view = Blank
    <2>1. CASE q = p
        BY <1>4, <2>1, BlankKept
    <2>2. CASE q # p
        BY <1>4, <2>2, StepSound, SoundFacts DEF MarkInv
    <2>3. QED
        BY <2>1, <2>2
<1>5. QED
    BY <1>1, <1>2, <1>3, <1>4 DEF MarkInv

LEMMA StepResets ==
    ASSUME Unsure = {}, TypeInv, TypeInv', TokenInv, StoreInv, StoreInv', MarkInv, ResetInv,
           NEW p \in Requests, Step(p) \/ Stop(p)
    PROVE  ResetInv'
<1> SUFFICES ASSUME NEW r \in Requests, NEW w \in Requests, NEW k \in Keys, Concerns(r, w, k)'
             PROVE  ResetHolds(r, w, k)'
    BY DEF ResetInv
<1>1. /\ \A q \in Requests : Kind(q)' = Kind(q) /\ Key(q)' = Key(q)
      /\ \A q \in Requests \ {p} : req'[q] = req[q]
      /\ r # p \/ req[r].pc # "start" => before'[r] = before[r]
      /\ req[p].pc \notin Over
    BY StepSound, SoundFacts
<1>2. w # r /\ w \in before'[r] /\ req'[w].pc = "ok" /\ Kind(w) \in Sets /\ Kind(r) \in Undoers
    BY <1>1 DEF Concerns, StoreInv, Order
<1>3. w # p
    <2>1. CASE r = p
        BY <1>2, <2>1
    <2>2. CASE r # p
        BY <1>1, <1>2, <2>2 DEF StoreInv, Order
    <2>3. QED
        BY <2>1, <2>2
<1>4. r # p \/ req[r].pc # "start" => Concerns(r, w, k) /\ ResetHolds(r, w, k)
    BY <1>1, <1>3 DEF Concerns, ResetInv
<1>5. CASE Took(w, k)
    BY <1>5, TookKept DEF ResetHolds
<1>6. CASE before'[r] = before[r] /\ Uncovers(r, k)
    BY <1>6, UncoversKept DEF ResetHolds
<1>7. CASE ~Took(w, k) /\ ~(before'[r] = before[r] /\ Uncovers(r, k))
    <2>1. ~(Kind(p) = "deleteNoTombstone" /\ Key(p) = k /\ req[p].pc # "start")
        <3>1. CASE r = p
            BY <1>2, <3>1 DEF Undoers
        <3>2. CASE r # p
            BY <1>1, <1>7, <3>2 DEF StoreInv, Order, Uncovers
        <3>3. QED
            BY <3>1, <3>2
    <2>2. Settles(w, k)
        BY <1>3, <1>7, <2>1, StepSettles
    <2>3. \A q \in Unborn : ~Marked(w, k, q)'
        BY <1>7, <2>2 DEF MarkInv, Settles, Unborn, Tokens
    <2>4. branch' \in Branches /\ Lowers /\ Unborn' \subseteq Unborn
        BY StepMarks, UnbornFalls DEF TypeInv, StoreTyped
    <2>5. Leaves(w, k)
        BY <2>2, <2>3, <2>4 DEF Leaves
    <2>6. CASE r = p
        BY <1>1, <1>2, <1>4, <1>7, <2>5, <2>6, OwnHolds
    <2>7. CASE r # p
        <3>1. req'[r] = req[r] /\ Kind(r)' = Kind(r) /\ ResetHolds(r, w, k) /\ ~Uncovers(r, k)
            BY <1>1, <1>4, <1>7, <2>7
        <3>2. QED
            BY <1>7, <2>2, <2>3, <2>4, <3>1, OtherHolds
    <2>8. QED
        BY <2>6, <2>7
<1>8. QED
    BY <1>5, <1>6, <1>7

LEMMA AsideResets ==
    ASSUME TypeInv, TokenInv, StoreInv, MarkInv, ResetInv, UNCHANGED requestVars,
           \A w \in Requests, k \in Keys : Settles(w, k)
    PROVE  MarkInv' /\ ResetInv'
<1>1. /\ task' = task /\ branch' = branch /\ commits' = commits /\ req' = req /\ before' = before
      /\ \A q \in Requests : Kind(q)' = Kind(q) /\ Key(q)' = Key(q)
    BY DEF requestVars, Kind, Key
<1>2. Unborn' = Unborn /\ Layers(branch)' = Layers(branch) /\ \A w, k : Took(w, k)' <=> Took(w, k)
    BY <1>1 DEF Unborn, Fresh, Kind, Layers, Took, Past
<1>3. \A q \in Unborn, w \in Requests, k \in Keys : Marked(w, k, q)' => Marked(w, k, q)
    BY DEF Settles, Unborn, Tokens
<1>4. MarkInv'
    BY <1>1, <1>2, <1>3 DEF MarkInv, Apart
<1>5. Lowers
    <2>1. Len(Layers(branch)) \in Nat
        BY LayerFacts DEF TypeInv, StoreTyped
    <2>2. QED
        BY <1>2, <2>1 DEF Lowers
<1>6. ASSUME NEW r \in Requests, NEW w \in Requests, NEW k \in Keys, Concerns(r, w, k)' PROVE ResetHolds(r, w, k)'
    <2>1. ResetHolds(r, w, k)
        BY <1>1, <1>6 DEF Concerns, ResetInv, Kind, Key
    <2>2. CASE Took(w, k) \/ Uncovers(r, k)
        BY <1>1, <1>2, <2>2 DEF ResetHolds, Uncovers
    <2>3. CASE ~Took(w, k) /\ ~Uncovers(r, k)
        <3>1. \A q \in Unborn : ~Marked(w, k, q)'
            BY <1>3, <2>3 DEF MarkInv
        <3>2. QED
            BY <1>1, <1>2, <1>5, <2>1, <2>3, <3>1, OtherHolds DEF TypeInv, StoreTyped
    <2>4. QED
        BY <2>2, <2>3
<1>7. QED
    BY <1>4, <1>6 DEF ResetInv

LEMMA InitResets == Init => MarkInv /\ ResetInv
<1> SUFFICES ASSUME Init PROVE MarkInv /\ ResetInv
    OBVIOUS
<1>1. ResetInv
    BY DEF Init, ResetInv, Concerns
<1>2. \A p \in Requests : req[p].view = Blank
    BY DEF Init, NotStarted
<1>3. \A k \in Keys : commits[Origin].content[k].by \in {Origin, NoOne}
    BY DEF Init, Writers, Value, NoEntry
<1>4. ASSUME NEW q \in Unborn, NEW w \in Requests, NEW k \in Keys PROVE ~Marked(w, k, q)
    BY StagingAssumption DEF Init, StagingInit, Unborn, Tokens, Marked, NoEntry
<1>5. Apart
    <2>1. branch.staging = Origin /\ branch.sealed = <<>>
        BY DEF Init
    <2>2. Layers(branch) = <<Origin>>
        BY <2>1, StagingAssumption DEF Layers, NoBranch
    <2>3. QED
        BY <2>2 DEF Apart
<1>6. QED
    BY <1>1, <1>2, <1>3, <1>4, <1>5 DEF MarkInv

LEMMA NextResets ==
    ASSUME Unsure = {}, TypeInv, TokenInv, StoreInv, MarkInv, ResetInv, [Next]_vars
    PROVE  MarkInv' /\ ResetInv'
<1>1. ASSUME NEW p \in Requests, Step(p) \/ Stop(p) PROVE MarkInv' /\ ResetInv'
    <2>1. TypeInv' /\ StoreInv'
        BY NextTyped, NextOrder
    <2>2. QED
        BY <1>1, <2>1, StepMarks, StepResets
<1>2. ASSUME NEW s \in Servers, CleanStep(s) PROVE MarkInv' /\ ResetInv'
    BY <1>2, CleanStaged, CleanSettles, AsideResets
<1>3. CASE UNCHANGED vars
    <2>1. UNCHANGED requestVars /\ staged' = staged
        BY <1>3 DEF vars, stagingVars
    <2>2. \A w \in Requests, k \in Keys : Settles(w, k)
        BY <2>1 DEF Settles, Marked, Solid
    <2>3. QED
        BY <2>1, <2>2, AsideResets
<1>4. QED
    BY <1>1, <1>2, <1>3 DEF Next, Quiet

LEMMA ResetsHidden ==
    ASSUME TypeInv, StoreInv, MarkInv, ResetInv
    PROVE  ResetsUndo
<1> SUFFICES ASSUME branch # NoBranch, NEW r \in Succeeded, Kind(r) \in Undoers, NEW w \in Earlier(r),
                    Kind(w) \in Sets, Kind(r) = "resetKey" => Key(r) = Key(w), Shown(Key(w)).by = w
             PROVE  (\E c \in Requests : commits[c].content[Key(w)].by = w) \/ Uncovers(r, Key(w))
    BY DEF ResetsUndo, Undoers
<1> DEFINE k == Key(w)
           L == Layers(branch)
           x(i) == staged[L[i]][k]
           I == {i \in 1..Len(L) : Exists(x(i))}
<1>1. r \in Requests /\ w \in Requests /\ k \in Keys /\ req[r].pc = "ok" /\ w \in before[r] /\ req[w].pc = "ok"
    BY RequestFields DEF Succeeded, Earlier
<1>2. ResetHolds(r, w, k)
    BY <1>1 DEF ResetInv, Concerns
<1>3. Took(w, k) => \E c \in Requests : commits[c].content[k].by = w
    BY DEF Took
<1>4. Len(L) \in Nat /\ \A i \in 1..Len(L) : L[i] \in LayerSet(branch)
    BY LayerFacts DEF TypeInv, StoreTyped
<1>5. CASE Took(w, k) \/ Uncovers(r, k)
    BY <1>3, <1>5
<1>6. CASE Hidden(w, k) /\ I = {}
    <2>1. Base(branch)[k].by = w
        BY <1>6 DEF Shown
    <2>2. Took(w, k)
        BY <1>1, <2>1, TookBase DEF TypeInv, StoreTyped, StoreInv, Names
    <2>3. QED
        BY <1>3, <2>2
<1>7. CASE Hidden(w, k) /\ I # {}
    <2> DEFINE i == CHOOSE n \in I : \A j \in I : n <= j
    <2>1. I \subseteq Nat
        BY <1>4
    <2>2. \E n \in I : \A j \in I : n <= j
        BY <1>7, <2>1, LeastNumber
    <2>3. i \in I /\ \A j \in I : i <= j
        BY <2>2
    <2>4. Shown(k) = x(i)
        BY <1>7 DEF Shown
    <2> HIDE DEF i
    <2>5. i \in 1..Len(L) /\ \A j \in 1..(i - 1) : ~Exists(x(j))
        BY <1>4, <2>3
    <2>6. Marked(w, k, L[i])
        BY <2>4 DEF Marked
    <2>7. \E j \in 1..(i - 1) : Solid(w, k, L[j])
        BY <1>4, <1>7, <2>5, <2>6 DEF Hidden, Screened
    <2>8. QED
        BY <2>5, <2>7 DEF Solid
<1>8. QED
    BY <1>1, <1>2, <1>5, <1>6, <1>7 DEF ResetHolds

ResetsSafe == TypeInv /\ TokenInv /\ StoreInv /\ MarkInv /\ ResetInv

\* If a compare-and-set that reports a failure was not applied, what a reset
\* that succeeded undid stays undone: through every seal, write, commit,
\* delete of the branch, other reset and cleanup that runs meanwhile.
THEOREM ResetsStand == Unsure = {} => (Spec => []ResetsUndo)
<1> SUFFICES ASSUME Unsure = {} PROVE Spec => []ResetsUndo
    OBVIOUS
<1>1. Init => ResetsSafe
    BY InitTyped, InitKept, InitOrder, InitResets DEF ResetsSafe
<1>2. ResetsSafe /\ [Next]_vars => ResetsSafe'
    BY NextTyped, NextKept, NextOrder, NextResets DEF ResetsSafe
<1>3. ResetsSafe => ResetsUndo
    BY ResetsHidden DEF ResetsSafe
<1>4. QED
    BY <1>1, <1>2, <1>3, PTL DEF Spec
================================================================================
