---------------------------- MODULE GravelerProofs ----------------------------
(* What is proved of Graveler for every number of requests, keys, servers  *)
(* and tries, and for every choice of tasks.                               *)
EXTENDS Graveler, SequenceTheorems, TLAPS

-----------------------------------------------------------------------------
(* Types of the operators the actions are built from.                      *)

\* The fields of a branch record: both are named unless the branch is gone.
LEMMA BranchFields ==
    ASSUME NEW b \in Branches
    PROVE  /\ b.commit \in Writers \cup {NoOne}
           /\ b.staging \in Tokens \cup {NoOne}
           /\ b.sealed \in Seq(Tokens)
           /\ b # NoBranch => b.commit \in Writers /\ b.staging \in Tokens
<1>1. <<>> \in Seq(Tokens)
    BY EmptySeq
<1>2. CASE b = NoBranch
    BY <1>1, <1>2 DEF NoBranch
<1>3. CASE b # NoBranch
    <2>1. b \in [commit : Writers, staging : Tokens, sealed : Seq(Tokens)]
        BY <1>3 DEF Branches
    <2>2. QED
        BY <2>1
<1>4. QED
    BY <1>2, <1>3

\* A branch record with other fields of the right type is a branch record.
LEMMA BranchExcept ==
    ASSUME NEW b \in Branches, b # NoBranch,
           NEW c \in Writers, NEW t \in Tokens, NEW s \in Seq(Tokens)
    PROVE  /\ [b EXCEPT !.commit = c] \in Branches
           /\ [b EXCEPT !.commit = c, !.sealed = s] \in Branches
           /\ [b EXCEPT !.staging = t, !.sealed = s] \in Branches
    BY DEF Branches, NoBranch

\* The layers of a branch record are a sequence of staging tokens.
LEMMA LayersType ==
    ASSUME NEW b \in Branches
    PROVE  Layers(b) \in Seq(Tokens)
    BY BranchFields DEF Layers

\* Entries and contents.
LEMMA EntryTypes ==
    /\ NoEntry \in Entries
    /\ Blank \in Contents
    /\ \A w \in Writers : Value(w) \in Entries /\ Tombstone(w) \in Entries
    BY DEF NoEntry, Entries, Blank, Contents, Value, Tombstone

LEMMA OverlayType ==
    ASSUME NEW view \in Contents, NEW base \in Contents
    PROVE  Overlay(view, base) \in Contents
    BY DEF Overlay, Contents

LEMMA ContentType ==
    ASSUME commits \in [Writers -> Commits], NEW c \in Writers \cup {NoOne}
    PROVE  Content(c) \in Contents
    BY EntryTypes, StagingAssumption DEF Content, Commits

LEMMA BaseType ==
    ASSUME commits \in [Writers -> Commits], NEW b \in Branches
    PROVE  Base(b) \in Contents
    BY ContentType, BranchFields DEF Base

LEMMA NotStartedType == NotStarted \in Requested
    BY EntryTypes, EmptySeq DEF NotStarted, Requested, Points, Branches

-----------------------------------------------------------------------------
(* Type correctness.  TypeOK alone is not inductive: some control points   *)
(* use fields of a branch record that an earlier step must have read.      *)

Held(p, r) ==
    /\ r \in Requested
    /\ r.pc \in {"apply", "condScan"} => r.pre # NoBranch
    /\ r.pc = "publish" /\ Kind(p) = "resetHard" => r.pre # NoBranch
    /\ r.pc = "delete" => r.snap # NoBranch
    /\ r.pc = "drop" => r.drop # <<>>

StoreTyped ==
    /\ StagingTypeOK
    /\ branch \in Branches
    /\ commits \in [Writers -> Commits]

RequestsTyped ==
    /\ task \in Tasks
    /\ req \in [Requests -> Requested]
    /\ before \in [Requests -> SUBSET Requests]
    /\ \A p \in Requests : Held(p, req[p])

TypeInv == StoreTyped /\ RequestsTyped

\* A request's task names a kind of program and a key.
LEMMA TaskFields ==
    ASSUME task \in Tasks, NEW p \in Requests
    PROVE  Kind(p) \in Kinds /\ Key(p) \in Keys
    BY GravelerAssumption DEF Kind, Key

\* A step of one request leaves the requests typed if its new state is.
LEMMA GoTyped ==
    ASSUME RequestsTyped, NEW p \in Requests, NEW r, Held(p, r), Go(p, r)
    PROVE  RequestsTyped'
<1>1. r \in Requested
    BY DEF Held
<1>2. task' = task /\ req' = [req EXCEPT ![p] = r]
    BY DEF Go
<1>3. before' \in [Requests -> SUBSET Requests]
    BY DEF Go, RequestsTyped
<1>4. req' \in [Requests -> Requested]
    BY <1>1, <1>2 DEF RequestsTyped
<1>5. ASSUME NEW q \in Requests PROVE Held(q, req[q])'
    <2>1. CASE q = p
        BY <1>1, <1>2, <2>1 DEF Held, Kind, RequestsTyped
    <2>2. CASE q # p
        <3>1. req'[q] = req[q] /\ Held(q, req[q])
            BY <1>2, <2>2 DEF RequestsTyped
        <3>2. QED
            BY <1>2, <3>1 DEF Held, Kind
    <2>3. QED
        BY <2>1, <2>2
<1>6. QED
    BY <1>2, <1>3, <1>4, <1>5 DEF RequestsTyped

\* A request that is over.
LEMMA FinishTyped ==
    ASSUME RequestsTyped, NEW p \in Requests, NEW o \in Over, Finish(p, o)
    PROVE  RequestsTyped'
<1> DEFINE r == [NotStarted EXCEPT !.pc = o,
                                   !.view = IF Kind(p) \in Reads THEN req[p].view ELSE @]
<1>1. Held(p, r)
    BY NotStartedType DEF Held, RequestsTyped, Requested, Over, NotStarted
<1>2. Go(p, r)
    BY DEF Finish
<1>3. QED
    BY <1>1, <1>2, GoTyped

LEMMA DropThenTyped ==
    ASSUME RequestsTyped, NEW p \in Requests, NEW s \in Seq(Tokens), DropThen(p, s)
    PROVE  RequestsTyped'
<1>1. CASE s # <<>>
    <2>1. Held(p, [NotStarted EXCEPT !.pc = "drop", !.drop = s])
        BY <1>1, NotStartedType DEF Held, Requested, NotStarted, Points
    <2>2. QED
        BY <1>1, <2>1, GoTyped DEF DropThen
<1>2. CASE s = <<>>
    <2>1. PICK o \in Over : Finish(p, o)
        BY <1>2 DEF DropThen, Over
    <2>2. QED
        BY <2>1, FinishTyped
<1>3. QED
    BY <1>1, <1>2

LEMMA StoreUnchangedTyped ==
    ASSUME StoreTyped, StoreUnchanged
    PROVE  StoreTyped'
    BY DEF StoreTyped, StoreUnchanged, StagingTypeOK, stagingVars

LEMMA BranchNotFoundTyped ==
    ASSUME TypeInv, NEW p \in Requests, BranchNotFound(p)
    PROVE  TypeInv'
    BY FinishTyped, StoreUnchangedTyped DEF BranchNotFound, TypeInv, Over

LEMMA PutTyped ==
    ASSUME StagingTypeOK, NEW t, NEW k, NEW e \in Entries, Put(t, k, e)
    PROVE  StagingTypeOK'
    BY DEF StagingTypeOK, Put, cleanerVars

LEMMA DropAsyncTyped ==
    ASSUME StagingTypeOK, NEW s \in Servers, NEW t \in Tokens, DropAsync(s, t)
    PROVE  StagingTypeOK'
    BY StagingAssumption DEF StagingTypeOK, DropAsync, cleanerVars

-----------------------------------------------------------------------------
(* Every action keeps the types.                                           *)

\* The next state of a request that Go gives it, where the store keeps its types.
LEMMA StepTyped ==
    ASSUME TypeInv, NEW p \in Requests, NEW r, Held(p, r), Go(p, r),
           StoreTyped'
    PROVE  TypeInv'
    BY GoTyped DEF TypeInv

LEMMA StageTyped ==
    ASSUME TypeInv, NEW p \in Requests, NEW e \in Entries, Stage(p, e)
    PROVE  TypeInv'
<1>1. Held(p, [req[p] EXCEPT !.pc = "recheck", !.view = Blank, !.seen = NoEntry])
    BY EntryTypes DEF Held, TypeInv, RequestsTyped, Requested, Points
<1>2. StoreTyped'
    BY PutTyped DEF Stage, TypeInv, StoreTyped
<1>3. QED
    BY <1>1, <1>2, StepTyped DEF Stage

LEMMA ReadTokenTyped ==
    ASSUME TypeInv, NEW p \in Requests, ReadToken(p)
    PROVE  TypeInv'
<1> DEFINE entries == staged[Head(req[p].todo)]
           point   == [req[p] EXCEPT
                         !.view[Key(p)] = entries[Key(p)],
                         !.todo = IF Exists(entries[Key(p)]) THEN <<>> ELSE Tail(@)]
           scan    == [req[p] EXCEPT !.view = Overlay(@, entries), !.todo = Tail(@)]
<1>1. req[p] \in Requested /\ Held(p, req[p]) /\ Key(p) \in Keys /\ req[p].pc \in Scans
    BY TaskFields DEF TypeInv, RequestsTyped, ReadToken
<1>2. /\ Head(req[p].todo) \in Tokens
      /\ Tail(req[p].todo) \in Seq(Tokens)
      /\ <<>> \in Seq(Tokens)
    <2>1. req[p].todo \in Seq(Tokens) /\ req[p].todo # <<>>
        BY <1>1 DEF Requested, ReadToken
    <2>2. QED
        BY <2>1, HeadTailProperties, EmptySeq
<1>3. entries \in Contents /\ entries[Key(p)] \in Entries
    BY <1>1, <1>2 DEF TypeInv, StoreTyped, StagingTypeOK, Contents
<1>4. CASE Kind(p) \in PointReads
    <2>1. point \in Requested
        BY <1>1, <1>2, <1>3 DEF Requested, Contents
    <2>2. Held(p, point)
        BY <1>1, <2>1 DEF Held, Requested, Scans
    <2>3. Go(p, point)
        BY <1>4 DEF ReadToken
    <2>4. QED
        BY <2>2, <2>3, StepTyped, StoreUnchangedTyped DEF ReadToken, TypeInv
<1>5. CASE Kind(p) \notin PointReads
    <2>1. req[p].view \in Contents /\ Overlay(req[p].view, entries) \in Contents
        BY <1>1, <1>3, OverlayType DEF Requested
    <2>2. scan \in Requested
        BY <1>1, <1>2, <2>1 DEF Requested
    <2>3. Held(p, scan)
        BY <1>1, <2>2 DEF Held, Requested, Scans
    <2>4. Go(p, scan)
        BY <1>5 DEF ReadToken
    <2>5. QED
        BY <2>3, <2>4, StepTyped, StoreUnchangedTyped DEF ReadToken, TypeInv
<1>6. QED
    BY <1>4, <1>5

LEMMA UpdateBeginTyped ==
    ASSUME TypeInv, NEW p \in Requests, NEW then \in Points, NEW layers \in Seq(Tokens),
           then \notin {"apply", "condScan", "drop"},
           Kind(p) = "resetHard" => then # "publish",
           UpdateBegin(p, then, layers)
    PROVE  TypeInv'
<1> DEFINE r == [req[p] EXCEPT !.pc = then, !.snap = branch, !.todo = layers,
                               !.view = Blank, !.tries = @ + 1]
<1>1. CASE BranchNotFound(p)
    BY <1>1, BranchNotFoundTyped
<1>2. CASE branch # NoBranch /\ Go(p, r) /\ StoreUnchanged
    <2>1. r \in Requested
        <3>1. req[p] \in Requested /\ branch \in Branches
            BY DEF TypeInv, StoreTyped, RequestsTyped
        <3>2. req[p].tries + 1 \in Nat
            BY <3>1 DEF Requested
        <3>3. QED
            BY <3>1, <3>2, EntryTypes DEF Requested
    <2>2. Held(p, r)
        BY <1>2, <2>1 DEF Held, TypeInv, RequestsTyped, Requested
    <2>3. QED
        BY <1>2, <2>2, StepTyped, StoreUnchangedTyped DEF TypeInv
<1>3. QED
    BY <1>1, <1>2 DEF UpdateBegin

LEMMA LostRaceTyped ==
    ASSUME TypeInv, NEW p \in Requests, NEW again \in Points, NEW retried,
           again \notin {"apply", "condScan", "publish", "delete", "drop"},
           LostRace(p, again, retried)
    PROVE  TypeInv'
<1>1. StoreTyped'
    BY StoreUnchangedTyped DEF LostRace, TypeInv
<1>2. CASE Finish(p, "failed")
    BY <1>1, <1>2, FinishTyped DEF TypeInv, Over
<1>3. CASE Go(p, [NotStarted EXCEPT !.pc = again, !.tries = req[p].tries])
    <2>1. req[p].tries \in Nat
        BY DEF TypeInv, RequestsTyped, Requested
    <2>2. Held(p, [NotStarted EXCEPT !.pc = again, !.tries = req[p].tries])
        BY <2>1, NotStartedType DEF Held, NotStarted, Requested
    <2>3. QED
        BY <1>1, <1>3, <2>2, StepTyped
<1>4. QED
    BY <1>2, <1>3 DEF LostRace

LEMMA ReplaceTyped ==
    ASSUME TypeInv, NEW p \in Requests, NEW new \in Branches, Replace(p, new)
    PROVE  StoreTyped'
    BY DEF Replace, TypeInv, StoreTyped, StagingTypeOK, stagingVars

\* Publishing a commit, and sealing the staging token, make branch records.
LEMMA RecordTypes ==
    ASSUME TypeInv, NEW p \in Requests, NEW c \in Writers, branch # NoBranch
    PROVE  /\ Published(p, c) \in Branches
           /\ SealedRecord(p) \in Branches
           /\ ResetRecord(p) \in Branches
<1>1. /\ branch \in Branches
      /\ branch.commit \in Writers /\ branch.staging \in Tokens /\ branch.sealed \in Seq(Tokens)
    BY BranchFields DEF TypeInv, StoreTyped
<1>2. <<branch.staging>> \o branch.sealed \in Seq(Tokens) /\ <<>> \in Seq(Tokens)
    <2>1. <<branch.staging>> \in Seq(Tokens)
        BY <1>1
    <2>2. QED
        BY <1>1, <2>1, ConcatProperties, EmptySeq
<1>3. p \in Tokens
    BY DEF Tokens
<1>4. QED
    BY <1>1, <1>2, <1>3, BranchExcept DEF Published, SealedRecord, ResetRecord

\* What the control points of a request may rely on.
LEMMA RequestFields ==
    ASSUME TypeInv, NEW p \in Requests
    PROVE  /\ Held(p, req[p]) /\ req[p] \in Requested
           /\ Kind(p) \in Kinds /\ Key(p) \in Keys
           /\ p \in Tokens /\ p \in Writers
           /\ branch \in Branches /\ branch.sealed \in Seq(Tokens) /\ Layers(branch) \in Seq(Tokens)
           /\ <<>> \in Seq(Tokens)
           /\ req[p].pre \in Branches /\ req[p].snap \in Branches
           /\ req[p].snap.sealed \in Seq(Tokens) /\ Layers(req[p].snap) \in Seq(Tokens)
           /\ Layers(req[p].pre) \in Seq(Tokens) /\ req[p].pre.sealed \in Seq(Tokens)
<1>1. /\ Held(p, req[p]) /\ req[p] \in Requested
      /\ branch \in Branches
    BY DEF TypeInv, StoreTyped, RequestsTyped
<1>2. Kind(p) \in Kinds /\ Key(p) \in Keys /\ p \in Tokens /\ p \in Writers
    BY TaskFields DEF TypeInv, RequestsTyped, Tokens, Writers
<1>3. req[p].pre \in Branches /\ req[p].snap \in Branches
    BY <1>1 DEF Requested
<1>4. QED
    BY <1>1, <1>2, <1>3, BranchFields, LayersType, EmptySeq

LEMMA WriteTyped ==
    ASSUME TypeInv, NEW p \in Requests, Write(p)
    PROVE  TypeInv'
<1> USE RequestFields
<1>1. CASE WriteBegin(p)
    <2> DEFINE ready == [req[p] EXCEPT !.pre = branch, !.tries = @ + 1]
               r1 == [ready EXCEPT !.pc = "apply"]
               r2 == [ready EXCEPT !.pc = "bury"]
               r3 == [ready EXCEPT !.pc = "ntScan", !.todo = branch.sealed]
    <2>1. CASE BranchNotFound(p)
        BY <2>1, BranchNotFoundTyped
    <2>2. CASE /\ branch # NoBranch
               /\ Go(p, r1) \/ Go(p, r2) \/ Go(p, r3)
               /\ StoreUnchanged
        <3>1. req[p].tries + 1 \in Nat
            BY DEF Requested
        <3>2. r1 \in Requested /\ r2 \in Requested /\ r3 \in Requested
            BY <3>1 DEF Requested, Points, Scans
        <3>3. Held(p, r1) /\ Held(p, r2) /\ Held(p, r3)
            BY <2>2, <3>2 DEF Held, Requested
        <3>4. QED
            BY <2>2, <3>3, StepTyped, StoreUnchangedTyped DEF TypeInv
    <2>3. QED
        BY <1>1, <2>1, <2>2 DEF WriteBegin
<1>2. CASE SetApply(p)
    BY <1>2, StageTyped, EntryTypes DEF SetApply
<1>3. CASE CondDeref(p)
    <2> DEFINE r == [req[p] EXCEPT !.pc = "condScan", !.snap = branch, !.todo = Layers(branch)]
    <2>1. r \in Requested
        BY DEF Requested, Points, Scans
    <2>2. Held(p, r)
        BY <1>3, <2>1 DEF Held, Requested, CondDeref
    <2>3. QED
        BY <1>3, <2>2, StepTyped, StoreUnchangedTyped DEF CondDeref, TypeInv
<1>4. CASE UpdateRead(p)
    <2> DEFINE e == staged[req[p].pre.staging][Key(p)]
               r == [req[p] EXCEPT !.pc = "updateWrite", !.seen = e,
                                   !.view = Blank, !.snap = NoBranch]
    <2>1. e \in Entries
        <3>1. req[p].pre # NoBranch
            BY <1>4 DEF UpdateRead, ReadDone, Held
        <3>2. req[p].pre.staging \in Tokens
            BY <3>1, BranchFields
        <3>3. QED
            BY <3>2 DEF TypeInv, StoreTyped, StagingTypeOK
    <2>2. r \in Requested
        BY <2>1, EntryTypes DEF Requested, Points, Branches
    <2>3. Held(p, r)
        BY <2>2 DEF Held, Requested
    <2>4. Go(p, r) \/ Finish(p, "failed")
        BY <1>4 DEF UpdateRead
    <2>5. QED
        BY <1>4, <2>3, <2>4, StepTyped, FinishTyped, StoreUnchangedTyped DEF UpdateRead, TypeInv, Over
<1>5. CASE UpdateWrite(p)
    BY <1>5, StageTyped, EntryTypes, FinishTyped, StoreUnchangedTyped DEF UpdateWrite, TypeInv, Over
<1>6. CASE DeleteApply(p)
    <2> DEFINE r1 == [req[p] EXCEPT !.pc = "bury"]
               r2 == [req[p] EXCEPT !.pc = "delScan", !.todo = Layers(req[p].pre)]
    <2>1. CASE Stage(p, Tombstone(p))
        BY <2>1, StageTyped, EntryTypes
    <2>2. CASE (Go(p, r1) \/ Go(p, r2)) /\ StoreUnchanged
        <3>1. r1 \in Requested /\ r2 \in Requested
            BY DEF Requested, Points, Scans
        <3>2. Held(p, r1) /\ Held(p, r2)
            BY <3>1 DEF Held, Requested
        <3>3. QED
            BY <2>2, <3>2, StepTyped, StoreUnchangedTyped DEF TypeInv
    <2>3. QED
        BY <1>6, <2>1, <2>2 DEF DeleteApply
<1>7. CASE Bury(p)
    BY <1>7, StageTyped, EntryTypes DEF Bury
<1>8. CASE DeleteDropKey(p)
    BY <1>8, StageTyped, EntryTypes DEF DeleteDropKey
<1>9. CASE Recheck(p)
    <2> DEFINE r == [NotStarted EXCEPT !.pc = "retry", !.tries = req[p].tries]
    <2>1. CASE BranchNotFound(p)
        BY <2>1, BranchNotFoundTyped
    <2>2. CASE Finish(p, "ok") \/ Finish(p, "failed")
        BY <1>9, <2>1, <2>2, FinishTyped, StoreUnchangedTyped DEF Recheck, TypeInv, Over
    <2>3. CASE Go(p, r)
        <3>1. req[p].tries \in Nat
            BY DEF Requested
        <3>2. Held(p, r)
            BY <3>1, NotStartedType DEF Held, NotStarted, Requested, Points
        <3>3. QED
            BY <1>9, <2>1, <2>3, <3>2, StepTyped, StoreUnchangedTyped DEF Recheck, TypeInv
    <2>4. QED
        BY <1>9, <2>1, <2>2, <2>3 DEF Recheck
<1>10. QED
    BY <1>1, <1>2, <1>3, <1>4, <1>5, <1>6, <1>7, <1>8, <1>9 DEF Write

LEMMA ReadTyped ==
    ASSUME TypeInv, NEW p \in Requests, Read(p)
    PROVE  TypeInv'
<1> USE RequestFields
<1>1. CASE ReadBegin(p)
    <2> DEFINE r == [req[p] EXCEPT !.pc = "getScan", !.snap = branch, !.todo = Layers(branch)]
    <2>1. r \in Requested
        BY DEF Requested, Points, Scans
    <2>2. Held(p, r)
        BY <2>1 DEF Held, Requested
    <2>3. QED
        BY <1>1, <2>2, BranchNotFoundTyped, StepTyped, StoreUnchangedTyped DEF ReadBegin, TypeInv
<1>2. CASE ReadEnd(p)
    <2> DEFINE result == Overlay(req[p].view, Base(req[p].snap))
               shown  == IF Kind(p) = "list" THEN Keys ELSE {Key(p)}
               view   == [k \in Keys |-> IF k \in shown THEN result[k] ELSE NoEntry]
    <2>1. result \in Contents
        BY OverlayType, BaseType DEF Requested, TypeInv, StoreTyped
    <2>2. view \in Contents
        BY <2>1, EntryTypes DEF Contents
    <2>3. Held(p, [NotStarted EXCEPT !.pc = "ok", !.view = view])
        BY <2>2, NotStartedType DEF Held, NotStarted, Requested, Over
    <2>4. QED
        BY <1>2, <2>3, StepTyped, StoreUnchangedTyped DEF ReadEnd, TypeInv
<1>3. QED
    BY <1>1, <1>2 DEF Read

\* Commits written by AddCommit and AddPatch, and moves of the branch record.
LEMMA CommitStepsTyped ==
    ASSUME TypeInv, NEW p \in Requests, Commit(p) \/ Seal(p) \/ Publish(p) \/ Dirty(p)
    PROVE  TypeInv'
<1> USE RequestFields
<1>1. CASE CommitSealRead(p)
    BY <1>1, UpdateBeginTyped DEF CommitSealRead, Points
<1>2. CASE CommitRead(p)
    <2>1. CASE BranchNotFound(p)
        BY <2>1, BranchNotFoundTyped
    <2>2. CASE Finish(p, "failed") /\ StoreUnchanged
        BY <2>2, FinishTyped, StoreUnchangedTyped DEF TypeInv, Over
    <2>3. CASE UpdateBegin(p, "commitScan", branch.sealed)
        BY <2>3, UpdateBeginTyped DEF Points, Scans
    <2>4. QED
        BY <1>2, <2>1, <2>2, <2>3 DEF CommitRead
<1>3. CASE AddCommit(p)
    <2>1. CASE NoChanges(p)
        BY <1>3, <2>1, FinishTyped, StoreUnchangedTyped DEF AddCommit, TypeInv, Over
    <2>2. CASE ~NoChanges(p)
        <3> DEFINE new == [parent  |-> req[p].snap.commit, stored |-> TRUE,
                           content |-> Overlay(req[p].view, Base(req[p].snap))]
                   r == [req[p] EXCEPT !.pc = "publish", !.view = Blank]
        <3>1. Overlay(req[p].view, Base(req[p].snap)) \in Contents
            BY OverlayType, BaseType DEF Requested, TypeInv, StoreTyped
        <3>2. new \in Commits
            BY <3>1, BranchFields DEF Commits
        <3>3. StoreTyped'
            BY <1>3, <2>2, <3>2 DEF AddCommit, TypeInv, StoreTyped, StagingTypeOK, stagingVars
        <3>4. r \in Requested
            BY EntryTypes DEF Requested, Points
        <3>5. Held(p, r)
            BY <1>3, <3>4 DEF Held, Requested, AddCommit
        <3>6. QED
            BY <1>3, <2>2, <3>3, <3>5, StepTyped DEF AddCommit
    <2>3. QED
        BY <2>1, <2>2
<1>4. CASE Seal(p)
    <2>1. CASE Replace(p, SealedRecord(p)) /\ Go(p, [NotStarted EXCEPT !.pc = "update"])
        <3>1. StoreTyped'
            BY <2>1, RecordTypes, ReplaceTyped DEF Replace, Unmoved
        <3>2. Held(p, [NotStarted EXCEPT !.pc = "update"])
            BY NotStartedType DEF Held, NotStarted, Requested, Points
        <3>3. QED
            BY <2>1, <3>1, <3>2, StepTyped
    <2>2. CASE LostRace(p, "prepare", Kind(p) # "commit")
        BY <2>2, LostRaceTyped DEF Points
    <2>3. QED
        BY <1>4, <2>1, <2>2 DEF Seal
<1>5. CASE Publish(p)
    <2>1. CASE Replace(p, Published(p, p)) /\ DropThen(p, req[p].snap.sealed)
        <3>1. StoreTyped'
            BY <2>1, RecordTypes, ReplaceTyped DEF Replace, Unmoved
        <3>2. QED
            BY <2>1, <3>1, DropThenTyped DEF TypeInv
    <2>2. CASE LostRace(p, "update", Retries(p))
        BY <2>2, LostRaceTyped DEF Points
    <2>3. QED
        BY <1>5, <2>1, <2>2 DEF Publish
<1>6. CASE Dirty(p)
    BY <1>6, FinishTyped, StoreUnchangedTyped DEF Dirty, TypeInv, Over
<1>7. QED
    BY <1>1, <1>2, <1>3, <1>4, <1>5, <1>6 DEF Commit

\* Commits a client can name are commits.
LEMMA KnownWriters == Known \subseteq Writers
    BY DEF Known, Writers

LEMMA AddPatchTyped ==
    ASSUME TypeInv, NEW p \in Requests, NEW tip \in Writers \cup {NoOne},
           Kind(p) # "resetHard", AddPatch(p, tip)
    PROVE  TypeInv'
<1> USE RequestFields
<1> DEFINE new == [parent |-> tip, stored |-> TRUE, content |-> Patch(p, tip)]
           r   == [req[p] EXCEPT !.pc = "publish", !.view = Blank]
<1>1. Patch(p, tip) \in Contents
    BY ContentType, EntryTypes DEF Patch, Contents, TypeInv, StoreTyped
<1>2. new \in Commits
    BY <1>1 DEF Commits
<1>3. StoreTyped'
    BY <1>2 DEF AddPatch, TypeInv, StoreTyped, StagingTypeOK, stagingVars
<1>4. r \in Requested
    BY EntryTypes DEF Requested, Points
<1>5. Held(p, r)
    BY <1>4 DEF Held, Requested
<1>6. QED
    BY <1>3, <1>5, StepTyped DEF AddPatch

LEMMA HeadUpdateTyped ==
    ASSUME TypeInv, NEW p \in Requests, HeadUpdate(p)
    PROVE  TypeInv'
<1> USE RequestFields
<1>1. CASE PrepareBegin(p)
    BY <1>1, UpdateBeginTyped DEF PrepareBegin, Points, Scans
<1>2. CASE HeadBegin(p)
    BY <1>2, UpdateBeginTyped DEF HeadBegin, Points, Scans
<1>3. CASE MergeCommit(p)
    BY <1>3, BranchNotFoundTyped, AddPatchTyped, BranchFields DEF MergeCommit
<1>4. CASE RevertCommit(p)
    BY <1>4, AddPatchTyped, BranchFields DEF RevertCommit
<1>5. CASE HeadPublish(p)
    <2>1. ASSUME NEW c \in Known, Replace(p, Published(p, c)), DropThen(p, req[p].snap.sealed)
          PROVE  TypeInv'
        <3>1. StoreTyped'
            BY <2>1, RecordTypes, ReplaceTyped, KnownWriters DEF Replace, Unmoved
        <3>2. QED
            BY <2>1, <3>1, DropThenTyped DEF TypeInv
    <2>2. CASE LostRace(p, "update", Retries(p))
        BY <2>2, LostRaceTyped DEF Points
    <2>3. QED
        BY <1>5, <2>1, <2>2 DEF HeadPublish
<1>6. QED
    BY <1>1, <1>2, <1>3, <1>4, <1>5 DEF HeadUpdate

LEMMA UndoKeyTyped ==
    ASSUME TypeInv, NEW p \in Requests, NEW b \in Branches, NEW k \in Keys, NEW t,
           UndoKey(p, b, k, t), UNCHANGED <<branch, commits>>
    PROVE  StoreTyped'
<1>1. Base(b)[k] \in Entries
    BY BaseType DEF TypeInv, StoreTyped, Contents
<1>2. Tombstone(p) \in Entries
    BY EntryTypes DEF Writers
<1>3. StagingTypeOK'
    BY <1>1, <1>2, PutTyped DEF UndoKey, TypeInv, StoreTyped
<1>4. QED
    BY <1>3 DEF TypeInv, StoreTyped

LEMMA HardResetTyped ==
    ASSUME TypeInv, NEW p \in Requests, HardBegin(p) \/ HardDeref(p) \/ HardPublish(p)
    PROVE  TypeInv'
<1> USE RequestFields
<1>1. CASE HardBegin(p)
    BY <1>1, UpdateBeginTyped DEF HardBegin, Points, Scans
<1>2. CASE HardDeref(p)
    <2>1. ASSUME branch # NoBranch, StoreUnchanged, NEW c \in Known,
                 Go(p, [req[p] EXCEPT !.pc = "publish", !.pre = [branch EXCEPT !.commit = c]])
          PROVE  TypeInv'
        <3> DEFINE r == [req[p] EXCEPT !.pc = "publish", !.pre = [branch EXCEPT !.commit = c]]
        <3>1. c \in Writers
            BY KnownWriters
        <3>2. [branch EXCEPT !.commit = c] \in Branches
            BY <2>1, <3>1, BranchFields, BranchExcept
        <3>3. [branch EXCEPT !.commit = c] # NoBranch
            BY <2>1, <3>1, StagingAssumption DEF Branches, NoBranch, Writers
        <3>4. r \in Requested
            BY <3>2 DEF Requested, Points
        <3>5. Held(p, r)
            BY <3>3, <3>4 DEF Held, Requested
        <3>6. QED
            BY <2>1, <3>5, StepTyped, StoreUnchangedTyped DEF TypeInv
    <2>2. QED
        BY <1>2, <2>1, BranchNotFoundTyped DEF HardDeref
<1>3. CASE HardPublish(p)
    <2>1. CASE Replace(p, [branch EXCEPT !.commit = req[p].pre.commit]) /\ Finish(p, "ok")
        <3>1. branch # NoBranch
            BY <2>1 DEF Replace, Unmoved
        <3>2. req[p].pre.commit \in Writers
            BY <1>3, BranchFields DEF HardPublish, Held
        <3>3. [branch EXCEPT !.commit = req[p].pre.commit] \in Branches
            BY <3>1, <3>2, BranchFields, BranchExcept
        <3>4. QED
            BY <2>1, <3>3, ReplaceTyped, FinishTyped DEF TypeInv, Over
    <2>2. CASE LostRace(p, "update", Retries(p))
        BY <2>2, LostRaceTyped DEF Points
    <2>3. QED
        BY <1>3, <2>1, <2>2 DEF HardPublish
<1>4. QED
    BY <1>1, <1>2, <1>3

LEMMA ResetTyped ==
    ASSUME TypeInv, NEW p \in Requests, Reset(p)
    PROVE  TypeInv'
<1> USE RequestFields
<1>1. CASE ResetBegin(p)
    BY <1>1, UpdateBeginTyped DEF ResetBegin, Points
<1>2. CASE ResetPublish(p)
    <2>1. CASE Replace(p, ResetRecord(p)) /\ DropThen(p, Layers(req[p].snap))
        <3>1. StoreTyped'
            BY <2>1, RecordTypes, ReplaceTyped DEF Replace, Unmoved
        <3>2. QED
            BY <2>1, <3>1, DropThenTyped DEF TypeInv
    <2>2. CASE LostRace(p, "start", Retries(p))
        BY <2>2, LostRaceTyped DEF Points
    <2>3. QED
        BY <1>2, <2>1, <2>2 DEF ResetPublish
<1>3. CASE HardBegin(p) \/ HardDeref(p) \/ HardPublish(p)
    BY <1>3, HardResetTyped
<1>4. CASE KeyBegin(p)
    <2> DEFINE r == [req[p] EXCEPT !.pc = "keyScan", !.pre = branch, !.todo = Layers(branch)]
    <2>1. r \in Requested
        BY DEF Requested, Points, Scans
    <2>2. Held(p, r)
        BY <2>1 DEF Held, Requested
    <2>3. QED
        BY <1>4, <2>2, BranchNotFoundTyped, StepTyped, StoreUnchangedTyped DEF KeyBegin, TypeInv
<1>5. CASE KeyReset(p)
    <2>1. CASE StoreUnchanged
        BY <1>5, <2>1, FinishTyped, StoreUnchangedTyped DEF KeyReset, TypeInv, Over
    <2>2. CASE /\ UndoKey(p, req[p].pre, Key(p), req[p].pre.staging)
               /\ UNCHANGED <<branch, commits>>
        BY <1>5, <2>2, FinishTyped, UndoKeyTyped DEF KeyReset, TypeInv, Over
    <2>3. QED
        BY <1>5, <2>1, <2>2 DEF KeyReset
<1>6. <<p>> \in Seq(Tokens)
    OBVIOUS
<1>7. CASE PrefixBegin(p)
    <2>1. CASE DropThen(p, <<p>>) /\ StoreUnchanged
        BY <1>6, <2>1, DropThenTyped, StoreUnchangedTyped DEF TypeInv
    <2>2. CASE UpdateBegin(p, "prefixDiff", <<>>)
        BY <2>2, UpdateBeginTyped DEF Points
    <2>3. QED
        BY <1>7, <2>1, <2>2 DEF PrefixBegin
<1>8. CASE PrefixDiff(p)
    <2> DEFINE r == [req[p] EXCEPT !.pc = "prefixScan", !.pre = branch, !.todo = Layers(branch)]
    <2>1. r \in Requested
        BY DEF Requested, Points, Scans
    <2>2. Held(p, r)
        BY <2>1 DEF Held, Requested
    <2>3. StoreTyped'
        BY <1>8, StoreUnchangedTyped DEF PrefixDiff, TypeInv
    <2>4. QED
        BY <1>6, <1>8, <2>2, <2>3, DropThenTyped, StepTyped DEF PrefixDiff, TypeInv
<1>9. CASE PrefixScanned(p)
    <2> DEFINE left == {k \in Changes(req[p].view, Base(req[p].pre)) :
                           NeedsReset(req[p].snap, k, req[p].view[k])}
               r == [req[p] EXCEPT !.pc = "prefixWrite", !.left = left]
    <2>1. left \in SUBSET Keys
        BY DEF Changes
    <2>2. r \in Requested
        BY <2>1 DEF Requested, Points
    <2>3. Held(p, r)
        BY <2>2 DEF Held, Requested
    <2>4. QED
        BY <1>9, <2>3, StepTyped, StoreUnchangedTyped DEF PrefixScanned, TypeInv
<1>10. CASE PrefixUndo(p)
    <2>1. PICK k \in req[p].left :
              /\ UndoKey(p, req[p].snap, k, p)
              /\ Go(p, [req[p] EXCEPT !.left = @ \ {k}])
        BY <1>10 DEF PrefixUndo
    <2>2. k \in Keys /\ [req[p] EXCEPT !.left = @ \ {k}] \in Requested
        BY DEF Requested
    <2>3. Held(p, [req[p] EXCEPT !.left = @ \ {k}])
        BY <2>2 DEF Held, Requested
    <2>4. StoreTyped'
        BY <1>10, <2>1, <2>2, UndoKeyTyped DEF PrefixUndo
    <2>5. QED
        BY <2>1, <2>3, <2>4, StepTyped
<1>11. CASE PrefixPublish(p)
    <2>1. CASE Replace(p, SealedRecord(p))
        <3>1. StoreTyped'
            BY <2>1, RecordTypes, ReplaceTyped DEF Replace, Unmoved
        <3>2. Finish(p, "ok") \/ DropThen(p, <<p>>)
            BY <1>11, <2>1 DEF PrefixPublish, Replace
        <3>3. QED
            BY <1>6, <3>1, <3>2, FinishTyped, DropThenTyped DEF TypeInv, Over
    <2>2. CASE DropThen(p, <<p>>) /\ StoreUnchanged
        BY <1>6, <2>2, DropThenTyped, StoreUnchangedTyped DEF TypeInv
    <2>3. QED
        BY <1>11, <2>1, <2>2 DEF PrefixPublish
<1>12. QED
    BY <1>1, <1>2, <1>3, <1>4, <1>5, <1>7, <1>8, <1>9, <1>10, <1>11 DEF Reset

LEMMA LifecycleTyped ==
    ASSUME TypeInv, NEW p \in Requests, BranchLifecycle(p) \/ DropToken(p) \/ Stop(p)
    PROVE  TypeInv'
<1> USE RequestFields
<1>1. CASE DeleteBranchRead(p)
    BY <1>1, UpdateBeginTyped DEF DeleteBranchRead, Points
<1>2. CASE DeleteBranchApply(p)
    <2>1. CASE BranchNotFound(p)
        BY <2>1, BranchNotFoundTyped
    <2>2. CASE ~BranchNotFound(p)
        <3>1. req[p].snap # NoBranch
            BY <1>2 DEF DeleteBranchApply, Held
        <3>2. <<req[p].snap.staging>> \in Seq(Tokens)
            BY <3>1, BranchFields
        <3>3. req[p].snap.sealed \o <<req[p].snap.staging>> \in Seq(Tokens)
            BY <3>2, ConcatProperties
        <3>4. StoreTyped'
            BY <1>2, <2>2 DEF DeleteBranchApply, TypeInv, StoreTyped, StagingTypeOK, stagingVars, Branches
        <3>5. QED
            BY <1>2, <2>2, <3>3, <3>4, DropThenTyped DEF DeleteBranchApply, TypeInv
    <2>3. QED
        BY <2>1, <2>2
<1>3. CASE CreateBranchRead(p)
    <2>1. [req[p] EXCEPT !.pc = "create"] \in Requested
        BY DEF Requested, Points
    <2>2. Held(p, [req[p] EXCEPT !.pc = "create"])
        BY <2>1 DEF Held, Requested
    <2>3. StoreTyped'
        BY <1>3, StoreUnchangedTyped DEF CreateBranchRead, TypeInv
    <2>4. QED
        BY <1>3, <2>2, <2>3, FinishTyped, StepTyped DEF CreateBranchRead, TypeInv, Over
<1>4. CASE CreateBranchApply(p)
    <2>1. CASE Finish(p, "failed") /\ StoreUnchanged
        BY <2>1, FinishTyped, StoreUnchangedTyped DEF TypeInv, Over
    <2>2. CASE ~(Finish(p, "failed") /\ StoreUnchanged)
        <3>1. [commit |-> Origin, staging |-> p, sealed |-> <<>>] \in Branches
            BY DEF Branches, Writers
        <3>2. StoreTyped'
            BY <1>4, <2>2, <3>1 DEF CreateBranchApply, TypeInv, StoreTyped, StagingTypeOK, stagingVars
        <3>3. QED
            BY <1>4, <2>2, <3>2, FinishTyped DEF CreateBranchApply, TypeInv, Over
    <2>3. QED
        BY <2>1, <2>2
<1>5. CASE DropToken(p)
    <2>1. PICK s \in Servers : DropAsync(s, Head(req[p].drop))
        BY <1>5 DEF DropToken
    <2>2. Head(req[p].drop) \in Tokens /\ Tail(req[p].drop) \in Seq(Tokens)
        <3>1. req[p].drop \in Seq(Tokens) /\ req[p].drop # <<>>
            BY <1>5 DEF DropToken, Held, Requested
        <3>2. QED
            BY <3>1, HeadTailProperties
    <2>3. StoreTyped'
        BY <1>5, <2>1, <2>2, DropAsyncTyped DEF DropToken, TypeInv, StoreTyped
    <2>4. QED
        BY <1>5, <2>2, <2>3, DropThenTyped DEF DropToken, TypeInv
<1>6. CASE Stop(p)
    BY <1>6, FinishTyped, StoreUnchangedTyped DEF Stop, TypeInv, Over
<1>7. QED
    BY <1>1, <1>2, <1>3, <1>4, <1>5, <1>6 DEF BranchLifecycle

LEMMA CleanTyped ==
    ASSUME TypeInv, NEW s \in Servers, CleanStep(s)
    PROVE  TypeInv'
<1> USE DEF TypeInv, StoreTyped, StagingTypeOK
<1>1. UNCHANGED <<task, branch, commits, req, before>>
    BY DEF CleanStep, requestVars
<1>2. CASE FindTokens(s)
    <2>1. wakeup[s] - 1 \in 0..WakeupCapacity
        BY <1>2, StagingAssumption DEF FindTokens
    <2>2. wakeup' \in [Servers -> 0..WakeupCapacity]
        BY <1>2, <2>1 DEF FindTokens
    <2>3. fetched' \in [Servers -> SUBSET Tokens]
        BY <1>2 DEF FindTokens
    <2>4. StagingTypeOK'
        BY <1>2, <2>2, <2>3 DEF FindTokens
    <2>5. QED
        BY <1>1, <2>4 DEF RequestsTyped, Held, Kind
<1>3. CASE ScanToken(s)
    <2>1. PICK t \in fetched[s] :
              doomed' = [doomed EXCEPT ![s] =
                            [token |-> t, keys |-> {k \in Keys : Exists(staged[t][k])}]]
        BY <1>3 DEF ScanToken
    <2>2. [token |-> t, keys |-> {k \in Keys : Exists(staged[t][k])}]
             \in [token : Tokens \cup {NoOne}, keys : SUBSET Keys]
        OBVIOUS
    <2>3. doomed' \in [Servers -> [token : Tokens \cup {NoOne}, keys : SUBSET Keys]]
        BY <2>1, <2>2
    <2>4. StagingTypeOK'
        BY <1>3, <2>3 DEF ScanToken
    <2>5. QED
        BY <1>1, <2>4 DEF RequestsTyped, Held, Kind
<1>4. CASE DropEntry(s)
    <2>1. PICK k \in doomed[s].keys :
              /\ staged' = [staged EXCEPT ![doomed[s].token][k] = NoEntry]
              /\ doomed' = [doomed EXCEPT ![s].keys = @ \ {k}]
        BY <1>4 DEF DropEntry
    <2>2. staged' \in [Tokens -> [Keys -> Entries]]
        BY <2>1, EntryTypes
    <2>3. doomed' \in [Servers -> [token : Tokens \cup {NoOne}, keys : SUBSET Keys]]
        BY <2>1
    <2>4. StagingTypeOK'
        BY <1>4, <2>2, <2>3 DEF DropEntry
    <2>5. QED
        BY <1>1, <2>4 DEF RequestsTyped, Held, Kind
<1>5. CASE UnlistToken(s)
    <2>1. StagingTypeOK'
        BY <1>5 DEF UnlistToken, NoDrop
    <2>2. QED
        BY <1>1, <2>1 DEF RequestsTyped, Held, Kind
<1>6. QED
    BY <1>2, <1>3, <1>4, <1>5 DEF CleanStep, Clean

LEMMA InitTyped == Init => TypeInv
<1> SUFFICES ASSUME Init PROVE TypeInv
    OBVIOUS
<1>1. StagingTypeOK
    BY EntryTypes, StagingAssumption DEF Init, StagingInit, StagingTypeOK, Blank, Contents, NoDrop
<1>2. branch \in Branches
    <2>1. <<>> \in Seq(Tokens)
        BY EmptySeq
    <2>2. QED
        BY <2>1 DEF Init, Branches, Writers, Tokens
<1>3. commits \in [Writers -> Commits]
    <2>1. NoCommit \in Commits
        BY EntryTypes DEF NoCommit, Commits
    <2>2. [k \in Keys |-> IF k \in Initial THEN Value(Origin) ELSE NoEntry] \in Contents
        BY EntryTypes DEF Contents, Writers
    <2>3. QED
        BY <2>1, <2>2 DEF Init, Commits
<1>4. RequestsTyped
    BY NotStartedType DEF Init, RequestsTyped, Held, NotStarted
<1>5. QED
    BY <1>1, <1>2, <1>3, <1>4 DEF TypeInv, StoreTyped

LEMMA NextTyped == TypeInv /\ [Next]_vars => TypeInv'
<1> SUFFICES ASSUME TypeInv, [Next]_vars PROVE TypeInv'
    OBVIOUS
<1>1. ASSUME NEW p \in Requests, Step(p) PROVE TypeInv'
    BY <1>1, ReadTokenTyped, WriteTyped, ReadTyped, CommitStepsTyped, HeadUpdateTyped,
       ResetTyped, LifecycleTyped DEF Step
<1>2. ASSUME NEW p \in Requests, Stop(p) PROVE TypeInv'
    BY <1>2, LifecycleTyped
<1>3. ASSUME NEW s \in Servers, CleanStep(s) PROVE TypeInv'
    BY <1>3, CleanTyped
<1>4. CASE UNCHANGED vars
    BY <1>4 DEF vars, stagingVars, requestVars, TypeInv, StoreTyped, RequestsTyped,
                StagingTypeOK, Held, Kind
<1>5. QED
    BY <1>1, <1>2, <1>3, <1>4 DEF Next, Quiet

\* Every variable keeps its type, however many requests, keys and servers
\* there are: in particular no request uses a branch record it has not read,
\* and no staging token that is not one.
THEOREM TypeCorrect == Spec => []TypeOK
<1>1. Spec => []TypeInv
    BY InitTyped, NextTyped, PTL DEF Spec
<1>2. TypeInv => TypeOK
    BY DEF TypeInv, StoreTyped, RequestsTyped, TypeOK
<1>3. QED
    BY <1>1, <1>2, PTL

-----------------------------------------------------------------------------
(* The tokens of the branch are never handed to the cleanup.  That needs   *)
(* to know of the tokens requests have generated and not yet installed     *)
(* that nobody else has them; and of the branch that its staging token is  *)
(* not one of its sealed ones, which a commit drops.                       *)

LEMMA RangeFacts ==
    ASSUME NEW s \in Seq(Tokens), NEW t \in Tokens
    PROVE  /\ Range(<<>>) = {}
           /\ Range(<<t>>) = {t}
           /\ <<t>> \in Seq(Tokens)
           /\ Range(<<t>> \o s) = {t} \cup Range(s)
           /\ Range(s \o <<t>>) = {t} \cup Range(s)
           /\ s # <<>> => Head(s) \in Range(s) /\ Range(Tail(s)) \subseteq Range(s)
<1>1. Range(<<>>) = {}
    BY DEF Range
<1>2. <<t>> \in Seq(Tokens) /\ Range(<<t>>) = {t}
    BY DEF Range
<1>3. Range(<<t>> \o s) = {t} \cup Range(s) /\ Range(s \o <<t>>) = {t} \cup Range(s)
    <2> DEFINE one == <<t>>
    <2>1. one \in Seq(Tokens) /\ Range(one) = {t}
        BY <1>2
    <2> HIDE DEF one
    <2>2. Range(one \o s) = {t} \cup Range(s) /\ Range(s \o one) = {t} \cup Range(s)
        BY <2>1, RangeConcatenation
    <2>3. QED
        BY <2>2 DEF one
<1>4. ASSUME s # <<>> PROVE Head(s) \in Range(s) /\ Range(Tail(s)) \subseteq Range(s)
    <2>1. /\ Range(s) = {s[i] : i \in 1..Len(s)}
          /\ Len(s) \in Nat
        BY RangeEquality, LenProperties
    <2>2. /\ Tail(s) \in Seq(Tokens)
          /\ Len(Tail(s)) = Len(s) - 1
          /\ \A i \in 1..Len(Tail(s)) : Tail(s)[i] = s[i + 1]
        BY <1>4, HeadTailProperties
    <2>3. Range(Tail(s)) = {Tail(s)[i] : i \in 1..Len(Tail(s))}
        BY <2>2, RangeEquality
    <2>4. Range(Tail(s)) \subseteq Range(s)
        BY <2>1, <2>2, <2>3
    <2>5. Head(s) = s[1] /\ 1 \in 1..Len(s)
        BY <1>4, <2>1, EmptySeq
    <2>6. QED
        BY <2>1, <2>4, <2>5
<1>5. QED
    BY <1>1, <1>2, <1>3, <1>4

\* Request p, in state r, may still install its token.
Fresh(p, r) ==
    \/ r.pc \in {"start", "prepare", "seal", "prepScan", "prefixDiff", "prefixScan",
                 "prefixWrite", "create"}
    \/ r.pc = "publish" /\ Kind(p) = "reset"

Distinct == branch # NoBranch => branch.staging \notin Range(branch.sealed)

Claimed == LayerSet(branch) \cup Dropped \cup UNION {LayerSet(req[q].snap) : q \in Requests}

FreshUnclaimed == \A p \in Requests : Fresh(p, req[p]) => p \notin Claimed

TokenInv == LiveTokensKept /\ Distinct /\ FreshUnclaimed

\* A step of request p to state r keeps the invariant if all it may add to
\* the branch is p's token while fresh, and what it drops had been the
\* branch's, or in a record p had read, or is that token.
LEMMA GoKept ==
    ASSUME TypeInv, TokenInv, NEW p \in Requests, NEW r, Go(p, r),
           NEW mine, mine = IF Fresh(p, req[p]) THEN {p} ELSE {},
           LayerSet(branch)' \subseteq LayerSet(branch) \cup mine,
           Condemned' \subseteq Condemned \cup Range(req[p].drop),
           Range(r.drop) \subseteq Range(req[p].drop) \cup LayerSet(branch)
                                     \cup LayerSet(req[p].snap) \cup mine,
           LayerSet(branch)' \cap Range(r.drop) = {},
           LayerSet(r.snap) \subseteq LayerSet(branch) \cup LayerSet(req[p].snap),
           Fresh(p, r) => /\ Fresh(p, req[p])
                          /\ p \notin LayerSet(branch)' \cup Range(r.drop),
           Distinct'
    PROVE  TokenInv'
<1>1. /\ \A q \in Requests : req'[q] = IF q = p THEN r ELSE req[q]
      /\ task' = task
    BY DEF Go, TypeInv, RequestsTyped
<1>2. Dropped' \subseteq Dropped \cup Range(r.drop)
    BY <1>1 DEF Dropped
<1>3. LiveTokensKept'
    BY <1>2 DEF LiveTokensKept, TokenInv, FreshUnclaimed, Claimed
<1>4. ASSUME NEW q \in Requests, Fresh(q, req[q])' PROVE q \notin Claimed'
    <2>1. Claimed' \subseteq Claimed \cup mine \cup Range(r.drop)
        BY <1>1, <1>2 DEF Claimed
    <2>2. CASE q # p
        <3>1. Fresh(q, req[q])
            BY <1>1, <1>4, <2>2 DEF Fresh, Kind
        <3>2. q \notin Claimed
            BY <3>1 DEF TokenInv, FreshUnclaimed
        <3>3. Range(r.drop) \subseteq Claimed \cup mine
            BY DEF Claimed, Dropped
        <3>4. QED
            BY <2>1, <2>2, <3>2, <3>3
    <2>3. CASE q = p
        <3>1. Fresh(p, r)
            BY <1>1, <1>4, <2>3 DEF Fresh, Kind
        <3>2. p \notin Claimed /\ p \notin LayerSet(branch)' /\ p \notin Range(r.drop)
            BY <3>1 DEF TokenInv, FreshUnclaimed
        <3>3. p \notin Dropped'
            BY <1>2, <3>2 DEF Claimed
        <3>4. p \notin UNION {LayerSet(req[o].snap) : o \in Requests}'
            BY <1>1, <3>2 DEF Claimed
        <3>5. QED
            BY <2>3, <3>2, <3>3, <3>4 DEF Claimed
    <2>4. QED
        BY <2>2, <2>3
<1>5. QED
    BY <1>3, <1>4 DEF TokenInv, FreshUnclaimed

\* A step that touches neither the branch nor the cleanup's lists.
LEMMA LocalKept ==
    ASSUME TypeInv, TokenInv, NEW p \in Requests, NEW r, Go(p, r),
           UNCHANGED <<branch, cleanup, fetched>>,
           LayerSet(r.snap) \subseteq LayerSet(branch) \cup LayerSet(req[p].snap),
           Range(r.drop) \subseteq Range(req[p].drop),
           Fresh(p, r) => Fresh(p, req[p])
    PROVE  TokenInv'
<1>1. LayerSet(branch)' = LayerSet(branch) /\ Condemned' = Condemned /\ Distinct'
    BY DEF LayerSet, Condemned, TokenInv, Distinct
<1>2. Range(r.drop) \subseteq Dropped
    BY DEF Dropped
<1>3. LayerSet(branch)' \cap Range(r.drop) = {}
    BY <1>1, <1>2 DEF TokenInv, LiveTokensKept
<1>4. Fresh(p, r) => p \notin LayerSet(branch)' \cup Range(r.drop)
    BY <1>1, <1>2 DEF TokenInv, FreshUnclaimed, Claimed
<1>5. QED
    BY <1>1, <1>3, <1>4, GoKept

LEMMA NotStartedClaimsNothing ==
    /\ LayerSet(NotStarted.snap) = {}
    /\ Range(NotStarted.drop) = {}
    BY DEF NotStarted, LayerSet, Range

LEMMA FinishKept ==
    ASSUME TypeInv, TokenInv, NEW p \in Requests, NEW o \in Over, Finish(p, o),
           UNCHANGED <<branch, cleanup, fetched>>
    PROVE  TokenInv'
<1> DEFINE v == IF Kind(p) \in Reads THEN req[p].view ELSE Blank
           r == [NotStarted EXCEPT !.pc = o, !.view = v]
<1>1. Go(p, r)
    BY DEF Finish, NotStarted
<1>2. r.snap = NotStarted.snap /\ r.drop = NotStarted.drop
    BY DEF NotStarted
<1>3. ~Fresh(p, r)
    BY DEF Fresh, NotStarted, Over
<1>4. QED
    BY <1>1, <1>2, <1>3, NotStartedClaimsNothing, LocalKept

LEMMA StoreUnchangedParts ==
    ASSUME StoreUnchanged
    PROVE  UNCHANGED <<branch, cleanup, fetched>>
    BY DEF StoreUnchanged, stagingVars

LEMMA BranchNotFoundKept ==
    ASSUME TypeInv, TokenInv, NEW p \in Requests, BranchNotFound(p)
    PROVE  TokenInv'
    BY FinishKept, StoreUnchangedParts DEF BranchNotFound, Over

LEMMA UpdateBeginKept ==
    ASSUME TypeInv, TokenInv, NEW p \in Requests, NEW then, NEW layers,
           Fresh(p, [NotStarted EXCEPT !.pc = then]) => Fresh(p, req[p]),
           UpdateBegin(p, then, layers)
    PROVE  TokenInv'
<1> DEFINE r == [req[p] EXCEPT !.pc = then, !.snap = branch, !.todo = layers,
                               !.view = Blank, !.tries = @ + 1]
<1>1. CASE BranchNotFound(p)
    BY <1>1, BranchNotFoundKept
<1>2. CASE Go(p, r) /\ StoreUnchanged
    <2>1. r.pc = then /\ r.snap = branch /\ r.drop = req[p].drop
        BY RequestFields DEF Requested
    <2>2. Fresh(p, r) => Fresh(p, [NotStarted EXCEPT !.pc = then])
        BY <2>1 DEF Fresh, NotStarted
    <2>3. QED
        BY <1>2, <2>1, <2>2, LocalKept, StoreUnchangedParts
<1>3. QED
    BY <1>1, <1>2 DEF UpdateBegin

LEMMA LostRaceKept ==
    ASSUME TypeInv, TokenInv, NEW p \in Requests, NEW again, NEW retried,
           Fresh(p, [NotStarted EXCEPT !.pc = again]) => Fresh(p, req[p]),
           LostRace(p, again, retried)
    PROVE  TokenInv'
<1>1. CASE Finish(p, "failed")
    BY <1>1, FinishKept, StoreUnchangedParts DEF LostRace, Over
<1>2. CASE Go(p, [NotStarted EXCEPT !.pc = again, !.tries = req[p].tries])
    <2> DEFINE r == [NotStarted EXCEPT !.pc = again, !.tries = req[p].tries]
    <2>1. r.snap = NotStarted.snap /\ r.drop = NotStarted.drop
        BY DEF NotStarted
    <2>2. Fresh(p, r) => Fresh(p, [NotStarted EXCEPT !.pc = again])
        BY DEF Fresh, NotStarted
    <2>3. QED
        BY <1>2, <2>1, <2>2, NotStartedClaimsNothing, LocalKept, StoreUnchangedParts DEF LostRace
<1>3. QED
    BY <1>1, <1>2 DEF LostRace

\* Finish and DropThen leave the request with no record, and not fresh.
LEMMA OutcomeState ==
    ASSUME NEW p \in Requests, NEW s \in Seq(Tokens),
           DropThen(p, s) \/ (s = <<>> /\ \E o \in Over : Finish(p, o))
    PROVE  \E r : /\ Go(p, r)
                  /\ LayerSet(r.snap) = {}
                  /\ Range(r.drop) = Range(s)
                  /\ ~Fresh(p, r)
<1> USE NotStartedClaimsNothing
<1>1. CASE DropThen(p, s) /\ s # <<>>
    <2> DEFINE r == [NotStarted EXCEPT !.pc = "drop", !.drop = s]
    <2>1. r.snap = NotStarted.snap /\ r.drop = s /\ r.pc = "drop"
        BY DEF NotStarted
    <2>2. Go(p, r)
        BY <1>1 DEF DropThen
    <2>3. QED
        BY <2>1, <2>2 DEF Fresh
<1>2. CASE s = <<>> /\ \E o \in Over : Finish(p, o)
    <2>1. PICK o \in Over : Finish(p, o)
        BY <1>2
    <2> DEFINE r == [NotStarted EXCEPT !.pc = o,
                       !.view = IF Kind(p) \in Reads THEN req[p].view ELSE @]
    <2>2. r.snap = NotStarted.snap /\ r.drop = NotStarted.drop /\ r.pc = o
        BY DEF NotStarted
    <2>3. Go(p, r)
        BY <2>1 DEF Finish
    <2>4. Range(s) = {}
        BY <1>2 DEF Range
    <2>5. QED
        BY <2>2, <2>3, <2>4 DEF Fresh, Over
<1>3. QED
    BY <1>1, <1>2 DEF DropThen, Over

\* An update of the branch, or a failure, after which the request is over or
\* has tokens s to drop.
LEMMA OutcomeKept ==
    ASSUME TypeInv, TokenInv, NEW p \in Requests, NEW s \in Seq(Tokens),
           DropThen(p, s) \/ (s = <<>> /\ \E o \in Over : Finish(p, o)),
           UNCHANGED <<cleanup, fetched>>,
           NEW mine, mine = IF Fresh(p, req[p]) THEN {p} ELSE {},
           LayerSet(branch)' \subseteq LayerSet(branch) \cup mine,
           Range(s) \subseteq LayerSet(branch) \cup LayerSet(req[p].snap) \cup mine,
           LayerSet(branch)' \cap Range(s) = {},
           Distinct'
    PROVE  TokenInv'
<1>1. PICK r : /\ Go(p, r)
               /\ LayerSet(r.snap) = {}
               /\ Range(r.drop) = Range(s)
               /\ ~Fresh(p, r)
    BY OutcomeState
<1>2. Condemned' = Condemned
    BY DEF Condemned
<1>3. QED
    BY <1>1, <1>2, GoKept

\* The layers of the records the updates write.
LEMMA RecordLayers ==
    ASSUME TypeInv, NEW p \in Requests, branch # NoBranch, NEW c \in Writers
    PROVE  /\ LayerSet(branch) = {branch.staging} \cup Range(branch.sealed)
           /\ Range(Layers(branch)) = LayerSet(branch)
           /\ SealedRecord(p) # NoBranch /\ SealedRecord(p).staging = p
           /\ Range(SealedRecord(p).sealed) = LayerSet(branch)
           /\ LayerSet(SealedRecord(p)) = {p} \cup LayerSet(branch)
           /\ Published(p, c) # NoBranch /\ Published(p, c).staging = branch.staging
           /\ Range(Published(p, c).sealed) = {}
           /\ LayerSet(Published(p, c)) = {branch.staging}
           /\ ResetRecord(p) # NoBranch /\ ResetRecord(p).staging = p
           /\ Range(ResetRecord(p).sealed) = {}
           /\ LayerSet(ResetRecord(p)) = {p}
<1>1. /\ branch.staging \in Tokens /\ branch.sealed \in Seq(Tokens)
      /\ branch \in [commit : Writers, staging : Tokens, sealed : Seq(Tokens)]
    BY BranchFields DEF TypeInv, StoreTyped, Branches
<1>2. \A t \in Tokens : t # NoOne
    BY StagingAssumption DEF Tokens
<1>3. /\ Range(<<branch.staging>> \o branch.sealed) = {branch.staging} \cup Range(branch.sealed)
      /\ Range(<<>>) = {}
    BY <1>1, RangeFacts
<1>4. p # NoOne
    BY <1>2 DEF Tokens
<1>5. /\ SealedRecord(p).staging = p
      /\ SealedRecord(p).sealed = <<branch.staging>> \o branch.sealed
      /\ Published(p, c).staging = branch.staging
      /\ Published(p, c).sealed = <<>>
      /\ ResetRecord(p).staging = p
      /\ ResetRecord(p).sealed = <<>>
    BY <1>1 DEF SealedRecord, Published, ResetRecord
<1>6. NoBranch.staging = NoOne
    BY DEF NoBranch
<1>7. /\ SealedRecord(p) # NoBranch
      /\ Published(p, c) # NoBranch
      /\ ResetRecord(p) # NoBranch
    BY <1>1, <1>2, <1>4, <1>5, <1>6
<1>8. QED
    BY <1>3, <1>5, <1>7 DEF LayerSet, Layers

\* The branch record that a compare-and-set writes: what becomes of its layers.
LEMMA NewLayers ==
    ASSUME NEW b, branch' = b
    PROVE  /\ LayerSet(branch)' = LayerSet(b)
           /\ (b # NoBranch => b.staging \notin Range(b.sealed)) => Distinct'
    BY DEF LayerSet, Distinct

LEMMA SealKept ==
    ASSUME TypeInv, TokenInv, NEW p \in Requests, NEW s \in Seq(Tokens), Fresh(p, req[p]),
           Replace(p, SealedRecord(p)),
           \/ s = <<>> /\ Finish(p, "ok")
           \/ Go(p, [NotStarted EXCEPT !.pc = "update"])
    PROVE  TokenInv'
<1>1. branch # NoBranch /\ branch' = SealedRecord(p) /\ UNCHANGED <<cleanup, fetched>>
    BY DEF Replace, Unmoved, stagingVars
<1>2. p \notin LayerSet(branch) /\ Origin \in Writers
    BY DEF TokenInv, FreshUnclaimed, Claimed, Writers
<1>3. LayerSet(branch)' = {p} \cup LayerSet(branch) /\ Distinct'
    BY <1>1, <1>2, RecordLayers, NewLayers
<1>4. CASE s = <<>> /\ Finish(p, "ok")
    <2>1. Range(s) = {}
        BY <1>4 DEF Range
    <2>2. QED
        BY <1>1, <1>3, <1>4, <2>1, OutcomeKept DEF Over
<1>5. CASE Go(p, [NotStarted EXCEPT !.pc = "update"])
    <2> DEFINE r == [NotStarted EXCEPT !.pc = "update"]
    <2>1. r.snap = NotStarted.snap /\ r.drop = NotStarted.drop /\ r.pc = "update"
        BY DEF NotStarted
    <2>2. ~Fresh(p, r)
        BY <2>1 DEF Fresh
    <2>3. Condemned' = Condemned
        BY <1>1 DEF Condemned
    <2>4. LayerSet(r.snap) = {} /\ Range(r.drop) = {}
        BY <2>1, NotStartedClaimsNothing
    <2>5. Go(p, r)
        BY <1>5
    <2> HIDE DEF r
    <2>6. /\ Condemned' \subseteq Condemned \cup Range(req[p].drop)
          /\ LayerSet(branch)' \subseteq LayerSet(branch) \cup {p}
          /\ LayerSet(branch)' \cap Range(r.drop) = {}
        BY <1>3, <2>3, <2>4
    <2>7. QED
        BY <1>3, <2>2, <2>4, <2>5, <2>6, GoKept
<1>6. QED
    BY <1>4, <1>5

\* Publishing a commit drops the sealed tokens, which are not the staging token.
LEMMA PublishKept ==
    ASSUME TypeInv, TokenInv, NEW p \in Requests, NEW c \in Writers,
           Replace(p, Published(p, c)), DropThen(p, req[p].snap.sealed)
    PROVE  TokenInv'
<1>1. /\ branch # NoBranch /\ branch' = Published(p, c)
      /\ branch = req[p].snap
      /\ UNCHANGED <<cleanup, fetched>>
    BY DEF Replace, Unmoved, stagingVars
<1>2. /\ LayerSet(branch) = {branch.staging} \cup Range(branch.sealed)
      /\ LayerSet(branch)' = {branch.staging}
      /\ Distinct'
    BY <1>1, RecordLayers, NewLayers
<1>3. branch.staging \notin Range(branch.sealed)
    BY <1>1 DEF TokenInv, Distinct
<1>4. req[p].snap.sealed \in Seq(Tokens)
    BY RequestFields
<1>5. QED
    BY <1>1, <1>2, <1>3, <1>4, OutcomeKept

LEMMA CommitStepsKept ==
    ASSUME TypeInv, TokenInv, NEW p \in Requests, Commit(p) \/ Seal(p) \/ Publish(p) \/ Dirty(p)
    PROVE  TokenInv'
<1> USE RequestFields
<1>1. CASE CommitSealRead(p)
    <2>1. Fresh(p, req[p])
        BY <1>1 DEF CommitSealRead, Fresh
    <2>2. QED
        BY <1>1, <2>1, UpdateBeginKept DEF CommitSealRead
<1>2. CASE CommitRead(p)
    <2>1. CASE BranchNotFound(p)
        BY <2>1, BranchNotFoundKept
    <2>2. CASE Finish(p, "failed") /\ StoreUnchanged
        BY <2>2, FinishKept, StoreUnchangedParts DEF Over
    <2>3. CASE UpdateBegin(p, "commitScan", branch.sealed)
        BY <2>3, UpdateBeginKept DEF Fresh, NotStarted
    <2>4. QED
        BY <1>2, <2>1, <2>2, <2>3 DEF CommitRead
<1>3. CASE AddCommit(p)
    <2>1. CASE NoChanges(p)
        BY <1>3, <2>1, FinishKept, StoreUnchangedParts DEF AddCommit, Over
    <2>2. CASE ~NoChanges(p)
        <3> DEFINE r == [req[p] EXCEPT !.pc = "publish", !.view = Blank]
        <3>1. r.pc = "publish" /\ r.snap = req[p].snap /\ r.drop = req[p].drop
            BY DEF Requested
        <3>2. ~Fresh(p, r)
            BY <1>3, <3>1 DEF Fresh, AddCommit
        <3>3. Go(p, r) /\ UNCHANGED <<branch, cleanup, fetched>>
            BY <1>3, <2>2 DEF AddCommit, stagingVars
        <3>4. QED
            BY <3>1, <3>2, <3>3, LocalKept
    <2>3. QED
        BY <2>1, <2>2
<1>4. CASE Seal(p)
    <2>1. CASE Replace(p, SealedRecord(p)) /\ Go(p, [NotStarted EXCEPT !.pc = "update"])
        <3>1. Fresh(p, req[p])
            BY <1>4 DEF Seal, ReadDone, Fresh
        <3>2. QED
            BY <2>1, <3>1, SealKept
    <2>2. CASE LostRace(p, "prepare", Kind(p) # "commit")
        <3>1. Fresh(p, req[p])
            BY <1>4 DEF Seal, ReadDone, Fresh
        <3>2. QED
            BY <2>2, <3>1, LostRaceKept
    <2>3. QED
        BY <1>4, <2>1, <2>2 DEF Seal
<1>5. CASE Publish(p)
    <2>1. CASE Replace(p, Published(p, p)) /\ DropThen(p, req[p].snap.sealed)
        BY <2>1, PublishKept
    <2>2. CASE LostRace(p, "update", Retries(p))
        BY <2>2, LostRaceKept DEF Fresh, NotStarted
    <2>3. QED
        BY <1>5, <2>1, <2>2 DEF Publish
<1>6. CASE Dirty(p)
    BY <1>6, FinishKept, StoreUnchangedParts DEF Dirty, Over
<1>7. QED
    BY <1>1, <1>2, <1>3, <1>4, <1>5, <1>6 DEF Commit

LEMMA StageKept ==
    ASSUME TypeInv, TokenInv, NEW p \in Requests, NEW e, Stage(p, e)
    PROVE  TokenInv'
<1> DEFINE r == [req[p] EXCEPT !.pc = "recheck", !.view = Blank, !.seen = NoEntry]
<1>1. r.pc = "recheck" /\ r.snap = req[p].snap /\ r.drop = req[p].drop
    BY RequestFields DEF Requested
<1>2. ~Fresh(p, r)
    BY <1>1 DEF Fresh
<1>3. Go(p, r) /\ UNCHANGED <<branch, cleanup, fetched>>
    BY DEF Stage, Put, cleanerVars
<1>4. QED
    BY <1>1, <1>2, <1>3, LocalKept

\* A step to a control point that is not fresh, with the branch read again or not.
LEMMA ReadOnKept ==
    ASSUME TypeInv, TokenInv, NEW p \in Requests, NEW r, Go(p, r), StoreUnchanged,
           r.snap \in {req[p].snap, branch, NoBranch},
           r.drop = req[p].drop \/ r.drop = <<>>,
           Fresh(p, r) => Fresh(p, req[p])
    PROVE  TokenInv'
<1>1. LayerSet(r.snap) \subseteq LayerSet(branch) \cup LayerSet(req[p].snap)
    BY DEF LayerSet
<1>2. Range(r.drop) \subseteq Range(req[p].drop)
    BY DEF Range
<1>3. QED
    BY <1>1, <1>2, LocalKept, StoreUnchangedParts

LEMMA ReadTokenKept ==
    ASSUME TypeInv, TokenInv, NEW p \in Requests, ReadToken(p)
    PROVE  TokenInv'
<1>1. PICK v, t : Go(p, [req[p] EXCEPT !.view = v, !.todo = t])
    <2>1. \A x : [req[p] EXCEPT !.view[Key(p)] = x] = [req[p] EXCEPT !.view = [@ EXCEPT ![Key(p)] = x]]
        BY RequestFields DEF Requested
    <2> DEFINE e == staged[Head(req[p].todo)]
               v1 == [req[p].view EXCEPT ![Key(p)] = e[Key(p)]]
               t1 == IF Exists(e[Key(p)]) THEN <<>> ELSE Tail(req[p].todo)
               v2 == Overlay(req[p].view, e)
               t2 == Tail(req[p].todo)
    <2>2. \/ Go(p, [req[p] EXCEPT !.view = v1, !.todo = t1])
          \/ Go(p, [req[p] EXCEPT !.view = v2, !.todo = t2])
        BY <2>1 DEF ReadToken
    <2>3. QED
        BY <2>2
<1> DEFINE r == [req[p] EXCEPT !.view = v, !.todo = t]
<1>2. r.pc = req[p].pc /\ r.snap = req[p].snap /\ r.drop = req[p].drop
    BY RequestFields DEF Requested
<1>3. Fresh(p, r) => Fresh(p, req[p])
    BY <1>2 DEF Fresh
<1>4. QED
    BY <1>1, <1>2, <1>3, ReadOnKept DEF ReadToken

LEMMA WriteKept ==
    ASSUME TypeInv, TokenInv, NEW p \in Requests, Write(p)
    PROVE  TokenInv'
<1> USE RequestFields
<1>1. CASE WriteBegin(p)
    <2> DEFINE ready == [req[p] EXCEPT !.pre = branch, !.tries = @ + 1]
               r1 == [ready EXCEPT !.pc = "apply"]
               r2 == [ready EXCEPT !.pc = "bury"]
               r3 == [ready EXCEPT !.pc = "ntScan", !.todo = branch.sealed]
    <2>1. BranchNotFound(p) \/ ((Go(p, r1) \/ Go(p, r2) \/ Go(p, r3)) /\ StoreUnchanged)
        BY <1>1 DEF WriteBegin
    <2>2. \A r \in {r1, r2, r3} : r.pc \in {"apply", "bury", "ntScan"} /\ r.snap = req[p].snap /\ r.drop = req[p].drop
        BY DEF Requested
    <2>3. ~Fresh(p, r1) /\ ~Fresh(p, r2) /\ ~Fresh(p, r3)
        BY <2>2 DEF Fresh
    <2> HIDE DEF r1, r2, r3
    <2>4. QED
        BY <2>1, <2>2, <2>3, BranchNotFoundKept, ReadOnKept
<1>2. CASE SetApply(p)
    BY <1>2, StageKept DEF SetApply
<1>3. CASE CondDeref(p)
    <2> DEFINE r == [req[p] EXCEPT !.pc = "condScan", !.snap = branch, !.todo = Layers(branch)]
    <2>1. r.pc = "condScan" /\ r.snap = branch /\ r.drop = req[p].drop
        BY DEF Requested
    <2>2. ~Fresh(p, r)
        BY <2>1 DEF Fresh
    <2>3. QED
        BY <1>3, <2>1, <2>2, ReadOnKept DEF CondDeref
<1>4. CASE UpdateRead(p)
    <2> DEFINE e == staged[req[p].pre.staging][Key(p)]
               r == [req[p] EXCEPT !.pc = "updateWrite", !.seen = e,
                                   !.view = Blank, !.snap = NoBranch]
    <2>1. r.pc = "updateWrite" /\ r.snap = NoBranch /\ r.drop = req[p].drop
        BY DEF Requested
    <2>2. ~Fresh(p, r)
        BY <2>1 DEF Fresh
    <2>3. Go(p, r) \/ Finish(p, "failed")
        BY <1>4 DEF UpdateRead
    <2>4. StoreUnchanged
        BY <1>4 DEF UpdateRead
    <2>5. QED
        BY <2>1, <2>2, <2>3, <2>4, FinishKept, ReadOnKept, StoreUnchangedParts DEF Over
<1>5. CASE UpdateWrite(p)
    BY <1>5, StageKept, FinishKept, StoreUnchangedParts DEF UpdateWrite, Over
<1>6. CASE DeleteApply(p)
    <2> DEFINE r1 == [req[p] EXCEPT !.pc = "bury"]
               r2 == [req[p] EXCEPT !.pc = "delScan", !.todo = Layers(req[p].pre)]
    <2>1. Stage(p, Tombstone(p)) \/ ((Go(p, r1) \/ Go(p, r2)) /\ StoreUnchanged)
        BY <1>6 DEF DeleteApply
    <2>2. \A r \in {r1, r2} : r.pc \in {"bury", "delScan"} /\ r.snap = req[p].snap /\ r.drop = req[p].drop
        BY DEF Requested
    <2>3. ~Fresh(p, r1) /\ ~Fresh(p, r2)
        BY <2>2 DEF Fresh
    <2> HIDE DEF r1, r2
    <2>4. QED
        BY <2>1, <2>2, <2>3, StageKept, ReadOnKept
<1>7. CASE Bury(p)
    BY <1>7, StageKept DEF Bury
<1>8. CASE DeleteDropKey(p)
    BY <1>8, StageKept DEF DeleteDropKey
<1>9. CASE Recheck(p)
    <2> DEFINE r == [NotStarted EXCEPT !.pc = "retry", !.tries = req[p].tries]
    <2>1. CASE BranchNotFound(p)
        BY <2>1, BranchNotFoundKept
    <2>2. CASE StoreUnchanged /\ (Finish(p, "ok") \/ Finish(p, "failed") \/ Go(p, r))
        <3>1. r.pc = "retry" /\ r.snap = NoBranch /\ r.drop = <<>>
            BY DEF NotStarted
        <3>2. ~Fresh(p, r)
            BY <3>1 DEF Fresh
        <3>3. QED
            BY <2>2, <3>1, <3>2, FinishKept, ReadOnKept, StoreUnchangedParts DEF Over
    <2>3. QED
        BY <1>9, <2>1, <2>2 DEF Recheck
<1>10. QED
    BY <1>1, <1>2, <1>3, <1>4, <1>5, <1>6, <1>7, <1>8, <1>9 DEF Write

LEMMA ReadKept ==
    ASSUME TypeInv, TokenInv, NEW p \in Requests, Read(p)
    PROVE  TokenInv'
<1> USE RequestFields
<1>1. CASE ReadBegin(p)
    <2> DEFINE r == [req[p] EXCEPT !.pc = "getScan", !.snap = branch, !.todo = Layers(branch)]
    <2>1. r.pc = "getScan" /\ r.snap = branch /\ r.drop = req[p].drop
        BY DEF Requested
    <2>2. ~Fresh(p, r)
        BY <2>1 DEF Fresh
    <2>3. QED
        BY <1>1, <2>1, <2>2, BranchNotFoundKept, ReadOnKept DEF ReadBegin
<1>2. CASE ReadEnd(p)
    <2>1. PICK v : Go(p, [NotStarted EXCEPT !.pc = "ok", !.view = v])
        BY <1>2 DEF ReadEnd
    <2> DEFINE r == [NotStarted EXCEPT !.pc = "ok", !.view = v]
    <2>2. r.pc = "ok" /\ r.snap = NoBranch /\ r.drop = <<>>
        BY DEF NotStarted
    <2>3. ~Fresh(p, r)
        BY <2>2 DEF Fresh
    <2>4. QED
        BY <1>2, <2>1, <2>2, <2>3, ReadOnKept DEF ReadEnd
<1>3. QED
    BY <1>1, <1>2 DEF Read

LEMMA HeadUpdateKept ==
    ASSUME TypeInv, TokenInv, NEW p \in Requests, HeadUpdate(p)
    PROVE  TokenInv'
<1> USE RequestFields
<1>1. CASE PrepareBegin(p)
    <2>1. Fresh(p, req[p])
        BY <1>1 DEF PrepareBegin, Fresh
    <2>2. QED
        BY <1>1, <2>1, UpdateBeginKept DEF PrepareBegin
<1>2. CASE HeadBegin(p)
    BY <1>2, UpdateBeginKept DEF HeadBegin, Fresh, NotStarted
<1>3. ASSUME NEW tip, AddPatch(p, tip), Kind(p) \in HeadUpdates PROVE TokenInv'
    <2> DEFINE r == [req[p] EXCEPT !.pc = "publish", !.view = Blank]
    <2>1. r.pc = "publish" /\ r.snap = req[p].snap /\ r.drop = req[p].drop
        BY DEF Requested
    <2>2. ~Fresh(p, r)
        BY <1>3, <2>1 DEF Fresh, HeadUpdates
    <2>3. Go(p, r) /\ UNCHANGED <<branch, cleanup, fetched>>
        BY <1>3 DEF AddPatch, stagingVars
    <2>4. QED
        BY <2>1, <2>2, <2>3, LocalKept
<1>4. CASE MergeCommit(p)
    BY <1>3, <1>4, BranchNotFoundKept DEF MergeCommit, HeadUpdates
<1>5. CASE RevertCommit(p)
    BY <1>3, <1>5 DEF RevertCommit, HeadUpdates
<1>6. CASE HeadPublish(p)
    <2>1. ASSUME NEW c \in Known, Replace(p, Published(p, c)), DropThen(p, req[p].snap.sealed)
          PROVE  TokenInv'
        BY <2>1, PublishKept, KnownWriters
    <2>2. CASE LostRace(p, "update", Retries(p))
        BY <2>2, LostRaceKept DEF Fresh, NotStarted
    <2>3. QED
        BY <1>6, <2>1, <2>2 DEF HeadPublish
<1>7. QED
    BY <1>1, <1>2, <1>4, <1>5, <1>6 DEF HeadUpdate

LEMMA HardResetKept ==
    ASSUME TypeInv, TokenInv, NEW p \in Requests, HardBegin(p) \/ HardDeref(p) \/ HardPublish(p)
    PROVE  TokenInv'
<1> USE RequestFields
<1>1. CASE HardBegin(p)
    BY <1>1, UpdateBeginKept DEF HardBegin, Fresh, NotStarted
<1>2. CASE HardDeref(p)
    <2>1. ASSUME NEW b, Go(p, [req[p] EXCEPT !.pc = "publish", !.pre = b]), StoreUnchanged
          PROVE  TokenInv'
        <3> DEFINE r == [req[p] EXCEPT !.pc = "publish", !.pre = b]
        <3>1. r.pc = "publish" /\ r.snap = req[p].snap /\ r.drop = req[p].drop
            BY DEF Requested
        <3>2. ~Fresh(p, r)
            BY <1>2, <3>1 DEF Fresh, HardDeref
        <3>3. QED
            BY <2>1, <3>1, <3>2, ReadOnKept
    <2>2. QED
        BY <1>2, <2>1, BranchNotFoundKept DEF HardDeref
<1>3. CASE HardPublish(p)
    <2>1. CASE Replace(p, [branch EXCEPT !.commit = req[p].pre.commit]) /\ Finish(p, "ok")
        <3> DEFINE b == [branch EXCEPT !.commit = req[p].pre.commit]
        <3>1. branch' = b /\ branch # NoBranch /\ UNCHANGED <<cleanup, fetched>>
            BY <2>1 DEF Replace, Unmoved, stagingVars
        <3>2. b.staging = branch.staging /\ b.sealed = branch.sealed /\ b.staging # NoOne
            BY <3>1, BranchFields, StagingAssumption DEF Branches, NoBranch, Tokens
        <3>3. b # NoBranch
            BY <3>2 DEF NoBranch
        <3>4. LayerSet(b) = LayerSet(branch)
            BY <3>1, <3>2, <3>3 DEF LayerSet
        <3>5. b.staging \notin Range(b.sealed)
            BY <3>1, <3>2 DEF TokenInv, Distinct
        <3> HIDE DEF b
        <3>6. LayerSet(branch)' = LayerSet(branch) /\ Distinct'
            BY <3>1, <3>4, <3>5, NewLayers
        <3>7. Range(<<>>) = {}
            BY DEF Range
        <3>8. QED
            BY <2>1, <3>1, <3>6, <3>7, OutcomeKept DEF Over
    <2>2. CASE LostRace(p, "update", Retries(p))
        BY <2>2, LostRaceKept DEF Fresh, NotStarted
    <2>3. QED
        BY <1>3, <2>1, <2>2 DEF HardPublish
<1>4. QED
    BY <1>1, <1>2, <1>3

\* A fresh token is dropped while the branch stays as it is.
LEMMA DropFreshKept ==
    ASSUME TypeInv, TokenInv, NEW p \in Requests, Fresh(p, req[p]),
           DropThen(p, <<p>>), StoreUnchanged
    PROVE  TokenInv'
<1>1. <<p>> \in Seq(Tokens) /\ Range(<<p>>) = {p}
    BY RequestFields, RangeFacts
<1>2. LayerSet(branch)' = LayerSet(branch) /\ Distinct'
    BY StoreUnchangedParts DEF LayerSet, TokenInv, Distinct
<1>3. p \notin LayerSet(branch)
    BY DEF TokenInv, FreshUnclaimed, Claimed
<1> DEFINE s == <<p>>
<1>4. s \in Seq(Tokens) /\ Range(s) = {p} /\ DropThen(p, s)
    BY <1>1
<1> HIDE DEF s
<1>5. /\ LayerSet(branch)' \subseteq LayerSet(branch) \cup {p}
      /\ Range(s) \subseteq LayerSet(branch) \cup LayerSet(req[p].snap) \cup {p}
      /\ LayerSet(branch)' \cap Range(s) = {}
    BY <1>2, <1>3, <1>4
<1>6. QED
    BY <1>2, <1>4, <1>5, OutcomeKept, StoreUnchangedParts

LEMMA ResetKept ==
    ASSUME Unsure = {}, TypeInv, TokenInv, NEW p \in Requests, Reset(p)
    PROVE  TokenInv'
<1> USE RequestFields
<1>1. CASE ResetBegin(p)
    <2>1. Fresh(p, req[p])
        BY <1>1 DEF ResetBegin, Fresh
    <2>2. QED
        BY <1>1, <2>1, UpdateBeginKept DEF ResetBegin
<1>2. CASE ResetPublish(p)
    <2>1. Fresh(p, req[p])
        BY <1>2 DEF ResetPublish, Fresh
    <2>2. CASE Replace(p, ResetRecord(p)) /\ DropThen(p, Layers(req[p].snap))
        <3>1. /\ branch # NoBranch /\ branch' = ResetRecord(p) /\ branch = req[p].snap
              /\ UNCHANGED <<cleanup, fetched>>
            BY <2>2 DEF Replace, Unmoved, stagingVars
        <3>2. /\ Range(Layers(req[p].snap)) = LayerSet(branch)
              /\ LayerSet(branch)' = {p}
              /\ Distinct'
            BY <3>1, RecordLayers, NewLayers
        <3>3. p \notin LayerSet(branch)
            BY <2>1 DEF TokenInv, FreshUnclaimed, Claimed
        <3> DEFINE s == Layers(req[p].snap)
        <3>4. s \in Seq(Tokens) /\ DropThen(p, s) /\ Range(s) = LayerSet(branch)
            BY <2>2, <3>2
        <3> HIDE DEF s
        <3>5. /\ LayerSet(branch)' \subseteq LayerSet(branch) \cup {p}
              /\ Range(s) \subseteq LayerSet(branch) \cup LayerSet(req[p].snap) \cup {p}
              /\ LayerSet(branch)' \cap Range(s) = {}
            BY <3>2, <3>3, <3>4
        <3>6. QED
            BY <2>1, <3>1, <3>2, <3>4, <3>5, OutcomeKept
    <2>3. CASE LostRace(p, "start", Retries(p))
        BY <2>1, <2>3, LostRaceKept
    <2>4. QED
        BY <1>2, <2>2, <2>3 DEF ResetPublish
<1>3. CASE HardBegin(p) \/ HardDeref(p) \/ HardPublish(p)
    BY <1>3, HardResetKept
<1>4. CASE KeyBegin(p)
    <2> DEFINE r == [req[p] EXCEPT !.pc = "keyScan", !.pre = branch, !.todo = Layers(branch)]
    <2>1. r.pc = "keyScan" /\ r.snap = req[p].snap /\ r.drop = req[p].drop
        BY DEF Requested
    <2>2. ~Fresh(p, r)
        BY <2>1 DEF Fresh
    <2>3. QED
        BY <1>4, <2>1, <2>2, BranchNotFoundKept, ReadOnKept DEF KeyBegin
<1>5. CASE KeyReset(p)
    <2>1. UNCHANGED <<branch, cleanup, fetched>>
        BY <1>5 DEF KeyReset, UndoKey, Put, cleanerVars, StoreUnchanged, stagingVars
    <2>2. QED
        BY <1>5, <2>1, FinishKept DEF KeyReset, Over
<1>6. CASE PrefixBegin(p)
    <2>1. Fresh(p, req[p])
        BY <1>6 DEF PrefixBegin, Fresh
    <2>2. QED
        BY <1>6, <2>1, DropFreshKept, UpdateBeginKept DEF PrefixBegin
<1>7. CASE PrefixDiff(p)
    <2> DEFINE r == [req[p] EXCEPT !.pc = "prefixScan", !.pre = branch, !.todo = Layers(branch)]
    <2>1. Fresh(p, req[p])
        BY <1>7 DEF PrefixDiff, Fresh
    <2>2. r.snap = req[p].snap /\ r.drop = req[p].drop
        BY DEF Requested
    <2>3. QED
        BY <1>7, <2>1, <2>2, DropFreshKept, ReadOnKept DEF PrefixDiff
<1>8. CASE PrefixScanned(p)
    <2>1. PICK left : Go(p, [req[p] EXCEPT !.pc = "prefixWrite", !.left = left])
        BY <1>8 DEF PrefixScanned
    <2> DEFINE r == [req[p] EXCEPT !.pc = "prefixWrite", !.left = left]
    <2>2. r.snap = req[p].snap /\ r.drop = req[p].drop
        BY DEF Requested
    <2>3. Fresh(p, req[p])
        BY <1>8 DEF PrefixScanned, ReadDone, Fresh
    <2>4. QED
        BY <1>8, <2>1, <2>2, <2>3, ReadOnKept DEF PrefixScanned
<1>9. CASE PrefixUndo(p)
    <2>1. PICK k \in req[p].left :
              /\ UndoKey(p, req[p].snap, k, p)
              /\ Go(p, [req[p] EXCEPT !.left = @ \ {k}])
        BY <1>9 DEF PrefixUndo
    <2> DEFINE r == [req[p] EXCEPT !.left = @ \ {k}]
    <2>2. r.snap = req[p].snap /\ r.drop = req[p].drop
        BY DEF Requested
    <2>3. Fresh(p, req[p])
        BY <1>9 DEF PrefixUndo, Fresh
    <2>4. UNCHANGED <<branch, cleanup, fetched>>
        BY <1>9, <2>1 DEF PrefixUndo, UndoKey, Put, cleanerVars
    <2>5. QED
        BY <2>1, <2>2, <2>3, <2>4, LocalKept
<1>10. CASE PrefixPublish(p)
    <2>1. Fresh(p, req[p])
        BY <1>10 DEF PrefixPublish, Fresh
    <2>2. \/ Replace(p, SealedRecord(p)) /\ Finish(p, "ok")
          \/ DropThen(p, <<p>>) /\ StoreUnchanged
        BY <1>10 DEF PrefixPublish
    <2>3. QED
        BY <2>1, <2>2, SealKept, DropFreshKept
<1>11. QED
    BY <1>1, <1>2, <1>3, <1>4, <1>5, <1>6, <1>7, <1>8, <1>9, <1>10 DEF Reset

LEMMA LifecycleKept ==
    ASSUME TypeInv, TokenInv, NEW p \in Requests, BranchLifecycle(p) \/ Stop(p)
    PROVE  TokenInv'
<1> USE RequestFields
<1>1. CASE DeleteBranchRead(p)
    BY <1>1, UpdateBeginKept DEF DeleteBranchRead, Fresh, NotStarted
<1>2. CASE DeleteBranchApply(p)
    <2>1. CASE BranchNotFound(p)
        BY <2>1, BranchNotFoundKept
    <2>2. CASE ~BranchNotFound(p)
        <3> DEFINE s == req[p].snap.sealed \o <<req[p].snap.staging>>
        <3>1. req[p].snap # NoBranch /\ req[p].snap.staging \in Tokens
            BY <1>2, BranchFields DEF DeleteBranchApply, Held
        <3>2. s \in Seq(Tokens)
            <4>1. <<req[p].snap.staging>> \in Seq(Tokens)
                BY <3>1
            <4>2. QED
                BY <4>1, ConcatProperties
        <3>3. Range(s) = LayerSet(req[p].snap)
            BY <3>1, RangeFacts DEF LayerSet
        <3>4. branch' = NoBranch /\ DropThen(p, s) /\ UNCHANGED <<cleanup, fetched>>
            BY <1>2, <2>2 DEF DeleteBranchApply, stagingVars
        <3> HIDE DEF s
        <3>5. LayerSet(branch)' = {} /\ Distinct'
            BY <3>4 DEF LayerSet, Distinct
        <3>6. QED
            BY <3>2, <3>3, <3>4, <3>5, OutcomeKept
    <2>3. QED
        BY <2>1, <2>2
<1>3. CASE CreateBranchRead(p)
    <2> DEFINE r == [req[p] EXCEPT !.pc = "create"]
    <2>1. r.snap = req[p].snap /\ r.drop = req[p].drop
        BY DEF Requested
    <2>2. Fresh(p, req[p])
        BY <1>3 DEF CreateBranchRead, Fresh
    <2>3. (Finish(p, "failed") \/ Go(p, r)) /\ StoreUnchanged
        BY <1>3 DEF CreateBranchRead
    <2>4. QED
        BY <2>1, <2>2, <2>3, FinishKept, ReadOnKept, StoreUnchangedParts DEF Over
<1>4. CASE CreateBranchApply(p)
    <2>1. CASE Finish(p, "failed") /\ StoreUnchanged
        BY <2>1, FinishKept, StoreUnchangedParts DEF Over
    <2>2. CASE ~(Finish(p, "failed") /\ StoreUnchanged)
        <3> DEFINE b == [commit |-> Origin, staging |-> p, sealed |-> <<>>]
        <3>1. branch' = b /\ Finish(p, "ok") /\ UNCHANGED <<cleanup, fetched>>
            BY <1>4, <2>2 DEF CreateBranchApply, stagingVars
        <3>2. Range(<<>>) = {}
            BY DEF Range
        <3>3. b # NoBranch
            BY StagingAssumption DEF NoBranch, Tokens
        <3>4. LayerSet(b) = {p} /\ b.staging \notin Range(b.sealed)
            BY <3>2, <3>3 DEF LayerSet
        <3> HIDE DEF b
        <3>5. LayerSet(branch)' = {p} /\ Distinct'
            BY <3>1, <3>4, NewLayers
        <3>6. Fresh(p, req[p])
            BY <1>4 DEF CreateBranchApply, Fresh
        <3>7. /\ LayerSet(branch)' \subseteq LayerSet(branch) \cup {p}
              /\ LayerSet(branch)' \cap Range(<<>>) = {}
            BY <3>2, <3>5
        <3>8. QED
            BY <3>1, <3>2, <3>5, <3>6, <3>7, OutcomeKept DEF Over
    <2>3. QED
        BY <2>1, <2>2
<1>5. CASE Stop(p)
    BY <1>5, FinishKept, StoreUnchangedParts DEF Stop, Over
<1>6. QED
    BY <1>1, <1>2, <1>3, <1>4, <1>5 DEF BranchLifecycle

\* A token goes from the request's list to the cleanup partition.
LEMMA DropTokenKept ==
    ASSUME TypeInv, TokenInv, NEW p \in Requests, DropToken(p)
    PROVE  TokenInv'
<1> DEFINE s == Tail(req[p].drop)
<1>1. req[p].drop \in Seq(Tokens) /\ req[p].drop # <<>>
    BY RequestFields DEF DropToken, Held, Requested
<1>2. s \in Seq(Tokens) /\ Range(s) \subseteq Range(req[p].drop) /\ Head(req[p].drop) \in Range(req[p].drop)
    BY <1>1, HeadTailProperties, RangeFacts
<1>3. /\ cleanup' = cleanup \cup {Head(req[p].drop)}
      /\ UNCHANGED <<branch, fetched>>
      /\ DropThen(p, s)
    BY DEF DropToken, DropAsync, cleanerVars
<1>4. PICK r : /\ Go(p, r)
               /\ LayerSet(r.snap) = {}
               /\ Range(r.drop) = Range(s)
               /\ ~Fresh(p, r)
    BY <1>2, <1>3, OutcomeState
<1>5. Condemned' \subseteq Condemned \cup Range(req[p].drop)
    BY <1>2, <1>3 DEF Condemned
<1>6. LayerSet(branch)' = LayerSet(branch) /\ Distinct'
    BY <1>3 DEF LayerSet, TokenInv, Distinct
<1>7. LayerSet(branch)' \cap Range(r.drop) = {}
    <2>1. Range(r.drop) \subseteq Dropped
        BY <1>2, <1>4 DEF Dropped
    <2>2. QED
        BY <1>6, <2>1 DEF TokenInv, LiveTokensKept
<1> HIDE DEF s
<1>8. QED
    BY <1>2, <1>4, <1>5, <1>6, <1>7, GoKept

\* The cleanup loops only take tokens off the list, or read it.
LEMMA CleanKept ==
    ASSUME TypeInv, TokenInv, NEW s \in Servers, CleanStep(s)
    PROVE  TokenInv'
<1>1. UNCHANGED <<task, branch, commits, req, before>>
    BY DEF CleanStep, requestVars
<1>2. Condemned' \subseteq Condemned
    <2>1. CASE FindTokens(s)
        BY <2>1 DEF FindTokens, Condemned, TypeInv, StoreTyped, StagingTypeOK
    <2>2. CASE ScanToken(s) \/ DropEntry(s)
        BY <2>2 DEF ScanToken, DropEntry, Condemned
    <2>3. CASE UnlistToken(s)
        BY <2>3 DEF UnlistToken, Condemned, TypeInv, StoreTyped, StagingTypeOK
    <2>4. QED
        BY <2>1, <2>2, <2>3 DEF CleanStep, Clean
<1>3. Dropped' \subseteq Dropped
    BY <1>1, <1>2 DEF Dropped
<1>4. /\ LayerSet(branch)' = LayerSet(branch)
      /\ \A q \in Requests : /\ LayerSet(req[q].snap)' = LayerSet(req[q].snap)
                             /\ Fresh(q, req[q])' = Fresh(q, req[q])
    BY <1>1 DEF LayerSet, Fresh, Kind
<1>5. Claimed' \subseteq Claimed
    BY <1>3, <1>4 DEF Claimed
<1>6. QED
    BY <1>1, <1>3, <1>4, <1>5 DEF TokenInv, LiveTokensKept, Distinct, FreshUnclaimed

LEMMA InitKept == Init => TokenInv
<1> SUFFICES ASSUME Init PROVE TokenInv
    OBVIOUS
<1>1. LayerSet(branch) = {Origin} /\ Distinct
    <2>1. Range(<<>>) = {}
        BY DEF Range
    <2>2. branch.staging = Origin /\ branch.sealed = <<>>
        BY DEF Init
    <2>3. branch # NoBranch
        BY <2>2, StagingAssumption DEF NoBranch
    <2>4. QED
        BY <2>1, <2>2, <2>3 DEF LayerSet, Distinct
<1>2. Dropped = {}
    BY NotStartedClaimsNothing DEF Init, StagingInit, Dropped, Condemned
<1>3. \A q \in Requests : LayerSet(req[q].snap) = {}
    BY NotStartedClaimsNothing DEF Init
<1>4. Claimed = {Origin}
    BY <1>1, <1>2, <1>3 DEF Claimed
<1>5. QED
    BY <1>1, <1>2, <1>4, StagingAssumption DEF TokenInv, LiveTokensKept, FreshUnclaimed

LEMMA NextKept == Unsure = {} /\ TypeInv /\ TokenInv /\ [Next]_vars => TokenInv'
<1> SUFFICES ASSUME Unsure = {}, TypeInv, TokenInv, [Next]_vars PROVE TokenInv'
    OBVIOUS
<1>1. ASSUME NEW p \in Requests, Step(p) PROVE TokenInv'
    BY <1>1, ReadTokenKept, WriteKept, ReadKept, CommitStepsKept, HeadUpdateKept,
       ResetKept, LifecycleKept, DropTokenKept DEF Step
<1>2. ASSUME NEW p \in Requests, Stop(p) PROVE TokenInv'
    BY <1>2, LifecycleKept
<1>3. ASSUME NEW s \in Servers, CleanStep(s) PROVE TokenInv'
    BY <1>3, CleanKept
<1>4. CASE UNCHANGED vars
    BY <1>4 DEF vars, stagingVars, requestVars, TokenInv, LiveTokensKept, Distinct,
                FreshUnclaimed, Claimed, Dropped, Condemned, LayerSet, Fresh, Kind
<1>5. QED
    BY <1>1, <1>2, <1>3, <1>4 DEF Next, Quiet

\* If a compare-and-set that reports a failure was not applied, the tokens of
\* the branch are never among those the cleanup deletes, however many
\* requests, servers and tries there are and whichever requests stop half way.
THEOREM LiveTokensSafe == Unsure = {} => (Spec => []LiveTokensKept)
<1> SUFFICES ASSUME Unsure = {} PROVE Spec => []LiveTokensKept
    OBVIOUS
<1>1. Init => TypeInv /\ TokenInv
    BY InitTyped, InitKept
<1>2. TypeInv /\ TokenInv /\ [Next]_vars => (TypeInv /\ TokenInv)'
    BY NextTyped, NextKept
<1>3. TypeInv /\ TokenInv => LiveTokensKept
    BY DEF TokenInv
<1>4. QED
    BY <1>1, <1>2, <1>3, PTL DEF Spec

-----------------------------------------------------------------------------
(* The head of the branch is a stored commit: HeadIsStored, whatever stops. *)

Adders == {"commit", "merge", "revert"}

\* A request about to publish has stored the commit it will name, or was
\* given one that is stored.
Promise(p) ==
    req[p].pc = "publish" =>
        /\ Kind(p) \in Adders => commits[p].stored
        /\ Kind(p) = "resetHard" => commits[req[p].pre.commit].stored

HeadInv ==
    /\ HeadIsStored
    /\ commits[Origin].stored
    /\ \A p \in Requests : Promise(p)

\* Request p moves, and is not about to publish a commit after that.
Away(p) ==
    /\ task' = task
    /\ \A q \in Requests \ {p} : req'[q] = req[q]
    /\ req'[p].pc = "publish" => Kind(p) = "reset"

LEMMA GoAway ==
    ASSUME TypeInv, NEW p \in Requests, NEW r, Go(p, r),
           r.pc = "publish" => Kind(p) = "reset"
    PROVE  Away(p)
    BY DEF TypeInv, RequestsTyped, Go, Away

LEMMA FinishAway ==
    ASSUME TypeInv, NEW p \in Requests, NEW o \in Over, Finish(p, o)
    PROVE  Away(p)
<1> DEFINE r == [NotStarted EXCEPT !.pc = o,
                                   !.view = IF Kind(p) \in Reads THEN req[p].view ELSE @]
<1>1. r.pc # "publish"
    BY DEF NotStarted, Over
<1>2. QED
    BY <1>1, GoAway DEF Finish

\* Nothing is stored or moved, and p is not about to publish.
LEMMA AwayKeepsHead ==
    ASSUME HeadInv, NEW p \in Requests, Away(p), UNCHANGED commits,
           branch' # NoBranch => commits[branch'.commit].stored
    PROVE  HeadInv'
<1>1. ASSUME NEW q \in Requests PROVE Promise(q)'
    <2>1. CASE q = p
        BY <2>1 DEF Away, Promise, Kind, Adders
    <2>2. CASE q # p
        BY <2>2 DEF Away, Promise, Kind, HeadInv
    <2>3. QED
        BY <2>1, <2>2
<1>2. QED
    BY <1>1 DEF HeadInv, HeadIsStored

\* The same where the branch stays.
LEMMA LocalKeepsHead ==
    ASSUME HeadInv, NEW p \in Requests, Away(p), UNCHANGED <<branch, commits>>
    PROVE  HeadInv'
    BY AwayKeepsHead DEF HeadInv, HeadIsStored

LEMMA NotFoundHead ==
    ASSUME TypeInv, HeadInv, NEW p \in Requests, BranchNotFound(p)
    PROVE  HeadInv'
    BY FinishAway, LocalKeepsHead DEF BranchNotFound, Over, StoreUnchanged

LEMMA UpdateBeginHead ==
    ASSUME TypeInv, HeadInv, NEW p \in Requests, NEW then, NEW layers,
           then = "publish" => Kind(p) = "reset",
           UpdateBegin(p, then, layers)
    PROVE  HeadInv'
<1> DEFINE r == [req[p] EXCEPT !.pc = then, !.snap = branch, !.todo = layers,
                               !.view = Blank, !.tries = @ + 1]
<1>1. CASE BranchNotFound(p)
    BY <1>1, NotFoundHead
<1>2. CASE Go(p, r) /\ StoreUnchanged
    <2>1. r.pc = then
        BY RequestFields DEF Requested
    <2>2. Away(p)
        BY <1>2, <2>1, GoAway
    <2>3. QED
        BY <1>2, <2>2, LocalKeepsHead DEF StoreUnchanged
<1>3. QED
    BY <1>1, <1>2 DEF UpdateBegin

LEMMA LostRaceHead ==
    ASSUME TypeInv, HeadInv, NEW p \in Requests, NEW again, NEW retried,
           again # "publish", LostRace(p, again, retried)
    PROVE  HeadInv'
<1>1. CASE Finish(p, "failed")
    BY <1>1, FinishAway, LocalKeepsHead DEF LostRace, StoreUnchanged, Over
<1>2. CASE Go(p, [NotStarted EXCEPT !.pc = again, !.tries = req[p].tries])
    <2>1. Away(p)
        BY <1>2, GoAway DEF NotStarted
    <2>2. QED
        BY <2>1, LocalKeepsHead DEF LostRace, StoreUnchanged
<1>3. QED
    BY <1>1, <1>2 DEF LostRace

LEMMA DropThenAway ==
    ASSUME TypeInv, NEW p \in Requests, NEW s, DropThen(p, s)
    PROVE  Away(p)
<1>1. CASE Go(p, [NotStarted EXCEPT !.pc = "drop", !.drop = s])
    BY <1>1, GoAway DEF NotStarted
<1>2. CASE \E o \in Over : Finish(p, o)
    BY <1>2, FinishAway
<1>3. QED
    BY <1>1, <1>2 DEF DropThen, Over

\* The steps of writes and reads, and those that only report an error.
LEMMA LocalHead ==
    ASSUME TypeInv, HeadInv, NEW p \in Requests,
           ReadToken(p) \/ Write(p) \/ Read(p) \/ Dirty(p) \/ DropToken(p) \/ Stop(p)
    PROVE  HeadInv'
<1> USE RequestFields
<1>1. UNCHANGED <<branch, commits>>
    BY DEF ReadToken, Write, Read, Dirty, DropToken, Stop, StoreUnchanged, BranchNotFound,
           WriteBegin, SetApply, CondDeref, UpdateRead, UpdateWrite, DeleteApply, Bury,
           DeleteDropKey, Recheck, ReadBegin, ReadEnd, Stage
<1>2. ASSUME NEW e, Stage(p, e) PROVE Away(p)
    <2>1. [req[p] EXCEPT !.pc = "recheck", !.view = Blank, !.seen = NoEntry].pc = "recheck"
        BY DEF Requested
    <2>2. QED
        BY <1>2, <2>1, GoAway DEF Stage
<1>3. CASE ReadToken(p)
    <2>1. req[p].pc # "publish"
        BY <1>3 DEF ReadToken, Scans
    <2> DEFINE entries == staged[Head(req[p].todo)]
               point   == [req[p] EXCEPT
                             !.view[Key(p)] = entries[Key(p)],
                             !.todo = IF Exists(entries[Key(p)]) THEN <<>> ELSE Tail(@)]
               scan    == [req[p] EXCEPT !.view = Overlay(@, entries), !.todo = Tail(@)]
    <2>2. point.pc = req[p].pc /\ scan.pc = req[p].pc
        BY DEF Requested
    <2>3. Go(p, point) \/ Go(p, scan)
        BY <1>3 DEF ReadToken
    <2>4. QED
        BY <1>1, <2>1, <2>2, <2>3, GoAway, LocalKeepsHead
<1>4. CASE Write(p)
    <2>1. Away(p)
        <3> DEFINE ready == [req[p] EXCEPT !.pre = branch, !.tries = @ + 1]
                   e     == staged[req[p].pre.staging][Key(p)]
                   r1 == [ready EXCEPT !.pc = "apply"]
                   r2 == [ready EXCEPT !.pc = "bury"]
                   r3 == [ready EXCEPT !.pc = "ntScan", !.todo = branch.sealed]
                   r4 == [req[p] EXCEPT !.pc = "condScan", !.snap = branch, !.todo = Layers(branch)]
                   r5 == [req[p] EXCEPT !.pc = "updateWrite", !.seen = e,
                                        !.view = Blank, !.snap = NoBranch]
                   r6 == [req[p] EXCEPT !.pc = "bury"]
                   r7 == [req[p] EXCEPT !.pc = "delScan", !.todo = Layers(req[p].pre)]
                   r8 == [NotStarted EXCEPT !.pc = "retry", !.tries = req[p].tries]
        <3>1. \A r \in {r1, r2, r3, r4, r5, r6, r7, r8} : r.pc # "publish"
            BY DEF Requested, NotStarted
        <3>2. CASE \E x : Stage(p, x)
            BY <1>2, <3>2
        <3>3. CASE Finish(p, "ok") \/ Finish(p, "failed")
            BY <3>3, FinishAway DEF Over
        <3>4. CASE \E r \in {r1, r2, r3, r4, r5, r6, r7, r8} : Go(p, r)
            BY <3>1, <3>4, GoAway
        <3>5. QED
            BY <1>4, <3>2, <3>3, <3>4
            DEF Write, WriteBegin, SetApply, CondDeref, UpdateRead, UpdateWrite, DeleteApply,
                Bury, DeleteDropKey, Recheck, BranchNotFound
    <2>2. QED
        BY <1>1, <2>1, LocalKeepsHead
<1>5. CASE Read(p)
    <2> DEFINE r1 == [req[p] EXCEPT !.pc = "getScan", !.snap = branch, !.todo = Layers(branch)]
               result == Overlay(req[p].view, Base(req[p].snap))
               shown  == IF Kind(p) = "list" THEN Keys ELSE {Key(p)}
               r2 == [NotStarted EXCEPT !.pc = "ok",
                         !.view = [k \in Keys |-> IF k \in shown THEN result[k] ELSE NoEntry]]
    <2>1. r1.pc # "publish" /\ r2.pc # "publish"
        BY DEF Requested, NotStarted
    <2>2. BranchNotFound(p) \/ Go(p, r1) \/ Go(p, r2)
        BY <1>5 DEF Read, ReadBegin, ReadEnd
    <2>3. QED
        BY <1>1, <2>1, <2>2, GoAway, NotFoundHead, LocalKeepsHead
<1>6. CASE Dirty(p) \/ Stop(p)
    BY <1>1, <1>6, FinishAway, LocalKeepsHead DEF Dirty, Stop, Over
<1>7. CASE DropToken(p)
    BY <1>1, <1>7, DropThenAway, LocalKeepsHead DEF DropToken
<1>8. QED
    BY <1>3, <1>4, <1>5, <1>6, <1>7

\* A step that stores p's commit: what is stored stays so, and p may publish.
LEMMA StoreCommitHead ==
    ASSUME TypeInv, HeadInv, NEW p \in Requests, NEW c, c.stored,
           commits' = [commits EXCEPT ![p] = c], UNCHANGED branch, Kind(p) \in Adders,
           Go(p, [req[p] EXCEPT !.pc = "publish", !.view = Blank])
    PROVE  HeadInv'
<1>1. \A w \in Writers : commits[w].stored => commits'[w].stored
    BY DEF TypeInv, StoreTyped
<1>2. commits'[p].stored
    BY RequestFields DEF TypeInv, StoreTyped
<1>3. task' = task /\ \A q \in Requests \ {p} : req'[q] = req[q]
    BY DEF Go, TypeInv, RequestsTyped
<1>4. ASSUME NEW q \in Requests PROVE Promise(q)'
    <2>1. CASE q = p
        BY <1>2, <1>3, <2>1 DEF Promise, Kind, Adders
    <2>2. CASE q # p
        <3>1. req[q].pre \in Branches /\ Promise(q) /\ q \in Writers /\ Held(q, req[q])
            BY RequestFields DEF HeadInv
        <3>2. req[q].pc = "publish" /\ Kind(q) = "resetHard" => req[q].pre.commit \in Writers
            BY <3>1, BranchFields DEF Held
        <3>3. QED
            BY <1>1, <1>3, <2>2, <3>1, <3>2 DEF Promise, Kind
    <2>3. QED
        BY <2>1, <2>2
<1>5. branch # NoBranch => branch.commit \in Writers
    BY BranchFields DEF TypeInv, StoreTyped
<1>6. QED
    BY <1>1, <1>4, <1>5 DEF HeadInv, HeadIsStored, Writers

\* A compare-and-set that keeps the head, or moves it to a stored commit.
LEMMA ReplaceHead ==
    ASSUME TypeInv, HeadInv, NEW p \in Requests, NEW new, Replace(p, new), Away(p),
           commits[new.commit].stored
    PROVE  HeadInv'
    BY AwayKeepsHead DEF Replace

\* The steps of a commit, and the seals.
LEMMA CommitHead ==
    ASSUME TypeInv, HeadInv, NEW p \in Requests, Commit(p) \/ Seal(p)
    PROVE  HeadInv'
<1>1. CASE CommitSealRead(p)
    BY <1>1, UpdateBeginHead DEF CommitSealRead
<1>2. CASE CommitRead(p)
    <2>1. CASE Finish(p, "failed") /\ StoreUnchanged
        BY <2>1, FinishAway, LocalKeepsHead DEF StoreUnchanged, Over
    <2>2. QED
        BY <1>2, <2>1, NotFoundHead, UpdateBeginHead DEF CommitRead
<1>3. CASE AddCommit(p)
    <2>1. CASE Finish(p, "failed") /\ StoreUnchanged
        BY <2>1, FinishAway, LocalKeepsHead DEF StoreUnchanged, Over
    <2>2. CASE ~NoChanges(p)
        <3> DEFINE c == [parent  |-> req[p].snap.commit, stored |-> TRUE,
                         content |-> Overlay(req[p].view, Base(req[p].snap))]
        <3>1. c.stored /\ Kind(p) \in Adders
            BY <1>3 DEF AddCommit, Adders
        <3>2. /\ commits' = [commits EXCEPT ![p] = c] /\ UNCHANGED branch
              /\ Go(p, [req[p] EXCEPT !.pc = "publish", !.view = Blank])
            BY <1>3, <2>2 DEF AddCommit
        <3> HIDE DEF c
        <3>3. QED
            BY <3>1, <3>2, StoreCommitHead
    <2>3. QED
        BY <1>3, <2>1, <2>2 DEF AddCommit
<1>4. CASE Seal(p)
    <2>1. CASE Replace(p, SealedRecord(p)) /\ Go(p, [NotStarted EXCEPT !.pc = "update"])
        <3>1. Away(p)
            BY <2>1, GoAway DEF NotStarted
        <3>2. branch # NoBranch /\ branch \in Branches
            BY <2>1 DEF Replace, Unmoved, TypeInv, StoreTyped
        <3>3. SealedRecord(p).commit = branch.commit
            BY <3>2 DEF SealedRecord, Branches
        <3>4. QED
            BY <2>1, <3>1, <3>2, <3>3, ReplaceHead DEF HeadInv, HeadIsStored
    <2>2. QED
        BY <1>4, <2>1, LostRaceHead DEF Seal
<1>5. QED
    BY <1>1, <1>2, <1>3, <1>4 DEF Commit

\* The record names the commit that p promised.
LEMMA PublishHead ==
    ASSUME TypeInv, HeadInv, NEW p \in Requests, Publish(p)
    PROVE  HeadInv'
<1>1. Kind(p) \in Adders /\ req[p].pc = "publish" /\ commits[p].stored
    BY DEF Publish, Adders, HeadInv, Promise
<1>2. CASE Replace(p, Published(p, p)) /\ DropThen(p, req[p].snap.sealed)
    <2>1. Away(p)
        BY <1>2, DropThenAway
    <2>2. branch # NoBranch /\ branch \in Branches
        BY <1>2 DEF Replace, Unmoved, TypeInv, StoreTyped
    <2>3. Published(p, p).commit = p
        BY <2>2 DEF Published, Branches
    <2>4. QED
        BY <1>1, <1>2, <2>1, <2>3, ReplaceHead
<1>3. QED
    BY <1>2, LostRaceHead DEF Publish

\* What a client can name is stored.
LEMMA KnownStored ==
    ASSUME HeadInv, NEW c \in Known
    PROVE  c \in Writers /\ commits[c].stored
    BY DEF Known, HeadInv, Writers

LEMMA HeadUpdateHead ==
    ASSUME TypeInv, HeadInv, NEW p \in Requests, HeadUpdate(p)
    PROVE  HeadInv'
<1>1. CASE PrepareBegin(p) \/ HeadBegin(p)
    BY <1>1, UpdateBeginHead DEF PrepareBegin, HeadBegin
<1>2. CASE MergeCommit(p) \/ RevertCommit(p)
    <2>1. Kind(p) \in Adders
        BY <1>2, RequestFields DEF MergeCommit, RevertCommit, Adders
    <2>2. CASE BranchNotFound(p)
        BY <2>2, NotFoundHead
    <2>3. CASE \E tip : AddPatch(p, tip)
        <3>1. PICK tip : AddPatch(p, tip)
            BY <2>3
        <3>2. [parent |-> tip, stored |-> TRUE, content |-> Patch(p, tip)].stored
            OBVIOUS
        <3>3. QED
            BY <2>1, <3>1, <3>2, StoreCommitHead DEF AddPatch
    <2>4. QED
        BY <1>2, <2>2, <2>3 DEF MergeCommit, RevertCommit
<1>3. CASE HeadPublish(p)
    <2>1. CASE (\E c \in Known : Replace(p, Published(p, c))) /\ DropThen(p, req[p].snap.sealed)
        <3>1. PICK c \in Known : Replace(p, Published(p, c))
            BY <2>1
        <3>2. Away(p)
            BY <2>1, DropThenAway
        <3>3. branch # NoBranch /\ branch \in Branches
            BY <3>1 DEF Replace, Unmoved, TypeInv, StoreTyped
        <3>4. Published(p, c).commit = c
            BY <3>3 DEF Published, Branches
        <3>5. QED
            BY <3>1, <3>2, <3>4, KnownStored, ReplaceHead
    <2>2. QED
        BY <1>3, <2>1, LostRaceHead DEF HeadPublish
<1>4. QED
    BY <1>1, <1>2, <1>3 DEF HeadUpdate

\* Resets that keep the head, or move it to a commit that was looked up.
LEMMA HardHead ==
    ASSUME TypeInv, HeadInv, NEW p \in Requests, HardDeref(p) \/ HardPublish(p)
    PROVE  HeadInv'
<1>1. CASE HardDeref(p)
    <2>1. CASE BranchNotFound(p)
        BY <2>1, NotFoundHead
    <2>2. CASE ~BranchNotFound(p)
        <3>1. Kind(p) = "resetHard" /\ StoreUnchanged /\ branch # NoBranch /\ branch \in Branches
            BY <1>1, <2>2 DEF HardDeref, TypeInv, StoreTyped
        <3>2. PICK c \in Known :
                Go(p, [req[p] EXCEPT !.pc = "publish", !.pre = [branch EXCEPT !.commit = c]])
            BY <1>1, <2>2 DEF HardDeref
        <3>3. req'[p].pre.commit = c /\ commits'[c].stored
            BY <3>1, <3>2, KnownStored, RequestFields
            DEF Go, Requested, TypeInv, RequestsTyped, StoreUnchanged, Branches
        <3>4. Promise(p)'
            BY <3>1, <3>2, <3>3 DEF Promise, Kind, Go, Adders
        <3>5. \A q \in Requests \ {p} : Promise(q)'
            BY <3>1, <3>2 DEF Promise, Kind, Go, HeadInv, StoreUnchanged, TypeInv, RequestsTyped
        <3>6. QED
            BY <3>1, <3>4, <3>5 DEF HeadInv, HeadIsStored, StoreUnchanged
    <2>3. QED
        BY <2>1, <2>2
<1>2. CASE HardPublish(p)
    <2> DEFINE new == [branch EXCEPT !.commit = req[p].pre.commit]
    <2>1. CASE Replace(p, new) /\ Finish(p, "ok")
        <3>1. Away(p)
            BY <2>1, FinishAway DEF Over
        <3>2. branch # NoBranch /\ branch \in Branches
            BY <2>1 DEF Replace, Unmoved, TypeInv, StoreTyped
        <3>3. new.commit = req[p].pre.commit
            BY <3>2 DEF Branches
        <3>4. commits[req[p].pre.commit].stored
            BY <1>2 DEF HardPublish, HeadInv, Promise
        <3>5. QED
            BY <2>1, <3>1, <3>3, <3>4, ReplaceHead
    <2>2. QED
        BY <1>2, <2>1, LostRaceHead DEF HardPublish
<1>3. QED
    BY <1>1, <1>2

\* Resets leave the commit where it is.
LEMMA ResetHead ==
    ASSUME TypeInv, HeadInv, NEW p \in Requests, Reset(p)
    PROVE  HeadInv'
<1> USE RequestFields
<1>1. CASE ResetBegin(p) \/ HardBegin(p)
    BY <1>1, UpdateBeginHead DEF ResetBegin, HardBegin
<1>2. CASE HardDeref(p) \/ HardPublish(p)
    BY <1>2, HardHead
<1>3. ASSUME NEW new, Replace(p, new), Away(p), new \in {ResetRecord(p), SealedRecord(p)}
      PROVE  HeadInv'
    <2>1. branch # NoBranch /\ branch \in Branches
        BY <1>3 DEF Replace, Unmoved
    <2>2. new.commit = branch.commit
        BY <1>3, <2>1 DEF ResetRecord, SealedRecord, Branches
    <2>3. QED
        BY <1>3, <2>1, <2>2, ReplaceHead DEF HeadInv, HeadIsStored
<1>4. CASE ResetPublish(p)
    BY <1>3, <1>4, DropThenAway, LostRaceHead DEF ResetPublish
<1>5. CASE PrefixPublish(p)
    <2>1. CASE \E o \in Over : Finish(p, o)
        BY <1>3, <1>5, <2>1, FinishAway, LocalKeepsHead DEF PrefixPublish, StoreUnchanged
    <2>2. CASE DropThen(p, <<p>>)
        BY <1>3, <1>5, <2>2, DropThenAway, LocalKeepsHead DEF PrefixPublish, StoreUnchanged
    <2>3. QED
        BY <1>5, <2>1, <2>2 DEF PrefixPublish, Over
<1>6. CASE PrefixBegin(p)
    <2>1. CASE DropThen(p, <<p>>) /\ StoreUnchanged
        BY <2>1, DropThenAway, LocalKeepsHead DEF StoreUnchanged
    <2>2. QED
        BY <1>6, <2>1, UpdateBeginHead DEF PrefixBegin
<1>7. CASE KeyBegin(p) \/ KeyReset(p) \/ PrefixDiff(p) \/ PrefixScanned(p) \/ PrefixUndo(p)
    <2> DEFINE r1 == [req[p] EXCEPT !.pc = "keyScan", !.pre = branch, !.todo = Layers(branch)]
               r2 == [req[p] EXCEPT !.pc = "prefixScan", !.pre = branch, !.todo = Layers(branch)]
               r3 == [req[p] EXCEPT !.pc = "prefixWrite",
                         !.left = {k \in Changes(req[p].view, Base(req[p].pre)) :
                                      NeedsReset(req[p].snap, k, req[p].view[k])}]
               r4(k) == [req[p] EXCEPT !.left = @ \ {k}]
    <2>1. UNCHANGED <<branch, commits>>
        BY <1>7 DEF KeyBegin, KeyReset, PrefixDiff, PrefixScanned, PrefixUndo, StoreUnchanged,
                    BranchNotFound
    <2>2. /\ \A r \in {r1, r2, r3} : r.pc # "publish"
          /\ \A k : r4(k).pc = req[p].pc
        BY DEF Requested
    <2>3. CASE \E r \in {r1, r2, r3} : Go(p, r)
        BY <2>1, <2>2, <2>3, GoAway, LocalKeepsHead
    <2>4. CASE PrefixUndo(p)
        <3>1. PICK k : Go(p, r4(k))
            BY <2>4 DEF PrefixUndo
        <3>2. QED
            BY <2>1, <2>2, <2>4, <3>1, GoAway, LocalKeepsHead DEF PrefixUndo
    <2>5. CASE Finish(p, "ok") \/ Finish(p, "failed") \/ DropThen(p, <<p>>)
        BY <2>1, <2>5, FinishAway, DropThenAway, LocalKeepsHead DEF Over
    <2>6. QED
        BY <1>7, <2>3, <2>4, <2>5
        DEF KeyBegin, KeyReset, PrefixDiff, PrefixScanned, BranchNotFound
<1>8. QED
    BY <1>1, <1>2, <1>4, <1>5, <1>6, <1>7 DEF Reset

\* A new branch is at the first commit.
LEMMA LifecycleHead ==
    ASSUME TypeInv, HeadInv, NEW p \in Requests, BranchLifecycle(p)
    PROVE  HeadInv'
<1>1. CASE DeleteBranchRead(p)
    BY <1>1, UpdateBeginHead DEF DeleteBranchRead
<1>2. CASE DeleteBranchApply(p)
    <2>1. CASE branch' = NoBranch /\ DropThen(p, req[p].snap.sealed \o <<req[p].snap.staging>>)
        BY <1>2, <2>1, DropThenAway, NotFoundHead, AwayKeepsHead DEF DeleteBranchApply
    <2>2. QED
        BY <1>2, <2>1, NotFoundHead DEF DeleteBranchApply
<1>3. CASE CreateBranchRead(p)
    <2>1. [req[p] EXCEPT !.pc = "create"].pc = "create"
        BY RequestFields DEF Requested
    <2>2. Away(p)
        BY <1>3, <2>1, FinishAway, GoAway DEF CreateBranchRead, Over
    <2>3. QED
        BY <1>3, <2>2, LocalKeepsHead DEF CreateBranchRead, StoreUnchanged
<1>4. CASE CreateBranchApply(p)
    <2>1. Away(p)
        BY <1>4, FinishAway DEF CreateBranchApply, Over
    <2>2. /\ UNCHANGED commits
          /\ branch' = branch \/ branch'.commit = Origin
        BY <1>4 DEF CreateBranchApply, StoreUnchanged
    <2>3. QED
        BY <2>1, <2>2, AwayKeepsHead DEF HeadInv, HeadIsStored
<1>5. QED
    BY <1>1, <1>2, <1>3, <1>4 DEF BranchLifecycle

LEMMA NextHead == TypeInv /\ HeadInv /\ [Next]_vars => HeadInv'
<1> SUFFICES ASSUME TypeInv, HeadInv, [Next]_vars PROVE HeadInv'
    OBVIOUS
<1>1. ASSUME NEW p \in Requests, Step(p) PROVE HeadInv'
    BY <1>1, LocalHead, CommitHead, PublishHead, HeadUpdateHead, ResetHead, LifecycleHead
    DEF Step
<1>2. ASSUME NEW p \in Requests, Stop(p) PROVE HeadInv'
    BY <1>2, LocalHead
<1>3. CASE UNCHANGED requestVars
    BY <1>3 DEF requestVars, HeadInv, HeadIsStored, Promise, Kind
<1>4. QED
    BY <1>1, <1>2, <1>3 DEF Next, CleanStep, Quiet, vars

\* The branch never names a commit that is not in the store: commits are
\* stored before the compare-and-set that names them, in every program that
\* moves the head, and whichever requests stop half way, for any number of
\* requests, keys, servers and tries.
THEOREM HeadAlwaysStored == Spec => []HeadIsStored
<1>1. Init => TypeInv /\ HeadInv
    <2>1. Init => HeadInv
        BY DEF Init, HeadInv, HeadIsStored, Promise, NotStarted, Writers
    <2>2. QED
        BY <2>1, InitTyped
<1>2. TypeInv /\ HeadInv /\ [Next]_vars => (TypeInv /\ HeadInv)'
    BY NextTyped, NextHead
<1>3. HeadInv => HeadIsStored
    BY DEF HeadInv
<1>4. QED
    BY <1>1, <1>2, <1>3, PTL DEF Spec
===============================================================================
