------------------------------ MODULE Graveler ------------------------------
(***************************************************************************)
(* One branch of a lakeFS repository and the API requests that work on it  *)
(* (pkg/graveler/graveler.go).  The branch record names a commit, a        *)
(* staging token that takes new writes, and sealed tokens (newest first)   *)
(* that wait to be committed.  It is only ever replaced by compare-and-set *)
(* of the whole record (ref.Manager.BranchUpdate); entries live in the     *)
(* StagingManager's partitions and are read and written one access at a    *)
(* time, with no lock between the accesses of different requests.          *)
(*                                                                         *)
(* A request runs once.  Its program is its task; req[p] holds its control *)
(* point and what it read.  Every store access is one action.  A request   *)
(* installs at most one staging token and publishes at most one commit, so *)
(* both are named by the request: a token or a commit made in a try whose  *)
(* compare-and-set failed was never stored in the branch record, and the   *)
(* next try reuses the name.                                               *)
(***************************************************************************)
EXTENDS StagingManager, Sequences, Functions

CONSTANTS
    Tasks,          \* the requests' programs to explore: a set of functions
                    \* [Requests -> [kind : Kinds, key : Keys]]
    Initial,        \* keys the first commit holds
    MaxWriteTries,  \* BranchWriteMaxTries
    MaxUpdateTries, \* BranchUpdateMaxTries
    Mortal,         \* requests that may stop anywhere
    Unsure          \* requests whose compare-and-set may report a failure
                    \* although the store applied it

BlindWrites == {"set"}
CondWrites  == {"setIfAbsent", "updateMetadata"}
Deletes     == {"delete", "deleteNoTombstone"}
Writes      == BlindWrites \cup CondWrites \cup Deletes
Reads       == {"get", "list"}
HeadUpdates == {"merge", "revert", "updateBranch"}
Resets      == {"reset", "resetHard", "resetKey", "resetPrefix"}
Lifecycle   == {"createBranch", "deleteBranch"}
Kinds       == Writes \cup Reads \cup {"commit"} \cup HeadUpdates
                      \cup Resets \cup Lifecycle

ASSUME GravelerAssumption ==
    /\ Tasks \subseteq [Requests -> [kind : Kinds, key : Keys]]
    /\ Initial \subseteq Keys
    /\ MaxWriteTries \in Nat \ {0}
    /\ MaxUpdateTries \in Nat \ {0}
    /\ Mortal \subseteq Requests
    /\ Unsure \subseteq Requests

VARIABLES
    task,    \* what each request does; fixed from the start
    branch,  \* the branch record in the store
    commits, \* the commit records in the store
    req,     \* the requests' local state
    before   \* before[p]: the requests that were over when p was invoked

requestVars == <<task, branch, commits, req, before>>
vars == <<stagingVars, requestVars>>

NoBranch == [commit |-> NoOne, staging |-> NoOne, sealed |-> <<>>]
Branches == {NoBranch} \cup
            [commit : Writers, staging : Tokens, sealed : Seq(Tokens)]

Contents == [Keys -> Entries]
Blank    == [k \in Keys |-> NoEntry]
NoCommit == [parent |-> NoOne, stored |-> FALSE, content |-> Blank]
Commits  == [parent : Writers \cup {NoOne}, stored : BOOLEAN, content : Contents]

\* Control points with something left to do, and the two outcomes.
Scans  == {"getScan", "condScan", "delScan", "ntScan", "commitScan",
           "prepScan", "headScan", "hardScan", "keyScan", "prefixScan"}
Points == {"start", "retry", "apply", "updateWrite", "bury", "recheck",
           "prepare", "seal", "update", "publish", "prefixDiff", "prefixWrite",
           "delete", "create", "drop"} \cup Scans
Over   == {"ok", "failed"}

Requested == [pc    : Points \cup Over,
              tries : Nat,
              pre   : Branches,            \* branchPreOp; the merge destination
              snap  : Branches,            \* the record a BranchUpdate read
              todo  : Seq(Tokens),         \* staging tokens still to read
              view  : Contents,            \* newest entry read for each key
              seen  : Entries,             \* predicate of a staging update
              left  : SUBSET Keys,         \* keys ResetPrefix has yet to reset
              drop  : Seq(Tokens)]         \* tokens to hand to DropAsync

NotStarted == [pc |-> "start", tries |-> 0, pre |-> NoBranch, snap |-> NoBranch,
               todo |-> <<>>, view |-> Blank, seen |-> NoEntry, left |-> {},
               drop |-> <<>>]

Kind(p) == task[p].kind
Key(p)  == task[p].key
Succeeded == {q \in Requests : req[q].pc = "ok"}
Earlier(p) == before[p] \cap Succeeded

-----------------------------------------------------------------------------
(* Reading a branch.                                                       *)

\* A bug: a branch that is gone has a staging token.
LayersOfDeleted(b) == <<b.staging>> \o b.sealed

Layers(b) == IF b = NoBranch THEN <<>> ELSE <<b.staging>> \o b.sealed
LayerSet(b) == IF b = NoBranch THEN {} ELSE {b.staging} \cup Range(b.sealed)
Content(c) == IF c = NoOne THEN Blank ELSE commits[c].content
Base(b)    == Content(b.commit)

\* What a listing shows: staged entries over committed ones.
Overlay(view, base) == [k \in Keys |-> IF Exists(view[k]) THEN view[k] ELSE base[k]]

\* Keys whose staged entry is a change: a tombstone over nothing, and a
\* value equal to the committed one, are not.
Changes(view, base) ==
    {k \in Keys : /\ Exists(view[k])
                  /\ \/ view[k].live # base[k].live
                     \/ view[k].live /\ view[k].by # base[k].by}

ReadDone(p, scan) == req[p].pc = scan /\ req[p].todo = <<>>

-----------------------------------------------------------------------------
(* Steps of a request.                                                     *)

\* Every request moves itself only; before[p] is fixed when p is invoked.
Go(p, r) ==
    /\ req' = [req EXCEPT ![p] = r]
    /\ before' = IF req[p].pc = "start" THEN [before EXCEPT ![p] = {q \in Requests : req[q].pc \in Over}]
                 ELSE before
    /\ UNCHANGED task

\* A request that is over keeps only what a reader returns.
Finish(p, outcome) ==
    Go(p, [NotStarted EXCEPT !.pc = outcome,
                             !.view = IF Kind(p) \in Reads THEN req[p].view ELSE @])

StoreUnchanged == UNCHANGED <<branch, commits, stagingVars>>

\* The branch is gone: the request reports ErrBranchNotFound.
BranchNotFound(p) ==
    /\ branch = NoBranch
    /\ Finish(p, "failed")
    /\ StoreUnchanged

PointReads == Writes \cup {"get", "resetKey"}

\* One read of a staging token.  A point read asks for one key and stops at
\* the newest token that has it (getFromStagingArea); a scan overlays all.
ReadToken(p) ==
    /\ req[p].pc \in Scans
    /\ req[p].todo # <<>>
    /\ LET entries == staged[Head(req[p].todo)]
           k       == Key(p)
       IN Go(p, IF Kind(p) \in PointReads
                THEN [req[p] EXCEPT
                        !.view[k] = entries[k],
                        !.todo = IF Exists(entries[k]) THEN <<>> ELSE Tail(@)]
                ELSE [req[p] EXCEPT
                        !.view = Overlay(@, entries),
                        !.todo = Tail(@)])
    /\ StoreUnchanged

-----------------------------------------------------------------------------
(* Writes: safeBranchWrite around one staging operation.                   *)

\* The first GetBranch of a try, and where the operation starts.
WriteBegin(p) ==
    /\ Kind(p) \in Writes
    /\ req[p].pc \in {"start", "retry"}
    /\ \/ BranchNotFound(p)
       \/ /\ branch # NoBranch
          /\ LET ready == [req[p] EXCEPT !.pre = branch, !.tries = @ + 1]
             IN Go(p, IF Kind(p) # "deleteNoTombstone"
                      THEN [ready EXCEPT !.pc = "apply"]
                      ELSE IF Base(branch)[Key(p)].live
                      THEN [ready EXCEPT !.pc = "bury"]
                      ELSE [ready EXCEPT !.pc = "ntScan", !.todo = branch.sealed])
          /\ StoreUnchanged

\* The staging operation wrote entry e (or dropped the key): re-check next.
Stage(p, e) ==
    /\ Put(req[p].pre.staging, Key(p), e)
    /\ Go(p, [req[p] EXCEPT !.pc = "recheck", !.view = Blank, !.seen = NoEntry])
    /\ UNCHANGED <<branch, commits>>

\* Set without a condition.
SetApply(p) ==
    /\ Kind(p) \in BlindWrites
    /\ req[p].pc = "apply"
    /\ Stage(p, Value(p))

\* handleUpdate calls Get on the branch name: a second read of the record.
\* A branch that is gone reads as a key that is not found.
CondDeref(p) ==
    /\ Kind(p) \in CondWrites
    /\ req[p].pc = "apply"
    /\ Go(p, [req[p] EXCEPT !.pc = "condScan", !.snap = branch, !.todo = Layers(branch)])
    /\ StoreUnchanged

Condition(p, e) == IF Kind(p) = "setIfAbsent" THEN ~e.live ELSE e.live

\* StagingManager.Update reads the staged entry and its predicate, and
\* checks the condition against it, or against what Get had returned.
UpdateRead(p) ==
    /\ ReadDone(p, "condScan")
    /\ LET stagedEntry == staged[req[p].pre.staging][Key(p)]
           latest == IF Exists(stagedEntry) THEN stagedEntry
                     ELSE Overlay(req[p].view, Base(req[p].snap))[Key(p)]
       IN IF Condition(p, latest)
          THEN Go(p, [req[p] EXCEPT !.pc = "updateWrite", !.seen = stagedEntry,
                                    !.view = Blank, !.snap = NoBranch])
          ELSE Finish(p, "failed")
    /\ StoreUnchanged

\* A bug: the entry is written whatever became of the one that was checked.
UpdateWriteBlindly(p) ==
    /\ req[p].pc = "updateWrite"
    /\ Stage(p, Value(p))

\* SetIf with that predicate; a failed predicate fails the request.
UpdateWrite(p) ==
    /\ req[p].pc = "updateWrite"
    /\ IF SameEntry(staged[req[p].pre.staging][Key(p)], req[p].seen)
       THEN Stage(p, Value(p))
       ELSE Finish(p, "failed") /\ StoreUnchanged

\* A bug: only the committed object is deleted.
DeleteCommitted(p) ==
    /\ Kind(p) = "delete"
    /\ req[p].pc = "apply"
    /\ Go(p, [req[p] EXCEPT !.pc = IF Base(req[p].pre)[Key(p)].live THEN "bury" ELSE "recheck"])
    /\ StoreUnchanged

\* deleteUnsafe: bury the key if the staging token has it; otherwise bury it
\* if it is committed; otherwise look in the staging area.
DeleteApply(p) ==
    /\ Kind(p) = "delete"
    /\ req[p].pc = "apply"
    /\ \/ /\ Exists(staged[req[p].pre.staging][Key(p)])
          /\ Stage(p, Tombstone(p))
       \/ /\ ~Exists(staged[req[p].pre.staging][Key(p)])
          /\ Go(p, IF Base(req[p].pre)[Key(p)].live
                   THEN [req[p] EXCEPT !.pc = "bury"]
                   ELSE [req[p] EXCEPT !.pc = "delScan", !.todo = Layers(req[p].pre)])
          /\ StoreUnchanged

\* What the scan of the staging area found: a value, a tombstone, nothing.
Scanned(p)      == ReadDone(p, "delScan") \/ ReadDone(p, "ntScan")
FoundValue(p)   == Scanned(p) /\ req[p].view[Key(p)].live
FoundBuried(p)  == Scanned(p) /\ Exists(req[p].view[Key(p)]) /\ ~req[p].view[Key(p)].live
FoundNothing(p) == Scanned(p) /\ ~Exists(req[p].view[Key(p)])

\* deleteAndNotify: an unconditional tombstone on the staging token.
Bury(p) ==
    /\ req[p].pc = "bury" \/ FoundValue(p)
    /\ Stage(p, Tombstone(p))

\* deleteNoTombstoneUnsafe, key neither committed nor sealed.
DeleteDropKey(p) ==
    /\ Kind(p) = "deleteNoTombstone"
    /\ FoundNothing(p)
    /\ Stage(p, NoEntry)

\* There is nothing to delete.
NothingToDelete(p) ==
    FoundBuried(p) \/ (Kind(p) = "delete" /\ FoundNothing(p))

\* A bug: the second GetBranch only looks whether there is a branch.
RecheckExistence(p) ==
    /\ req[p].pc = "recheck" \/ NothingToDelete(p)
    /\ \/ BranchNotFound(p)
       \/ branch # NoBranch /\ Finish(p, "ok") /\ StoreUnchanged

\* The second GetBranch: the write counts if the staging token is the same,
\* otherwise the operation is tried again, MaxWriteTries times.
Recheck(p) ==
    /\ req[p].pc = "recheck" \/ NothingToDelete(p)
    /\ \/ BranchNotFound(p)
       \/ /\ branch # NoBranch
          /\ IF branch.staging = req[p].pre.staging THEN Finish(p, "ok")
             ELSE IF req[p].tries < MaxWriteTries
             THEN Go(p, [NotStarted EXCEPT !.pc = "retry", !.tries = req[p].tries])
             ELSE Finish(p, "failed")
          /\ StoreUnchanged

Write(p) ==
    \/ WriteBegin(p) \/ SetApply(p) \/ CondDeref(p) \/ UpdateRead(p) \/ UpdateWrite(p)
    \/ DeleteApply(p) \/ Bury(p) \/ DeleteDropKey(p) \/ Recheck(p)

-----------------------------------------------------------------------------
(* Reads: Get and List.  The branch record is read once.                   *)

\* A bug: the staging token is left out, as it is for commits.
ReadSealed(p) ==
    /\ Kind(p) \in Reads
    /\ req[p].pc = "start"
    /\ \/ BranchNotFound(p)
       \/ /\ branch # NoBranch
          /\ Go(p, [req[p] EXCEPT !.pc = "getScan", !.snap = branch, !.todo = branch.sealed])
          /\ StoreUnchanged

ReadBegin(p) ==
    /\ Kind(p) \in Reads
    /\ req[p].pc = "start"
    /\ \/ BranchNotFound(p)
       \/ /\ branch # NoBranch
          /\ Go(p, [req[p] EXCEPT !.pc = "getScan", !.snap = branch, !.todo = Layers(branch)])
          /\ StoreUnchanged

\* Staged entries first, then the commit the record named.
ReadEnd(p) ==
    /\ ReadDone(p, "getScan")
    /\ LET result == Overlay(req[p].view, Base(req[p].snap))
           shown  == IF Kind(p) = "list" THEN Keys ELSE {Key(p)}
       IN Go(p, [NotStarted EXCEPT !.pc = "ok",
                     !.view = [k \in Keys |-> IF k \in shown THEN result[k] ELSE NoEntry]])
    /\ StoreUnchanged

Read(p) == ReadBegin(p) \/ ReadEnd(p)

-----------------------------------------------------------------------------
(* BranchUpdate and retryBranchUpdate: read the record, compute a new one, *)
(* compare-and-set it.                                                     *)

\* The read of a BranchUpdate; "then" is where its function starts, after
\* reading the tokens in layers.
UpdateBegin(p, then, layers) ==
    \/ BranchNotFound(p)
    \/ /\ branch # NoBranch
       /\ Go(p, [req[p] EXCEPT !.pc = then, !.snap = branch, !.todo = layers,
                               !.view = Blank, !.tries = @ + 1])
       /\ StoreUnchanged

\* Two bugs: only the head is compared; only the staging token is.
UnmovedHead(p) == branch # NoBranch /\ branch.commit = req[p].snap.commit
UnmovedStaging(p) == branch # NoBranch /\ branch.staging = req[p].snap.staging

\* The store still holds the record this BranchUpdate read.
Unmoved(p) == branch # NoBranch /\ branch = req[p].snap

Retries(p) == Kind(p) \in {"commit", "merge", "resetHard"}

\* A bug: the next try uses the record that was read before.
RaceAgain(p, again, retried) ==
    /\ ~Unmoved(p)
    /\ IF retried /\ req[p].tries < MaxUpdateTries THEN Go(p, req[p]) ELSE Finish(p, "failed")
    /\ StoreUnchanged

\* A compare-and-set that failed: tried again from "again" while tries last.
\* The tries of a plain BranchUpdate never last.
LostRace(p, again, retried) ==
    /\ ~Unmoved(p)
    /\ IF retried /\ req[p].tries < MaxUpdateTries
       THEN Go(p, [NotStarted EXCEPT !.pc = again, !.tries = req[p].tries])
       ELSE Finish(p, "failed")
    /\ StoreUnchanged

\* A compare-and-set that succeeded.
Replace(p, new) ==
    /\ Unmoved(p)
    /\ branch' = new
    /\ UNCHANGED <<commits, stagingVars>>

\* The request goes on to hand the tokens to the cleanup, or is done.
\* ResetPrefix drops a token only when it failed.
DropThen(p, tokens) ==
    IF tokens # <<>> THEN Go(p, [NotStarted EXCEPT !.pc = "drop", !.drop = tokens])
    ELSE Finish(p, IF Kind(p) = "resetPrefix" THEN "failed" ELSE "ok")

\* dropTokens, one DropAsync at a time.
DropToken(p) ==
    /\ req[p].pc = "drop"
    /\ \E s \in Servers : DropAsync(s, Head(req[p].drop))
    /\ DropThen(p, Tail(req[p].drop))
    /\ UNCHANGED <<branch, commits>>

\* A bug: the newest token comes last.
SealedLast(p) ==
    [branch EXCEPT !.staging = p, !.sealed = branch.sealed \o <<branch.staging>>]

\* The staging token is sealed and a new one takes its place.
SealedRecord(p) ==
    [branch EXCEPT !.staging = p, !.sealed = <<branch.staging>> \o branch.sealed]

\* The staged entries read so far change nothing in the commit of the record.
NoChanges(p) == Changes(req[p].view, Base(req[p].snap)) = {}

\* ErrDirtyBranch
Dirty(p) ==
    /\ ReadDone(p, "prepScan") \/ ReadDone(p, "headScan") \/ ReadDone(p, "hardScan")
    /\ ~NoChanges(p)
    /\ Finish(p, "failed")
    /\ StoreUnchanged

-----------------------------------------------------------------------------
(* Commit: seal the staging token, then write the sealed tokens' entries   *)
(* into a new commit, then drop the tokens.                                *)

\* The first BranchUpdate is not retried.
CommitSealRead(p) ==
    /\ Kind(p) = "commit"
    /\ req[p].pc = "start"
    /\ UpdateBegin(p, "seal", <<>>)

\* The sealing of Commit, and that of prepareForCommitIDUpdate, which is
\* retried and requires a branch with no changes.
Seal(p) ==
    /\ req[p].pc = "seal" \/ (ReadDone(p, "prepScan") /\ NoChanges(p))
    /\ \/ Replace(p, SealedRecord(p)) /\ Go(p, [NotStarted EXCEPT !.pc = "update"])
       \/ LostRace(p, "prepare", Kind(p) # "commit")

\* A bug: only the token sealed last is read.
CommitNewest(p) ==
    /\ Kind(p) = "commit"
    /\ req[p].pc = "update"
    /\ \/ branch # NoBranch /\ branch.sealed = <<>> /\ Finish(p, "failed") /\ StoreUnchanged
       \/ branch.sealed # <<>> /\ UpdateBegin(p, "commitScan", <<Head(branch.sealed)>>)
       \/ BranchNotFound(p)

\* The second BranchUpdate reads the sealed tokens; none is ErrNoChanges.
CommitRead(p) ==
    /\ Kind(p) = "commit"
    /\ req[p].pc = "update"
    /\ \/ branch # NoBranch /\ branch.sealed = <<>> /\ Finish(p, "failed") /\ StoreUnchanged
       \/ branch.sealed # <<>> /\ UpdateBegin(p, "commitScan", branch.sealed)
       \/ BranchNotFound(p)

\* A bug: the commit is to be stored once it is published.
AddCommitLater(p) ==
    /\ Kind(p) = "commit"
    /\ ReadDone(p, "commitScan")
    /\ IF NoChanges(p) THEN Finish(p, "failed")
       ELSE Go(p, [req[p] EXCEPT !.pc = "publish", !.view = Blank])
    /\ StoreUnchanged

\* CommittedManager.Commit and AddCommit.  Entries that change nothing make
\* no commit (ErrNoChanges; AllowEmpty is not set).
AddCommit(p) ==
    /\ Kind(p) = "commit"
    /\ ReadDone(p, "commitScan")
    /\ IF NoChanges(p)
       THEN Finish(p, "failed") /\ StoreUnchanged
       ELSE /\ commits' = [commits EXCEPT ![p] =
                  [parent  |-> req[p].snap.commit, stored |-> TRUE,
                   content |-> Overlay(req[p].view, Base(req[p].snap))]]
            /\ Go(p, [req[p] EXCEPT !.pc = "publish", !.view = Blank])
            /\ UNCHANGED <<branch, stagingVars>>

\* The record moves to the new commit and lets go of the tokens it read.
Published(p, c) == [branch EXCEPT !.commit = c, !.sealed = <<>>]

\* A bug: the staging token is dropped too.
PublishDroppingAll(p) ==
    /\ Kind(p) \in {"commit", "merge", "revert"}
    /\ req[p].pc = "publish"
    /\ \/ /\ Replace(p, Published(p, p))
          /\ DropThen(p, Layers(req[p].snap))
       \/ LostRace(p, "update", Retries(p))

\* The compare-and-set of the commit a request added, then the drops.
Publish(p) ==
    /\ Kind(p) \in {"commit", "merge", "revert"}
    /\ req[p].pc = "publish"
    /\ \/ /\ Replace(p, Published(p, p))
          /\ DropThen(p, req[p].snap.sealed)
       \/ LostRace(p, "update", Retries(p))

Commit(p) == CommitSealRead(p) \/ CommitRead(p) \/ AddCommit(p)

-----------------------------------------------------------------------------
(* Merge, Import, Revert, CherryPick and UpdateBranch move the branch to   *)
(* another commit.  They first seal the (empty) staging token.             *)

PrepareBegin(p) ==
    /\ Kind(p) \in HeadUpdates
    /\ req[p].pc \in {"start", "prepare"}
    /\ UpdateBegin(p, "prepScan", Layers(branch))

\* A bug: the branch is not checked again, as it was clean when it was sealed.
HeadUnchecked(p) ==
    /\ Kind(p) \in HeadUpdates
    /\ req[p].pc = "update"
    /\ UpdateBegin(p, "headScan", <<>>)

HeadBegin(p) ==
    /\ Kind(p) \in HeadUpdates
    /\ req[p].pc = "update"
    /\ UpdateBegin(p, "headScan", branch.sealed)

\* The change a merge or a revert makes to the tip it is applied to.
Patch(p, tip) == [Content(tip) EXCEPT ![Key(p)] = Value(p)]

AddPatch(p, tip) ==
    /\ commits' = [commits EXCEPT ![p] =
          [parent |-> tip, stored |-> TRUE, content |-> Patch(p, tip)]]
    /\ Go(p, [req[p] EXCEPT !.pc = "publish", !.view = Blank])
    /\ UNCHANGED <<branch, stagingVars>>

\* Merge and Import look the destination up again, by name.
MergeCommit(p) ==
    /\ Kind(p) = "merge"
    /\ ReadDone(p, "headScan") /\ NoChanges(p)
    /\ BranchNotFound(p) \/ (branch # NoBranch /\ AddPatch(p, branch.commit))

\* Revert and CherryPick use the commit of the record they will replace.
RevertCommit(p) ==
    /\ Kind(p) = "revert"
    /\ ReadDone(p, "headScan") /\ NoChanges(p)
    /\ AddPatch(p, req[p].snap.commit)

\* Commits a client can name: the first one and those published since.
Known == {Origin} \cup {c \in Requests : commits[c].stored /\ req[c].pc \in {"drop", "ok"}}

\* UpdateBranch moves to a commit it was given.
HeadPublish(p) ==
    /\ Kind(p) = "updateBranch"
    /\ ReadDone(p, "headScan") /\ NoChanges(p)
    /\ \/ /\ \E c \in Known : Replace(p, Published(p, c))
          /\ DropThen(p, req[p].snap.sealed)
       \/ LostRace(p, "update", Retries(p))

HeadUpdate(p) ==
    PrepareBegin(p) \/ HeadBegin(p) \/ MergeCommit(p) \/ RevertCommit(p) \/ HeadPublish(p)

-----------------------------------------------------------------------------
(* Reset, ResetHard, ResetKey and ResetPrefix.                             *)

\* Reset replaces all tokens with a new one, and drops them.
ResetBegin(p) ==
    /\ Kind(p) = "reset"
    /\ req[p].pc = "start"
    /\ UpdateBegin(p, "publish", <<>>)

\* A bug: the staging token stays, although it is dropped.
ResetSealed(p) == [branch EXCEPT !.sealed = <<>>]
ResetRecord(p) == [branch EXCEPT !.staging = p, !.sealed = <<>>]

ResetPublish(p) ==
    /\ Kind(p) = "reset"
    /\ req[p].pc = "publish"
    /\ \/ Replace(p, ResetRecord(p)) /\ DropThen(p, Layers(req[p].snap))
       \/ LostRace(p, "start", Retries(p))

\* ResetHard moves the head and keeps every token.  Only the sealed tokens
\* are checked for changes.  The target is looked up inside the update.
HardBegin(p) ==
    /\ Kind(p) = "resetHard"
    /\ req[p].pc \in {"start", "update"}
    /\ UpdateBegin(p, "hardScan", branch.sealed)

HardDeref(p) ==
    /\ Kind(p) = "resetHard"
    /\ ReadDone(p, "hardScan") /\ NoChanges(p)
    /\ \/ BranchNotFound(p)
       \/ /\ branch # NoBranch
          /\ \E c \in Known :
                Go(p, [req[p] EXCEPT !.pc = "publish", !.pre = [branch EXCEPT !.commit = c]])
          /\ StoreUnchanged

HardPublish(p) ==
    /\ Kind(p) = "resetHard"
    /\ req[p].pc = "publish"
    /\ \/ /\ Replace(p, [branch EXCEPT !.commit = req[p].pre.commit])
          /\ Finish(p, "ok")
       \/ LostRace(p, "update", Retries(p))

\* ResetKey overwrites the key in the staging token of the record it read.
KeyBegin(p) ==
    /\ Kind(p) = "resetKey"
    /\ req[p].pc = "start"
    /\ \/ BranchNotFound(p)
       \/ /\ branch # NoBranch
          /\ Go(p, [req[p] EXCEPT !.pc = "keyScan", !.pre = branch, !.todo = Layers(branch)])
          /\ StoreUnchanged

\* resetKey: the entry that undoes uncommitted entry e of key k on record b
\* goes to token t; a tombstone always goes to b's own staging token.
NeedsReset(b, k, e) ==
    IF Base(b)[k].live THEN ~(e.live /\ e.by = Base(b)[k].by) ELSE e.live
\* A bug: the staged entry is removed, and uncovers the sealed ones.
RemoveKey(p, b, k, t) ==
    IF Base(b)[k].live THEN Put(t, k, Base(b)[k]) ELSE Put(b.staging, k, NoEntry)
UndoKey(p, b, k, t) ==
    IF Base(b)[k].live THEN Put(t, k, Base(b)[k]) ELSE Put(b.staging, k, Tombstone(p))

KeyReset(p) ==
    /\ ReadDone(p, "keyScan")
    /\ LET b == req[p].pre
           e == req[p].view[Key(p)]
       IN IF Exists(e) /\ NeedsReset(b, Key(p), e)
          THEN UndoKey(p, b, Key(p), b.staging) /\ UNCHANGED <<branch, commits>>
          ELSE StoreUnchanged
    /\ Finish(p, "ok")

\* ResetPrefix (here of every key) seals the staging token under a new one
\* that already holds what undoes the uncommitted entries.
PrefixBegin(p) ==
    /\ Kind(p) = "resetPrefix"
    /\ req[p].pc = "start"
    /\ \/ branch = NoBranch /\ DropThen(p, <<p>>) /\ StoreUnchanged
       \/ branch # NoBranch /\ UpdateBegin(p, "prefixDiff", <<>>)

\* DiffUncommitted reads the branch record for itself.
PrefixDiff(p) ==
    /\ req[p].pc = "prefixDiff"
    /\ \/ /\ branch = NoBranch
          /\ DropThen(p, <<p>>)
       \/ /\ branch # NoBranch
          /\ Go(p, [req[p] EXCEPT !.pc = "prefixScan", !.pre = branch, !.todo = Layers(branch)])
    /\ StoreUnchanged

PrefixScanned(p) ==
    /\ ReadDone(p, "prefixScan")
    /\ Go(p, [req[p] EXCEPT !.pc = "prefixWrite",
                 !.left = {k \in Changes(req[p].view, Base(req[p].pre)) :
                              NeedsReset(req[p].snap, k, req[p].view[k])}])
    /\ StoreUnchanged

\* The keys are reset in parallel.
PrefixUndo(p) ==
    /\ req[p].pc = "prefixWrite"
    /\ \E k \in req[p].left :
          /\ UndoKey(p, req[p].snap, k, p)
          /\ Go(p, [req[p] EXCEPT !.left = @ \ {k}])
    /\ UNCHANGED <<branch, commits>>

\* Any error drops the new token: one the store did not install, or one it
\* did install although it reported an error.
PrefixPublish(p) ==
    /\ req[p].pc = "prefixWrite"
    /\ req[p].left = {}
    /\ \/ Replace(p, SealedRecord(p)) /\ Finish(p, "ok")
       \/ /\ p \in Unsure
          /\ Replace(p, SealedRecord(p))
          /\ DropThen(p, <<p>>)
       \/ /\ ~Unmoved(p)
          /\ DropThen(p, <<p>>)
          /\ StoreUnchanged

Reset(p) ==
    \/ ResetBegin(p) \/ ResetPublish(p) \/ HardBegin(p) \/ HardDeref(p) \/ HardPublish(p)
    \/ KeyBegin(p) \/ KeyReset(p)
    \/ PrefixBegin(p) \/ PrefixDiff(p) \/ PrefixScanned(p) \/ PrefixUndo(p) \/ PrefixPublish(p)

-----------------------------------------------------------------------------
(* DeleteBranch and CreateBranch.                                          *)

DeleteBranchRead(p) ==
    /\ Kind(p) = "deleteBranch"
    /\ req[p].pc = "start"
    /\ UpdateBegin(p, "delete", <<>>)

\* RefManager.DeleteBranch: the record is checked and deleted, whatever it
\* says by now; the tokens dropped are those read before.
DeleteBranchApply(p) ==
    /\ req[p].pc = "delete"
    /\ \/ BranchNotFound(p)
       \/ /\ branch # NoBranch
          /\ branch' = NoBranch
          /\ DropThen(p, req[p].snap.sealed \o <<req[p].snap.staging>>)
          /\ UNCHANGED <<commits, stagingVars>>

CreateBranchRead(p) ==
    /\ Kind(p) = "createBranch"
    /\ req[p].pc = "start"
    /\ IF branch # NoBranch THEN Finish(p, "failed")
       ELSE Go(p, [req[p] EXCEPT !.pc = "create"])
    /\ StoreUnchanged

\* SetIf with no predicate: the record must not exist.
CreateBranchApply(p) ==
    /\ req[p].pc = "create"
    /\ \/ /\ branch # NoBranch /\ Finish(p, "failed") /\ StoreUnchanged
       \/ /\ branch = NoBranch
          /\ branch' = [commit |-> Origin, staging |-> p, sealed |-> <<>>]
          /\ Finish(p, "ok")
          /\ UNCHANGED <<commits, stagingVars>>

BranchLifecycle(p) ==
    \/ DeleteBranchRead(p) \/ DeleteBranchApply(p)
    \/ CreateBranchRead(p) \/ CreateBranchApply(p)

-----------------------------------------------------------------------------

\* A request that stops half way: its server crashed, its context was
\* cancelled, a hook refused, a store access or a merge failed.
Stop(p) ==
    /\ p \in Mortal
    /\ req[p].pc \notin Over \cup {"start"}
    /\ Finish(p, "failed")
    /\ StoreUnchanged

Step(p) ==
    \/ ReadToken(p) \/ Write(p) \/ Read(p) \/ Commit(p) \/ Seal(p) \/ Publish(p)
    \/ HeadUpdate(p) \/ Dirty(p) \/ Reset(p) \/ BranchLifecycle(p) \/ DropToken(p)

CleanStep(s) == Clean(s) /\ UNCHANGED requestVars

Init ==
    /\ StagingInit
    /\ task \in Tasks
    /\ branch = [commit |-> Origin, staging |-> Origin, sealed |-> <<>>]
    /\ commits = [c \in Writers |->
          IF c = Origin
          THEN [parent |-> NoOne, stored |-> TRUE,
                content |-> [k \in Keys |-> IF k \in Initial THEN Value(Origin) ELSE NoEntry]]
          ELSE NoCommit]
    /\ req = [p \in Requests |-> NotStarted]
    /\ before = [p \in Requests |-> {}]

\* Every request is over and the cleanup has nothing to do.
Quiet ==
    /\ \A p \in Requests : req[p].pc \in Over
    /\ \A s \in Servers : Idle(s) /\ wakeup[s] = 0
    /\ UNCHANGED vars

Next ==
    \/ \E p \in Requests : Step(p) \/ Stop(p)
    \/ \E s \in Servers : CleanStep(s)
    \/ Quiet

Spec == Init /\ [][Next]_vars

\* A request that is not stopped keeps running, and so does the cleanup.
Fairness ==
    /\ \A p \in Requests : WF_vars(Step(p))
    /\ \A s \in Servers : WF_vars(CleanStep(s))

FairSpec == Spec /\ Fairness

-----------------------------------------------------------------------------
(* Properties.                                                             *)

\* Every variable has its type.
TypeOK ==
    /\ StagingTypeOK
    /\ task \in Tasks
    /\ branch \in Branches
    /\ commits \in [Writers -> Commits]
    /\ req \in [Requests -> Requested]
    /\ before \in [Requests -> SUBSET Requests]

\* Tokens whose entries are, or are about to be, deleted are not the
\* branch's: nothing a reader or a committer relies on is ever cleaned up,
\* although tokens are dropped after the update that let go of them, by
\* requests and servers that do not look at the branch again.
Dropped == Condemned \cup UNION {Range(req[p].drop) : p \in Requests}
LiveTokensKept == LayerSet(branch) \cap Dropped = {}

\* The entry the branch shows for a key.
Shown(k) ==
    LET L == Layers(branch)
        I == {i \in 1..Len(L) : Exists(staged[L[i]][k])}
    IN IF I = {} THEN Base(branch)[k]
       ELSE staged[L[CHOOSE i \in I : \A j \in I : i <= j]][k]

\* Request r may have discarded uncommitted entries, or moved the head back.
Undoes(r) ==
    /\ Kind(r) \in Resets \cup {"updateBranch", "deleteBranch", "deleteNoTombstone"}
    /\ req[r].pc # "start"

\* A delete that did not happen before write w (w itself, for a delete) has
\* worked on w's key.
Buries(w) ==
    \E d \in Requests \ before[w] :
        Kind(d) \in Deletes /\ Key(d) = Key(w) /\ req[d].pc # "start"

\* Entry e may be shown to someone who knows that write w succeeded: it is
\* w's, or of a write that did not happen before w, or w was deleted or
\* undone since.
Honours(w, e) ==
    \/ e.by \notin before[w] \cup {Origin, NoOne}
    \/ ~e.live /\ Buries(w)
    \/ \E r \in Requests \ before[w] : Undoes(r)

Sets == BlindWrites \cup CondWrites

\* "Acknowledged writes end up either in a resulting commit, or staged to be
\* committed": whatever commits, merges and cleanups do meanwhile, the branch
\* shows a write that succeeded, or one that did not happen before it.
AckedWritesKept ==
    branch # NoBranch =>
        \A w \in Succeeded : Kind(w) \in Sets => Honours(w, Shown(Key(w)))

\* "All staged changes that finished successfully before the commit started
\* are applied as part of the commit."
CommitsAreCausal ==
    \A c \in Requests : Kind(c) = "commit" /\ req[c].pc \in {"drop", "ok"} =>
        \A w \in Earlier(c) : Kind(w) \in Sets => Honours(w, commits[c].content[Key(w)])

\* "A successful commit holds the contents of some listing of the entire
\* keyspace": a commit that has a write has, for every other key, the writes
\* that happened before it.
CommitsAreListings ==
    \A c \in Known \ {Origin}, w \in Requests :
        Kind(w) \in Sets /\ commits[c].content[Key(w)].by = w =>
            \A v \in Earlier(w) :
                Kind(v) \in Sets => Honours(v, commits[c].content[Key(v)])

\* A delete without tombstone that did not happen before r has worked on key k:
\* what is sealed below the entry it drops comes back.
Uncovers(r, k) ==
    \E d \in Requests \ before[r] :
        Kind(d) = "deleteNoTombstone" /\ Key(d) = k /\ req[d].pc # "start"

\* What a reset that succeeded had been asked to undo stays undone: a write
\* that had succeeded before is shown again only if a commit took it, or a
\* delete dropped what hides it.
ResetsUndo ==
    branch # NoBranch =>
        \A r \in Succeeded : Kind(r) \in {"reset", "resetKey", "resetPrefix", "deleteBranch"} =>
            \A w \in Earlier(r) :
                /\ Kind(w) \in Sets
                /\ Kind(r) = "resetKey" => Key(r) = Key(w)
                /\ Shown(Key(w)).by = w
                => \/ \E c \in Requests : commits[c].content[Key(w)].by = w
                   \/ Uncovers(r, Key(w))

\* The branch never names a commit that is not in the store, whichever
\* requests stop half way.
HeadIsStored == branch # NoBranch => commits[branch.commit].stored

\* Someone may have moved the head to a commit they named since p began.
Rewound(p) ==
    \E r \in Requests \ before[p] :
        Kind(r) \in {"resetHard", "updateBranch"} /\ req[r].pc \in {"drop"} \cup Over

\* The head moves to a new commit only from that commit's parent, so no
\* commit another request published is cut off the branch's history.  A merge
\* looks the head up twice, and may miss that it was moved away and back.
HeadsDescend ==
    [][\A p \in Requests :
          /\ Kind(p) \in {"commit", "merge", "revert"}
          /\ req[p].pc = "publish" /\ req'[p].pc \in {"drop", "ok"}
          => commits[p].parent = branch.commit \/ (Kind(p) = "merge" /\ Rewound(p))]_vars

\* Every request that nothing stops comes to an end.
Terminates == \A p \in Requests : <>(req[p].pc \in Over)

\* Every token handed to the cleanup is emptied and taken off its list.
CleanupDrains == \A t \in Tokens : (t \in cleanup) ~> (t \notin cleanup)

-----------------------------------------------------------------------------
(* Reads, deletes and conditional writes look at the record and then at    *)
(* one token after the other.  What the documentation says of them holds   *)
(* until the first commit seals the staging token, and not after it.       *)

\* "If a write succeeds, successive reads and listings will return the
\* contents of either that write or of some other write that did not happen
\* before it."
ReadsAreFresh ==
    \A r \in Succeeded : Kind(r) \in Reads =>
        \A w \in Earlier(r) :
            Kind(w) \in Sets /\ (Kind(r) = "list" \/ Key(r) = Key(w)) =>
                Honours(w, req[r].view[Key(w)])

\* A delete that succeeded leaves nothing that had been written before it.
AckedDeletesKept ==
    branch # NoBranch =>
        \A w \in Succeeded : Kind(w) \in Deletes => Honours(w, Shown(Key(w)))

\* 'If-None-Match: "*"' is to "atomically allow the upload only if the key has
\* no object yet": it fails if an upload had succeeded before, or another such
\* upload succeeds, and nothing deletes the object.
AbsentMeansAbsent ==
    \A b \in Succeeded : \A w \in Succeeded \ {b} :
        /\ Kind(b) = "setIfAbsent"
        /\ Key(w) = Key(b)
        /\ Kind(w) = "setIfAbsent" \/ (w \in before[b] /\ Kind(w) \in Sets)
        => \E d \in Requests : Undoes(d) \/ (Kind(d) \in Deletes /\ Key(d) = Key(b))

\* As long as the branch has its first staging token, concurrent requests
\* exclude each other as they should.
ExactUntilSealed ==
    branch.staging = Origin => ReadsAreFresh /\ AckedDeletesKept /\ AbsentMeansAbsent
=============================================================================
