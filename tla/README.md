# TLA+ models of lakeFS

These modules model the core of lakeFS:

* what happens to one branch when uploads, deletes, reads, commits, merges, resets and the cleanup of staging
  areas run at the same time on several servers with nothing between them but a key value store;
* how the name of a branch is owned for a while, and how the repositories of one name come and go;
* how commits, merges, imports, diffs and comparisons are computed on lists of ranges;
* which objects and commits garbage collection takes while requests go on;
* how the local directory that caches committed data stays consistent while files are opened, downloaded,
  stored and evicted.

Every definition is translated from the Go source (the order of the garbage collection job from the Scala source);
`map` in `PROJECT.json` names the lines of each.

Contents: [the system](#the-system), [the modules](#the-modules), [what is checked](#what-is-checked),
[what is proved](#what-is-proved), [where the code and its documentation disagree](#where-the-code-and-its-documentation-disagree),
[what is not modelled](#what-is-not-modelled), [the plan](#the-plan).

## The system

lakeFS keeps versioned repositories of objects. Object data lives in a block store; everything else lives
in a key value store (PostgreSQL, DynamoDB, CosmosDB or a local one) with `Get`, `Set`, `Delete`, scans of
a partition, and `SetIf`, which writes one key if its value is still the one that was read. There are no
transactions over several keys and no locks between servers.

| Part | State it keeps | Operations | What is hard | What makes it correct |
|---|---|---|---|---|
| Branch operations, `pkg/graveler/graveler.go` | none of its own; the branch record, commits and staged entries in the stores below | `Set`, `Update`, `Delete`, `Get`, `List`, `Commit`, `Merge`, `Import`, `Revert`, `CherryPick`, `UpdateBranch`, `Reset*`, `CreateBranch`, `DeleteBranch` | every request is a sequence of store accesses with those of others in between; compare-and-set, retries, crashes, lost answers | no acknowledged write is lost; commits are causally complete; history is never cut; resets undo what they should |
| Staging manager, `pkg/graveler/staging` | one partition per staging token; the cleanup partition; a wakeup channel | `Get`, `Set`, `Update`, `DropKey`, `DropAsync`; the cleanup loop of each server | entries are deleted later, by a loop that never looks at branches | only tokens no branch uses are emptied; those are, in the end |
| Ref manager, `pkg/graveler/ref` | records of branches, tags, commits, repositories, pull requests | `BranchUpdate` (read, compute, compare-and-set), create and delete of all records, merge base, commit log | lookups by name inside an update; multi-step creation and deletion of repositories | updates are atomic; the merge base is a best common ancestor |
| Committed data, `pkg/graveler/committed`, `sstable` | immutable ranges and meta-ranges named by their content | `Commit`, `Merge`, `Diff`, iterators, writers | two-level iterators that skip whole ranges | the result equals the pointwise definition over keys |
| Local tier, `pkg/pyramid`, `pkg/cache` | a directory, reference counts, downloads in flight, an eviction policy | `Open`, `Store`, eviction, restart | eviction and deletion in the middle of an open; one download for many readers | an open finds its file; no file is lost track of |
| Branch ownership, `pkg/distributed` | one record per owned branch | `Own`, refresh, release | clocks, pauses, expiry | only spreads work in time: safety never rests on it |
| Batch executor, `pkg/batch` | requests waiting per key | `BatchFor`, `Run` | shutdown, deadlines of others | each waiter gets one answer to a read made after it asked |
| Retention and garbage collection, `pkg/graveler/retention`, `pkg/catalog` | reports in the block store | active commits, uncommitted listing | reads a moving repository | an object in use is never reported as garbage |
| Catalog, API server, S3 gateway, actions | run records, multipart records | handlers that call the above | hooks between steps of a merge or commit | |
| Block adapters, authentication, configuration, statistics, clients, web UI | | | | |

How the parts meet: a request of the API server or the gateway goes through the catalog to a branch
operation. The operation reads the branch record through the ref manager, reads and writes entries
through the staging manager, and builds commits with the committed manager, which reads and writes ranges
through the local tier. Tokens a branch has let go of are listed in the cleanup partition, and a wakeup
event tells the server's own loop to empty them. Nothing else connects the parts: there is no shared
memory between servers, and within a server only the wakeup channel, the caches and the local tier.

A branch record has a commit, a *staging token* that takes new writes and a list of *sealed tokens* (newest
first) that wait to be committed. Writes do not touch the record: they read it, write one entry to the
staging token's partition, read the record again, and start over if the staging token has changed
(`safeBranchWrite`). A commit first moves the staging token to the sealed ones and installs a new token;
then it reads the sealed tokens, stores a commit, and replaces the record by one that names it
and has no sealed tokens; then it lists those tokens for cleanup. The design is in
`design/accepted/metadata_kv/index.md`; its promises are the properties below.

The hazards of this code, each at its line, are listed in `PROJECT.json`.

## The modules

| Modules | Component | Theorems in |
|---|---|---|
| `StagingManager`, `Graveler` | staging manager, branch operations | `GravelerProofs`, `WriteProofs` |
| `Ownership`, `OwnedUpdates` | branch ownership, and branch updates under it | `OwnershipProofs` |
| `OnlyOne`, `Batch`, `Repositories` | one computation at a time, batch executor, life cycle of repositories | `RepositoryProofs` |
| `MetaRanges`, `MetaRangeWriter`, `Merge`, `Diff`, `Committed`; `ThreeWayMerge` is what they promise | committed data | `CommittedProofs`, `DiffProofs` |
| `ActiveCommits`, `GarbageCollection` | retention and garbage collection | `GarbageCollectionProofs` |
| `OnlyOne`, `FileTracker`, `TierFS` | local tier | `TierFSProofs` |

In each row a module EXTENDS those before it, except that `Repositories` and `TierFS` are built on `OnlyOne` (the
first by INSTANCE) and that `Committed` takes `ThreeWayMerge` by INSTANCE. `MCGraveler`, `MCOwnedUpdates`, `MCRepositories`,
`MCCommitted`, `MCGarbageCollection` and `MCTierFS` hold the instances for TLC.

### StagingManager

`pkg/graveler/staging/manager.go`. `staged[t][k]` is the entry of key `k` in the partition of token `t`;
`cleanup` is the cleanup partition; `wakeup[s]`, `fetched[s]` and `doomed[s]` are the wakeup channel of
server `s`, the tokens its round has left, and the keys of the token it is emptying. `Put` and `DropKey` are
the writes of `Set` and `DropKey`; `DropAsync` lists a token and tries to wake the loop; `FindTokens`,
`ScanToken`, `DropEntry` and `UnlistToken` are the loop, one store access each. `StagingManager.Update` is in
`Graveler` (`UpdateRead`, `UpdateWrite`), since its condition closes over what a request has read.

An entry is the request that wrote it and whether it is a value or a tombstone. Two tombstones are equal
in the store whoever wrote them (`SameEntry`), because predicates compare bytes.

### Graveler

`pkg/graveler/graveler.go` and the branch part of `pkg/graveler/ref/manager.go`, for one branch. It EXTENDS
`StagingManager`: a request's step may take a staging operation, and the cleanup runs in between.

* `branch`, `commits` are the records in the store; `task[p]` says which API request `p` is and which key it
  names; `req[p]` has its control point, the records it read (`pre`, `snap`), the tokens it has yet to read
  (`todo`), what it has read of them (`view`), the predicate of a staging update (`seen`), the keys a prefix
  reset has left and the tokens it will drop. `before[p]` is history: the requests that were over when `p` began.
* Every store access of the code is one action, and nothing else is. `Write` is `safeBranchWrite` around
  `Set`, `Update`, `Delete` or the delete without tombstone; `Read` is `Get` and `List`; `UpdateBegin`, `Replace` and
  `LostRace` are `RefManager.BranchUpdate` and `retryBranchUpdate`; `CommitSealRead`, `Seal`, `CommitRead`,
  `AddCommit`, `Publish` and `DropToken` are `Commit` and `dropTokens`; `HeadUpdate` is
  `prepareForCommitIDUpdate` and the update of `Merge` (`Import` takes the same steps), `Revert`
  (`CherryPick` likewise) and `UpdateBranch`; `Reset` has the four resets; `BranchLifecycle` has `CreateBranch` and `DeleteBranch`.
* `ReadToken` is the walk over staging tokens, one token a step. The entries of one token are read
  together; a scan that is spread out in time reads each key at a time between the step before and the step after, and
  the properties speak of a key at a time, except `CommitsAreListings`.
* A delete that did not happen before a write may leave its key without an object, also without a tombstone (`Honours`, `Buries`): a merge, or another update of
  the head, that finds nothing but tombstones over nothing in the sealed tokens takes the branch for unchanged, and publishing lets go of them.
* `Stop` ends a request half way: a crash, a cancelled context, a hook that refuses, a failed store access,
  a merge conflict. `Unsure` has the requests whose compare-and-set may report an error although it was applied.
* A commit's content is a function from keys to entries. `CommittedManager.Commit` is taken to compute
  the overlay of the staged entries over the parent's content, and `Merge` to set the key of the merge:
  the algorithms that do this on ranges are not in this module.
* A request installs at most one staging token that lasts and publishes at most one commit, so tokens and
  commits bear the request's name. In the code they are fresh random or content-based names; those of a try
  whose compare-and-set failed were never in a branch record.

### OnlyOne, FileTracker, TierFS

`pkg/cache/only_one.go`, `pkg/pyramid/file_tracker.go` and `pkg/pyramid/tier_fs.go`. `OnlyOne` is the map of
computations in flight and their channels: `Lead` and `Follow` are the two outcomes of `LoadOrStore`, `Close`
writes the answer and closes the channel, `Forget` removes the record. `FileTracker` is the reference
counts and the directory its delete callback acts on. `TierFS` EXTENDS both:
goroutines run `Open` (`TrackToOpen`, `FastOpen`, `JoinDownload`, `AwaitDownload` or `StatFile`, `Download` and
`EndDownload`, `Reopen`) or `store` (`Place`, `TrackStored`), both give the file to the eviction policy (`Admit`,
`Reject`) and release it (`Leave`; for an open, when the caller closes its file). `Evict` is the policy's
callback, at any time and, because the library queues what it is given, possibly more than once. `Restart` is
a crash: the policy, the tracker and the downloads are gone, the directory (or a part of it) is there. A new process begins with the walk of
`handleExistingFiles`, which calls `storeLocalFile` for one file after the other: `VisitFile` tracks it, `AdmitFound` offers it to the policy,
`RejectFound` has it deleted, `LeaveFound` releases it; with `EndWalk` `NewFS` returns and goroutines may open and store. The policy may
give up files, and the process may crash again, between any two of these. The policy is Ristretto, a library: `held` is only what it may still call
back for. A file is a pair of a namespace and a name, as in the code: the local path has both, the key of
the lock only the name.

### Ownership, OwnedUpdates

`pkg/distributed/mc_owner.go` and `BranchUpdate` of `pkg/graveler/ref/manager.go`. `record` is the lease in
the store, `current` has the goroutines whose reading of it still holds (expiries are nanoseconds, so no two records
are alike and a predicate holds exactly if nothing was written since), `caller[g]` and `refresher[g]` are `Own` with its
release and the goroutine that puts the expiry off. Time is the number of ticks left until an event. `Tick` is let pass
while goroutines have steps to take, but each tick then adds to `late`; `Fault` counts store failures, crashes and cancelled
requests. The properties say what holds while these are few. `vacant` is for how long somebody has waited for a free key.
`OwnedUpdates` puts the reading, the computing and the compare-and-set of the branch record under this lease;
an update goes on without the lease if `Own` fails, as the code does.

### Batch, Repositories

`pkg/batch/executor.go`: `BatchFor` is `Enqueue` and `Hear`; the loop of `Run` is `Accept` and `Dispatch`, and `Shut` and `Drain` when
its context is done; `TimerEnds` is the timer goroutine of a key; `Execute` and `Reply` are the execution beside the loop.
What an execution returns is up to the module that uses it.

`Repositories` is `GetRepository` (cache, `OnlyOne`, executor, read), `CreateRepository` (first commit, branch, record),
`DeleteRepository` (mark, empty the partition with workers in parallel, remove the record) and `BranchUpdate` on the default branch, for
the repositories of one name on one server. `repo` is the record, `part[i]` the partition of instance `i`; an instance bears the name of the
request that makes it, since in the code it is a fresh identifier. A branch record is who last wrote it and the instance it was
first made for. `target[g]` (the instance a deletion read) and `since[g]` (the values the store held since a client asked) are history.
The cache is one entry that may expire at any time.

### MetaRanges, MetaRangeWriter, Merge, Diff, Committed, ThreeWayMerge

`pkg/graveler/committed`. A meta-range is a sequence of ranges, a range a sequence of records `[key, id]`; keys are numbers; what
the code identifies by a hash of its contents is its contents. `MetaRanges` is the iterator that stops at the header of each range;
`MetaRangeWriter` collects records, takes over whole ranges and sorts them in the end. `Merge` is `merge.go`, one disjunct for each
case of its loop, with the iterator that skips prefixes, so that an import is a merge with no base. `Diff` is `diff.go` and `compare_iterator.go`:
a reader calls `Next`, `NextRange` and `SeekGE` as it likes, a turn of the loop of `Next` is a step. `Committed` is `manager.go` and
`commit.go`, and the state machine of one request, which `IsRequest` describes: meta-ranges as the manager writes them, changes sorted by
key, prefixes sorted, and what is imported lies under them. A reader seeks once. Inner loops that only move an iterator
(`getNextGEKey`, `getNextOverlappingFromBase`, the loops over prefixes) are given by where they end, and `Contents` by a choice of the
record with a key: nothing here is recursive, so that it can be proved about.

`ThreeWayMerge` is what `docs/src/understand/how/merge.md` promises: what the base, the source and the destination have under a key settles
what the result has, keys in order, any number at a time; a conflict ends the merge unless a strategy decides it. `Committed` implements it:
`MergeKeepsPromise` is `Promise!Spec` with `Promise == INSTANCE ThreeWayMerge WITH` the contents of the meta-ranges, the keys that all
iterators have passed as what is settled, and what was written of them as the result. A commit is
taken as a merge of the changed base with the base, an import as a merge with what the destination has beside the prefixes.

### ActiveCommits, GarbageCollection

`ActiveCommits` is `pkg/graveler/retention/active_commits.go` with its starting points: which commits a run keeps. The walks go over
first parents, in the order of the IDs of their starting points; `processed` has the threshold each commit was last passed with.

`GarbageCollection` is a job (`clients/spark/.../gc/GarbageCollection.scala`): it lists the objects that are old enough, has the
server list the addresses of uncommitted entries page by page (`PrepareGCUncommitted`, `gcWriteUncommitted`), then the active commits, and removes
what is in neither list. Beside it run uploads, links of addresses handed out before (with any date), clones (`CopyEntry`, from any reference), deletions,
resets, commits, the creation of branches at any commit, their deletion, and what moves them (`UpdateBranch`, `ResetHard`). A request makes or checks its
object in one step and its entry in another, and takes less than a tick of the clock; the other requests are one step, since `Graveler` is about theirs.

The store lists branches in the order of their names, some at a time. So the pages see the branches that come after the one they are at as they were or as they are
(`ToList`), and the heads are read one by one (`ReadHead`, `HeadsRead`) while branches come and go. `overlooked` is history: the addresses of entries that were read
and left out of the list. `astray` is history, too: the commits at which branches were put where the scan of the heads had been (`Behind`), unless another branch there shows the
commit as it was read (`Settled`). Nothing in the code keeps the objects of such a commit (a branch that is created or renamed behind the scan, from one that is deleted before the
scan comes to it), so `NothingMissed` excepts them (`Unseen`) as long as no head that was read is that commit; without the exception the run finds this violation.

## What is checked

Each run asks one group of questions of one instance. Below, *tries* are `BranchWriteMaxTries` and `BranchUpdateMaxTries`, 3 and 10 in the code,
2 here unless said.

| Run | Instance | Shows |
|---|---|---|
| `writes` | 3 requests of one key, any mix of sets, conditional sets, deletes, gets and commits, the key committed or not; or sets, deletes, commits, merges and branch updates, at least one of the last two and a delete only beside a merge | `AckedWritesKept`: a write the client was told about is shown by the branch, or one that did not happen before it is. `ExactUntilSealed`: until the first commit seals the staging token, reads see every earlier write, deletes delete, and of two uploads with If-None-Match one fails. `HeadsDescend`: the head moves to a new commit only from that commit's parent, unless a merge missed that someone moved the head by name meanwhile |
| `commits` | 4 requests, one try for each write: 2 sets of one key or two and 2 commits; or 2 sets, a commit and each kind of reset | `AckedWritesKept`; `CommitsAreCausal` (a commit has every write that succeeded before it began), `CommitsAreListings` (a commit that has a write has all that happened before that write), `ResetsUndo` (what a reset undid does not come back unless a commit took it, or a delete without tombstone dropped what hides it) |
| `lifecycle` | a branch deletion and any two other requests of all kinds, all of which may stop anywhere | `TypeOK`, `LiveTokensKept` (no token of the live record is listed, or about to be listed, for deletion), `HeadIsStored` (the record names a stored commit, whatever stops) |
| `liveness` | a set, a commit and one of seven other requests; lost answers; fair | `Terminates`: every request ends; `CleanupDrains`: every listed token is emptied and unlisted |
| `ownership` | 3 updates of a branch; one thing may go wrong or be late; fair | `OneOwner` and `OwnersWin`: while all is on time there is one owner, and no compare-and-set of a branch is lost. `FreeKeyIsTaken`: a free name is taken within a bound, by whatever it became free. `UpdatesEnd` |
| `repositories` | a deletion with a creation and an update, with two creations, or with another deletion and a creation; one request may fail anywhere; the executor may stop; fair | `ActiveMeansWhole`, `CreationsKept`, `DeletedStaysGone`, `UpdatesStayHome` of the records; `AnswersAreFresh`, `WaitersKept` of the executor; `RequestsEnd` |
| `committed` | every merge, commit, import and diff of meta-ranges with up to 3 keys and comparison of those with 2, cut into ranges in every way | `MergeKeepsPromise`: the refinement of `ThreeWayMerge`, where an import may leave keys of the destination under an imported prefix. `RangesApart`: new meta-ranges are sorted and do not overlap. `SummaryCounts`. `DiffTells`: a reader learns each difference once, or skipped a range with it. `CompareForetells`: a comparison tells what the merge then does |
| `gc` | every history of 4 commits with 2 heads; and a job of up to two pages beside up to 3 requests, from small histories | `NothingMissed`: no object that a branch reads is removed, but those whose entries were left out of the list or whose list was lost, and those of a commit at which a branch was put behind the scan of the heads. `NothingOverstays`, `RecentKept`: what is retained is due to a rule, and all that is recent is retained |
| `tier` | an open and two opens or stores of one file, eviction at any time, storage failures, two crashes, also during the walk that follows one; fair | `OpensFind` (an open ends with its file or with a failure of the storage), `DiskIsAccounted` (a file on the disk is known to the policy, in use, just being stored, or still to be walked to after a crash), `JobsEnd`, `RefusedFilesGo`, `TypeOK` |
| `merge_identity`, `gc_same_content`, `retention` | as `committed` and `gc` | a disagreement each, see [below](#where-the-code-and-its-documentation-disagree) |

Each property is accompanied by a change of the code, in `mutants`, that breaks it: a dropped check, a wrong
order, a missing case. These changes are operators of the modules whose comment begins "A bug".

### Why the bounds are enough

* Branch protocol: three requests show every race of two operations with a commit or a cleanup in between; the hazards found
  while modelling all need two or three. Where two commits matter, four requests are used. With more than two
  writers nothing new can happen to one key: a property of writes relates a write to one other write and
  to what commits and resets did. One key shows all that concerns one entry; two are used where a property relates two
  (`CommitsAreListings`) or where one is committed and another is not. Two tries show a try that fails and one that succeeds or is the
  last; in `commits` a write that loses its race gives up.
* One server cleans: `Clean` of a second server takes the same tokens, and only deletes
  what is condemned already, which `LiveTokensSafe` has for any number of servers. `WakeupCapacity = 1` instead of 100 makes a full channel easy to reach.
  `MaxFetch` (512 in the code) is at least the number of tokens, so a round takes all that are listed; what
  happens to the rest when more are listed is not checked.
* `ownership`: an owner, one that waits and one that comes between them. `Refresh = 4` is the smallest interval with a tick between
  the refresh, at half of it, and the expiry. `MaxTrouble = 1`: each kind of failure, once; two and more were
  checked with two callers.
* `repositories`: three requests, since every hazard here is of two requests around a third. One may see its store fail or its context
  done, anywhere. The first state has the repository, or its deletion behind it with a stale cache and a branch left in the partition.
* `committed`: two keys show every case of one key beside another; the third puts ranges of two keys against ranges of one, and edges between
  them. Identities 1 to 3 are enough for a key to differ in the base and both sides. To keep the number of requests within reach at most one
  key conflicts and the base has at most two ranges. Identities are of one key each, except in `merge_identity`.
* `gc`: for the walk, four commits allow a fork on top of a shared stem and a commit between; rules of one day and two, dates of
  three days. For the race, two branches, one path and three addresses: an address moves from one branch to another, or an object
  appears under a second address. The clock passes each of the grace periods once (`MinAge` and the validity of a link are
  2 ticks, that of cloning 1; 24, 6 and 5 hours in the code); three changes are a preparation, a move and a cover-up, and two where an object may be
  uploaded beside the old one, with its content or another. A branch that is created, deleted and moved while the heads are read takes no more than two. `gc_same_content` needs one change.
* `tier`: one leader of a download, one that waits, and one that releases or stores are three goroutines; one file, since files
  of different names share nothing, the walk included, which treats one after the other; two crashes, so that the second may meet the walk. With two namespaces `OpensFind` fails (see below).
* Requests are symmetric, and are permuted in the runs of safety properties of `MCGraveler`; nothing in the modules
  tells them apart.

### Fairness

`FairSpec` of `Graveler` has weak fairness of each request that is not stopped and of each server's cleanup
loop. A request is a goroutine: it runs whenever the scheduler lets it, and no step of it waits for another request, so
weak fairness is what the Go runtime gives. Store accesses are assumed to answer (`Stop` is not fair and is
not assumed never to happen). No fairness is assumed of the order of compare-and-sets: `Terminates` rests on
the bounded number of tries. The loop's fairness is that of a goroutine that lives as long as its server.

`FairSpec` of `OwnedUpdates` has weak fairness of each request, of each refresher and of the passing of time; not of failures.
Nothing makes a particular waiter win; since each caller updates once, all end.

`FairSpec` of `Repositories` has weak fairness of the requests and the executor taken together, the weakest of all: some goroutine runs while
any can. It suffices because each has a bounded number of steps. Shutdown, failures and the expiry of the cache are not fair, and `RequestsEnd` says nothing once the
executor has stopped, since `BatchFor` may then wait for ever.

`FairSpec` of `TierFS` has weak fairness of each goroutine's steps, which for an open includes that the caller
closes the file it was given (`Leave`); all callers in `pkg/graveler/sstable` do. The walk of a new process is one more goroutine. None is assumed of
the eviction policy or of crashes.

The specifications may end with everything over: in `Graveler` and `Committed` by a step that says so, so that any other state
without a step is reported; elsewhere deadlock is not checked and the liveness properties say that nothing gets stuck.
`MCGarbageCollection` has no liveness property: a job that fails is run again by its scheduler.

## What is proved

For all values of the constants, from the assumptions the modules state (`Origin` and `NoOne` are not requests, tasks are of known kinds, bounds
are positive, and such). The proofs are hierarchical, one lemma for each operation.

`GravelerProofs` and `WriteProofs`, for any number of requests, keys and servers, any tasks and any number of tries:

* `TypeCorrect`: `Spec => []TypeOK`. The inductive invariant is `TypeInv`, the conjunction of `StoreTyped`
  and `RequestsTyped`; the second adds to `TypeOK` that a request which is about to compare
  (`Held`) holds a record and not the absence of one, without which the types of the records it writes do not follow.
* `LiveTokensSafe`: `Unsure = {} => (Spec => []LiveTokensKept)`. `LiveTokensKept` is not inductive: nothing
  in it keeps a token from being listed *before* it becomes the branch's, or listed by one request while another puts it
  back. `TokenInv` adds that the tokens of the record are distinct (`Distinct`: a token that is dropped is then no longer
  there) and that the token a request has yet to install, and which bears its name, occurs neither in the record nor
  among the tokens that are listed or about to be (`FreshUnclaimed`). A compare-and-set replaces
  exactly the record that was read, so the tokens a request drops after it are those it took
  out, and no record it or another installs later has them. The condition is needed: `ResetPrefix` lists the live staging
  token when a compare-and-set reports an error that it did not have.
* `HeadAlwaysStored`: `Spec => []HeadIsStored`, without that condition. `HeadInv` adds that a request which is about to
  publish has stored the commit it will name, or, for a hard reset, has looked one up that is stored (`Promise`).
  Commits are never removed, so a promise holds until the compare-and-set, however often it is tried.
* `WritesKept`, `CommitsCausal`, `CommitsListed`: `Unsure = {} => (Spec => []AckedWritesKept)`, and likewise `CommitsAreCausal` and
  `CommitsAreListings`. One invariant, `WritesSafe`, is behind the three, since none is inductive and each needs the others. It has `TokenInv`; `StoreInv`,
  which says whose the things in the store are (a token or a commit is named by a record only once it was published, nothing is staged on a token before
  that, a tombstone is of a delete of its key or of a reset); and `WriteInv`, which says of every set `w` that something undid it, or that, from its
  acknowledgement on, all of these hold. `Acked`: the branch shows `w` or something newer. `Below`: once a commit that began later, or a
  write that such a commit has, may know of `w` (`Deep`), the sealed tokens and the commit show it without the staging token. `Taken`: a commit that is
  being made and can still be published, since the record is the one it read, has `w` in what it has gathered or is still to read, unless `w` is on the
  staging token, which the commit leaves in place, and nothing that followed `w` was gathered. `Committed`: published commits that should have `w` do.
  While `w` is not yet acknowledged, `Rechecked` says that its second reading of the record finds the same staging token only if the entry is still on it.
  The proof has two halves: every step of a request that undoes nothing is *discreet* (it leaves the branch and comes closer to publishing, seals,
  publishes or creates), and a discreet step keeps `Kept(w)`, whosever it is. The condition is that of `LiveTokensSafe`.

* `ExactBeforeSeal`: `Spec => []ExactUntilSealed`, without that condition. While the record has its first staging token, it is the first record (`FirstInv`: whatever
  installs a token installs another, no commit was published, every record that was read is the first one or none, and the cleanup has not heard of the token). So one
  token and one commit are all there is to read, and `ExactInv` says of each request that what it did there still stands: an entry or a tombstone that `Landed`
  honours its writer until the end, a reader that has read the token goes on seeing what its earlier writes were, and a conditional upload that landed was the first of
  its key. `Honours` is what carries this: an entry of a later step is by someone who did not happen before, so it is honoured by all that are over.
* `CommitsFollowHeads`: `Spec => HeadsDescend`, without that condition either. `ParentInv` says of a commit that waits for its compare-and-set that its parent is the commit of the
  record that was read. That is all for commits and reverts; a merge looks the destination up a second time, and its commit has that parent only as long as the record may still be the one
  first read: once another commit or token was published it will not be again, since both are published once (`HeadMoves`), unless someone moves the head to a commit by name (`Rewound`).
* `ResetsStand`: `Unsure = {} => (Spec => []ResetsUndo)`. A write that a reset has undone comes back if an entry that hides it goes first, or if a token that has it comes on top. `ResetInv` says of a reset that
  is over that on every layer of the branch that has the write, something above it has the key too (`Hidden`), and of one that runs what its readings are still good for. A scan has found the write, or what hides it,
  in the record it was given (`ScanSees`), and the record may since have lost tokens below and gained them on top, none of which has the write (`Tracks`), so that what is put on the old staging token
  still lies above all that was read. `ResetPrefix` has two chances (`Undid`): on its new token or, for a tombstone, on the one that token seals. Layers go as they came: a step puts one on top, keeps some from the
  top, or leaves none (`Lowers`). No step brings the write to another token (`Settles`), as what resets copy from a commit is of that commit (`MarkInv`, `Took`); and the cleanup
  takes entries only off tokens that are no layers, for which the condition is needed. What a delete without tombstone drops is excepted in the property (`Uncovers`).

`TierFSProofs`, for any number of goroutines, files and restarts and any jobs. `Counted` is behind all three: the tracker's count of a path is the
number of goroutines that use it (`Users`, those between `fileTracker.Open` and its release), and one more while the walk is at it (`Visits`), and only files in
use are marked deleted. It gives `UsedFileStays`: no step takes away a file that a goroutine uses and goes on using.

* `TierTypeCorrect`: `Spec => []TypeOK`. Needs `Counted`: without it a release could take a count below zero.
* `TierOpensFind`: `UniqueNames => (Spec => []OpensFind)`. The invariant `FindInv` adds `Led` (who leads a download leads
  it under its file's name, who waits waits for one with the same file name, a failed answer is about
  an unreliable file) and `Found` (who was told that its file is there, or waits for an answer that says
  so, has it on the disk). Steps of other goroutines keep it by `UsedFileStays`. The premise that
  no two paths have one name is needed: the lock's key has only the name.
* `TierDiskAccounted`: `Spec => []DiskIsAccounted`, without that premise. The invariant is `Cared`: a file is with the policy, or
  marked, or a goroutine or the walk is still to offer it to the policy or to mark it: a file that a new process finds is one the walk has yet to come to, or is at.

`GarbageCollectionProofs`, first of the walk over the commits, for any well-formed history (parents exist, have smaller generations and no later dates), any rules, and any order of
starting points. It needs ancestries: `AncestryIsLeast` and `AncestrySplits` get by without induction, from the definition by closed sets.

* `ActiveTypeCorrect`: `WalkSpec => []ActiveTypeOK`.
* `OldIsDropped`: `WalkSpec => []NothingOverstays`, by the invariant that the node of an ongoing walk is retained by its starting point or a child
  of a retained one.
* `RecentSurvives`: `WalkSpec => []RecentKept`. A walk stops at what another has passed, so the invariant has to say what a passed commit
  is good for: `PassedKeep`, everything recent (by the threshold it was passed with) in its ancestry is active, or is still
  *ahead* of the walk that is going on. The commit itself is not ahead of itself, and a later walk
  that relies on it is not relied on in turn, because generations only fall along a walk (`NodeIsYounger`). `StartsKeep` says the same of starting points
  that are done.

`RepositoryProofs`, for any number of requests with any tasks, failures anywhere, an executor and a cache of which nothing is assumed (whatever
they answer, the four properties hold):

* `ActiveIsWhole`, `DeletedIsGone`, `UpdatesAreHome` from `LifeInv`: who is at a point has done what comes before it in its program (`Built`, `Withdrawn`, `Aimed`), and
  an instance that anybody has seen is one whose creation has written its last record (`SeenIsMade`): so no creation is surprised by
  a deletion.
* `CreationsSurvive` from `KeptInv`: unless two deletions have read one and the same instance (`Overtaken`), the record is that of the
  instance a deletion under way has read, so what it overwrites or removes is what it read.

`RepositoryProofs` then treats the executor itself, under the same conditions and told to stop at any time, from
one more assumption: an error is told from the absence of an answer (`BatchAssumption`).

* `NobodyIsLost`: `Spec => []WaitersKept`, by `PlaceInv`: a client that waits is in exactly one place. The property says that it is in one
  at least; that it is in no other is what a step needs, since answering it from one place would leave it waiting in the other. `TimersSound` adds that a key
  is with its timer or once on the channel just while somebody is collected under it, so that what is dispatched is never empty
  (the loop would take the first of no requests) and never dispatched twice.
* `AnswersAreNotStale`: `Spec => []AnswersAreFresh`, by `AnswerInv`: everybody in a batch has asked for what its leader asks for (`BatchSound`), and has done
  so before the batch is executed, so that what the leader reads is new enough for all (`ResultsAreFresh`).
* `RepositoriesTypeCorrect`: `Spec => []TypeOK`. It rests on all of this: what a request takes for a repository, and puts into the cache, is an
  answer of the executor.

Then of the job that collects objects, for any well-formed history that grows by commits, any branches, paths, addresses and clients, pages of any size, and periods
in the order the code keeps them (`GarbageCollectionAssumption`; `ValuesAssumption` keeps apart values of different kinds, `WorldsAssumption` has the first
states well-formed). It rests on the first part, since the walk goes on within the job:

* `GCTypeCorrect`: `Spec => []TypeOK`.
* `NoneIsMissed`: `Spec => []NothingMissed`. The property speaks of the end of a job that takes several readings of branches that move; `GCInv` says what
  each reading is still good for. `ReachInv`: a candidate is *out of reach*, too old to be linked or cloned and in nobody's hands, so that from then on its
  address comes to a head only from what is staged, or with a commit that a branch is put at. `ListInv`: whatever branch stages a candidate, it has been noted, or the listing
  has yet to come to it, wherever the pages break off and whether or not it moves between them; a branch that is created later stages nothing.
  `HeadInv`: a candidate that a branch needs is noted, or in the tree of a head that was read, or the branch is still ahead of the scan of the heads, or
  it was put at a commit behind it and `astray` has that commit; the walk starts with the heads that were read, which makes them active. Order is all: were heads read before the list, a commit in between would take a candidate from both.

`OwnershipProofs`, for any number of callers, any interval of two ticks and more, any number of failures and any delays. Each property is about runs in which
little goes wrong, and says how little (`late`, `faults`): no bound of the instance enters it. The invariant `OwnershipInv` has five parts:

* `OwnershipTypeCorrect`: `Spec => []TypeOK`, by `TypeInv`, in which a ticker that runs is due within its interval.
* `OneOwnerAtATime`: `Spec => []OneOwner`, by `Leased` and `ReadInv`. While all goroutines together have been late by less than the refresh leaves to spare,
  whoever holds the key is `Covered`: the record is its own, its refresher runs or is about to, and the record expires later than the refresh is due by what
  is left to spare. `ReadInv` says of those who read the record and have not yet written that what they read is so still while nothing was written.
* `OwnersWinAllRaces`: `Spec => []OwnersWin`, by `Owned`: who has read the branch holds the key and has read what is still the record.
* `FreeKeysAreTaken`: `Spec => []FreeKeyIsTaken`, by `Vacancy`: the time for which a key has been free for the taking, together with what the record or the timer of
  a sleeper has left, never exceeds one refresh interval, one for each fault, and the ticks by which goroutines were late. That sum, not its first
  term, is what steps keep. A refresher that goes on after the release of its key may own the key again (`Restless`), but not for longer.

`CommittedProofs`, for any request `IsRequest` admits (any number of keys, any cut of the meta-ranges into ranges, any changes, prefixes and strategy)
and any keys after which the writer closes a range, from `CommittedAssumption` (the mark of a deletion is not an identity):

* `CommittedTypeCorrect`: `Spec => []TypeOK`. That no iterator leaves its meta-range needs to be known of the one that skips prefixes, too (`DestPlaced`), and that a
  summary counts no more than there are keys needs `AppliedTo`, below.
* `NewRangesAreApart`: `Spec => []RangesApart`, by `WriterInv`: the ranges the writer has closed are sorted and apart from each other, whether they were taken over whole or
  written record by record, and all are before the one it has open. The writer refuses what is not after
  `lastKey`; that it never has to is part of `CommittedTo` and, for a merge under the premise of the refinement, of `SettledTo`, below.
* `SummariesAreTrue`: `Spec => []SummaryCounts`. `CommittedTo(m)` says that between two steps of a commit there is a key `m` so that the new meta-range has up to
  `m` what it is to have, the summary counts what differs up to `m`, and the base's iterator and the next change are the first after it.
  Each step *turns* past one key, past the keys of a range that is copied, or past none (`Turns`), and `CommitAdvances` says once and for all what that makes of `m`.
* `MergesKeepPromise`: `Spec /\ OwnIdentities => MergeKeepsPromise`, the refinement of `ThreeWayMerge`. `SettledTo(m)` is to a merge or an import what `CommittedTo(m)` is to a commit;
  it adds that the base's iterator, which goes its own way, has not passed any record with a key after `m` (`Kept`). Each case of the loop of `merge.go` *passes* some keys of the source and some of the
  destination and writes some records (`Passes`), from which `Settling` infers that all is settled up to a later key, or up to the same one. The premise is what `merge_identity` shows to be needed:
  in a merge, no record of the base has the identity of one with another key on a side.

`DiffProofs`, under the same conditions, for a reader who calls `Next` and `NextRange` in any order and `SeekGE` once, anywhere:

* `ReadersAreTold`: `Spec => []DiffTells`. The property says at the end that all that differs was told or skipped; `ReaderInv` says so of every moment: there is a key `m` up to which the reader knows all that
  differs (`Knows`), and it stands where both iterators have ahead just what is after `m` (`StandsAt`, with one case for each place where a call may leave it: before both sides are read
  again, between two turns of the loop, within a range of the left side, of the right side, or at two ranges with the same bounds). Ranges that are equal may be
  passed with the iterators anywhere within them, which is the step that needs the most care (`SameRangeTurn`).
* `ComparisonsForetell`: `Spec => []CompareForetells`. `Knows` says, too, that what a comparison gave is what the differences it was told mean; and the meaning of a difference, which
  `stepValue` takes from the base alone, is what the table of `ThreeWayMerge` makes of the key (`MeaningIsForetold`).

Only model-checked: what holds under fairness (`Terminates`, `CleanupDrains`, `UpdatesEnd`, `RequestsEnd`, `JobsEnd`, `RefusedFilesGo`), which the
prover cannot treat. Every safety property and every action property of a passing run is a theorem, some under the conditions said above.

## Where the code and its documentation disagree

Each is a run that TLC must find violated, and an entry under `findings` with the sentence it contradicts.

* `merge_identity`: when a record is only on one side, the merge compares its identity with that of the base's next record, without looking at that
  record's key. A copy of an object under another path is then taken for the object, and dropped.
* `gc_same_content`: an object uploaded again with the same content is not listed as uncommitted, and its new
  address is not in the commit; once it is old enough it is removed, although the branch reads it.
* `retention`: whether the commit that was a branch's state when its retention began is kept depends on the order of the IDs of the heads.

Observed and not listed as runs:

* Reads after a commit: `Get` and `List` read the record once and then its tokens one after the other (`graveler.go:1785`). If a commit is published and
  its tokens are emptied meanwhile, a read misses a write that had succeeded before it; the design has a second reading of the tokens.
  By the same race two uploads with `If-None-Match: *` may both succeed (`graveler.go:1900`), and a delete may
  succeed and delete nothing (`graveler.go:2069-2115`). This is why `ExactUntilSealed` speaks of the first staging token only.
* `ResetPrefix` drops the token it installed when its compare-and-set failed, which it may not have (`graveler.go:2810`);
  its goroutines share one `err`, so a failure may be overwritten by a success (`graveler.go:2793`).
* `Merge` looks up the destination once more inside its update: two hard resets that move the branch away and back make it
  publish a commit whose parent is not the head (`graveler.go:3154`), which is the exception in `HeadsDescend`. It is retried, although the comment before it says that it is not (`graveler.go:3146`).
* `DeleteBranch` drops the tokens it read before the record was deleted; those installed in between stay (`graveler.go:1679`). The
  tokens of the branches of a deleted repository are dropped by nobody.
* A delete without tombstone drops its key from the staging token it read, whatever the entry is by then (`graveler.go:2160`): if what it drops hides an entry that was sealed meanwhile,
  that entry is back, also one that a reset had undone, which is the exception in `ResetsUndo`.
* A round of the cleanup takes 512 tokens, and the rest waits for another wakeup (`staging/manager.go:205`).
* `FindMergeBase` returns the first parent that both sides have reached (`merge_base_finder.go:61`). If a merge commit has both a commit and its
  descendant for parents, as a merge into a branch that has not moved has, and both sides did such a merge of one source, it is
  the older of the two, while the comment asks for a best common ancestor.
* An import takes over whole ranges of the destination once the source has ended, also those that have keys under an imported prefix
  (`merge.go:175`, against `docs/src/howto/import.md:57`).
* The loop of `getNextGEKey` does not end on an error of the iterator (`merge.go:33-50`); `BatchCloser` leaves a goroutine
  behind if it fails to wait (`meta_range_writer.go:184-186`).
* Two deletions of one repository: the slower one may write over, or remove, the record of a repository created in between
  (`ref/manager.go:244`, `:322`), which is the exception in `CreationsKept`. For as long as its cache entry lives,
  a deleted repository is found (`design/open/repository-operations-error-handling.md:139`).
* Branch ownership: nobody who sleeps is told of a release, and who loses a race sleeps for the expiry of its own message (`mc_owner.go:236`), so a wait may be longer
  than the configuration says (`AcquiredInTime`); a refresh between the release and the end of the refresher owns the name again for a whole interval.
* Concurrent opens of files of one name in two namespaces share one download, which brings only one of the files (`tier_fs.go:378`). A file that
  cannot be opened after its download is not given to the eviction policy (`tier_fs.go:370`). A panic in the function of `OnlyOne` leaves
  its channel open for ever (`only_one.go:35`).
* Garbage collection: only a page with rows tells where the files are, and the job takes the last answer (`catalog.go:2973`); a branch that is gone resets the count of
  the rows of its page (`gc_write_uncommitted.go:85-88`), and fails the call if it is the last one; the errors of the iterator of commits are hidden
  (`starting_point_iterator.go:68-73`). `NothingMissed` excepts what is lost this way.
* Garbage collection reads the branches one by one (`ref/branch_iterator.go:120-142`). A branch that is created behind the scan from one ahead of it which is deleted, or moved, before the scan comes
  there (so also a branch that is renamed to an earlier name), is in no list, and its objects that are old enough are removed. The same constructor returns
  no iterator and no error if the listing fails at its end: it returns `err`, which is nil there, and not `itr.Err()` (`ref/branch_iterator.go:137-139`).
* A server that stops after it has published a record, or that is told of a failure the store did not have, does not list the tokens the record let go of
  (`graveler.go:2380`, `dropTokens`): nobody empties them.

## What is not modelled

* Commits from a given meta-range and empty commits (`SourceMetaRange`, `AllowEmpty`) as requests of a branch. The compacted base
  of a branch: `protoFromBranch` never stores it, so no record has one.
* In `Graveler`, `DeleteBranch` looks the branch up and deletes it in one step (two accesses in the code, `ref/manager.go:481-487`; the second does not depend on
  what the first read), and `CreateBranch` starts the new branch at the first commit (any commit in the code; `GarbageCollection` has it from any).
* Hooks and branch protection: a refusal is `Stop`. Expiring caches, but for that of repositories.
* A crash of a server takes its wakeup events along; in `Graveler` requests stop and servers do not.
* Failures of the local file system, temporary files and directories in `TierFS`.
* In `Repositories`: tags, pull requests, metadata, several branches; the store's failures as such (a request that meets one is over).
* In `Committed`: errors of the store, ranges written by clients (`WriteRange`, `WriteMetaRange`), lookups and listings.
* In `GarbageCollection`: the length of requests (each takes less than a tick), commit dates that the API overrides, so that a commit may look older than its parent,
  repositories without rules, failures of the listing, reruns of a job; merges, imports and reverts, which bring entries of other commits to a head; a storage that does not tell
  when an object was last modified, for which a clone is checked by the date of its entry alone (`catalog.go:3026`). Branches that come and go while the *walk* runs do not
  matter, since it reads none.
* The merge base, the commit log, parsing of references: pure functions of records that never change. Everything of the last row of the table of parts.
  `PROJECT.json` lists every component with the reason.

## The plan

Done: the branch protocol with its proofs, up to that of acknowledged writes; the local tier with its proofs; ownership with its proofs; the executor and the life of repositories with its proofs;
committed data with the refinement of the three-way merge; garbage collection with its proofs.

What is left, in the order of what it would add:

1. `BranchView`: the abstract specification of a branch, a map from keys to values with atomic write,
   commit and reset, and `Graveler` shown to implement it for writes and commits.
2. Restarts of servers, more listed tokens than a round takes, and failures of single keys in `ResetPrefix`.
3. `MergeBase`: the finder on all small commit graphs, against the definition.
4. `OnlyOne` shown to implement a lock whose holder's answer all that wait receive.
5. Listings with delimiters and paging in the catalog, against the function they page through.
