---------------------------- MODULE Repositories ----------------------------
(***************************************************************************)
(* The life of the repositories of one name (pkg/graveler/ref/manager.go): *)
(* requests that create it, delete it, and update its default branch.  A   *)
(* repository is a record under its name and the entries of a partition    *)
(* named by its instance, a fresh identifier of each creation.  Records    *)
(* are read through a cache that expires, behind which concurrent misses   *)
(* are computed once (OnlyOne) and batched (Batch); branches are read in   *)
(* batches too, under a key that has the repository's name and not its     *)
(* instance.                                                               *)
(*                                                                         *)
(* All requests are served by one server, and so share the cache and the   *)
(* executor.  An instance is named by the request that makes it.           *)
(***************************************************************************)
EXTENDS FiniteSets, Batch

CONSTANTS Requests, \* API requests
          Tasks,    \* what they do: a set of functions
                    \* [Requests -> {"create", "delete", "update"}]
          Origin,   \* the instance that is there at first
          Nobody,   \* no request, no instance
          Mortal    \* requests whose own accesses to the store may fail

VARIABLES
    task,     \* what each request does
    repo,     \* the repository record
    part,     \* the partition of each instance
    cached,   \* the instance in the repository cache
    req,      \* the requests' local state
    found,    \* what the leader of a computation returned
    target,   \* the instance each deletion read
    since,    \* values the store has held since a client asked its executor
    inflight, answer, awaits \* of OnlyOne

Cache == INSTANCE OnlyOne WITH Goroutines <- Requests, LockKeys <- {"repo"}, NoOne <- Nobody

cacheVars == <<cached, found, inflight, answer, awaits>>
storeVars == <<repo, part>>
vars == <<task, storeVars, cacheVars, req, target, since, batchVars>>

ASSUME RepositoriesAssumption ==
    /\ Tasks \subseteq [Requests -> {"create", "delete", "update"}]
    /\ Origin \notin Requests /\ Nobody \notin Requests \cup {Origin}
    /\ Mortal \subseteq Requests
    /\ Clients = Requests
    /\ BatchKeys = {"repo", "branch"}

Instances == Requests \cup {Origin}

NoRepo  == [inst |-> Nobody, state |-> "none"]
Records == {NoRepo} \cup [inst : Instances, state : {"active", "deleting"}]

\* A branch record: the instance it was first made for, and its last writer.
NoBranch == [of |-> Nobody, by |-> Nobody]
Branches == {NoBranch} \cup [of : Instances, by : Instances]

\* What becomes of a request.
Over   == {"ok", "failed"}
Points == {"start", "compute", "follow", "repoWait", "forget", "commit", "branch", "record",
           "getBranch", "branchWait", "set", "mark", "purge", "drop"}
Workers == {"list", "wait", "remove", "done", "failed"}

Idle == [pc |-> "start", inst |-> Nobody, read |-> NoBranch, branches |-> "list", commits |-> FALSE]

TypeOK ==
    /\ repo \in Records
    /\ part \in [Instances -> [commit : BOOLEAN, branch : Branches]]
    /\ cached \in Instances \cup {Nobody}
    /\ req \in [Requests -> [pc : Points \cup Over, inst : Instances \cup {Nobody}, read : Branches,
                             branches : Workers, commits : BOOLEAN]]
    /\ found \in [Requests -> Records \cup {Failed}]
    /\ target \in [Requests -> Instances \cup {Nobody}]
    /\ Cache!OnlyOneTypeOK
    /\ BatchTypeOK
    /\ \A c \in Requests : batch[c] # <<>> => Head(batch[c]) = c

\* The repository is there; or it was deleted by an earlier request, is still
\* cached, and a branch was created in its partition after that.
Init ==
    /\ task \in Tasks
    /\ \E gone \in BOOLEAN :
          /\ repo = IF gone THEN NoRepo ELSE [inst |-> Origin, state |-> "active"]
          /\ part = [i \in Instances |->
                        IF i = Origin
                        THEN [commit |-> ~gone, branch |-> [of |-> Origin, by |-> Origin]]
                        ELSE [commit |-> FALSE, branch |-> NoBranch]]
    /\ cached = Origin
    /\ req = [g \in Requests |-> Idle]
    /\ found = [g \in Requests |-> NoRepo]
    /\ target = [g \in Requests |-> Nobody]
    /\ since = [g \in Requests |-> {}]
    /\ Cache!OnlyOneInit
    /\ BatchInit

-----------------------------------------------------------------------------
(* Steps.                                                                  *)

At(g, pc) == req[g].pc = pc
Go(g, pc) == req' = [req EXCEPT ![g].pc = pc]

\* A request that is over; what it held is of no more use.
Finish(g, outcome) == req' = [req EXCEPT ![g] = [Idle EXCEPT !.pc = outcome]]

\* What the store holds under the key a client has asked the executor for.
Held(k) == IF k = "repo" THEN {repo} ELSE {part[i].branch : i \in Instances}
Asked(g) == IF At(g, "repoWait") THEN "repo" ELSE "branch"
AsksExecutor(g) == At(g, "repoWait") \/ At(g, "branchWait") \/ req[g].branches = "wait"

\* The values since a client asked, the new ones included.
Witness == since' = [g \in Requests |->
               IF ~AsksExecutor(g)' THEN {}
               ELSE (IF AsksExecutor(g) THEN since[g] ELSE {}) \cup Held(Asked(g))']

-----------------------------------------------------------------------------
(* GetRepository, of requests that create or update.                       *)

\* What GetRepository's answer v means to the request: a creation goes on
\* if there is a repository, too, and leaves it to the write to fail.
Conclude(g, v) ==
    \/ /\ task[g] = "create"
       /\ v = NoRepo \/ v.state = "active"
       /\ Go(g, "commit")
    \/ /\ task[g] = "update"
       /\ v.state = "active"
       /\ req' = [req EXCEPT ![g].pc = "getBranch", ![g].inst = v.inst]
    \/ /\ v.state = "deleting" \/ (task[g] = "update" /\ v = NoRepo)
       /\ Finish(g, "failed")

LookUp(g) ==
    /\ task[g] # "delete"
    /\ At(g, "start")
    /\ IF cached = Nobody THEN Go(g, "compute")
       ELSE Conclude(g, [inst |-> cached, state |-> "active"])
    /\ UNCHANGED <<storeVars, cacheVars, batchVars, target>>

\* The first to miss asks the executor for the record.
LeadCompute(g) ==
    /\ At(g, "compute")
    /\ Cache!Lead(g, "repo")
    /\ Enqueue(g, "repo")
    /\ Go(g, "repoWait")
    /\ UNCHANGED <<storeVars, cached, found, target>>

\* An active record enters the cache; all who wait take the answer.
LeadHears(g) ==
    /\ At(g, "repoWait") /\ Hear(g)
    /\ found' = [found EXCEPT ![g] = reply[g]]
    /\ IF reply[g] # Failed /\ reply[g].state = "active"
       THEN cached' = reply[g].inst /\ Cache!Close(g, "ok")
       ELSE cached' = cached /\ Cache!Close(g, "failed")
    /\ Go(g, "forget")
    /\ UNCHANGED <<storeVars, target>>

Take(g, v) == IF v = Failed THEN Finish(g, "failed") ELSE Conclude(g, v)

LeadForgets(g) ==
    /\ At(g, "forget")
    /\ Cache!Forget("repo")
    /\ Take(g, found[g])
    /\ UNCHANGED <<storeVars, cached, found, target, batchVars>>

FollowCompute(g) ==
    /\ At(g, "compute")
    /\ Cache!Follow(g, "repo")
    /\ Go(g, "follow")
    /\ UNCHANGED <<storeVars, cached, found, target, batchVars>>

FollowerHears(g) ==
    /\ At(g, "follow")
    /\ Cache!Awaited(g) # "none"
    /\ Take(g, found[awaits[g]])
    /\ UNCHANGED <<storeVars, cacheVars, target, batchVars>>

GetRepository(g) ==
    \/ LookUp(g) \/ LeadCompute(g) \/ LeadHears(g) \/ LeadForgets(g)
    \/ FollowCompute(g) \/ FollowerHears(g)

\* The entry's time is over.
Expire ==
    /\ cached # Nobody
    /\ cached' = Nobody
    /\ UNCHANGED <<storeVars, found, inflight, answer, awaits, req, target, batchVars>>

-----------------------------------------------------------------------------
(* Steps that touch nothing but the store.                                 *)

StoreStep == UNCHANGED <<cacheVars, batchVars>>

\* Outcomes of a write that was carried out: the answer may be lost.
Told(g) == {"ok"} \cup IF g \in Mortal THEN {"failed"} ELSE {}

AddCommit(g) ==
    /\ At(g, "commit")
    /\ part' = [part EXCEPT ![g].commit = TRUE]
    /\ Go(g, "branch")
    /\ StoreStep /\ UNCHANGED <<repo, target>>

CreateBranch(g) ==
    /\ At(g, "branch")
    /\ part' = [part EXCEPT ![g].branch = [of |-> g, by |-> g]]
    /\ Go(g, "record")
    /\ StoreStep /\ UNCHANGED <<repo, target>>

\* A bug: the record is written whatever is there.
OverwriteRecord(g) ==
    /\ At(g, "record")
    /\ repo' = [inst |-> g, state |-> "active"]
    /\ \E outcome \in Told(g) : Finish(g, outcome)
    /\ StoreStep /\ UNCHANGED <<part, target>>

\* SetMsgIf with no predicate: only if there is no record.
CreateRecord(g) ==
    /\ At(g, "record")
    /\ \/ /\ repo = NoRepo
          /\ repo' = [inst |-> g, state |-> "active"]
          /\ \E outcome \in Told(g) : Finish(g, outcome)
       \/ /\ repo # NoRepo
          /\ Finish(g, "failed")
          /\ UNCHANGED repo
    /\ StoreStep /\ UNCHANGED <<part, target>>

CreateRepository(g) == AddCommit(g) \/ CreateBranch(g) \/ CreateRecord(g)

-----------------------------------------------------------------------------
(* DeleteRepository.                                                       *)

ReadRecord(g) ==
    /\ task[g] = "delete"
    /\ At(g, "start")
    /\ IF repo = NoRepo
       THEN Finish(g, "failed") /\ UNCHANGED target
       ELSE /\ req' = [req EXCEPT ![g].pc = IF repo.state = "active" THEN "mark" ELSE "purge",
                                  ![g].inst = repo.inst]
            /\ target' = [target EXCEPT ![g] = repo.inst]
    /\ StoreStep /\ UNCHANGED storeVars

\* A bug: the deletion begins with the repository in use.
MarkNothing(g) ==
    /\ At(g, "mark")
    /\ Go(g, "purge")
    /\ StoreStep /\ UNCHANGED <<storeVars, target>>

\* A bug: the state stays what it was.
MarkActive(g) ==
    /\ At(g, "mark")
    /\ repo' = [inst |-> req[g].inst, state |-> "active"]
    /\ Go(g, "purge")
    /\ StoreStep /\ UNCHANGED <<part, target>>

\* updateRepoState writes the record that was read over what is there.
Mark(g) ==
    /\ At(g, "mark")
    /\ repo' = [inst |-> req[g].inst, state |-> "deleting"]
    /\ Go(g, "purge")
    /\ StoreStep /\ UNCHANGED <<part, target>>

RemoveCommits(g) ==
    /\ At(g, "purge") /\ ~req[g].commits
    /\ part' = [part EXCEPT ![req[g].inst].commit = FALSE]
    /\ req' = [req EXCEPT ![g].commits = TRUE]
    /\ StoreStep /\ UNCHANGED <<repo, target>>

\* Each listed branch is read before it is deleted.
ListBranches(g) ==
    /\ At(g, "purge") /\ req[g].branches = "list"
    /\ IF part[req[g].inst].branch = NoBranch
       THEN req' = [req EXCEPT ![g].branches = "done"] /\ UNCHANGED batchVars
       ELSE req' = [req EXCEPT ![g].branches = "wait"] /\ Enqueue(g, "branch")
    /\ UNCHANGED <<storeVars, cacheVars, target>>

BranchKnown(g) ==
    /\ At(g, "purge") /\ req[g].branches = "wait" /\ Hear(g)
    /\ req' = [req EXCEPT ![g].branches = IF reply[g] \in {Failed, NoBranch} THEN "failed" ELSE "remove"]
    /\ UNCHANGED <<storeVars, cacheVars, target>>

RemoveBranch(g) ==
    /\ At(g, "purge") /\ req[g].branches = "remove"
    /\ part' = [part EXCEPT ![req[g].inst].branch = NoBranch]
    /\ req' = [req EXCEPT ![g].branches = "done"]
    /\ StoreStep /\ UNCHANGED <<repo, target>>

\* The workers are awaited.
EndPurge(g) ==
    /\ At(g, "purge") /\ req[g].commits
    /\ \/ req[g].branches = "done" /\ Go(g, "drop")
       \/ req[g].branches = "failed" /\ Finish(g, "failed")
    /\ StoreStep /\ UNCHANGED <<storeVars, target>>

DropRecord(g) ==
    /\ At(g, "drop")
    /\ repo' = NoRepo
    /\ \E outcome \in Told(g) : Finish(g, outcome)
    /\ StoreStep /\ UNCHANGED <<part, target>>

DeleteRepository(g) ==
    \/ ReadRecord(g) \/ Mark(g) \/ RemoveCommits(g)
    \/ ListBranches(g) \/ BranchKnown(g) \/ RemoveBranch(g)
    \/ EndPurge(g) \/ DropRecord(g)

-----------------------------------------------------------------------------
(* BranchUpdate.                                                           *)

AskBranch(g) ==
    /\ At(g, "getBranch")
    /\ Enqueue(g, "branch")
    /\ Go(g, "branchWait")
    /\ UNCHANGED <<storeVars, cacheVars, target>>

BranchRead(g) ==
    /\ At(g, "branchWait") /\ Hear(g)
    /\ IF reply[g] \in {Failed, NoBranch}
       THEN Finish(g, "failed")
       ELSE req' = [req EXCEPT ![g].pc = "set", ![g].read = reply[g]]
    /\ UNCHANGED <<storeVars, cacheVars, target>>

\* A bug: the predicate is only that there is a branch.
SetExisting(g) ==
    /\ At(g, "set")
    /\ LET i == req[g].inst
       IN IF part[i].branch # NoBranch
          THEN /\ part' = [part EXCEPT ![i].branch = [req[g].read EXCEPT !.by = g]]
               /\ \E outcome \in Told(g) : Finish(g, outcome)
          ELSE Finish(g, "failed") /\ UNCHANGED part
    /\ StoreStep /\ UNCHANGED <<repo, target>>

\* SetMsgIf: the branch of the request's own instance has to be what the
\* executor's answer was.
SetBranch(g) ==
    /\ At(g, "set")
    /\ LET i == req[g].inst
       IN IF part[i].branch = req[g].read
          THEN /\ part' = [part EXCEPT ![i].branch.by = g]
               /\ \E outcome \in Told(g) : Finish(g, outcome)
          ELSE Finish(g, "failed") /\ UNCHANGED part
    /\ StoreStep /\ UNCHANGED <<repo, target>>

BranchUpdate(g) == AskBranch(g) \/ BranchRead(g) \/ SetBranch(g)

-----------------------------------------------------------------------------

OnlyBatch == UNCHANGED <<storeVars, cacheVars, req, target>>

\* What the execution of a batch reads: the leader's instance is the one
\* whose branch is read for all of them.
Look(g) == IF At(g, "repoWait") THEN repo ELSE part[req[g].inst].branch

ExecuteBatch(g) ==
    /\ Execute(g, Look(g))
    /\ OnlyBatch

ExecuteFails(g) ==
    /\ g \in Mortal
    /\ Execute(g, Failed)
    /\ OnlyBatch

Loop == RunLoop /\ OnlyBatch
Timer(k) == TimerEnds(k) /\ OnlyBatch
Answering(g) == Reply(g) /\ OnlyBatch
Executor == Loop \/ (\E k \in BatchKeys : Timer(k)) \/ (\E g \in Requests : Answering(g))

Shutdown == Shut /\ OnlyBatch

\* The store fails a request, or its context is done.
Fail(g) ==
    /\ g \in Mortal
    /\ \/ /\ req[g].pc \in {"commit", "branch", "record", "mark", "drop", "set"}
          /\ Finish(g, "failed")
       \/ /\ At(g, "purge") /\ req[g].branches \in {"list", "remove"}
          /\ req' = [req EXCEPT ![g].branches = "failed"]
    /\ StoreStep /\ UNCHANGED <<storeVars, target>>

Request(g) ==
    \/ GetRepository(g) \/ CreateRepository(g) \/ DeleteRepository(g)
    \/ BranchUpdate(g) \/ ExecuteBatch(g)

\* What goes with every step.
Step(action) == action /\ Witness /\ UNCHANGED task

Next ==
    \/ \E g \in Requests : Step(Request(g) \/ ExecuteFails(g) \/ Fail(g))
    \/ Step(Executor)
    \/ Step(Expire)
    \/ Step(Shutdown)

Spec == Init /\ [][Next]_vars

\* Goroutines run: a request, the executor's loop, a timer or an execution
\* makes a step while any of them can.  Each has a bounded number of steps.
FairSpec == Spec /\ WF_vars(Step(Executor \/ \E g \in Requests : Request(g)))

-----------------------------------------------------------------------------
(* Properties.                                                             *)

Deletions == {g \in Requests : task[g] = "delete"}

\* "The Repository and its objects will be accessible only after a
\* successful creation of all 3 entities", and no longer than until their
\* deletion begins: an active record names a partition that has them
\* (CreateRepository, DeleteRepository).
ActiveMeansWhole ==
    repo.state = "active" => part[repo.inst].commit /\ part[repo.inst].branch # NoBranch

\* A creation that was acknowledged is in the record, unless a deletion read
\* it, or one read its predecessor and was then overtaken by another deletion
\* and the creation (createBareRepository, updateRepoState).
CreationsKept ==
    \A g \in Requests : (task[g] = "create" /\ At(g, "ok")) =>
        \/ repo = [inst |-> g, state |-> "active"]
        \/ \E d \in Deletions : target[d] = g
        \/ \E d, e \in Deletions : d # e /\ target[d] = target[e] /\ target[d] # Nobody

\* A repository whose deletion was acknowledged does not come back: its
\* record is not active again, though late deletions may write it again, and
\* a creation of its name gets a partition of its own (DeleteRepository).
DeletedStaysGone ==
    \A d \in Deletions : (At(d, "ok") /\ repo.state = "active") => repo.inst # target[d]

\* A batched answer is no older than the question: it is what the store held
\* under that key at some moment since the client asked, or an error
\* (Executor.Run, getRepositoryBatch, getBranchWithPredicate).
AnswersAreFresh ==
    \A g \in Requests : (AsksExecutor(g) /\ Replied(g)) => reply[g] \in since[g] \cup {Failed}

\* Requests of two instances may share the answer of one read of a branch;
\* still no branch is written into another instance's partition
\* (getBranchWithPredicate, BranchUpdate).
UpdatesStayHome ==
    \A i \in Instances : part[i].branch # NoBranch => part[i].branch.of = i

\* A client that waits is never lost: it has its answer, or is in a batch that
\* is executed, or is collected under a key whose timer will tell the running
\* loop, or is in the queue, which the loop reads until it has stopped
\* (BatchFor, Run).
WaitersKept ==
    \A g \in Requests : AsksExecutor(g) =>
        \/ Replied(g)
        \/ \E c \in Requests : Contains(batch[c], g)
        \/ /\ executor = "runs"
           /\ Contains(waitingOnKey[Asked(g)], g)
           /\ Asked(g) \in timers \/ Contains(execs, Asked(g))
        \/ \E n \in DOMAIN requests : requests[n] = [client |-> g, key |-> Asked(g)]

\* Unless the executor stops, every request ends (Compute, BatchFor).
RequestsEnd == <>(executor # "runs" \/ \A g \in Requests : req[g].pc \in Over)
=============================================================================
