--------------------------- MODULE RepositoryProofs ---------------------------
(* What is proved of Repositories and of the executor it goes through: for *)
(* any number of requests, whatever fails and however stale the answers.   *)
EXTENDS Repositories, TLAPS

Fields == {"pc", "inst", "read", "branches", "commits"}

\* A request's local state is a record; what it holds may be any answer.
Shape ==
    /\ req = [g \in Requests |-> req[g]]
    /\ \A g \in Requests : req[g] = [f \in Fields |-> req[g][f]]

LookingUp == {"start", "compute", "follow", "repoWait", "forget"}

\* Each request is at a point of its own program.
OwnProgram ==
    /\ task \in [Requests -> {"create", "delete", "update"}]
    /\ \A g \in Requests :
          /\ task[g] = "create" => req[g].pc \in LookingUp \cup Over \cup {"commit", "branch", "record"}
          /\ task[g] = "update" => req[g].pc \in LookingUp \cup Over \cup {"getBranch", "branchWait", "set"}
          /\ task[g] = "delete" => req[g].pc \in {"start", "mark", "purge", "drop"} \cup Over

StoreTypes ==
    /\ repo \in Records
    /\ part \in [Instances -> [commit : BOOLEAN, branch : Branches]]
    /\ target \in [Requests -> Instances \cup {Nobody}]

\* A deletion works on the instance it read, an update on a branch it read.
Aimed ==
    \A d \in Requests :
        /\ req[d].pc \in {"mark", "purge", "drop"} =>
              req[d].inst = target[d] /\ target[d] \in Instances
        /\ req[d].pc = "set" => req[d].read # NoBranch

\* The creation of the instance has ended.
Made(i) == i = Origin \/ (i \in Requests /\ req[i].pc \in Over)

\* Nobody has seen an instance that is not made.
SeenIsMade ==
    /\ repo # NoRepo => Made(repo.inst)
    /\ \A d \in Requests : target[d] \in Instances => Made(target[d])

\* A creation has what it has written.
Built ==
    \A g \in Requests :
        /\ req[g].pc \in {"branch", "record"} => part[g].commit
        /\ req[g].pc = "record" => part[g].branch # NoBranch

\* A deletion that began has taken its instance out of use for good.
Withdrawn ==
    \A d \in Requests : (task[d] = "delete" /\ req[d].pc \in {"purge", "drop", "ok"}) =>
        ~(repo.state = "active" /\ repo.inst = target[d])

LifeInv ==
    /\ Shape /\ OwnProgram /\ StoreTypes /\ Aimed
    /\ SeenIsMade /\ Built /\ Withdrawn
    /\ ActiveMeansWhole /\ UpdatesStayHome

-----------------------------------------------------------------------------
(* How the local state of a request changes.                               *)

\* Nobody's local state but that of g changes.
OnlyOf(g) == \A h \in Requests \ {g} : req'[h] = req[h]

LEMMA NewLocalState ==
    ASSUME Shape, NEW g \in Requests, NEW r, r = [f \in Fields |-> r[f]],
           req' = [req EXCEPT ![g] = r]
    PROVE  Shape' /\ OnlyOf(g) /\ req'[g] = r
BY DEF Shape, OnlyOf

LEMMA LocalPc ==
    ASSUME Shape, NEW g \in Requests, NEW x, Go(g, x)
    PROVE  Shape' /\ OnlyOf(g) /\ req'[g].pc = x /\ req'[g].inst = req[g].inst
<1> DEFINE r == [req[g] EXCEPT !.pc = x]
<1>1. r = [f \in Fields |-> r[f]] /\ r.pc = x /\ r.inst = req[g].inst
    BY DEF Shape, Fields
<1>2. req' = [req EXCEPT ![g] = r]
    BY DEF Go, Shape
<1>3. QED
    <2> HIDE DEF r
    <2>1. QED
        BY <1>1, <1>2, NewLocalState

LEMMA LocalEnd ==
    ASSUME Shape, NEW g \in Requests, NEW x, Finish(g, x)
    PROVE  Shape' /\ OnlyOf(g) /\ req'[g].pc = x
<1> DEFINE r == [Idle EXCEPT !.pc = x]
<1>1. r = [f \in Fields |-> r[f]] /\ r.pc = x
    BY DEF Idle, Fields
<1>2. req' = [req EXCEPT ![g] = r]
    BY DEF Finish
<1>3. QED
    <2> HIDE DEF r
    <2>1. QED
        BY <1>1, <1>2, NewLocalState

LEMMA LocalPcInst ==
    ASSUME Shape, NEW g \in Requests, NEW x, NEW y,
           req' = [req EXCEPT ![g].pc = x, ![g].inst = y]
    PROVE  Shape' /\ OnlyOf(g) /\ req'[g].pc = x /\ req'[g].inst = y
<1> DEFINE r == [req[g] EXCEPT !.pc = x, !.inst = y]
<1>1. r = [f \in Fields |-> r[f]] /\ r.pc = x /\ r.inst = y
    BY DEF Shape, Fields
<1>2. req' = [req EXCEPT ![g] = r]
    BY DEF Shape
<1>3. QED
    <2> HIDE DEF r
    <2>1. QED
        BY <1>1, <1>2, NewLocalState

LEMMA LocalPcRead ==
    ASSUME Shape, NEW g \in Requests, NEW x, NEW y,
           req' = [req EXCEPT ![g].pc = x, ![g].read = y]
    PROVE  Shape' /\ OnlyOf(g) /\ req'[g].pc = x /\ req'[g].read = y
<1> DEFINE r == [req[g] EXCEPT !.pc = x, !.read = y]
<1>1. r = [f \in Fields |-> r[f]] /\ r.pc = x /\ r.read = y
    BY DEF Shape, Fields
<1>2. req' = [req EXCEPT ![g] = r]
    BY DEF Shape
<1>3. QED
    <2> HIDE DEF r
    <2>1. QED
        BY <1>1, <1>2, NewLocalState

LEMMA LocalWorker ==
    ASSUME Shape, NEW g \in Requests, NEW x,
           req' = [req EXCEPT ![g].branches = x] \/ req' = [req EXCEPT ![g].commits = x]
    PROVE  /\ Shape' /\ OnlyOf(g)
           /\ req'[g].pc = req[g].pc /\ req'[g].inst = req[g].inst /\ req'[g].read = req[g].read
<1> DEFINE r == [req[g] EXCEPT !.branches = x]
           q == [req[g] EXCEPT !.commits = x]
<1>1. /\ r = [f \in Fields |-> r[f]] /\ q = [f \in Fields |-> q[f]]
      /\ \A f \in {"pc", "inst", "read"} : r[f] = req[g][f] /\ q[f] = req[g][f]
    BY DEF Shape, Fields
<1>2. req' = [req EXCEPT ![g] = r] \/ req' = [req EXCEPT ![g] = q]
    BY DEF Shape
<1>3. QED
    <2> HIDE DEF r, q
    <2>1. QED
        BY <1>1, <1>2, NewLocalState

Deleting == {"mark", "purge", "drop"}

\* A step that neither begins a deletion nor acknowledges a creation, and
\* leaves the record alone.
Settled(g) ==
    /\ OnlyOf(g) /\ UNCHANGED <<task, repo, target>>
    /\ task[g] = "create" /\ req'[g].pc = "ok" => req[g].pc = "ok"
    /\ task[g] = "delete" =>
          /\ req'[g].pc \in Deleting => req[g].pc \in Deleting
          /\ req'[g].pc = "start" => req[g].pc = "start"

-----------------------------------------------------------------------------
(* Steps that change no more than where one request is.                    *)

\* The points a request gets to without a write.
Onward(g) ==
    LookingUp \cup CASE task[g] = "create" -> {"commit"}
                      [] task[g] = "update" -> {"getBranch", "branchWait", "set"}
                      [] OTHER -> {}

Quiet(g) ==
    /\ Shape' /\ OnlyOf(g)
    /\ req[g].pc \notin Over
    /\ \/ \A f \in {"pc", "inst", "read"} : req'[g][f] = req[g][f]
       \/ req'[g].pc = "failed"
       \/ task[g] # "delete" /\ req'[g].pc \in Onward(g)
    /\ req'[g].pc = "set" => req'[g].read # NoBranch
    /\ UNCHANGED <<task, storeVars, target>>

LEMMA QuietKeeps ==
    ASSUME LifeInv, NEW g \in Requests, Quiet(g)
    PROVE  LifeInv' /\ Settled(g)
<1> USE DEF LifeInv
<1>1. \A h \in Requests : req[h].pc \in Over => req'[h].pc \in Over
    BY DEF Quiet, OnlyOf
<1>2. \A h \in Requests : req'[h].pc \in {"branch", "record", "mark", "purge", "drop", "ok"} =>
          req'[h].pc = req[h].pc /\ req'[h].inst = req[h].inst
    BY DEF Quiet, OnlyOf, Onward, LookingUp, Over
<1>3. Shape'
    BY DEF Quiet
<1>4. OwnProgram'
    BY DEF Quiet, OnlyOf, OwnProgram, Onward, LookingUp, Over
<1>5. StoreTypes'
    BY DEF Quiet, StoreTypes, storeVars
<1>6. Aimed'
    BY <1>2 DEF Quiet, OnlyOf, Aimed
<1>7. SeenIsMade'
    BY <1>1 DEF Quiet, SeenIsMade, Made, storeVars
<1>8. Built'
    BY <1>2 DEF Quiet, Built, storeVars
<1>9. Withdrawn'
    BY <1>2 DEF Quiet, Withdrawn, storeVars
<1>10. (ActiveMeansWhole /\ UpdatesStayHome)'
    BY DEF Quiet, ActiveMeansWhole, UpdatesStayHome, storeVars
<1>11. Settled(g)
    BY DEF Quiet, Settled, OwnProgram, Onward, LookingUp, Over, Deleting, storeVars
<1>12. QED
    BY <1>3, <1>4, <1>5, <1>6, <1>7, <1>8, <1>9, <1>10, <1>11

\* What GetRepository's answer leads to.
LEMMA ConcludeIsQuiet ==
    ASSUME LifeInv, NEW g \in Requests, NEW v, Conclude(g, v),
           req[g].pc \in LookingUp, UNCHANGED <<task, storeVars, target>>, task[g] # "delete"
    PROVE  Quiet(g)
<1> USE DEF LifeInv
<1>1. CASE task[g] = "create" /\ Go(g, "commit")
    BY <1>1, LocalPc DEF Quiet, Onward, LookingUp, Over
<1>2. CASE task[g] = "update" /\ req' = [req EXCEPT ![g].pc = "getBranch", ![g].inst = v.inst]
    <2> DEFINE i == v.inst
    <2>1. Shape' /\ OnlyOf(g) /\ req'[g].pc = "getBranch"
        <3>1. req' = [req EXCEPT ![g].pc = "getBranch", ![g].inst = i]
            BY <1>2
        <3>2. QED
            <4> HIDE DEF i
            <4>1. QED
                BY <3>1, LocalPcInst
    <2>2. QED
        BY <1>2, <2>1 DEF Quiet, Onward, LookingUp, Over
<1>3. CASE Finish(g, "failed")
    BY <1>3, LocalEnd DEF Quiet, LookingUp, Over
<1>4. QED
    BY <1>1, <1>2, <1>3 DEF Conclude

LEMMA GetRepositoryIsQuiet ==
    ASSUME LifeInv, NEW g \in Requests, GetRepository(g), task' = task
    PROVE  Quiet(g)
<1> USE DEF LifeInv
<1>1. ASSUME NEW v, Take(g, v), req[g].pc \in {"forget", "follow"}, UNCHANGED <<storeVars, target>>
      PROVE  Quiet(g)
    <2>1. task[g] # "delete" /\ req[g].pc \in LookingUp
        BY <1>1 DEF OwnProgram, LookingUp, Over
    <2>2. CASE Finish(g, "failed")
        BY <1>1, <2>1, <2>2, LocalEnd DEF Quiet, LookingUp, Over
    <2>3. CASE Conclude(g, v)
        BY <1>1, <2>1, <2>3, ConcludeIsQuiet
    <2>4. QED
        BY <1>1, <2>2, <2>3 DEF Take
<1>2. CASE LookUp(g)
    <2>1. CASE Go(g, "compute")
        BY <1>2, <2>1, LocalPc DEF LookUp, Quiet, Onward, LookingUp, Over, At
    <2>2. CASE Conclude(g, [inst |-> cached, state |-> "active"])
        BY <1>2, <2>2, ConcludeIsQuiet DEF LookUp, LookingUp, At
    <2>3. QED
        BY <1>2, <2>1, <2>2 DEF LookUp
<1>3. CASE LeadCompute(g)
    <2>1. task[g] # "delete" /\ req[g].pc \notin Over
        BY <1>3 DEF LeadCompute, At, OwnProgram, Over
    <2>2. QED
        BY <1>3, <2>1, LocalPc DEF LeadCompute, Quiet, Onward, LookingUp
<1>4. CASE LeadHears(g)
    <2>1. task[g] # "delete" /\ req[g].pc \notin Over
        BY <1>4 DEF LeadHears, At, OwnProgram, Over
    <2>2. QED
        BY <1>4, <2>1, LocalPc DEF LeadHears, Quiet, Onward, LookingUp
<1>5. CASE LeadForgets(g)
    BY <1>1, <1>5 DEF LeadForgets, At
<1>6. CASE FollowCompute(g)
    <2>1. task[g] # "delete" /\ req[g].pc \notin Over
        BY <1>6 DEF FollowCompute, At, OwnProgram, Over
    <2>2. QED
        BY <1>6, <2>1, LocalPc DEF FollowCompute, Quiet, Onward, LookingUp
<1>7. CASE FollowerHears(g)
    BY <1>1, <1>7 DEF FollowerHears, At
<1>8. QED
    BY <1>2, <1>3, <1>4, <1>5, <1>6, <1>7 DEF GetRepository

-----------------------------------------------------------------------------
(* Steps that write.                                                       *)

LEMMA AddCommitKeeps ==
    ASSUME LifeInv, NEW g \in Requests, AddCommit(g), task' = task
    PROVE  LifeInv' /\ Settled(g)
<1> USE DEF LifeInv
<1>1. /\ Shape' /\ OnlyOf(g) /\ req[g].pc = "commit" /\ req'[g].pc = "branch"
      /\ repo' = repo /\ target' = target /\ task' = task
      /\ part' = [part EXCEPT ![g].commit = TRUE] /\ task[g] = "create"
    <2>1. /\ req[g].pc = "commit" /\ repo' = repo /\ target' = target
          /\ part' = [part EXCEPT ![g].commit = TRUE] /\ Go(g, "branch")
        BY DEF AddCommit, At
    <2>2. Shape' /\ OnlyOf(g) /\ req'[g].pc = "branch"
        BY <2>1, LocalPc
    <2>3. task[g] = "create"
        BY <2>1 DEF OwnProgram, LookingUp, Over
    <2>4. QED
        BY <2>1, <2>2, <2>3
<1>2. /\ part' \in [Instances -> [commit : BOOLEAN, branch : Branches]]
      /\ part'[g].commit
      /\ \A i \in Instances : /\ part'[i].branch = part[i].branch
                              /\ part[i].commit => part'[i].commit
    BY <1>1 DEF StoreTypes, Instances
<1>3. OwnProgram'
    BY <1>1 DEF OnlyOf, OwnProgram, LookingUp, Over
<1>4. StoreTypes'
    BY <1>1, <1>2 DEF StoreTypes
<1>5. Aimed' /\ Withdrawn'
    BY <1>1 DEF OnlyOf, Aimed, Withdrawn
<1>6. SeenIsMade'
    BY <1>1 DEF OnlyOf, SeenIsMade, Made, Over
<1>7. Built'
    BY <1>1, <1>2 DEF OnlyOf, Built, Instances
<1>8. (ActiveMeansWhole /\ UpdatesStayHome)'
    BY <1>1, <1>2 DEF ActiveMeansWhole, UpdatesStayHome, StoreTypes, Records, NoRepo
<1>9. Settled(g)
    BY <1>1 DEF Settled
<1>10. QED
    BY <1>1, <1>3, <1>4, <1>5, <1>6, <1>7, <1>8, <1>9

LEMMA CreateBranchKeeps ==
    ASSUME LifeInv, NEW g \in Requests, CreateBranch(g), task' = task
    PROVE  LifeInv' /\ Settled(g)
<1> USE DEF LifeInv
<1>1. /\ Shape' /\ OnlyOf(g) /\ req[g].pc = "branch" /\ req'[g].pc = "record"
      /\ repo' = repo /\ target' = target /\ task' = task
      /\ part' = [part EXCEPT ![g].branch = [of |-> g, by |-> g]] /\ task[g] = "create"
    <2>1. /\ req[g].pc = "branch" /\ repo' = repo /\ target' = target
          /\ part' = [part EXCEPT ![g].branch = [of |-> g, by |-> g]] /\ Go(g, "record")
        BY DEF CreateBranch, At
    <2>2. Shape' /\ OnlyOf(g) /\ req'[g].pc = "record"
        BY <2>1, LocalPc
    <2>3. task[g] = "create"
        BY <2>1 DEF OwnProgram, LookingUp, Over
    <2>4. QED
        BY <2>1, <2>2, <2>3
<1>2. [of |-> g, by |-> g] \in Branches /\ [of |-> g, by |-> g] # NoBranch
    BY RepositoriesAssumption DEF Branches, NoBranch, Instances
<1>3. /\ part' \in [Instances -> [commit : BOOLEAN, branch : Branches]]
      /\ part'[g].branch = [of |-> g, by |-> g]
      /\ \A i \in Instances : /\ part'[i].commit = part[i].commit
                              /\ i # g => part'[i] = part[i]
    BY <1>1, <1>2 DEF StoreTypes, Instances
<1>4. OwnProgram'
    BY <1>1 DEF OnlyOf, OwnProgram, LookingUp, Over
<1>5. StoreTypes'
    BY <1>1, <1>3 DEF StoreTypes
<1>6. Aimed' /\ Withdrawn'
    BY <1>1 DEF OnlyOf, Aimed, Withdrawn
<1>7. SeenIsMade'
    BY <1>1 DEF OnlyOf, SeenIsMade, Made, Over
<1>8. Built'
    BY <1>1, <1>2, <1>3 DEF OnlyOf, Built, Instances
<1>9. ActiveMeansWhole'
    BY <1>1, <1>2, <1>3 DEF ActiveMeansWhole, StoreTypes, Records, NoRepo
<1>10. UpdatesStayHome'
    BY <1>3 DEF UpdatesStayHome
<1>11. Settled(g)
    BY <1>1 DEF Settled
<1>12. QED
    BY <1>1, <1>4, <1>5, <1>6, <1>7, <1>8, <1>9, <1>10, <1>11

LEMMA CreateRecordKeeps ==
    ASSUME LifeInv, NEW g \in Requests, CreateRecord(g), task' = task
    PROVE  LifeInv'
<1> USE DEF LifeInv
<1>1. /\ req[g].pc = "record" /\ UNCHANGED <<task, part, target>>
      /\ \/ repo' = [inst |-> g, state |-> "active"]
         \/ repo' = repo
    BY DEF CreateRecord, At
<1>2. PICK x \in Over : Finish(g, x)
    BY DEF CreateRecord, Told, Over
<1>3. Shape' /\ OnlyOf(g) /\ req'[g].pc \in Over
    BY <1>2, LocalEnd
<1>4. task[g] = "create"
    BY <1>1 DEF OwnProgram, LookingUp, Over
<1>5. OwnProgram'
    BY <1>1, <1>3, <1>4 DEF OnlyOf, OwnProgram
<1>6. StoreTypes'
    BY <1>1 DEF StoreTypes, Records, Instances
<1>7. Aimed'
    BY <1>1, <1>3 DEF OnlyOf, Aimed, Over
<1>8. SeenIsMade'
    BY <1>1, <1>3 DEF OnlyOf, SeenIsMade, Made
<1>9. Built'
    BY <1>1, <1>3 DEF OnlyOf, Built, Over
<1>10. \A d \in Requests : target[d] # g
    BY <1>1, RepositoriesAssumption DEF SeenIsMade, Made, Instances, Over
<1>11. Withdrawn'
    BY <1>1, <1>3, <1>4, <1>10 DEF OnlyOf, Withdrawn
<1>12. (ActiveMeansWhole /\ UpdatesStayHome)'
    BY <1>1 DEF ActiveMeansWhole, UpdatesStayHome, Built
<1>13. QED
    BY <1>3, <1>5, <1>6, <1>7, <1>8, <1>9, <1>11, <1>12

LEMMA SetBranchKeeps ==
    ASSUME LifeInv, NEW g \in Requests, SetBranch(g), task' = task
    PROVE  LifeInv' /\ Settled(g)
<1> USE DEF LifeInv
<1> DEFINE i == req[g].inst
<1>1. /\ req[g].pc = "set" /\ UNCHANGED <<task, repo, target>>
      /\ part' = part \/ (part[i].branch # NoBranch /\ part' = [part EXCEPT ![i].branch.by = g])
    BY DEF SetBranch, At, Aimed
<1>2. PICK x \in Over : Finish(g, x)
    BY DEF SetBranch, Told, Over
<1>3. Shape' /\ OnlyOf(g) /\ req'[g].pc \in Over
    BY <1>2, LocalEnd
<1>4. /\ part' \in [Instances -> [commit : BOOLEAN, branch : Branches]]
      /\ \A j \in Instances : /\ part'[j].commit = part[j].commit
                              /\ part[j].branch # NoBranch <=> part'[j].branch # NoBranch
                              /\ part'[j].branch.of = part[j].branch.of
    <2> HIDE DEF i
    <2>1. CASE part[i].branch # NoBranch /\ part' = [part EXCEPT ![i].branch.by = g]
        <3>1. CASE i \in Instances
            <4>1. part[i] \in [commit : BOOLEAN, branch : Branches] /\ part[i].branch \in [of : Instances, by : Instances]
                BY <2>1, <3>1 DEF StoreTypes, Branches
            <4>2. part'[i] = [part[i] EXCEPT !.branch = [part[i].branch EXCEPT !.by = g]]
                BY <2>1, <3>1 DEF StoreTypes
            <4>3. [part[i].branch EXCEPT !.by = g] \in [of : Instances, by : Instances]
                BY <4>1 DEF Instances
            <4>4. \A b \in [of : Instances, by : Instances] : b # NoBranch
                BY RepositoriesAssumption DEF Instances, NoBranch
            <4>5. part'[i] \in [commit : BOOLEAN, branch : Branches]
                BY <4>1, <4>2, <4>3 DEF Branches
            <4>6. \A j \in Instances \ {i} : part'[j] = part[j]
                BY <2>1 DEF StoreTypes
            <4>7. part' \in [Instances -> [commit : BOOLEAN, branch : Branches]]
                BY <2>1, <4>5, <4>6 DEF StoreTypes
            <4>8. /\ part'[i].commit = part[i].commit
                  /\ part'[i].branch # NoBranch
                  /\ part'[i].branch.of = part[i].branch.of
                BY <4>1, <4>2, <4>3, <4>4
            <4>9. QED
                BY <2>1, <4>6, <4>7, <4>8
        <3>2. CASE i \notin Instances
            BY <2>1, <3>2 DEF StoreTypes
        <3>3. QED
            BY <3>1, <3>2
    <2>2. QED
        BY <1>1, <2>1 DEF StoreTypes
<1>5. OwnProgram'
    BY <1>1, <1>3 DEF OnlyOf, OwnProgram
<1>6. StoreTypes'
    BY <1>1, <1>4 DEF StoreTypes
<1>7. Aimed'
    BY <1>1, <1>3 DEF OnlyOf, Aimed, Over
<1>8. SeenIsMade'
    BY <1>1, <1>3 DEF OnlyOf, SeenIsMade, Made
<1>9. Built'
    BY <1>1, <1>3, <1>4 DEF OnlyOf, Built, Over, Instances
<1>10. task[g] = "update"
    BY <1>1 DEF OwnProgram, LookingUp, Over
<1>11. Withdrawn'
    BY <1>1, <1>3, <1>10 DEF OnlyOf, Withdrawn
<1>12. ActiveMeansWhole'
    BY <1>1, <1>4 DEF ActiveMeansWhole, StoreTypes, Records, NoRepo
<1>13. UpdatesStayHome'
    BY <1>4 DEF UpdatesStayHome
<1>14. Settled(g)
    BY <1>1, <1>3, <1>10 DEF Settled
<1>15. QED
    BY <1>3, <1>5, <1>6, <1>7, <1>8, <1>9, <1>11, <1>12, <1>13, <1>14

LEMMA ReadRecordKeeps ==
    ASSUME LifeInv, NEW g \in Requests, ReadRecord(g), task' = task
    PROVE  LifeInv'
<1> USE DEF LifeInv
<1>1. /\ UNCHANGED <<task, repo, part>> /\ task[g] = "delete" /\ req[g].pc = "start"
    BY DEF ReadRecord, storeVars, At
<1>2. CASE Finish(g, "failed") /\ target' = target
    BY <1>1, <1>2, LocalEnd, QuietKeeps DEF Quiet, storeVars, Over
<1>3. CASE /\ repo # NoRepo
           /\ req' = [req EXCEPT ![g].pc = IF repo.state = "active" THEN "mark" ELSE "purge",
                                 ![g].inst = repo.inst]
           /\ target' = [target EXCEPT ![g] = repo.inst]
    <2> DEFINE x == IF repo.state = "active" THEN "mark" ELSE "purge"
               i == repo.inst
    <2>1. i \in Instances /\ x \in {"mark", "purge"} /\ (x = "purge" => repo.state # "active")
        BY <1>3 DEF StoreTypes, Records
    <2>2. Shape' /\ OnlyOf(g) /\ req'[g].pc = x /\ req'[g].inst = i
        <3>1. req' = [req EXCEPT ![g].pc = x, ![g].inst = i]
            BY <1>3
        <3>2. QED
            <4> HIDE DEF x, i
            <4>1. QED
                BY <3>1, LocalPcInst
    <2>3. target'[g] = i /\ \A h \in Requests \ {g} : target'[h] = target[h]
        BY <1>3 DEF StoreTypes
    <2>4. target' \in [Requests -> Instances \cup {Nobody}]
        BY <1>3, <2>1 DEF StoreTypes
    <2>5. Made(i)
        BY <1>3 DEF SeenIsMade
    <2> HIDE DEF x
    <2>6. OwnProgram'
        BY <1>1, <2>1, <2>2 DEF OnlyOf, OwnProgram
    <2>7. StoreTypes'
        BY <1>1, <2>4 DEF StoreTypes
    <2>8. Aimed'
        BY <2>1, <2>2, <2>3 DEF OnlyOf, Aimed
    <2>9. SeenIsMade'
        BY <1>1, <2>2, <2>3, <2>5 DEF OnlyOf, SeenIsMade, Made, Over
    <2>10. Built'
        BY <1>1, <2>1, <2>2 DEF OnlyOf, Built
    <2>11. Withdrawn'
        BY <1>1, <2>1, <2>2, <2>3 DEF OnlyOf, Withdrawn
    <2>12. (ActiveMeansWhole /\ UpdatesStayHome)'
        BY <1>1 DEF ActiveMeansWhole, UpdatesStayHome
    <2>13. QED
        BY <2>2, <2>6, <2>7, <2>8, <2>9, <2>10, <2>11, <2>12
<1>4. QED
    BY <1>2, <1>3 DEF ReadRecord

LEMMA MarkKeeps ==
    ASSUME LifeInv, NEW g \in Requests, Mark(g), task' = task
    PROVE  LifeInv'
<1> USE DEF LifeInv
<1>1. /\ UNCHANGED <<task, part, target>> /\ req[g].pc = "mark"
      /\ repo' = [inst |-> req[g].inst, state |-> "deleting"] /\ Go(g, "purge")
    BY DEF Mark, At
<1>2. Shape' /\ OnlyOf(g) /\ req'[g].pc = "purge" /\ req'[g].inst = req[g].inst
    BY <1>1, LocalPc
<1>3. req[g].inst = target[g] /\ target[g] \in Instances
    BY <1>1 DEF Aimed
<1>4. OwnProgram'
    BY <1>1, <1>2 DEF OnlyOf, OwnProgram, LookingUp, Over
<1>5. StoreTypes'
    BY <1>1, <1>3 DEF StoreTypes, Records
<1>6. Aimed'
    BY <1>1, <1>2 DEF OnlyOf, Aimed
<1>7. SeenIsMade'
    BY <1>1, <1>2, <1>3 DEF OnlyOf, SeenIsMade, Made, Over
<1>8. Built'
    BY <1>1, <1>2 DEF OnlyOf, Built
<1>9. Withdrawn' /\ (ActiveMeansWhole /\ UpdatesStayHome)'
    BY <1>1 DEF Withdrawn, ActiveMeansWhole, UpdatesStayHome
<1>10. QED
    BY <1>2, <1>4, <1>5, <1>6, <1>7, <1>8, <1>9

\* A step of a deletion that removes nothing but parts of its own instance.
Purging(g) ==
    /\ Shape' /\ OnlyOf(g)
    /\ req[g].pc = "purge"
    /\ \/ req'[g].pc \in {"purge", "drop"} /\ req'[g].inst = req[g].inst
       \/ req'[g].pc = "failed"
    /\ UNCHANGED <<task, repo, target>>
    /\ part' \in [Instances -> [commit : BOOLEAN, branch : Branches]]
    /\ \A i \in Instances : /\ i # target[g] => part'[i] = part[i]
                            /\ part'[i].branch \in {part[i].branch, NoBranch}

LEMMA PurgingKeeps ==
    ASSUME LifeInv, NEW g \in Requests, Purging(g)
    PROVE  LifeInv' /\ Settled(g)
<1> USE DEF LifeInv
<1>1. task[g] = "delete" /\ target[g] \in Instances /\ Made(target[g])
    BY DEF Purging, OwnProgram, Aimed, SeenIsMade, LookingUp, Over
<1>2. Shape'
    BY DEF Purging
<1>3. OwnProgram'
    BY <1>1 DEF Purging, OnlyOf, OwnProgram, LookingUp, Over
<1>4. StoreTypes'
    BY DEF Purging, StoreTypes
<1>5. Aimed'
    BY DEF Purging, OnlyOf, Aimed
<1>6. SeenIsMade'
    BY DEF Purging, OnlyOf, SeenIsMade, Made, Over
<1>7. Built'
    <2>1. \A h \in Requests : req'[h].pc \in {"branch", "record"} =>
              h # target[g] /\ req[h].pc = req'[h].pc
        BY <1>1, RepositoriesAssumption DEF Purging, OnlyOf, Made, Over
    <2>2. QED
        BY <2>1 DEF Purging, Built, Instances
<1>8. Withdrawn'
    BY DEF Purging, OnlyOf, Withdrawn
<1>9. ActiveMeansWhole'
    BY <1>1 DEF Purging, ActiveMeansWhole, Withdrawn, StoreTypes, Records, NoRepo
<1>10. UpdatesStayHome'
    BY DEF Purging, UpdatesStayHome
<1>11. Settled(g)
    BY <1>1 DEF Purging, Settled, Deleting
<1>12. QED
    BY <1>2, <1>3, <1>4, <1>5, <1>6, <1>7, <1>8, <1>9, <1>10, <1>11

LEMMA RemoveCommitsKeeps ==
    ASSUME LifeInv, NEW g \in Requests, RemoveCommits(g), task' = task
    PROVE  LifeInv' /\ Settled(g)
<1> USE DEF LifeInv
<1> DEFINE i == req[g].inst
<1>1. /\ UNCHANGED <<task, repo, target>> /\ req[g].pc = "purge"
      /\ part' = [part EXCEPT ![i].commit = FALSE]
      /\ req' = [req EXCEPT ![g].commits = TRUE]
    BY DEF RemoveCommits, At
<1>2. Shape' /\ OnlyOf(g) /\ req'[g].pc = req[g].pc /\ req'[g].inst = i
    BY <1>1, LocalWorker
<1>3. i = target[g] /\ i \in Instances
    BY <1>1 DEF Aimed
<1>4. /\ part' \in [Instances -> [commit : BOOLEAN, branch : Branches]]
      /\ \A j \in Instances : /\ j # i => part'[j] = part[j]
                              /\ part'[j].branch = part[j].branch
    <2> HIDE DEF i
    <2>1. QED
        BY <1>1, <1>3 DEF StoreTypes
<1>5. Purging(g)
    BY <1>1, <1>2, <1>3, <1>4 DEF Purging
<1>6. QED
    BY <1>5, PurgingKeeps

LEMMA RemoveBranchKeeps ==
    ASSUME LifeInv, NEW g \in Requests, RemoveBranch(g), task' = task
    PROVE  LifeInv' /\ Settled(g)
<1> USE DEF LifeInv
<1> DEFINE i == req[g].inst
<1>1. /\ UNCHANGED <<task, repo, target>> /\ req[g].pc = "purge"
      /\ part' = [part EXCEPT ![i].branch = NoBranch]
      /\ req' = [req EXCEPT ![g].branches = "done"]
    BY DEF RemoveBranch, At
<1>2. Shape' /\ OnlyOf(g) /\ req'[g].pc = req[g].pc /\ req'[g].inst = i
    BY <1>1, LocalWorker
<1>3. i = target[g] /\ i \in Instances
    BY <1>1 DEF Aimed
<1>4. /\ part' \in [Instances -> [commit : BOOLEAN, branch : Branches]]
      /\ \A j \in Instances : /\ j # i => part'[j] = part[j]
                              /\ part'[j].branch \in {part[j].branch, NoBranch}
    <2> HIDE DEF i
    <2>1. NoBranch \in Branches
        BY DEF Branches
    <2>2. QED
        BY <1>1, <1>3, <2>1 DEF StoreTypes
<1>5. Purging(g)
    BY <1>1, <1>2, <1>3, <1>4 DEF Purging
<1>6. QED
    BY <1>5, PurgingKeeps

LEMMA EndPurgeKeeps ==
    ASSUME LifeInv, NEW g \in Requests, EndPurge(g), task' = task
    PROVE  LifeInv' /\ Settled(g)
<1> USE DEF LifeInv
<1>1. /\ UNCHANGED <<task, repo, part, target>> /\ req[g].pc = "purge"
      /\ Go(g, "drop") \/ Finish(g, "failed")
    BY DEF EndPurge, At, storeVars
<1>2. /\ Shape' /\ OnlyOf(g)
      /\ \/ req'[g].pc = "drop" /\ req'[g].inst = req[g].inst
         \/ req'[g].pc = "failed"
    BY <1>1, LocalPc, LocalEnd
<1>3. Purging(g)
    BY <1>1, <1>2 DEF Purging, StoreTypes
<1>4. QED
    BY <1>3, PurgingKeeps

LEMMA DropRecordKeeps ==
    ASSUME LifeInv, NEW g \in Requests, DropRecord(g), task' = task
    PROVE  LifeInv'
<1> USE DEF LifeInv
<1>1. UNCHANGED <<task, part, target>> /\ req[g].pc = "drop" /\ repo' = NoRepo
    BY DEF DropRecord, At
<1>2. PICK x \in Over : Finish(g, x)
    BY DEF DropRecord, Told, Over
<1>3. Shape' /\ OnlyOf(g) /\ req'[g].pc \in Over
    BY <1>2, LocalEnd
<1>4. OwnProgram'
    BY <1>1, <1>3 DEF OnlyOf, OwnProgram
<1>5. StoreTypes'
    BY <1>1 DEF StoreTypes, Records
<1>6. Aimed'
    BY <1>1, <1>3 DEF OnlyOf, Aimed, Over
<1>7. SeenIsMade'
    BY <1>1, <1>3 DEF OnlyOf, SeenIsMade, Made
<1>8. Built'
    BY <1>1, <1>3 DEF OnlyOf, Built, Over
<1>9. Withdrawn' /\ (ActiveMeansWhole /\ UpdatesStayHome)'
    BY <1>1 DEF Withdrawn, ActiveMeansWhole, UpdatesStayHome, NoRepo
<1>10. QED
    BY <1>3, <1>4, <1>5, <1>6, <1>7, <1>8, <1>9

-----------------------------------------------------------------------------
(* The theorems.                                                           *)

\* The steps of a deletion between its writes of the record.
Purge(g) == RemoveCommits(g) \/ ListBranches(g) \/ BranchKnown(g) \/ RemoveBranch(g) \/ EndPurge(g)

LEMMA PurgeKeeps ==
    ASSUME LifeInv, NEW g \in Requests, Purge(g), task' = task
    PROVE  LifeInv' /\ Settled(g)
<1> USE DEF LifeInv
<1>1. CASE ListBranches(g)
    <2>1. /\ UNCHANGED <<task, storeVars, target>> /\ req[g].pc = "purge"
          /\ \/ req' = [req EXCEPT ![g].branches = "done"]
             \/ req' = [req EXCEPT ![g].branches = "wait"]
        BY <1>1 DEF ListBranches, At
    <2>2. QED
        BY <2>1, LocalWorker, QuietKeeps DEF Quiet, Over
<1>2. CASE BranchKnown(g)
    <2> DEFINE x == IF reply[g] \in {Failed, NoBranch} THEN "failed" ELSE "remove"
    <2>1. /\ UNCHANGED <<task, storeVars, target>> /\ req[g].pc = "purge"
          /\ req' = [req EXCEPT ![g].branches = x]
        BY <1>2 DEF BranchKnown, At
    <2>2. QED
        <3> HIDE DEF x
        <3>1. QED
            BY <2>1, LocalWorker, QuietKeeps DEF Quiet, Over
<1>3. QED
    BY <1>1, <1>2, RemoveCommitsKeeps, RemoveBranchKeeps, EndPurgeKeeps DEF Purge

LEMMA BranchUpdateKeeps ==
    ASSUME LifeInv, NEW g \in Requests, BranchUpdate(g), task' = task
    PROVE  LifeInv' /\ Settled(g)
<1> USE DEF LifeInv
<1>1. CASE AskBranch(g)
    <2>1. /\ UNCHANGED <<task, storeVars, target>> /\ req[g].pc = "getBranch" /\ Go(g, "branchWait")
        BY <1>1 DEF AskBranch, At
    <2>2. task[g] = "update"
        BY <2>1 DEF OwnProgram, LookingUp, Over
    <2>3. QED
        BY <2>1, <2>2, LocalPc, QuietKeeps DEF Quiet, Onward, Over
<1>2. CASE BranchRead(g)
    <2>1. UNCHANGED <<task, storeVars, target>> /\ req[g].pc = "branchWait"
        BY <1>2 DEF BranchRead, At
    <2>2. task[g] = "update"
        BY <2>1 DEF OwnProgram, LookingUp, Over
    <2>3. CASE Finish(g, "failed")
        BY <2>1, <2>3, LocalEnd, QuietKeeps DEF Quiet, Over
    <2>4. CASE /\ reply[g] # NoBranch
               /\ req' = [req EXCEPT ![g].pc = "set", ![g].read = reply[g]]
        <3> DEFINE v == reply[g]
        <3>1. Shape' /\ OnlyOf(g) /\ req'[g].pc = "set" /\ req'[g].read = v
            <4>1. req' = [req EXCEPT ![g].pc = "set", ![g].read = v]
                BY <2>4
            <4>2. QED
                <5> HIDE DEF v
                <5>1. QED
                    BY <4>1, LocalPcRead
        <3>2. QED
            <4>1. task[g] # "delete" /\ "set" \in Onward(g)
                BY <2>2 DEF Onward
            <4>2. Quiet(g)
                BY <2>1, <2>4, <3>1, <4>1 DEF Quiet, Over
            <4>3. QED
                BY <4>2, QuietKeeps
    <2>5. QED
        BY <1>2, <2>3, <2>4 DEF BranchRead
<1>3. QED
    BY <1>1, <1>2, SetBranchKeeps DEF BranchUpdate

LEMMA FailKeeps ==
    ASSUME LifeInv, NEW g \in Requests, Fail(g), task' = task
    PROVE  LifeInv' /\ Settled(g)
<1> USE DEF LifeInv
<1>1. UNCHANGED <<task, storeVars, target>>
    BY DEF Fail
<1>2. CASE req[g].pc \in {"commit", "branch", "record", "mark", "drop", "set"} /\ Finish(g, "failed")
    BY <1>1, <1>2, LocalEnd, QuietKeeps DEF Quiet, Over
<1>3. CASE req[g].pc = "purge" /\ req' = [req EXCEPT ![g].branches = "failed"]
    BY <1>1, <1>3, LocalWorker, QuietKeeps DEF Quiet, Over
<1>4. QED
    BY <1>2, <1>3 DEF Fail, At

\* Steps of the cache and the executor.
LEMMA ElsewhereKeeps ==
    ASSUME LifeInv, UNCHANGED <<task, storeVars, req, target>>
    PROVE  LifeInv'
BY DEF LifeInv, Shape, OwnProgram, StoreTypes, Aimed, SeenIsMade, Made, Built, Withdrawn,
       ActiveMeansWhole, UpdatesStayHome, storeVars

\* What every request has done and seen, and what the partitions have, is as
\* the points of their programs say (CreateRepository, DeleteRepository).
THEOREM LifeInvariant == Spec => []LifeInv
<1>1. Init => LifeInv
    <2> SUFFICES ASSUME Init PROVE LifeInv
        OBVIOUS
    <2>1. req = [g \in Requests |-> Idle] /\ Idle = [f \in Fields |-> Idle[f]] /\ Idle.pc = "start"
        BY DEF Init, Idle, Fields
    <2>2. Shape /\ Aimed /\ Built /\ Withdrawn
        BY <2>1 DEF Shape, Aimed, Built, Withdrawn
    <2>3. OwnProgram
        BY <2>1, RepositoriesAssumption DEF Init, OwnProgram, LookingUp
    <2>4. PICK gone \in BOOLEAN :
              /\ repo = IF gone THEN NoRepo ELSE [inst |-> Origin, state |-> "active"]
              /\ part = [i \in Instances |->
                            IF i = Origin
                            THEN [commit |-> ~gone, branch |-> [of |-> Origin, by |-> Origin]]
                            ELSE [commit |-> FALSE, branch |-> NoBranch]]
        BY DEF Init
    <2>5. /\ Nobody \notin Instances /\ Origin \in Instances
          /\ target = [g \in Requests |-> Nobody]
        BY RepositoriesAssumption DEF Init, Instances
    <2>6. [of |-> Origin, by |-> Origin] \in Branches /\ NoBranch \in Branches
        BY <2>5 DEF Branches
    <2>7. StoreTypes
        <3>1. repo \in Records
            BY <2>4, <2>5 DEF Records
        <3>2. part \in [Instances -> [commit : BOOLEAN, branch : Branches]]
            BY <2>4, <2>6
        <3>3. QED
            BY <2>5, <3>1, <3>2 DEF StoreTypes
    <2>8. SeenIsMade
        BY <2>4, <2>5 DEF SeenIsMade, Made
    <2>9. ActiveMeansWhole
        BY <2>4, <2>5 DEF ActiveMeansWhole, NoRepo, NoBranch
    <2>10. UpdatesStayHome
        BY <2>4 DEF UpdatesStayHome
    <2>11. QED
        BY <2>2, <2>3, <2>7, <2>8, <2>9, <2>10 DEF LifeInv
<1>2. LifeInv /\ [Next]_vars => LifeInv'
    <2> SUFFICES ASSUME LifeInv, [Next]_vars PROVE LifeInv'
        OBVIOUS
    <2>1. CASE UNCHANGED vars
        BY <2>1, ElsewhereKeeps DEF vars
    <2>2. ASSUME NEW g \in Requests, Step(Request(g) \/ ExecuteFails(g) \/ Fail(g))
          PROVE  LifeInv'
        <3>1. task' = task
            BY <2>2 DEF Step
        <3>2. CASE GetRepository(g)
            BY <3>1, <3>2, GetRepositoryIsQuiet, QuietKeeps
        <3>3. CASE CreateRepository(g)
            BY <3>1, <3>3, AddCommitKeeps, CreateBranchKeeps, CreateRecordKeeps DEF CreateRepository
        <3>4. CASE DeleteRepository(g)
            BY <3>1, <3>4, ReadRecordKeeps, MarkKeeps, PurgeKeeps, DropRecordKeeps
            DEF DeleteRepository, Purge
        <3>5. CASE BranchUpdate(g)
            BY <3>1, <3>5, BranchUpdateKeeps
        <3>6. CASE ExecuteBatch(g) \/ ExecuteFails(g)
            BY <3>1, <3>6, ElsewhereKeeps DEF ExecuteBatch, ExecuteFails, OnlyBatch
        <3>7. CASE Fail(g)
            BY <3>1, <3>7, FailKeeps
        <3>8. QED
            BY <2>2, <3>2, <3>3, <3>4, <3>5, <3>6, <3>7 DEF Step, Request
    <2>3. CASE Step(Executor)
        BY <2>3, ElsewhereKeeps DEF Step, Executor, Loop, Timer, Answering, OnlyBatch
    <2>4. CASE Step(Expire)
        BY <2>4, ElsewhereKeeps DEF Step, Expire
    <2>5. CASE Step(Shutdown)
        BY <2>5, ElsewhereKeeps DEF Step, Shutdown, OnlyBatch
    <2>6. QED
        BY <2>1, <2>2, <2>3, <2>4, <2>5 DEF Next
<1>3. QED
    BY <1>1, <1>2, PTL DEF Spec

\* An active repository has its commit and its branch, for any number of
\* creations and deletions of its name, whatever fails (CreateRepository,
\* DeleteRepository).
THEOREM ActiveIsWhole == Spec => []ActiveMeansWhole
<1>1. LifeInv => ActiveMeansWhole
    BY DEF LifeInv
<1>2. QED
    BY <1>1, LifeInvariant, PTL

\* A repository whose deletion was acknowledged is not active again
\* (DeleteRepository).
THEOREM DeletedIsGone == Spec => []DeletedStaysGone
<1>1. LifeInv => DeletedStaysGone
    BY DEF LifeInv, Withdrawn, DeletedStaysGone, Deletions, At
<1>2. QED
    BY <1>1, LifeInvariant, PTL

\* No branch ends up in the partition of another instance, whatever the
\* executor and the cache answer (BranchUpdate).
THEOREM UpdatesAreHome == Spec => []UpdatesStayHome
<1>1. LifeInv => UpdatesStayHome
    BY DEF LifeInv
<1>2. QED
    BY <1>1, LifeInvariant, PTL

-----------------------------------------------------------------------------
(* What becomes of a creation that was acknowledged.                       *)

\* Two deletions read the same instance.
Overtaken == \E d, e \in Requests : d # e /\ target[d] = target[e] /\ target[d] # Nobody

KeptInv ==
    /\ \A d \in Requests : target[d] # Nobody => task[d] = "delete" /\ req[d].pc # "start"
    /\ Overtaken \/ \A d \in Requests : req[d].pc \in Deleting => repo.inst = target[d]
    /\ \A g \in Requests : (task[g] = "create" /\ req[g].pc = "ok") =>
          \/ repo = [inst |-> g, state |-> "active"]
          \/ \E d \in Requests : target[d] = g
          \/ Overtaken

LEMMA SettledKeeps ==
    ASSUME KeptInv, LifeInv', NEW g \in Requests, Settled(g)
    PROVE  KeptInv'
<1>1. Overtaken' <=> Overtaken
    BY DEF Settled, Overtaken
<1>2. \A d \in Requests : req'[d].pc \in Deleting => req[d].pc \in Deleting
    BY DEF Settled, OnlyOf, LifeInv, OwnProgram, Deleting, LookingUp, Over
<1>3. \A d \in Requests : target[d] # Nobody => req'[d].pc # "start"
    BY DEF KeptInv, Settled, OnlyOf
<1>4. \A h \in Requests : (task[h] = "create" /\ req'[h].pc = "ok") => req[h].pc = "ok"
    BY DEF Settled, OnlyOf
<1>5. QED
    BY <1>1, <1>2, <1>3, <1>4 DEF Settled, KeptInv

LEMMA CreateRecordKept ==
    ASSUME LifeInv, LifeInv', KeptInv, NEW g \in Requests, CreateRecord(g), task' = task
    PROVE  KeptInv'
<1>1. /\ req[g].pc = "record" /\ UNCHANGED <<task, target>>
      /\ \/ repo = NoRepo /\ repo' = [inst |-> g, state |-> "active"]
         \/ repo' = repo /\ Finish(g, "failed")
    BY DEF CreateRecord, At
<1>2. PICK x \in Over : Finish(g, x)
    BY DEF CreateRecord, Told, Over
<1>3. OnlyOf(g) /\ req'[g].pc \in Over
    BY <1>2, LocalEnd DEF LifeInv
<1>4. task[g] = "create"
    BY <1>1 DEF LifeInv, OwnProgram, LookingUp, Over
<1>5. CASE repo' = repo /\ Finish(g, "failed")
    <2>1. req'[g].pc = "failed"
        BY <1>5, LocalEnd DEF LifeInv
    <2>2. QED
        BY <1>1, <1>3, <1>4, <1>5, <2>1, SettledKeeps DEF Settled
<1>6. CASE repo = NoRepo /\ repo' = [inst |-> g, state |-> "active"]
    <2>1. Overtaken' <=> Overtaken
        BY <1>1 DEF Overtaken
    <2>2. \A d \in Requests : target[d] # Nobody => req'[d].pc # "start"
        BY <1>3 DEF KeptInv, OnlyOf, Over
    <2>3. Overtaken \/ \A d \in Requests : req'[d].pc \notin Deleting
        <3>1. \A d \in Requests : req[d].pc \in Deleting => target[d] # repo.inst
            BY <1>6, RepositoriesAssumption DEF LifeInv, Aimed, Deleting, NoRepo, Instances
        <3>2. QED
            BY <1>3, <3>1 DEF KeptInv, OnlyOf, Over, Deleting
    <2>4. \A h \in Requests \ {g} : (task[h] = "create" /\ req'[h].pc = "ok") =>
              (\E d \in Requests : target[d] = h) \/ Overtaken
        BY <1>3, <1>6 DEF KeptInv, OnlyOf, NoRepo
    <2>5. QED
        BY <1>1, <1>6, <2>1, <2>2, <2>3, <2>4 DEF KeptInv
<1>7. QED
    BY <1>1, <1>5, <1>6

LEMMA ReadRecordKept ==
    ASSUME LifeInv, LifeInv', KeptInv, NEW g \in Requests, ReadRecord(g), task' = task
    PROVE  KeptInv'
<1>1. UNCHANGED <<task, repo, part>> /\ task[g] = "delete" /\ req[g].pc = "start"
    BY DEF ReadRecord, storeVars, At
<1>2. CASE Finish(g, "failed") /\ target' = target
    <2>1. OnlyOf(g) /\ req'[g].pc = "failed"
        BY <1>2, LocalEnd DEF LifeInv
    <2>2. QED
        BY <1>1, <1>2, <2>1, SettledKeeps DEF Settled, Deleting
<1>3. CASE /\ repo # NoRepo
           /\ req' = [req EXCEPT ![g].pc = IF repo.state = "active" THEN "mark" ELSE "purge",
                                 ![g].inst = repo.inst]
           /\ target' = [target EXCEPT ![g] = repo.inst]
    <2> DEFINE x == IF repo.state = "active" THEN "mark" ELSE "purge"
               i == repo.inst
    <2>1. OnlyOf(g) /\ req'[g].pc = x
        <3>1. req' = [req EXCEPT ![g].pc = x, ![g].inst = i]
            BY <1>3
        <3>2. QED
            <4> HIDE DEF x, i
            <4>1. QED
                BY <3>1, LocalPcInst DEF LifeInv
    <2>2. target'[g] = i /\ \A h \in Requests \ {g} : target'[h] = target[h]
        BY <1>3 DEF LifeInv, StoreTypes
    <2>3. target[g] = Nobody
        BY <1>1 DEF KeptInv
    <2>4. Overtaken => Overtaken'
        BY <2>2, <2>3 DEF Overtaken
    <2>5. \A d \in Requests : target'[d] # Nobody => task[d] = "delete" /\ req'[d].pc # "start"
        BY <1>1, <2>1, <2>2 DEF KeptInv, OnlyOf
    <2>6. Overtaken \/ \A d \in Requests : req'[d].pc \in Deleting => repo.inst = target'[d]
        BY <2>1, <2>2 DEF KeptInv, OnlyOf
    <2>7. \A h \in Requests : (task[h] = "create" /\ req'[h].pc = "ok") => req[h].pc = "ok"
        BY <1>1, <2>1 DEF OnlyOf
    <2>8. \A h \in Requests : (\E d \in Requests : target[d] = h) => \E d \in Requests : target'[d] = h
        BY <2>2, <2>3, RepositoriesAssumption
    <2>9. QED
        BY <1>1, <2>4, <2>5, <2>6, <2>7, <2>8 DEF KeptInv
<1>4. QED
    BY <1>2, <1>3 DEF ReadRecord

\* Unless it was overtaken, a deletion writes over no record but the one it read.
LEMMA OverwriteKept ==
    ASSUME LifeInv, KeptInv, NEW g \in Requests, OnlyOf(g), UNCHANGED <<task, target>>,
           req[g].pc \in Deleting, req'[g].pc \in Deleting \cup Over,
           \/ repo'.inst = target[g]
           \/ req'[g].pc \in Over
    PROVE  KeptInv'
<1>1. task[g] = "delete" /\ target[g] \in Instances
    BY DEF LifeInv, OwnProgram, Aimed, Deleting, LookingUp, Over
<1>2. Overtaken' <=> Overtaken
    BY DEF Overtaken
<1>3. \A d \in Requests : target[d] # Nobody => req'[d].pc # "start"
    BY DEF KeptInv, OnlyOf, Deleting, Over
<1>4. Overtaken \/ (\A d \in Requests \ {g} : req[d].pc \notin Deleting)
    <2>1. ASSUME NEW d \in Requests \ {g}, req[d].pc \in Deleting
          PROVE  Overtaken
        <3>1. target[d] \in Instances /\ (Overtaken \/ (repo.inst = target[d] /\ repo.inst = target[g]))
            BY <2>1 DEF KeptInv, LifeInv, Aimed, Deleting
        <3>2. QED
            BY <3>1, RepositoriesAssumption DEF Overtaken, Instances
    <2>2. QED
        BY <2>1
<1>5. Overtaken \/ \A d \in Requests : req'[d].pc \in Deleting => repo'.inst = target[d]
    BY <1>4 DEF OnlyOf, Deleting, Over
<1>6. \A h \in Requests : (task[h] = "create" /\ req'[h].pc = "ok") => req[h].pc = "ok" /\ h # g
    BY <1>1 DEF OnlyOf
<1>7. \A h \in Requests : (repo = [inst |-> h, state |-> "active"]) => target[g] = h \/ Overtaken
    BY DEF KeptInv
<1>8. QED
    BY <1>2, <1>3, <1>5, <1>6, <1>7 DEF KeptInv

\* While no instance is read by two deletions, a deletion overwrites and removes
\* only the record it read (DeleteRepository, updateRepoState).
THEOREM KeptInvariant == Spec => []KeptInv
<1>1. Init => KeptInv
    BY RepositoriesAssumption DEF Init, KeptInv, Idle, Deleting
<1>2. LifeInv /\ LifeInv' /\ KeptInv /\ [Next]_vars => KeptInv'
    <2> SUFFICES ASSUME LifeInv, LifeInv', KeptInv, [Next]_vars PROVE KeptInv'
        OBVIOUS
    <2>1. CASE UNCHANGED <<task, storeVars, req, target>>
        BY <2>1 DEF KeptInv, Overtaken, storeVars
    <2>2. ASSUME NEW g \in Requests, Step(Request(g) \/ ExecuteFails(g) \/ Fail(g))
          PROVE  KeptInv'
        <3>1. task' = task
            BY <2>2 DEF Step
        <3>2. CASE GetRepository(g) \/ AddCommit(g) \/ CreateBranch(g) \/ Purge(g)
                   \/ BranchUpdate(g) \/ Fail(g)
            <4>1. Settled(g)
                BY <3>1, <3>2, GetRepositoryIsQuiet, QuietKeeps, AddCommitKeeps, CreateBranchKeeps,
                   PurgeKeeps, BranchUpdateKeeps, FailKeeps
            <4>2. QED
                BY <4>1, SettledKeeps
        <3>3. CASE CreateRecord(g)
            BY <3>1, <3>3, CreateRecordKept
        <3>4. CASE ReadRecord(g)
            BY <3>1, <3>4, ReadRecordKept
        <3>5. CASE Mark(g)
            <4>1. /\ UNCHANGED <<task, target>> /\ req[g].pc = "mark" /\ Go(g, "purge")
                  /\ repo' = [inst |-> req[g].inst, state |-> "deleting"]
                BY <3>1, <3>5 DEF Mark, At
            <4>2. OnlyOf(g) /\ req'[g].pc = "purge"
                BY <4>1, LocalPc DEF LifeInv
            <4>3. repo'.inst = target[g]
                BY <4>1 DEF LifeInv, Aimed
            <4>4. QED
                BY <4>1, <4>2, <4>3, OverwriteKept DEF Deleting
        <3>6. CASE DropRecord(g)
            <4>1. UNCHANGED <<task, target>> /\ req[g].pc = "drop"
                BY <3>1, <3>6 DEF DropRecord, At
            <4>2. PICK x \in Over : Finish(g, x)
                BY <3>6 DEF DropRecord, Told, Over
            <4>3. OnlyOf(g) /\ req'[g].pc \in Over
                BY <4>2, LocalEnd DEF LifeInv
            <4>4. QED
                BY <4>1, <4>3, OverwriteKept DEF Deleting
        <3>7. CASE ExecuteBatch(g) \/ ExecuteFails(g)
            BY <2>1, <3>1, <3>7 DEF ExecuteBatch, ExecuteFails, OnlyBatch
        <3>8. QED
            BY <2>2, <3>2, <3>3, <3>4, <3>5, <3>6, <3>7
            DEF Step, Request, CreateRepository, DeleteRepository, Purge
    <2>3. CASE UNCHANGED vars
        BY <2>1, <2>3 DEF vars
    <2>4. CASE Step(Executor)
        BY <2>1, <2>4 DEF Step, Executor, Loop, Timer, Answering, OnlyBatch
    <2>5. CASE Step(Expire)
        BY <2>1, <2>5 DEF Step, Expire
    <2>6. CASE Step(Shutdown)
        BY <2>1, <2>6 DEF Step, Shutdown, OnlyBatch
    <2>7. QED
        BY <2>2, <2>3, <2>4, <2>5, <2>6 DEF Next
<1>3. QED
    BY <1>1, <1>2, LifeInvariant, PTL DEF Spec

\* An acknowledged creation is in the record until a deletion reads it, unless
\* two deletions read its predecessor (createBareRepository, updateRepoState).
THEOREM CreationsSurvive == Spec => []CreationsKept
<1>1. LifeInv /\ KeptInv => CreationsKept
    BY RepositoriesAssumption DEF LifeInv, OwnProgram, KeptInv, CreationsKept, Deletions, Overtaken, At
<1>2. QED
    BY <1>1, LifeInvariant, KeptInvariant, PTL

-----------------------------------------------------------------------------
(***************************************************************************)
(* The executor as Repositories uses it: whatever fails and whenever it    *)
(* stops, whoever waits is answered by its own batch, with a value that is *)
(* not stale.                                                              *)
(***************************************************************************)

Queued(g)    == \E n \in DOMAIN requests : requests[n].client = g
Collected(g) == \E k \in BatchKeys : Contains(waitingOnKey[k], g)
Batched(g)   == \E c \in Requests : Contains(batch[c], g)

\* A client that is in a call of BatchFor and has no answer.
Waits(g) == AsksExecutor(g) /\ ~Replied(g)

BatchTypes ==
    /\ BatchTypeOK
    /\ reply = [c \in Requests |-> reply[c]]
    /\ result = [c \in Requests |-> result[c]]

\* Each client is in one place: on the channel once,
QueueSound ==
    /\ \A g \in Requests : \A n \in DOMAIN requests : requests[n].client = g =>
          Waits(g) /\ requests[n].key = Asked(g) /\ ~Collected(g) /\ ~Batched(g)
    /\ \A n, m \in DOMAIN requests : requests[n].client = requests[m].client => n = m

\* or collected under the key it asked for, while the loop runs,
CollectionSound ==
    \A k \in BatchKeys : \A g \in Requests : Contains(waitingOnKey[k], g) =>
        executor = "runs" /\ Waits(g) /\ Asked(g) = k /\ ~Batched(g)

\* or in one batch, with others that asked for the same.
BatchSound ==
    /\ \A c, g \in Requests : Contains(batch[c], g) => Waits(g) /\ Asked(g) = Asked(c)
    /\ \A c, d, g \in Requests : Contains(batch[c], g) /\ Contains(batch[d], g) => c = d
    /\ \A c \in Requests : batch[c] # <<>> => Head(batch[c]) = c
    /\ \A c \in Requests : result[c] # NoReply => batch[c] # <<>>

\* A key has one timer or one place on the channel while anyone is collected
\* under it.
TimersSound ==
    /\ executor = "runs" => \A k \in BatchKeys :
          waitingOnKey[k] # <<>> <=> k \in timers \/ Contains(execs, k)
    /\ \A k \in timers : ~Contains(execs, k)
    /\ \A i, j \in DOMAIN execs : execs[i] = execs[j] => i = j

\* Who waits is somewhere, and who does not ask has no answer.
Kept ==
    /\ \A g \in Requests : Waits(g) => Queued(g) \/ Collected(g) \/ Batched(g)
    /\ \A g \in Requests : Replied(g) => AsksExecutor(g)

PlaceInv ==
    /\ BatchTypes /\ QueueSound /\ CollectionSound /\ BatchSound
    /\ TimersSound /\ Kept

-----------------------------------------------------------------------------
(* Sequences.                                                              *)

LEMMA AppendHas ==
    ASSUME NEW S, NEW s \in Seq(S), NEW e \in S
    PROVE  /\ Append(s, e) \in Seq(S) /\ Append(s, e) # <<>>
           /\ \A x : Contains(Append(s, e), x) <=> Contains(s, x) \/ x = e
           /\ s # <<>> => Head(Append(s, e)) = Head(s)
           /\ s = <<>> => Head(Append(s, e)) = e
           /\ Len(Append(s, e)) = Len(s) + 1
           /\ Append(s, e)[Len(s) + 1] = e
           /\ \A n \in 1..Len(s) : Append(s, e)[n] = s[n]
<1>1. Len(Append(s, e)) = Len(s) + 1 /\ Len(s) \in Nat /\ Append(s, e) \in Seq(S)
    OBVIOUS
<1>2. Append(s, e)[Len(s) + 1] = e /\ \A n \in 1..Len(s) : Append(s, e)[n] = s[n]
    OBVIOUS
<1>3. ASSUME NEW x PROVE Contains(Append(s, e), x) <=> Contains(s, x) \/ x = e
    BY <1>1, <1>2 DEF Contains
<1>4. QED
    BY <1>1, <1>2, <1>3

LEMMA HeadTail ==
    ASSUME NEW S, NEW s \in Seq(S), s # <<>>
    PROVE  /\ Head(s) \in S /\ Tail(s) \in Seq(S)
           /\ Head(s) = s[1] /\ 1 \in DOMAIN s
           /\ Len(Tail(s)) = Len(s) - 1 /\ Len(s) \in Nat \ {0}
           /\ \A n \in 1..Len(Tail(s)) : Tail(s)[n] = s[n + 1]
           /\ \A x : Contains(s, x) <=> x = Head(s) \/ Contains(Tail(s), x)
<1>1. /\ Len(s) \in Nat /\ Len(s) > 0 /\ Head(s) = s[1] /\ 1 \in DOMAIN s
      /\ Len(Tail(s)) = Len(s) - 1 /\ Tail(s) \in Seq(S)
    OBVIOUS
<1>2. \A n \in 1..Len(Tail(s)) : Tail(s)[n] = s[n + 1]
    OBVIOUS
<1>3. ASSUME NEW x PROVE Contains(s, x) <=> x = Head(s) \/ Contains(Tail(s), x)
    <2>1. ASSUME Contains(s, x), x # Head(s) PROVE Contains(Tail(s), x)
        <3>1. PICK i \in 1..Len(s) : s[i] = x
            BY <2>1 DEF Contains
        <3>2. i # 1
            BY <1>1, <2>1, <3>1
        <3>3. i - 1 \in 1..Len(Tail(s)) /\ (i - 1) + 1 = i
            BY <1>1, <3>1, <3>2
        <3>4. Tail(s)[i - 1] = x
            BY <1>2, <3>1, <3>3
        <3>5. QED
            BY <3>3, <3>4 DEF Contains
    <2>2. ASSUME Contains(Tail(s), x) PROVE Contains(s, x)
        <3>1. PICK i \in 1..Len(Tail(s)) : Tail(s)[i] = x
            BY <2>2 DEF Contains
        <3>2. i + 1 \in 1..Len(s)
            BY <1>1, <3>1
        <3>3. QED
            BY <1>2, <3>1, <3>2 DEF Contains
    <2>3. Contains(s, Head(s))
        BY <1>1 DEF Contains
    <2>4. QED
        BY <2>1, <2>2, <2>3
<1>4. Head(s) \in S
    BY <1>1
<1>5. QED
    BY <1>1, <1>2, <1>3, <1>4

LEMMA ElementIn ==
    ASSUME NEW S, NEW s \in Seq(S), NEW n \in DOMAIN s
    PROVE  s[n] \in S
OBVIOUS

LEMMA EmptyHas == \A x : ~Contains(<<>>, x)
BY DEF Contains

LEMMA SetHas ==
    ASSUME NEW S, NEW s \in Seq(S)
    PROVE  \A x : x \in ToSet(s) <=> Contains(s, x)
BY DEF ToSet, Contains

-----------------------------------------------------------------------------
(* How steps of requests change who waits.                                 *)

\* A client goes on asking what it asked.
SteadyOf(g) == (AsksExecutor(g)' <=> AsksExecutor(g)) /\ (AsksExecutor(g) => Asked(g)' = Asked(g))
Steady == \A g \in Requests : SteadyOf(g)

LEMMA PlaceTypes ==
    ASSUME PlaceInv
    PROVE  /\ Clients = Requests
           /\ requests \in Seq([client : Requests, key : BatchKeys])
           /\ \A n \in DOMAIN requests : requests[n].client \in Requests /\ requests[n].key \in BatchKeys
           /\ \A k \in BatchKeys : waitingOnKey[k] \in Seq(Requests)
           /\ execs \in Seq(BatchKeys)
           /\ \A c \in Requests : batch[c] \in Seq(Requests)
           /\ \A c \in Requests : batch[c] # <<>> => Contains(batch[c], c)
<1>1. /\ Clients = Requests
      /\ requests \in Seq([client : Requests, key : BatchKeys])
      /\ \A k \in BatchKeys : waitingOnKey[k] \in Seq(Requests)
      /\ execs \in Seq(BatchKeys)
      /\ \A c \in Requests : batch[c] \in Seq(Requests)
    BY RepositoriesAssumption DEF PlaceInv, BatchTypes, BatchTypeOK
<1>2. ASSUME NEW n \in DOMAIN requests
      PROVE  requests[n].client \in Requests /\ requests[n].key \in BatchKeys
    <2>1. requests[n] \in [client : Requests, key : BatchKeys]
        BY <1>1, ElementIn
    <2>2. QED
        BY <2>1
<1>3. \A c \in Requests : batch[c] # <<>> => Contains(batch[c], c)
    BY <1>1, HeadTail DEF PlaceInv, BatchSound
<1>4. QED
    BY <1>1, <1>2, <1>3

\* Steps that leave the executor alone.
LEMMA AsideKeeps ==
    ASSUME PlaceInv, Steady, UNCHANGED batchVars
    PROVE  PlaceInv'
<1> USE DEF PlaceInv
<1>1. UNCHANGED <<requests, waitingOnKey, timers, execs, batch, result, reply, executor>>
    BY DEF batchVars
<1>2. \A g \in Requests : /\ Waits(g)' <=> Waits(g)
                          /\ Waits(g) => Asked(g)' = Asked(g)
    BY <1>1 DEF Steady, SteadyOf, Waits, Replied
<1>3. \A g : /\ Queued(g)' <=> Queued(g)
             /\ Collected(g)' <=> Collected(g)
             /\ Batched(g)' <=> Batched(g)
    BY <1>1 DEF Queued, Collected, Batched
<1>4. BatchTypes'
    BY <1>1 DEF BatchTypes, BatchTypeOK
<1>5. QueueSound'
    BY <1>1, <1>2, <1>3, PlaceTypes DEF QueueSound
<1>6. CollectionSound'
    BY <1>1, <1>2, <1>3 DEF CollectionSound
<1>7. BatchSound'
    <2>1. \A c, g \in Requests : Contains(batch[c], g) => Waits(c)
        BY PlaceTypes, EmptyHas DEF BatchSound
    <2>2. QED
        BY <1>1, <1>2, <2>1 DEF BatchSound
<1>8. TimersSound'
    BY <1>1 DEF TimersSound
<1>9. Kept'
    BY <1>1, <1>2, <1>3 DEF Kept, Replied, Steady, SteadyOf
<1>10. QED
    BY <1>4, <1>5, <1>6, <1>7, <1>8, <1>9

\* A client asks: it is on the channel, and nowhere else.
LEMMA EnqueueKeeps ==
    ASSUME PlaceInv, NEW g \in Requests, NEW k \in BatchKeys, Enqueue(g, k),
           ~AsksExecutor(g), AsksExecutor(g)', Asked(g)' = k,
           \A h \in Requests \ {g} : SteadyOf(h)
    PROVE  PlaceInv'
<1> USE DEF PlaceInv
<1> DEFINE r == [client |-> g, key |-> k]
<1>1. /\ UNCHANGED <<waitingOnKey, timers, execs, batch, result, reply, executor>>
      /\ requests' = Append(requests, r)
      /\ r \in [client : Requests, key : BatchKeys]
      /\ r.client = g /\ r.key = k
    BY DEF Enqueue
<1> HIDE DEF r
<1>2. /\ requests' \in Seq([client : Requests, key : BatchKeys])
      /\ Len(requests') = Len(requests) + 1 /\ Len(requests) \in Nat
      /\ requests'[Len(requests) + 1] = r
      /\ \A n \in 1..Len(requests) : requests'[n] = requests[n]
    BY <1>1, PlaceTypes, AppendHas
<1>3. DOMAIN requests' = DOMAIN requests \cup {Len(requests) + 1} /\ DOMAIN requests = 1..Len(requests)
    BY <1>2, PlaceTypes
<1>4. \A h \in Requests \ {g} : /\ Waits(h)' <=> Waits(h)
                                /\ Waits(h) => Asked(h)' = Asked(h)
    BY <1>1 DEF SteadyOf, Waits, Replied
<1>5. ~Replied(g) /\ Waits(g)'
    BY <1>1 DEF Kept, Replied, Waits
<1>6. ~Queued(g) /\ ~Collected(g) /\ ~Batched(g)
    BY PlaceTypes DEF Queued, Collected, Batched, QueueSound, CollectionSound, BatchSound, Waits
<1>7. /\ \A h : (Collected(h)' <=> Collected(h)) /\ (Batched(h)' <=> Batched(h))
      /\ \A h : Queued(h) => Queued(h)'
      /\ Queued(g)'
    BY <1>1, <1>2, <1>3 DEF Queued, Collected, Batched
<1>8. BatchTypes'
    BY <1>1, <1>2, PlaceTypes DEF BatchTypes, BatchTypeOK
<1>9. QueueSound'
    <2>1. ASSUME NEW h \in Requests, NEW n \in DOMAIN requests', requests'[n].client = h
          PROVE  Waits(h)' /\ requests'[n].key = Asked(h)' /\ ~Collected(h)' /\ ~Batched(h)'
        <3>1. CASE n \in DOMAIN requests
            <4>1. requests'[n] = requests[n] /\ h # g
                BY <1>2, <1>3, <1>6, <2>1, <3>1 DEF Queued
            <4>2. QED
                BY <1>4, <1>7, <2>1, <3>1, <4>1 DEF QueueSound
        <3>2. CASE n = Len(requests) + 1
            BY <1>1, <1>2, <1>5, <1>6, <1>7, <2>1, <3>2
        <3>3. QED
            BY <1>3, <3>1, <3>2
    <2>2. ASSUME NEW n \in DOMAIN requests', NEW m \in DOMAIN requests',
                 requests'[n].client = requests'[m].client
          PROVE  n = m
        BY <1>1, <1>2, <1>3, <1>6, <2>2 DEF Queued, QueueSound
    <2>3. QED
        BY <2>1, <2>2 DEF QueueSound
<1>10. CollectionSound'
    BY <1>1, <1>4, <1>6, <1>7 DEF CollectionSound, Collected
<1>11. BatchSound'
    <2>1. \A c, h \in Requests : Contains(batch[c], h) => Waits(c) /\ c # g /\ h # g
        BY PlaceTypes, EmptyHas, <1>6 DEF BatchSound, Batched
    <2>2. QED
        BY <1>1, <1>4, <2>1 DEF BatchSound
<1>12. TimersSound'
    BY <1>1 DEF TimersSound
<1>13. Kept'
    BY <1>1, <1>4, <1>5, <1>7 DEF Kept, Replied, SteadyOf
<1>14. QED
    BY <1>8, <1>9, <1>10, <1>11, <1>12, <1>13

\* A client takes its answer, and asks no more.
LEMMA HearKeeps ==
    ASSUME PlaceInv, NEW g \in Requests, Hear(g), ~AsksExecutor(g)',
           \A h \in Requests \ {g} : SteadyOf(h)
    PROVE  PlaceInv'
<1> USE DEF PlaceInv
<1>1. /\ UNCHANGED <<requests, waitingOnKey, timers, execs, batch, result, executor>>
      /\ reply' = [reply EXCEPT ![g] = NoReply] /\ Replied(g)
    BY DEF Hear
<1>2. reply' = [c \in Requests |-> IF c = g THEN NoReply ELSE reply[c]]
    BY <1>1 DEF BatchTypes
<1>3. \A h \in Requests \ {g} : /\ Waits(h)' <=> Waits(h)
                                /\ Waits(h) => Asked(h)' = Asked(h)
                                /\ Replied(h)' <=> Replied(h)
    BY <1>2 DEF SteadyOf, Waits, Replied
<1>4. ~Replied(g)' /\ ~Waits(g)'
    BY <1>2 DEF Replied, Waits
<1>5. ~Queued(g) /\ ~Collected(g) /\ ~Batched(g)
    BY <1>1 DEF Queued, Collected, Batched, QueueSound, CollectionSound, BatchSound, Waits
<1>6. \A h : /\ Queued(h)' <=> Queued(h)
             /\ Collected(h)' <=> Collected(h)
             /\ Batched(h)' <=> Batched(h)
    BY <1>1 DEF Queued, Collected, Batched
<1>7. BatchTypes'
    BY <1>1, <1>2 DEF BatchTypes, BatchTypeOK
<1>8. QueueSound'
    BY <1>1, <1>3, <1>5, <1>6, PlaceTypes DEF QueueSound, Queued
<1>9. CollectionSound'
    BY <1>1, <1>3, <1>5, <1>6 DEF CollectionSound, Collected
<1>10. BatchSound'
    <2>1. \A c, h \in Requests : Contains(batch[c], h) => Waits(c) /\ c # g /\ h # g
        BY PlaceTypes, EmptyHas, <1>5 DEF BatchSound, Batched
    <2>2. QED
        BY <1>1, <1>3, <2>1 DEF BatchSound
<1>11. TimersSound'
    BY <1>1 DEF TimersSound
<1>12. Kept'
    BY <1>1, <1>3, <1>4, <1>6 DEF Kept, SteadyOf
<1>13. QED
    BY <1>7, <1>8, <1>9, <1>10, <1>11, <1>12

-----------------------------------------------------------------------------
(* Steps of the executor.                                                  *)

\* A request leaves the front of the channel.
LEMMA FrontLeaves ==
    ASSUME PlaceInv, requests # <<>>, requests' = Tail(requests)
    PROVE  /\ Head(requests).client \in Requests /\ Head(requests).key \in BatchKeys
           /\ Waits(Head(requests).client) /\ Asked(Head(requests).client) = Head(requests).key
           /\ ~Collected(Head(requests).client) /\ ~Batched(Head(requests).client)
           /\ requests' \in Seq([client : Requests, key : BatchKeys])
           /\ \A h : Queued(h)' <=> Queued(h) /\ h # Head(requests).client
           /\ \A n \in DOMAIN requests' : n + 1 \in DOMAIN requests /\ requests'[n] = requests[n + 1]
<1> USE DEF PlaceInv
<1>1. /\ Head(requests) = requests[1] /\ 1 \in DOMAIN requests
      /\ requests' \in Seq([client : Requests, key : BatchKeys])
      /\ Len(requests') = Len(requests) - 1 /\ Len(requests) \in Nat
      /\ \A n \in 1..Len(requests') : requests'[n] = requests[n + 1]
    BY PlaceTypes, HeadTail
<1>2. DOMAIN requests = 1..Len(requests) /\ DOMAIN requests' = 1..Len(requests')
    BY <1>1, PlaceTypes
<1>3. \A n \in DOMAIN requests' : n + 1 \in DOMAIN requests /\ requests'[n] = requests[n + 1] /\ n + 1 # 1
    BY <1>1, <1>2
<1>4. \A n \in DOMAIN requests : n # 1 => n - 1 \in DOMAIN requests' /\ requests'[n - 1] = requests[n]
    BY <1>1, <1>2
<1>5. ASSUME NEW h PROVE Queued(h)' <=> Queued(h) /\ h # Head(requests).client
    <2>1. ASSUME NEW n \in DOMAIN requests', requests'[n].client = h
          PROVE  Queued(h) /\ h # Head(requests).client
        BY <1>1, <1>3, <2>1 DEF Queued, QueueSound
    <2>2. ASSUME NEW n \in DOMAIN requests, requests[n].client = h, h # Head(requests).client
          PROVE  Queued(h)'
        <3>1. n # 1
            BY <1>1, <2>2
        <3>2. n - 1 \in DOMAIN requests' /\ requests'[n - 1].client = h
            BY <1>4, <2>2, <3>1
        <3>3. QED
            BY <3>2 DEF Queued
    <2>3. QED
        BY <2>1, <2>2 DEF Queued
<1>6. QED
    BY <1>1, <1>3, <1>5, PlaceTypes DEF QueueSound

\* What is left on the channel is in one place each.
LEMMA RestOfQueue ==
    ASSUME PlaceInv, Steady, requests # <<>>, requests' = Tail(requests),
           \A h \in Requests \ {Head(requests).client} :
              (Waits(h) => Waits(h)') /\ (Collected(h)' <=> Collected(h)) /\ (Batched(h)' <=> Batched(h))
    PROVE  QueueSound'
<1> USE DEF PlaceInv
<1> DEFINE g == Head(requests).client
<1>1. /\ \A h : Queued(h)' <=> Queued(h) /\ h # g
      /\ \A n \in DOMAIN requests' : n + 1 \in DOMAIN requests /\ requests'[n] = requests[n + 1]
    BY FrontLeaves
<1>2. ASSUME NEW h \in Requests, NEW n \in DOMAIN requests', requests'[n].client = h
      PROVE  Waits(h)' /\ requests'[n].key = Asked(h)' /\ ~Collected(h)' /\ ~Batched(h)'
    <2>1. h # g
        BY <1>1, <1>2 DEF Queued
    <2>2. n + 1 \in DOMAIN requests /\ requests[n + 1] = requests'[n]
        BY <1>1
    <2>3. Waits(h) /\ requests[n + 1].key = Asked(h) /\ ~Collected(h) /\ ~Batched(h)
        BY <1>2, <2>2 DEF QueueSound
    <2>4. QED
        BY <2>1, <2>2, <2>3 DEF Steady, SteadyOf, Waits
<1>3. ASSUME NEW n \in DOMAIN requests', NEW m \in DOMAIN requests',
             requests'[n].client = requests'[m].client
      PROVE  n = m
    <2>1. n + 1 \in DOMAIN requests /\ m + 1 \in DOMAIN requests
          /\ requests[n + 1].client = requests[m + 1].client
        BY <1>1, <1>3
    <2>2. n + 1 = m + 1
        BY <2>1 DEF QueueSound
    <2>3. n \in Nat /\ m \in Nat
        <3>1. requests' \in Seq([client : Requests, key : BatchKeys])
            BY FrontLeaves
        <3>2. QED
            BY <3>1
    <2>4. QED
        BY <2>2, <2>3
<1>4. QED
    BY <1>2, <1>3 DEF QueueSound

LEMMA AcceptKeeps ==
    ASSUME PlaceInv, Steady, Accept
    PROVE  PlaceInv'
<1> USE DEF PlaceInv
<1> DEFINE g == Head(requests).client
           k == Head(requests).key
<1>1. /\ executor = "runs" /\ requests # <<>> /\ requests' = Tail(requests)
      /\ waitingOnKey' = [waitingOnKey EXCEPT ![k] = Append(waitingOnKey[k], g)]
      /\ timers' = IF waitingOnKey[k] = <<>> THEN timers \cup {k} ELSE timers
      /\ UNCHANGED <<execs, batch, result, reply, executor>>
    BY DEF Accept
<1>2. /\ g \in Requests /\ k \in BatchKeys
      /\ Waits(g) /\ Asked(g) = k /\ ~Collected(g) /\ ~Batched(g)
      /\ requests' \in Seq([client : Requests, key : BatchKeys])
      /\ \A h : Queued(h)' <=> Queued(h) /\ h # g
    BY <1>1, FrontLeaves
<1> HIDE DEF g, k
<1>3. /\ waitingOnKey' \in [BatchKeys -> Seq(Requests)]
      /\ waitingOnKey'[k] = Append(waitingOnKey[k], g)
      /\ \A j \in BatchKeys \ {k} : waitingOnKey'[j] = waitingOnKey[j]
      /\ waitingOnKey'[k] # <<>>
      /\ \A h : Contains(waitingOnKey'[k], h) <=> Contains(waitingOnKey[k], h) \/ h = g
    <2>1. waitingOnKey \in [BatchKeys -> Seq(Requests)]
        BY RepositoriesAssumption DEF BatchTypes, BatchTypeOK
    <2>2. /\ Append(waitingOnKey[k], g) \in Seq(Requests) /\ Append(waitingOnKey[k], g) # <<>>
          /\ \A h : Contains(Append(waitingOnKey[k], g), h) <=> Contains(waitingOnKey[k], h) \/ h = g
        BY <1>2, <2>1, AppendHas
    <2>3. QED
        BY <1>1, <1>2, <2>1, <2>2
<1>4. \A h \in Requests : (Waits(h)' <=> Waits(h)) /\ (Waits(h) => Asked(h)' = Asked(h))
    BY <1>1 DEF Steady, SteadyOf, Waits, Replied
<1>5. \A h : /\ Collected(h)' <=> Collected(h) \/ h = g
             /\ Batched(h)' <=> Batched(h)
    BY <1>1, <1>2, <1>3 DEF Collected, Batched
<1>6. BatchTypes'
    BY <1>1, <1>2, <1>3, RepositoriesAssumption DEF BatchTypes, BatchTypeOK
<1>7. QueueSound'
    BY <1>1, <1>4, <1>5, RestOfQueue DEF g
<1>8. CollectionSound'
    BY <1>1, <1>2, <1>3, <1>4, <1>5 DEF CollectionSound
<1>9. BatchSound'
    <2>1. \A c, h \in Requests : Contains(batch[c], h) => Waits(c)
        BY PlaceTypes, EmptyHas DEF BatchSound
    <2>2. QED
        BY <1>1, <1>4, <2>1 DEF BatchSound
<1>10. TimersSound'
    BY <1>1, <1>2, <1>3 DEF TimersSound
<1>11. Kept'
    BY <1>1, <1>2, <1>4, <1>5 DEF Kept, Replied, Steady, SteadyOf
<1>12. QED
    BY <1>6, <1>7, <1>8, <1>9, <1>10, <1>11

LEMMA TimerEndsKeeps ==
    ASSUME PlaceInv, Steady, NEW k \in BatchKeys, TimerEnds(k)
    PROVE  PlaceInv'
<1> USE DEF PlaceInv
<1>1. /\ k \in timers /\ timers' = timers \ {k} /\ execs' = Append(execs, k)
      /\ UNCHANGED <<requests, waitingOnKey, batch, result, reply, executor>>
    BY DEF TimerEnds
<1>2. /\ execs' \in Seq(BatchKeys)
      /\ \A x : Contains(execs', x) <=> Contains(execs, x) \/ x = k
      /\ Len(execs') = Len(execs) + 1 /\ Len(execs) \in Nat
      /\ execs'[Len(execs) + 1] = k
      /\ \A n \in 1..Len(execs) : execs'[n] = execs[n]
    BY <1>1, PlaceTypes, AppendHas
<1>3. \A h \in Requests : (Waits(h)' <=> Waits(h)) /\ (Waits(h) => Asked(h)' = Asked(h))
    BY <1>1 DEF Steady, SteadyOf, Waits, Replied
<1>4. \A h : /\ Queued(h)' <=> Queued(h)
             /\ Collected(h)' <=> Collected(h)
             /\ Batched(h)' <=> Batched(h)
    BY <1>1 DEF Queued, Collected, Batched
<1>5. BatchTypes'
    BY <1>1, <1>2 DEF BatchTypes, BatchTypeOK
<1>6. QueueSound'
    BY <1>1, <1>3, <1>4 DEF QueueSound
<1>7. CollectionSound'
    BY <1>1, <1>3, <1>4 DEF CollectionSound
<1>8. BatchSound'
    <2>1. \A c, h \in Requests : Contains(batch[c], h) => Waits(c)
        BY PlaceTypes, EmptyHas DEF BatchSound
    <2>2. QED
        BY <1>1, <1>3, <2>1 DEF BatchSound
<1>9. TimersSound'
    <2>1. DOMAIN execs' = 1..Len(execs) \cup {Len(execs) + 1} /\ DOMAIN execs = 1..Len(execs)
        BY <1>2, PlaceTypes
    <2>2. \A n \in 1..Len(execs) : execs[n] # k
        BY <1>1 DEF TimersSound, Contains
    <2>3. \A i, j \in DOMAIN execs' : execs'[i] = execs'[j] => i = j
        BY <1>2, <2>1, <2>2 DEF TimersSound
    <2>4. QED
        BY <1>1, <1>2, <2>3 DEF TimersSound
<1>10. Kept'
    BY <1>1, <1>3, <1>4 DEF Kept, Replied, Steady, SteadyOf
<1>11. QED
    BY <1>5, <1>6, <1>7, <1>8, <1>9, <1>10

\* A key leaves the front of the channel, where it is but once.
LEMMA KeyLeaves ==
    ASSUME PlaceInv, execs # <<>>, execs' = Tail(execs)
    PROVE  /\ Head(execs) \in BatchKeys /\ Contains(execs, Head(execs))
           /\ Head(execs) \notin timers
           /\ execs' \in Seq(BatchKeys)
           /\ \A x : Contains(execs', x) <=> Contains(execs, x) /\ x # Head(execs)
           /\ \A i, j \in DOMAIN execs' : execs'[i] = execs'[j] => i = j
<1> USE DEF PlaceInv
<1>1. /\ Head(execs) \in BatchKeys /\ Head(execs) = execs[1] /\ 1 \in DOMAIN execs
      /\ execs' \in Seq(BatchKeys)
      /\ Len(execs') = Len(execs) - 1 /\ Len(execs) \in Nat \ {0}
      /\ \A n \in 1..Len(execs') : execs'[n] = execs[n + 1]
      /\ \A x : Contains(execs, x) <=> x = Head(execs) \/ Contains(execs', x)
    BY PlaceTypes, HeadTail
<1>2. DOMAIN execs = 1..Len(execs) /\ DOMAIN execs' = 1..Len(execs')
    BY <1>1, PlaceTypes
<1>3. \A n \in DOMAIN execs' : n \in Nat \ {0} /\ n + 1 \in DOMAIN execs /\ execs'[n] = execs[n + 1]
    BY <1>1, <1>2
<1>4. ~Contains(execs', Head(execs))
    <2>1. ASSUME NEW n \in 1..Len(execs'), execs'[n] = Head(execs) PROVE FALSE
        <3>1. n \in Nat \ {0} /\ n + 1 \in DOMAIN execs /\ execs[n + 1] = execs[1]
            BY <1>1, <1>2, <1>3, <2>1
        <3>2. n + 1 = 1
            BY <1>1, <3>1 DEF TimersSound
        <3>3. QED
            BY <3>1, <3>2
    <2>2. QED
        BY <2>1 DEF Contains
<1>5. ASSUME NEW i \in DOMAIN execs', NEW j \in DOMAIN execs', execs'[i] = execs'[j]
      PROVE  i = j
    <2>1. i + 1 = j + 1
        BY <1>3, <1>5 DEF TimersSound
    <2>2. QED
        BY <1>3, <2>1
<1>6. QED
    BY <1>1, <1>4, <1>5 DEF TimersSound

LEMMA DispatchKeeps ==
    ASSUME PlaceInv, Steady, Dispatch
    PROVE  PlaceInv'
<1> USE DEF PlaceInv
<1> DEFINE k == Head(execs)
           waiters == waitingOnKey[k]
           c == Head(waiters)
<1>1. /\ executor = "runs" /\ execs # <<>> /\ execs' = Tail(execs)
      /\ batch' = [batch EXCEPT ![c] = waiters]
      /\ waitingOnKey' = [waitingOnKey EXCEPT ![k] = <<>>]
      /\ UNCHANGED <<requests, timers, result, reply, executor>>
    BY DEF Dispatch
<1>2. /\ k \in BatchKeys /\ Contains(execs, k) /\ k \notin timers
      /\ execs' \in Seq(BatchKeys)
      /\ \A x : Contains(execs', x) <=> Contains(execs, x) /\ x # k
      /\ \A i, j \in DOMAIN execs' : execs'[i] = execs'[j] => i = j
    BY <1>1, KeyLeaves
<1> HIDE DEF k
<1>3. waiters \in Seq(Requests) /\ waiters # <<>>
    BY <1>1, <1>2, PlaceTypes DEF TimersSound
<1>4. c \in Requests /\ Contains(waiters, c)
    BY <1>3, HeadTail
<1>5. \A h : Contains(waiters, h) => h \in Requests
    BY <1>3, ElementIn DEF Contains
<1>6. \A h \in Requests : Contains(waiters, h) =>
          Waits(h) /\ Asked(h) = k /\ ~Batched(h) /\ ~Queued(h)
    BY <1>2 DEF CollectionSound, QueueSound, Queued, Collected
<1> HIDE DEF c
<1>7. batch[c] = <<>>
    BY <1>4, <1>6, PlaceTypes DEF Batched
<1>8. /\ batch' \in [Requests -> Seq(Requests)] /\ batch'[c] = waiters
      /\ \A d \in Requests \ {c} : batch'[d] = batch[d]
      /\ waitingOnKey' \in [BatchKeys -> Seq(Requests)] /\ waitingOnKey'[k] = <<>>
      /\ \A j \in BatchKeys \ {k} : waitingOnKey'[j] = waitingOnKey[j]
    <2>1. /\ batch \in [Requests -> Seq(Requests)]
          /\ waitingOnKey \in [BatchKeys -> Seq(Requests)]
        BY RepositoriesAssumption DEF BatchTypes, BatchTypeOK
    <2>2. <<>> \in Seq(Requests)
        OBVIOUS
    <2>3. QED
        BY <1>1, <1>2, <1>3, <1>4, <2>1, <2>2
<1> HIDE DEF waiters
<1>9. \A h \in Requests : (Waits(h)' <=> Waits(h)) /\ (Waits(h) => Asked(h)' = Asked(h))
    BY <1>1 DEF Steady, SteadyOf, Waits, Replied
<1>10. ASSUME NEW h \in Requests
       PROVE  /\ Queued(h)' <=> Queued(h)
              /\ Collected(h)' <=> Collected(h) /\ ~Contains(waiters, h)
              /\ Batched(h)' <=> Batched(h) \/ Contains(waiters, h)
    <2>1. Queued(h)' <=> Queued(h)
        BY <1>1 DEF Queued
    <2>2. ASSUME Collected(h)' PROVE Collected(h) /\ ~Contains(waiters, h)
        <3>1. PICK j \in BatchKeys : Contains(waitingOnKey'[j], h)
            BY <2>2 DEF Collected
        <3>2. j # k /\ Contains(waitingOnKey[j], h)
            BY <1>8, <3>1, EmptyHas
        <3>3. QED
            BY <1>6, <3>2 DEF CollectionSound, Collected
    <2>3. ASSUME Collected(h), ~Contains(waiters, h) PROVE Collected(h)'
        BY <1>8, <2>3 DEF Collected, waiters
    <2>4. Batched(h)' <=> Batched(h) \/ Contains(waiters, h)
        BY <1>4, <1>7, <1>8, EmptyHas DEF Batched
    <2>5. QED
        BY <2>1, <2>2, <2>3, <2>4
<1>11. BatchTypes'
    BY <1>1, <1>2, <1>8, RepositoriesAssumption DEF BatchTypes, BatchTypeOK
<1>12. QueueSound'
    BY <1>1, <1>6, <1>9, <1>10 DEF QueueSound, Queued
<1>13. CollectionSound'
    <2>1. ASSUME NEW j \in BatchKeys, NEW h \in Requests, Contains(waitingOnKey'[j], h)
          PROVE  executor' = "runs" /\ Waits(h)' /\ Asked(h)' = j /\ ~Batched(h)'
        <3>1. j # k /\ Contains(waitingOnKey[j], h)
            BY <1>8, <2>1, EmptyHas
        <3>2. Waits(h) /\ Asked(h) = j /\ ~Batched(h) /\ ~Contains(waiters, h)
            BY <1>6, <3>1 DEF CollectionSound
        <3>3. QED
            BY <1>1, <1>9, <1>10, <3>2
    <2>2. QED
        BY <2>1 DEF CollectionSound
<1>14. BatchSound'
    <2>1. \A d, h \in Requests : Contains(batch'[d], h) =>
              Waits(h) /\ Waits(d) /\ Asked(h) = Asked(d)
        <3>1. \A h \in Requests : Contains(batch'[c], h) => Waits(h) /\ Asked(h) = k
            BY <1>6, <1>8
        <3>2. Waits(c) /\ Asked(c) = k
            BY <1>4, <1>6
        <3>3. \A d, h \in Requests : Contains(batch[d], h) =>
                  Waits(h) /\ Waits(d) /\ Asked(h) = Asked(d)
            BY PlaceTypes, EmptyHas DEF BatchSound
        <3>4. QED
            BY <1>8, <3>1, <3>2, <3>3
    <2>2. \A d, e, h \in Requests : Contains(batch'[d], h) /\ Contains(batch'[e], h) => d = e
        BY <1>6, <1>8 DEF BatchSound, Batched
    <2>3. \A d \in Requests : batch'[d] # <<>> => Head(batch'[d]) = d
        BY <1>8 DEF BatchSound, c
    <2>4. \A d \in Requests : result'[d] # NoReply => batch'[d] # <<>>
        BY <1>1, <1>3, <1>8 DEF BatchSound, waiters
    <2>5. QED
        BY <1>9, <2>1, <2>2, <2>3, <2>4 DEF BatchSound
<1>15. TimersSound'
    BY <1>1, <1>2, <1>8 DEF TimersSound
<1>16. Kept'
    BY <1>1, <1>9, <1>10 DEF Kept, Replied, Steady, SteadyOf
<1>17. QED
    BY <1>11, <1>12, <1>13, <1>14, <1>15, <1>16

LEMMA ExecuteKeeps ==
    ASSUME PlaceInv, Steady, NEW c \in Requests, NEW v, Execute(c, v)
    PROVE  PlaceInv'
<1> USE DEF PlaceInv
<1>1. /\ batch[c] # <<>> /\ result' = [result EXCEPT ![c] = v]
      /\ UNCHANGED <<requests, waitingOnKey, timers, execs, batch, reply, executor>>
    BY DEF Execute
<1>2. result' = [d \in Requests |-> IF d = c THEN v ELSE result[d]]
    BY <1>1 DEF BatchTypes
<1>3. \A h \in Requests : (Waits(h)' <=> Waits(h)) /\ (Waits(h) => Asked(h)' = Asked(h))
    BY <1>1 DEF Steady, SteadyOf, Waits, Replied
<1>4. \A h : /\ Queued(h)' <=> Queued(h)
             /\ Collected(h)' <=> Collected(h)
             /\ Batched(h)' <=> Batched(h)
    BY <1>1 DEF Queued, Collected, Batched
<1>5. BatchTypes'
    BY <1>1, <1>2 DEF BatchTypes, BatchTypeOK
<1>6. QueueSound'
    BY <1>1, <1>3, <1>4 DEF QueueSound
<1>7. CollectionSound'
    BY <1>1, <1>3, <1>4 DEF CollectionSound
<1>8. BatchSound'
    <2>1. \A d, h \in Requests : Contains(batch[d], h) => Waits(d)
        BY PlaceTypes, EmptyHas DEF BatchSound
    <2>2. \A d \in Requests : result'[d] # NoReply => batch'[d] # <<>>
        BY <1>1, <1>2 DEF BatchSound
    <2>3. QED
        BY <1>1, <1>3, <2>1, <2>2 DEF BatchSound
<1>9. TimersSound'
    BY <1>1 DEF TimersSound
<1>10. Kept'
    BY <1>1, <1>3, <1>4 DEF Kept, Replied, Steady, SteadyOf
<1>11. QED
    BY <1>5, <1>6, <1>7, <1>8, <1>9, <1>10

\* Those who are answered wait no more; the others wait where they did.
LEMMA AnswerTells ==
    ASSUME PlaceInv, Steady, NEW cs, NEW v, v # NoReply, Answer(cs, v),
           \A h \in cs : Waits(h)
    PROVE  /\ reply' = [h \in Requests |-> reply'[h]]
           /\ \A h \in Requests : /\ Waits(h)' <=> Waits(h) /\ h \notin cs
                                  /\ Waits(h) => Asked(h)' = Asked(h)
                                  /\ Replied(h)' => AsksExecutor(h)'
                                  /\ h \in cs => reply'[h] = v
                                  /\ h \notin cs => reply'[h] = reply[h]
<1>1. reply' = [h \in Requests |-> IF h \in cs THEN v ELSE reply[h]]
    BY RepositoriesAssumption DEF Answer
<1>2. \A h \in Requests : /\ h \in cs => reply'[h] = v
                          /\ h \notin cs => reply'[h] = reply[h]
    BY <1>1
<1>3. \A h \in Requests : Replied(h)' <=> Replied(h) \/ h \in cs
    BY <1>2 DEF Replied, Waits
<1>4. reply' = [h \in Requests |-> reply'[h]]
    BY <1>1
<1>5. QED
    BY <1>2, <1>3, <1>4 DEF PlaceInv, Kept, Steady, SteadyOf, Waits

LEMMA ReplyKeeps ==
    ASSUME PlaceInv, Steady, NEW c \in Requests, Reply(c)
    PROVE  PlaceInv'
<1> USE DEF PlaceInv
<1>1. /\ result[c] # NoReply /\ Answer(ToSet(batch[c]), result[c])
      /\ batch' = [batch EXCEPT ![c] = <<>>]
      /\ result' = [result EXCEPT ![c] = NoReply]
      /\ UNCHANGED <<requests, waitingOnKey, timers, execs, executor>>
    BY DEF Reply
<1>2. \A h : h \in ToSet(batch[c]) <=> Contains(batch[c], h)
    BY PlaceTypes, SetHas
<1>3. \A h : Contains(batch[c], h) => h \in Requests
    BY PlaceTypes, ElementIn DEF Contains
<1>4. \A h \in Requests : Contains(batch[c], h) => Waits(h) /\ ~Queued(h) /\ ~Collected(h)
    BY DEF BatchSound, QueueSound, CollectionSound, Queued, Collected, Batched
<1>5. /\ reply' = [h \in Requests |-> reply'[h]]
      /\ \A h \in Requests : /\ Waits(h)' <=> Waits(h) /\ ~Contains(batch[c], h)
                             /\ Waits(h) => Asked(h)' = Asked(h)
                             /\ Replied(h)' => AsksExecutor(h)'
    BY <1>1, <1>2, <1>3, <1>4, AnswerTells
<1>6. /\ batch' \in [Requests -> Seq(Requests)] /\ batch'[c] = <<>>
      /\ \A d \in Requests \ {c} : batch'[d] = batch[d]
    <2>1. batch \in [Requests -> Seq(Requests)]
        BY RepositoriesAssumption DEF BatchTypes, BatchTypeOK
    <2>2. <<>> \in Seq(Requests)
        OBVIOUS
    <2>3. QED
        BY <1>1, <2>1, <2>2
<1>7. /\ result' = [d \in Requests |-> IF d = c THEN NoReply ELSE result[d]]
    BY <1>1 DEF BatchTypes
<1>8. ASSUME NEW h \in Requests
      PROVE  /\ Queued(h)' <=> Queued(h)
             /\ Collected(h)' <=> Collected(h)
             /\ Batched(h)' <=> Batched(h) /\ ~Contains(batch[c], h)
    <2>1. (Queued(h)' <=> Queued(h)) /\ (Collected(h)' <=> Collected(h))
        BY <1>1 DEF Queued, Collected
    <2>2. ASSUME Batched(h)' PROVE Batched(h) /\ ~Contains(batch[c], h)
        <3>1. PICK d \in Requests : Contains(batch'[d], h)
            BY <2>2 DEF Batched
        <3>2. d # c /\ Contains(batch[d], h)
            BY <1>6, <3>1, EmptyHas
        <3>3. QED
            BY <3>2 DEF BatchSound, Batched
    <2>3. ASSUME Batched(h), ~Contains(batch[c], h) PROVE Batched(h)'
        BY <1>6, <2>3 DEF Batched
    <2>4. QED
        BY <2>1, <2>2, <2>3
<1>9. BatchTypes'
    BY <1>1, <1>5, <1>6, <1>7, RepositoriesAssumption DEF BatchTypes, BatchTypeOK
<1>10. QueueSound'
    BY <1>1, <1>4, <1>5, <1>8 DEF QueueSound, Queued
<1>11. CollectionSound'
    BY <1>1, <1>4, <1>5, <1>8 DEF CollectionSound, Collected
<1>12. BatchSound'
    <2>1. \A d, h \in Requests : Contains(batch'[d], h) => Contains(batch[d], h) /\ d # c
        BY <1>6, EmptyHas
    <2>2. \A d, h \in Requests : Contains(batch'[d], h) =>
              Waits(h) /\ Waits(d) /\ Asked(h) = Asked(d) /\ ~Contains(batch[c], h) /\ ~Contains(batch[c], d)
        <3>1. ASSUME NEW d \in Requests, NEW h \in Requests, Contains(batch'[d], h)
              PROVE  Contains(batch[d], h) /\ Contains(batch[d], d) /\ d # c
            <4>1. Contains(batch[d], h) /\ d # c
                BY <2>1, <3>1
            <4>2. batch[d] # <<>>
                BY <4>1, EmptyHas
            <4>3. QED
                BY <4>1, <4>2, PlaceTypes
        <3>2. QED
            BY <3>1 DEF BatchSound
    <2>3. \A d \in Requests : batch'[d] # <<>> => Head(batch'[d]) = d
        BY <1>6 DEF BatchSound
    <2>4. \A d \in Requests : result'[d] # NoReply => batch'[d] # <<>>
        BY <1>6, <1>7 DEF BatchSound
    <2>5. QED
        BY <1>5, <2>1, <2>2, <2>3, <2>4 DEF BatchSound
<1>13. TimersSound'
    BY <1>1 DEF TimersSound
<1>14. Kept'
    BY <1>5, <1>8 DEF Kept
<1>15. QED
    BY <1>9, <1>10, <1>11, <1>12, <1>13, <1>14

\* Those that were collected are refused.
LEMMA ShutKeeps ==
    ASSUME PlaceInv, Steady, Shut
    PROVE  PlaceInv'
<1> USE DEF PlaceInv
<1> DEFINE cs == UNION {ToSet(waitingOnKey[k]) : k \in BatchKeys}
<1>1. /\ executor = "runs" /\ executor' = "drains" /\ Answer(cs, Failed)
      /\ waitingOnKey' = [k \in BatchKeys |-> <<>>]
      /\ UNCHANGED <<requests, timers, execs, batch, result>>
    BY DEF Shut
<1>2. ASSUME NEW h PROVE h \in cs <=> Collected(h)
    <2>1. \A k \in BatchKeys : h \in ToSet(waitingOnKey[k]) <=> Contains(waitingOnKey[k], h)
        BY PlaceTypes, SetHas
    <2>2. QED
        BY <2>1 DEF Collected
<1> HIDE DEF cs
<1>3. \A h : Collected(h) => h \in Requests
    BY PlaceTypes, ElementIn DEF Collected, Contains
<1>4. \A h \in Requests : Collected(h) => Waits(h) /\ ~Queued(h) /\ ~Batched(h)
    BY DEF QueueSound, CollectionSound, Queued, Collected
<1>5. /\ reply' = [h \in Requests |-> reply'[h]]
      /\ \A h \in Requests : /\ Waits(h)' <=> Waits(h) /\ ~Collected(h)
                             /\ Waits(h) => Asked(h)' = Asked(h)
                             /\ Replied(h)' => AsksExecutor(h)'
    <2>1. \A h \in cs : Waits(h)
        BY <1>2, <1>3, <1>4
    <2>2. QED
        BY <1>1, <1>2, <2>1, AnswerTells, BatchAssumption
<1>6. waitingOnKey' \in [BatchKeys -> Seq(Requests)] /\ \A k \in BatchKeys : waitingOnKey'[k] = <<>>
    BY <1>1
<1>7. \A h : /\ Queued(h)' <=> Queued(h)
             /\ ~Collected(h)'
             /\ Batched(h)' <=> Batched(h)
    BY <1>1, <1>6, EmptyHas DEF Queued, Collected, Batched
<1>8. BatchTypes'
    BY <1>1, <1>5, <1>6, RepositoriesAssumption DEF BatchTypes, BatchTypeOK
<1>9. QueueSound'
    BY <1>1, <1>4, <1>5, <1>7 DEF QueueSound, Queued
<1>10. CollectionSound'
    BY <1>6, EmptyHas DEF CollectionSound
<1>11. BatchSound'
    <2>1. \A c, h \in Requests : Contains(batch[c], h) =>
              Waits(c) /\ ~Collected(h) /\ ~Collected(c)
        BY <1>4, PlaceTypes, EmptyHas DEF BatchSound, Batched
    <2>2. QED
        BY <1>1, <1>5, <2>1 DEF BatchSound
<1>12. TimersSound'
    BY <1>1 DEF TimersSound
<1>13. Kept'
    BY <1>5, <1>7 DEF Kept
<1>14. QED
    BY <1>8, <1>9, <1>10, <1>11, <1>12, <1>13

LEMMA DrainKeeps ==
    ASSUME PlaceInv, Steady, Drain
    PROVE  PlaceInv'
<1> USE DEF PlaceInv
<1>1. /\ executor = "drains" /\ executor' \in {"drains", "stopped"}
      /\ UNCHANGED <<waitingOnKey, timers, execs, batch, result>>
    BY DEF Drain
<1>2. \A h : (Collected(h)' <=> Collected(h)) /\ (Batched(h)' <=> Batched(h))
    BY <1>1 DEF Collected, Batched
<1>3. \A c, h \in Requests : Contains(batch[c], h) => Waits(c) /\ Batched(c) /\ Batched(h)
    <2>1. ASSUME NEW c \in Requests, NEW h \in Requests, Contains(batch[c], h)
          PROVE  Contains(batch[c], c)
        BY <2>1, PlaceTypes, EmptyHas
    <2>2. QED
        BY <2>1 DEF BatchSound, Batched
<1>4. \A k \in BatchKeys : \A h \in Requests : ~Contains(waitingOnKey[k], h)
    BY <1>1 DEF CollectionSound
<1>5. CollectionSound' /\ TimersSound'
    BY <1>1, <1>4 DEF CollectionSound, TimersSound
<1>6. CASE requests = <<>>
    <2>1. UNCHANGED <<requests, reply>>
        BY <1>6 DEF Drain
    <2>2. \A h \in Requests : (Waits(h)' <=> Waits(h)) /\ (Waits(h) => Asked(h)' = Asked(h))
        BY <2>1 DEF Steady, SteadyOf, Waits, Replied
    <2>3. \A h : Queued(h)' <=> Queued(h)
        BY <2>1 DEF Queued
    <2>4. BatchTypes'
        BY <1>1, <2>1 DEF BatchTypes, BatchTypeOK
    <2>5. QueueSound'
        BY <1>2, <2>1, <2>2 DEF QueueSound
    <2>6. BatchSound'
        BY <1>1, <1>3, <2>2 DEF BatchSound
    <2>7. Kept'
        BY <1>2, <2>1, <2>2, <2>3 DEF Kept, Replied, Steady, SteadyOf
    <2>8. QED
        BY <1>5, <2>4, <2>5, <2>6, <2>7
<1>7. CASE requests # <<>>
    <2> DEFINE g == Head(requests).client
    <2>1. requests' = Tail(requests) /\ Answer({g}, Failed)
        BY <1>7 DEF Drain
    <2>2. /\ g \in Requests /\ Waits(g) /\ ~Collected(g) /\ ~Batched(g)
          /\ requests' \in Seq([client : Requests, key : BatchKeys])
          /\ \A h : Queued(h)' <=> Queued(h) /\ h # g
        BY <1>7, <2>1, FrontLeaves
    <2> HIDE DEF g
    <2>3. /\ reply' = [h \in Requests |-> reply'[h]]
          /\ \A h \in Requests : /\ Waits(h)' <=> Waits(h) /\ h # g
                                 /\ Waits(h) => Asked(h)' = Asked(h)
                                 /\ Replied(h)' => AsksExecutor(h)'
        BY <2>1, <2>2, AnswerTells, BatchAssumption
    <2>4. BatchTypes'
        BY <1>1, <2>2, <2>3, RepositoriesAssumption DEF BatchTypes, BatchTypeOK
    <2>5. QueueSound'
        BY <1>2, <1>7, <2>1, <2>3, RestOfQueue DEF g
    <2>6. BatchSound'
        BY <1>1, <1>3, <2>2, <2>3 DEF BatchSound
    <2>7. Kept'
        BY <1>2, <2>2, <2>3 DEF Kept
    <2>8. QED
        BY <1>5, <2>4, <2>5, <2>6, <2>7
<1>8. QED
    BY <1>6, <1>7

-----------------------------------------------------------------------------
(* The answers the executor gives to Repositories: they are of the kind    *)
(* that was asked for, and no older than the question.                     *)

Local == [pc : Points \cup Over, inst : Instances \cup {Nobody}, read : Branches,
          branches : Workers, commits : BOOLEAN]

LocalTypes ==
    /\ req \in [Requests -> Local]
    /\ cached \in Instances \cup {Nobody}
    /\ found \in [Requests -> Records \cup {Failed}]
    /\ Cache!OnlyOneTypeOK

\* Who waits for the executor, or for another's computation, is at one point
\* of its program, and knows whose branch it is about.
AskingPoints ==
    \A g \in Requests :
        /\ req[g].branches = "wait" => req[g].pc = "purge"
        /\ req[g].pc \in {"getBranch", "branchWait", "set"} => req[g].inst \in Instances
        /\ req[g].pc = "follow" => awaits[g] \in Requests

\* What the store may hold under a key.
Values(k) == IF k = "repo" THEN Records ELSE Branches

\* The values since a client asked are those the store may hold, and one of
\* them is held now;
SinceSound ==
    \A g \in Requests : AsksExecutor(g) =>
        Held(Asked(g)) \subseteq since[g] /\ since[g] \subseteq Values(Asked(g))

\* the result of a batch is among them for everybody in it.
ResultsAreFresh ==
    \A c, g \in Requests : Contains(batch[c], g) /\ result[c] # NoReply =>
        result[c] \in since[g] \cup {Failed}

AnswerInv ==
    /\ PlaceInv /\ LocalTypes /\ AskingPoints
    /\ SinceSound /\ ResultsAreFresh /\ AnswersAreFresh

-----------------------------------------------------------------------------
(* The values a client has seen the store hold.                            *)

LEMMA HeldIsValue ==
    ASSUME StoreTypes, NEW k \in BatchKeys
    PROVE  Held(k) \subseteq Values(k)
BY DEF StoreTypes, Held, Values

\* They only grow while the client asks, and end with what is held.
LEMMA WitnessGrows ==
    ASSUME StoreTypes', SinceSound, Witness,
           \A g \in Requests : AsksExecutor(g) /\ AsksExecutor(g)' => Asked(g)' = Asked(g)
    PROVE  /\ SinceSound'
           /\ \A g \in Requests : AsksExecutor(g) /\ AsksExecutor(g)' => since[g] \subseteq since'[g]
<1>1. ASSUME NEW g \in Requests, AsksExecutor(g)'
      PROVE  /\ Held(Asked(g))' \subseteq since'[g]
             /\ since'[g] \subseteq Values(Asked(g))'
             /\ AsksExecutor(g) => since[g] \subseteq since'[g]
    <2>1. since'[g] = (IF AsksExecutor(g) THEN since[g] ELSE {}) \cup Held(Asked(g))'
        BY <1>1 DEF Witness
    <2>2. Held(Asked(g))' \subseteq Values(Asked(g))'
        <3>1. repo' \in Records /\ part' \in [Instances -> [commit : BOOLEAN, branch : Branches]]
            BY DEF StoreTypes
        <3>2. QED
            BY <3>1 DEF Held, Values
    <2>3. AsksExecutor(g) => since[g] \subseteq Values(Asked(g))'
        BY <1>1 DEF SinceSound, Values
    <2>4. QED
        BY <2>1, <2>2, <2>3
<1>2. QED
    BY <1>1 DEF SinceSound

\* Steps of the executor that execute and answer nothing, and steps aside.
LEMMA StillFresh ==
    ASSUME AnswerInv, StoreTypes', Witness, Steady, UNCHANGED <<batch, result, reply>>
    PROVE  SinceSound' /\ ResultsAreFresh' /\ AnswersAreFresh'
<1> USE DEF AnswerInv
<1>1. /\ SinceSound'
      /\ \A g \in Requests : AsksExecutor(g) => since[g] \subseteq since'[g]
    BY WitnessGrows DEF Steady, SteadyOf
<1>2. \A c, g \in Requests : Contains(batch[c], g) => AsksExecutor(g)
    BY DEF PlaceInv, BatchSound, Waits
<1>3. ResultsAreFresh'
    BY <1>1, <1>2 DEF ResultsAreFresh
<1>4. AnswersAreFresh'
    BY <1>1 DEF AnswersAreFresh, Replied, Steady, SteadyOf
<1>5. QED
    BY <1>1, <1>3, <1>4

\* A client asks, or takes its answer.
LEMMA OthersStillFresh ==
    ASSUME AnswerInv, StoreTypes', Witness, NEW g \in Requests,
           \A h \in Requests \ {g} : SteadyOf(h),
           UNCHANGED <<batch, result>>,
           \/ ~AsksExecutor(g) /\ reply' = reply
           \/ Replied(g) /\ ~AsksExecutor(g)' /\ reply' = [reply EXCEPT ![g] = NoReply]
    PROVE  SinceSound' /\ ResultsAreFresh' /\ AnswersAreFresh'
<1> USE DEF AnswerInv
<1>1. /\ SinceSound'
      /\ \A h \in Requests : AsksExecutor(h) /\ AsksExecutor(h)' => since[h] \subseteq since'[h]
    BY WitnessGrows DEF SteadyOf
<1>2. \A c, h \in Requests : Contains(batch[c], h) => h # g /\ AsksExecutor(h)
    BY DEF PlaceInv, BatchSound, Waits
<1>3. \A h \in Requests \ {g} : reply'[h] = reply[h]
    BY DEF PlaceInv, BatchTypes
<1>4. ~Replied(g) \/ ~AsksExecutor(g)'
    BY DEF PlaceInv, Kept
<1>5. ResultsAreFresh'
    BY <1>1, <1>2 DEF ResultsAreFresh, SteadyOf
<1>6. AnswersAreFresh'
    <2>1. ASSUME NEW h \in Requests, AsksExecutor(h)', Replied(h)'
          PROVE  reply'[h] \in since'[h] \cup {Failed}
        <3>1. h # g
            BY <1>4, <2>1 DEF Replied
        <3>2. AsksExecutor(h) /\ Replied(h) /\ reply'[h] = reply[h]
            BY <1>3, <2>1, <3>1 DEF SteadyOf, Replied
        <3>3. QED
            BY <1>1, <2>1, <3>2 DEF AnswersAreFresh
    <2>2. QED
        BY <2>1 DEF AnswersAreFresh
<1>7. QED
    BY <1>1, <1>5, <1>6

-----------------------------------------------------------------------------
(* Steps of the executor.                                                  *)

\* They do not change what the requests do.
LEMMA LoopKeepsLocal ==
    ASSUME AnswerInv, OnlyBatch
    PROVE  Steady /\ LocalTypes' /\ AskingPoints'
<1> USE DEF AnswerInv
<1>1. UNCHANGED <<cached, found, inflight, answer, awaits, req>>
    BY DEF OnlyBatch, cacheVars
<1>2. Steady
    BY <1>1 DEF Steady, SteadyOf, AsksExecutor, Asked, At
<1>3. LocalTypes'
    BY <1>1 DEF LocalTypes, Cache!OnlyOneTypeOK
<1>4. AskingPoints'
    BY <1>1 DEF AskingPoints
<1>5. QED
    BY <1>2, <1>3, <1>4

LEMMA LoopIsFresh ==
    ASSUME AnswerInv, StoreTypes', Witness, OnlyBatch, Accept \/ Dispatch \/ Drain \/ Shut
    PROVE  AnswerInv'
<1> USE DEF AnswerInv
<1>1. Steady /\ LocalTypes' /\ AskingPoints'
    BY LoopKeepsLocal
<1>2. PlaceInv'
    BY <1>1, AcceptKeeps, DispatchKeeps, DrainKeeps, ShutKeeps
<1>3. CASE Accept
    BY <1>1, <1>2, <1>3, StillFresh DEF Accept
<1>4. CASE Dispatch
    <2>1. /\ SinceSound'
          /\ \A g \in Requests : AsksExecutor(g) => since[g] \subseteq since'[g]
        BY <1>1, WitnessGrows DEF Steady, SteadyOf
    <2>2. reply' = reply /\ result' = result
        BY <1>4 DEF Dispatch
    <2>3. \A c \in Requests : result[c] # NoReply => batch'[c] = batch[c]
        <3> DEFINE k == Head(execs)
                   waiters == waitingOnKey[k]
                   c == Head(waiters)
        <3>1. /\ executor = "runs" /\ execs # <<>> /\ batch' = [batch EXCEPT ![c] = waiters]
            BY <1>4 DEF Dispatch
        <3>2. k \in BatchKeys /\ Contains(execs, k)
            BY <3>1, PlaceTypes, HeadTail
        <3>3. waiters \in Seq(Requests) /\ waiters # <<>>
            BY <3>1, <3>2, PlaceTypes DEF PlaceInv, TimersSound
        <3>4. c \in Requests /\ Contains(waiters, c)
            BY <3>3, HeadTail
        <3>5. batch[c] = <<>>
            BY <3>2, <3>4, PlaceTypes DEF PlaceInv, CollectionSound, Batched
        <3>6. result[c] = NoReply
            BY <3>4, <3>5 DEF PlaceInv, BatchSound
        <3> HIDE DEF k, waiters, c
        <3>7. batch \in [Requests -> Seq(Requests)]
            BY RepositoriesAssumption DEF PlaceInv, BatchTypes, BatchTypeOK
        <3>8. QED
            BY <3>1, <3>4, <3>6, <3>7
    <2>4. \A c, g \in Requests : Contains(batch[c], g) => AsksExecutor(g)
        BY DEF PlaceInv, BatchSound, Waits
    <2>5. ResultsAreFresh'
        BY <2>1, <2>2, <2>3, <2>4 DEF ResultsAreFresh
    <2>6. AnswersAreFresh'
        BY <1>1, <2>1, <2>2 DEF AnswersAreFresh, Replied, Steady, SteadyOf
    <2>7. QED
        BY <1>1, <1>2, <2>1, <2>5, <2>6
<1>5. CASE Drain \/ Shut
    <2>1. /\ SinceSound'
          /\ \A g \in Requests : AsksExecutor(g) => since[g] \subseteq since'[g]
        BY <1>1, WitnessGrows DEF Steady, SteadyOf
    <2>2. /\ batch' = batch /\ result' = result
          /\ reply' = reply \/ \E cs : Answer(cs, Failed)
        BY <1>5 DEF Drain, Shut
    <2>3. \A g \in Requests : reply'[g] = reply[g] \/ reply'[g] = Failed
        BY <2>2, RepositoriesAssumption DEF Answer
    <2>4. \A c, g \in Requests : Contains(batch[c], g) => AsksExecutor(g)
        BY DEF PlaceInv, BatchSound, Waits
    <2>5. ResultsAreFresh'
        BY <2>1, <2>2, <2>4 DEF ResultsAreFresh
    <2>6. AnswersAreFresh'
        BY <1>1, <2>1, <2>3 DEF AnswersAreFresh, Replied, Steady, SteadyOf
    <2>7. QED
        BY <1>1, <1>2, <2>1, <2>5, <2>6
<1>6. QED
    BY <1>3, <1>4, <1>5

LEMMA TimerIsFresh ==
    ASSUME AnswerInv, StoreTypes', Witness, NEW k \in BatchKeys, Timer(k)
    PROVE  AnswerInv'
<1>1. Steady /\ LocalTypes' /\ AskingPoints'
    BY LoopKeepsLocal DEF Timer
<1>2. PlaceInv'
    BY <1>1, TimerEndsKeeps DEF Timer, AnswerInv
<1>3. SinceSound' /\ ResultsAreFresh' /\ AnswersAreFresh'
    BY <1>1, StillFresh DEF Timer, TimerEnds
<1>4. QED
    BY <1>1, <1>2, <1>3 DEF AnswerInv

\* What is executed for the leader's question is an answer to everybody's.
LEMMA ExecuteIsFresh ==
    ASSUME LifeInv, AnswerInv, StoreTypes', Witness, NEW c \in Requests,
           ExecuteBatch(c) \/ ExecuteFails(c)
    PROVE  AnswerInv'
<1> USE DEF AnswerInv
<1>1. PICK v \in {Look(c), Failed} : Execute(c, v) /\ OnlyBatch
    BY DEF ExecuteBatch, ExecuteFails
<1>2. Steady /\ LocalTypes' /\ AskingPoints'
    BY <1>1, LoopKeepsLocal
<1>3. PlaceInv'
    BY <1>1, <1>2, ExecuteKeeps
<1>4. /\ SinceSound'
      /\ \A g \in Requests : AsksExecutor(g) => since[g] \subseteq since'[g]
    BY <1>2, WitnessGrows DEF Steady, SteadyOf
<1>5. /\ batch[c] # <<>> /\ batch' = batch /\ reply' = reply
      /\ \A d \in Requests : result'[d] = IF d = c THEN v ELSE result[d]
    BY <1>1 DEF Execute, PlaceInv, BatchTypes
<1>6. /\ Contains(batch[c], c)
      /\ \A d, g \in Requests : Contains(batch[d], g) => AsksExecutor(g) /\ Asked(g) = Asked(d)
    BY <1>5, PlaceTypes DEF PlaceInv, BatchSound, Waits
<1>7. Look(c) \in Held(Asked(c))
    <2>1. CASE At(c, "repoWait")
        BY <2>1 DEF Look, Held, Asked
    <2>2. CASE ~At(c, "repoWait")
        <3>1. At(c, "branchWait") \/ req[c].branches = "wait"
            BY <1>6, <2>2 DEF AsksExecutor
        <3>2. req[c].inst \in Instances
            BY <3>1 DEF AskingPoints, At, LifeInv, Aimed
        <3>3. QED
            BY <2>2, <3>2 DEF Look, Held, Asked
    <2>3. QED
        BY <2>1, <2>2
<1>8. ResultsAreFresh'
    <2>1. ASSUME NEW d \in Requests, NEW g \in Requests, Contains(batch'[d], g), result'[d] # NoReply
          PROVE  result'[d] \in since'[g] \cup {Failed}
        <3>1. Contains(batch[d], g) /\ AsksExecutor(g) /\ Asked(g) = Asked(d)
            BY <1>5, <1>6, <2>1
        <3>2. CASE d = c
            BY <1>1, <1>4, <1>5, <1>7, <3>1, <3>2 DEF SinceSound
        <3>3. CASE d # c
            BY <1>4, <1>5, <2>1, <3>1, <3>3 DEF ResultsAreFresh
        <3>4. QED
            BY <3>2, <3>3
    <2>2. QED
        BY <2>1 DEF ResultsAreFresh
<1>9. AnswersAreFresh'
    BY <1>2, <1>4, <1>5 DEF AnswersAreFresh, Replied, Steady, SteadyOf
<1>10. QED
    BY <1>2, <1>3, <1>4, <1>8, <1>9

LEMMA ReplyIsFresh ==
    ASSUME AnswerInv, StoreTypes', Witness, NEW c \in Requests, Answering(c)
    PROVE  AnswerInv'
<1> USE DEF AnswerInv
<1>1. Reply(c) /\ OnlyBatch
    BY DEF Answering
<1>2. Steady /\ LocalTypes' /\ AskingPoints'
    BY <1>1, LoopKeepsLocal
<1>3. PlaceInv'
    BY <1>1, <1>2, ReplyKeeps
<1>4. /\ SinceSound'
      /\ \A g \in Requests : AsksExecutor(g) => since[g] \subseteq since'[g]
    BY <1>2, WitnessGrows DEF Steady, SteadyOf
<1>5. /\ result[c] # NoReply
      /\ batch' = [batch EXCEPT ![c] = <<>>]
      /\ result' = [result EXCEPT ![c] = NoReply]
      /\ \A g \in Requests : reply'[g] = IF g \in ToSet(batch[c]) THEN result[c] ELSE reply[g]
    BY <1>1, RepositoriesAssumption DEF Reply, Answer
<1>6. \A g : g \in ToSet(batch[c]) <=> Contains(batch[c], g)
    BY PlaceTypes, SetHas
<1>7. ResultsAreFresh'
    <2>1. /\ \A d \in Requests : d # c => result'[d] = result[d] /\ batch'[d] = batch[d]
          /\ batch'[c] = <<>>
        BY <1>5, RepositoriesAssumption DEF PlaceInv, BatchTypes, BatchTypeOK
    <2>2. \A d, g \in Requests : Contains(batch[d], g) => AsksExecutor(g)
        BY DEF PlaceInv, BatchSound, Waits
    <2>3. QED
        BY <1>4, <2>1, <2>2, EmptyHas DEF ResultsAreFresh
<1>8. AnswersAreFresh'
    <2>1. ASSUME NEW g \in Requests, AsksExecutor(g)', Replied(g)'
          PROVE  reply'[g] \in since'[g] \cup {Failed}
        <3>1. AsksExecutor(g) /\ since[g] \subseteq since'[g]
            BY <1>2, <1>4, <2>1 DEF Steady, SteadyOf
        <3>2. CASE Contains(batch[c], g)
            BY <1>5, <1>6, <3>1, <3>2 DEF ResultsAreFresh
        <3>3. CASE ~Contains(batch[c], g)
            BY <1>5, <1>6, <2>1, <3>1, <3>3 DEF AnswersAreFresh, Replied
        <3>4. QED
            BY <3>2, <3>3
    <2>2. QED
        BY <2>1 DEF AnswersAreFresh
<1>9. QED
    BY <1>2, <1>3, <1>4, <1>7, <1>8

-----------------------------------------------------------------------------
(* Steps of a request: it asks, it takes its answer, or it does neither.   *)

Apart(g) == UNCHANGED batchVars /\ SteadyOf(g)
Asks(g)  == ~AsksExecutor(g) /\ AsksExecutor(g)' /\ \E k \in BatchKeys : Enqueue(g, k) /\ Asked(g)' = k
Hears(g) == Hear(g) /\ ~AsksExecutor(g)'

LEMMA RequestIsFresh ==
    ASSUME AnswerInv, StoreTypes', Witness, NEW g \in Requests, OnlyOf(g),
           LocalTypes', AskingPoints', Apart(g) \/ Asks(g) \/ Hears(g)
    PROVE  AnswerInv'
<1> USE DEF AnswerInv
<1>1. \A h \in Requests \ {g} : SteadyOf(h)
    BY DEF OnlyOf, SteadyOf, AsksExecutor, Asked, At
<1>2. CASE Apart(g)
    <2>1. Steady
        BY <1>1, <1>2 DEF Steady, Apart
    <2>2. PlaceInv'
        BY <1>2, <2>1, AsideKeeps DEF Apart
    <2>3. QED
        BY <1>2, <2>1, <2>2, StillFresh DEF Apart, batchVars
<1>3. CASE Asks(g)
    <2>1. PlaceInv'
        BY <1>1, <1>3, EnqueueKeeps DEF Asks
    <2>2. QED
        BY <1>1, <1>3, <2>1, OthersStillFresh DEF Asks, Enqueue
<1>4. CASE Hears(g)
    <2>1. PlaceInv'
        BY <1>1, <1>4, HearKeeps DEF Hears
    <2>2. QED
        BY <1>1, <1>4, <2>1, OthersStillFresh DEF Hears, Hear
<1>5. QED
    BY <1>2, <1>3, <1>4

\* The request's local state becomes r.
LEMMA Becomes ==
    ASSUME LocalTypes, AskingPoints, NEW g \in Requests, NEW r \in Local,
           req' = [req EXCEPT ![g] = r],
           r.branches = "wait" => r.pc = "purge",
           r.pc \in {"getBranch", "branchWait", "set"} => r.inst \in Instances,
           r.pc = "follow" => awaits'[g] \in Requests,
           \A h \in Requests \ {g} : awaits'[h] = awaits[h]
    PROVE  OnlyOf(g) /\ req' \in [Requests -> Local] /\ AskingPoints' /\ req'[g] = r
<1>1. req' \in [Requests -> Local] /\ req'[g] = r /\ OnlyOf(g)
    BY DEF LocalTypes, OnlyOf
<1>2. AskingPoints'
    BY <1>1 DEF AskingPoints, OnlyOf
<1>3. QED
    BY <1>1, <1>2

LEMMA Goes ==
    ASSUME LocalTypes, AskingPoints, NEW g \in Requests, NEW x \in Points, Go(g, x),
           req[g].branches # "wait",
           x \in {"getBranch", "branchWait", "set"} => req[g].inst \in Instances,
           x = "follow" => awaits'[g] \in Requests,
           \A h \in Requests \ {g} : awaits'[h] = awaits[h]
    PROVE  /\ OnlyOf(g) /\ req' \in [Requests -> Local] /\ AskingPoints'
           /\ req'[g].pc = x /\ req'[g].branches = req[g].branches
<1> DEFINE r == [req[g] EXCEPT !.pc = x]
<1>1. req[g] \in Local
    BY DEF LocalTypes
<1>2. r \in Local /\ r.pc = x /\ r.branches = req[g].branches /\ r.inst = req[g].inst
    BY <1>1 DEF Local
<1>3. req' = [req EXCEPT ![g] = r]
    BY DEF Go, LocalTypes
<1> HIDE DEF r
<1>4. QED
    BY <1>2, <1>3, Becomes

LEMMA Ends ==
    ASSUME LocalTypes, AskingPoints, NEW g \in Requests, NEW x \in Over, Finish(g, x),
           \A h \in Requests \ {g} : awaits'[h] = awaits[h]
    PROVE  /\ OnlyOf(g) /\ req' \in [Requests -> Local] /\ AskingPoints'
           /\ req'[g].pc = x /\ req'[g].branches = "list"
<1> DEFINE r == [Idle EXCEPT !.pc = x]
<1>1. r \in Local /\ r.pc = x /\ r.branches = "list"
    BY DEF Local, Idle, Workers, Branches
<1>2. req' = [req EXCEPT ![g] = r]
    BY DEF Finish
<1>3. x \notin {"purge", "getBranch", "branchWait", "set", "follow"}
    BY DEF Over
<1> HIDE DEF r
<1>4. QED
    BY <1>1, <1>2, <1>3, Becomes

LEMMA Works ==
    ASSUME LocalTypes, AskingPoints, NEW g \in Requests, At(g, "purge"), UNCHANGED awaits,
           \/ \E x \in Workers : req' = [req EXCEPT ![g].branches = x]
           \/ req' = [req EXCEPT ![g].commits = TRUE]
    PROVE  /\ OnlyOf(g) /\ req' \in [Requests -> Local] /\ AskingPoints' /\ At(g, "purge")'
           /\ req' = [req EXCEPT ![g].commits = TRUE] => req'[g].branches = req[g].branches
           /\ \A x \in Workers : req' = [req EXCEPT ![g].branches = x] => req'[g].branches = x
<1>1. req[g] \in Local /\ req[g].pc = "purge"
    BY DEF LocalTypes, At
<1>2. CASE req' = [req EXCEPT ![g].commits = TRUE]
    <2> DEFINE r == [req[g] EXCEPT !.commits = TRUE]
    <2>1. r \in Local /\ r.pc = "purge" /\ r.branches = req[g].branches
        BY <1>1 DEF Local
    <2>2. req' = [req EXCEPT ![g] = r]
        BY <1>2 DEF LocalTypes
    <2> HIDE DEF r
    <2>3. OnlyOf(g) /\ req' \in [Requests -> Local] /\ AskingPoints' /\ req'[g] = r
        BY <2>1, <2>2, Becomes
    <2>4. \A x \in Workers : req' = [req EXCEPT ![g].branches = x] => req'[g].branches = x
        BY <1>1 DEF LocalTypes, Local
    <2>5. QED
        BY <2>1, <2>3, <2>4 DEF At
<1>3. ASSUME NEW x \in Workers, req' = [req EXCEPT ![g].branches = x]
      PROVE  OnlyOf(g) /\ req' \in [Requests -> Local] /\ AskingPoints' /\ At(g, "purge")' /\ req'[g].branches = x
    <2> DEFINE r == [req[g] EXCEPT !.branches = x]
    <2>1. r \in Local /\ r.pc = "purge" /\ r.branches = x
        BY <1>1 DEF Local
    <2>2. req' = [req EXCEPT ![g] = r]
        BY <1>3 DEF LocalTypes
    <2> HIDE DEF r
    <2>3. OnlyOf(g) /\ req' \in [Requests -> Local] /\ AskingPoints' /\ req'[g] = r
        BY <2>1, <2>2, Becomes
    <2>4. QED
        BY <2>1, <2>3 DEF At
<1>4. req' = [req EXCEPT ![g].commits = TRUE] => req'[g].branches = req[g].branches
    BY <1>1 DEF LocalTypes, Local
<1>5. QED
    BY <1>2, <1>3, <1>4

\* What it concludes from an answer asks nothing.
LEMMA Concludes ==
    ASSUME LocalTypes, AskingPoints, NEW g \in Requests, NEW v \in Records \cup {Failed},
           UNCHANGED awaits, At(g, "start") \/ At(g, "forget") \/ At(g, "follow"),
           \/ v \in Records /\ Conclude(g, v)
           \/ Take(g, v)
    PROVE  OnlyOf(g) /\ req' \in [Requests -> Local] /\ AskingPoints' /\ ~AsksExecutor(g) /\ ~AsksExecutor(g)'
<1>1. req[g] \in Local /\ req[g].branches # "wait" /\ ~AsksExecutor(g)
    BY DEF LocalTypes, AskingPoints, At, AsksExecutor
<1>2. CASE Finish(g, "failed")
    BY <1>1, <1>2, Ends DEF Over, AsksExecutor, At
<1>3. CASE Go(g, "commit")
    <2>1. "commit" \in Points /\ "commit" \notin {"getBranch", "branchWait", "set", "follow"}
        BY DEF Points
    <2>2. /\ OnlyOf(g) /\ req' \in [Requests -> Local] /\ AskingPoints'
          /\ req'[g].pc = "commit" /\ req'[g].branches = req[g].branches
        BY <1>1, <1>3, <2>1, Goes
    <2>3. QED
        BY <1>1, <2>2 DEF AsksExecutor, At
<1>4. CASE v \in Records /\ v.state = "active" /\ req' = [req EXCEPT ![g].pc = "getBranch", ![g].inst = v.inst]
    <2> DEFINE i == v.inst
               r == [req[g] EXCEPT !.pc = "getBranch", !.inst = i]
    <2>1. i \in Instances
        BY <1>4 DEF Records, NoRepo
    <2>2. req' = [req EXCEPT ![g] = r]
        BY <1>4 DEF LocalTypes
    <2> HIDE DEF i
    <2>3. r \in Local /\ r.pc = "getBranch" /\ r.inst \in Instances /\ r.branches = req[g].branches
        BY <1>1, <2>1 DEF Local, Points
    <2> HIDE DEF r
    <2>4. OnlyOf(g) /\ req' \in [Requests -> Local] /\ AskingPoints' /\ req'[g] = r
        BY <1>1, <2>2, <2>3, Becomes
    <2>5. QED
        BY <1>1, <2>3, <2>4 DEF AsksExecutor, At
<1>5. Finish(g, "failed") \/ (v \in Records /\ Conclude(g, v))
    BY DEF Take
<1>6. ASSUME v \in Records, Conclude(g, v)
      PROVE  \/ Finish(g, "failed") \/ Go(g, "commit")
             \/ v.state = "active" /\ req' = [req EXCEPT ![g].pc = "getBranch", ![g].inst = v.inst]
    BY <1>6, Zenon DEF Conclude
<1>7. QED
    BY <1>1, <1>2, <1>3, <1>4, <1>5, <1>6, Zenon

LocalStep(g) == OnlyOf(g) /\ LocalTypes' /\ AskingPoints' /\ (Apart(g) \/ Asks(g) \/ Hears(g))

\* A point of the program at which nothing is asked.
LEMMA NotAsking ==
    ASSUME LocalTypes, AskingPoints, NEW g \in Requests,
           req[g].pc \notin {"repoWait", "branchWait", "purge"}
    PROVE  ~AsksExecutor(g) /\ req[g].branches # "wait"
BY DEF AskingPoints, AsksExecutor, At

LEMMA GetRepositoryLocal ==
    ASSUME AnswerInv, NEW g \in Requests, GetRepository(g)
    PROVE  LocalStep(g)
<1> USE DEF AnswerInv
<1>1. ASSUME OnlyOf(g), req' \in [Requests -> Local], AskingPoints',
             ~AsksExecutor(g), ~AsksExecutor(g)', UNCHANGED batchVars,
             cached' \in Instances \cup {Nobody}, found' = found, Cache!OnlyOneTypeOK'
      PROVE  LocalStep(g)
    BY <1>1 DEF LocalStep, LocalTypes, Apart, SteadyOf
<1>2. CASE LookUp(g)
    <2>1. At(g, "start") /\ UNCHANGED <<cached, found, inflight, answer, awaits, batchVars>>
        BY <1>2 DEF LookUp, cacheVars
    <2>2. req[g].branches # "wait" /\ ~AsksExecutor(g) /\ Cache!OnlyOneTypeOK'
        BY <2>1, NotAsking DEF At, LocalTypes, Cache!OnlyOneTypeOK
    <2>3. CASE Go(g, "compute")
        <3>1. "compute" \in Points
            BY DEF Points
        <3>2. /\ OnlyOf(g) /\ req' \in [Requests -> Local] /\ AskingPoints'
              /\ req'[g].pc = "compute" /\ req'[g].branches # "wait"
            BY <2>1, <2>2, <2>3, <3>1, Goes
        <3>3. QED
            BY <1>1, <2>1, <2>2, <3>2 DEF AsksExecutor, At, LocalTypes
    <2>4. CASE cached # Nobody /\ Conclude(g, [inst |-> cached, state |-> "active"])
        <3>1. [inst |-> cached, state |-> "active"] \in Records
            BY <2>4 DEF Records, LocalTypes
        <3>2. OnlyOf(g) /\ req' \in [Requests -> Local] /\ AskingPoints' /\ ~AsksExecutor(g)'
            BY <2>1, <2>4, <3>1, Concludes
        <3>3. QED
            BY <1>1, <2>1, <2>2, <3>2 DEF LocalTypes
    <2>5. QED
        BY <1>2, <2>3, <2>4 DEF LookUp
<1>3. CASE LeadCompute(g)
    <2>1. /\ At(g, "compute") /\ Enqueue(g, "repo") /\ Go(g, "repoWait")
          /\ inflight' = [inflight EXCEPT !["repo"] = g]
          /\ UNCHANGED <<answer, awaits, cached, found>>
        BY <1>3 DEF LeadCompute, Cache!Lead
    <2>2. req[g].branches # "wait" /\ ~AsksExecutor(g)
        BY <2>1, NotAsking DEF At
    <2>3. "repoWait" \in Points
        BY DEF Points
    <2>4. /\ OnlyOf(g) /\ req' \in [Requests -> Local] /\ AskingPoints'
          /\ req'[g].pc = "repoWait"
        BY <2>1, <2>2, <2>3, Goes
    <2>5. LocalTypes'
        BY <2>1, <2>4 DEF LocalTypes, Cache!OnlyOneTypeOK
    <2>6. Asks(g)
        BY <2>1, <2>2, <2>4, RepositoriesAssumption DEF Asks, AsksExecutor, Asked, At
    <2>7. QED
        BY <2>4, <2>5, <2>6 DEF LocalStep
<1>4. CASE LeadHears(g)
    <2>1. /\ At(g, "repoWait") /\ Hear(g) /\ Go(g, "forget") /\ Replied(g)
          /\ found' = [found EXCEPT ![g] = reply[g]]
          /\ UNCHANGED <<inflight, awaits>>
          /\ \/ reply[g] # Failed /\ reply[g].state = "active" /\ cached' = reply[g].inst
             \/ cached' = cached
          /\ \E a \in {"ok", "failed"} : answer' = [answer EXCEPT ![g] = a]
        BY <1>4 DEF LeadHears, Cache!Close, Hear
    <2>2. req[g].branches # "wait" /\ AsksExecutor(g) /\ Asked(g) = "repo"
        BY <2>1 DEF At, AskingPoints, AsksExecutor, Asked
    <2>3. reply[g] \in Records \cup {Failed}
        BY <2>1, <2>2 DEF AnswersAreFresh, SinceSound, Values
    <2>4. "forget" \in Points
        BY DEF Points
    <2>5. /\ OnlyOf(g) /\ req' \in [Requests -> Local] /\ AskingPoints'
          /\ req'[g].pc = "forget" /\ req'[g].branches # "wait"
        BY <2>1, <2>2, <2>4, Goes
    <2>6. cached' \in Instances \cup {Nobody}
        BY <2>1, <2>3 DEF LocalTypes, Records, NoRepo
    <2>7. LocalTypes'
        BY <2>1, <2>3, <2>5, <2>6 DEF LocalTypes, Cache!OnlyOneTypeOK, Cache!Answers
    <2>8. Hears(g)
        BY <2>1, <2>5 DEF Hears, AsksExecutor, At
    <2>9. QED
        BY <2>5, <2>7, <2>8 DEF LocalStep
<1>5. CASE LeadForgets(g)
    <2>1. /\ At(g, "forget") /\ Take(g, found[g]) /\ found[g] \in Records \cup {Failed}
          /\ inflight' = [inflight EXCEPT !["repo"] = Nobody]
          /\ UNCHANGED <<answer, awaits, cached, found, batchVars>>
        BY <1>5 DEF LeadForgets, Cache!Forget, LocalTypes
    <2>2. OnlyOf(g) /\ req' \in [Requests -> Local] /\ AskingPoints' /\ ~AsksExecutor(g) /\ ~AsksExecutor(g)'
        BY <2>1, Concludes
    <2>3. QED
        BY <1>1, <2>1, <2>2 DEF LocalTypes, Cache!OnlyOneTypeOK
<1>6. CASE FollowCompute(g)
    <2>1. /\ At(g, "compute") /\ Go(g, "follow") /\ inflight["repo"] # Nobody
          /\ awaits' = [awaits EXCEPT ![g] = inflight["repo"]]
          /\ UNCHANGED <<inflight, answer, cached, found, batchVars>>
        BY <1>6 DEF FollowCompute, Cache!Follow
    <2>2. req[g].branches # "wait" /\ ~AsksExecutor(g)
        BY <2>1, NotAsking DEF At
    <2>3. /\ Cache!OnlyOneTypeOK' /\ awaits'[g] \in Requests
          /\ \A h \in Requests \ {g} : awaits'[h] = awaits[h]
        BY <2>1 DEF LocalTypes, Cache!OnlyOneTypeOK
    <2>4. "follow" \in Points
        BY DEF Points
    <2>5. /\ OnlyOf(g) /\ req' \in [Requests -> Local] /\ AskingPoints'
          /\ req'[g].pc = "follow" /\ req'[g].branches # "wait"
        BY <2>1, <2>2, <2>3, <2>4, Goes
    <2>6. QED
        BY <1>1, <2>1, <2>2, <2>3, <2>5 DEF AsksExecutor, At, LocalTypes
<1>7. CASE FollowerHears(g)
    <2>1. /\ At(g, "follow") /\ Take(g, found[awaits[g]])
          /\ UNCHANGED <<cached, found, inflight, answer, awaits, batchVars>>
        BY <1>7 DEF FollowerHears, cacheVars
    <2>2. found[awaits[g]] \in Records \cup {Failed}
        BY <2>1 DEF LocalTypes, AskingPoints, At
    <2>3. OnlyOf(g) /\ req' \in [Requests -> Local] /\ AskingPoints' /\ ~AsksExecutor(g) /\ ~AsksExecutor(g)'
        BY <2>1, <2>2, Concludes
    <2>4. QED
        BY <1>1, <2>1, <2>3 DEF LocalTypes, Cache!OnlyOneTypeOK
<1>8. QED
    BY <1>2, <1>3, <1>4, <1>5, <1>6, <1>7 DEF GetRepository

\* Steps that touch nothing but the store.
LEMMA StoreLocal ==
    ASSUME LocalTypes, NEW g \in Requests, StoreStep,
           OnlyOf(g), req' \in [Requests -> Local], AskingPoints', SteadyOf(g)
    PROVE  LocalStep(g)
<1>1. UNCHANGED <<cached, found, inflight, answer, awaits, batchVars>>
    BY DEF StoreStep, cacheVars
<1>2. LocalTypes'
    BY <1>1 DEF LocalTypes, Cache!OnlyOneTypeOK
<1>3. QED
    BY <1>1, <1>2 DEF LocalStep, Apart

LEMMA StoreGoes ==
    ASSUME LocalTypes, AskingPoints, NEW g \in Requests, StoreStep,
           \/ /\ req[g].pc \notin {"repoWait", "branchWait", "purge"}
              /\ Go(g, "branch") \/ Go(g, "record") \/ Go(g, "purge")
           \/ /\ req[g].pc = "purge" /\ req[g].branches # "wait"
              /\ Go(g, "drop")
    PROVE  LocalStep(g)
<1>1. req[g].branches # "wait" /\ ~AsksExecutor(g) /\ awaits' = awaits
    BY NotAsking DEF AsksExecutor, At, StoreStep, cacheVars
<1>2. PICK x \in {"branch", "record", "purge", "drop"} : Go(g, x)
    OBVIOUS
<1>3. x \in Points
    BY <1>2 DEF Points
<1>4. /\ OnlyOf(g) /\ req' \in [Requests -> Local] /\ AskingPoints'
      /\ req'[g].pc = x /\ req'[g].branches # "wait"
    BY <1>1, <1>2, <1>3, Goes
<1>5. SteadyOf(g)
    BY <1>1, <1>4 DEF SteadyOf, AsksExecutor, At
<1>6. QED
    BY <1>4, <1>5, StoreLocal

LEMMA StoreEnds ==
    ASSUME LocalTypes, AskingPoints, NEW g \in Requests, StoreStep,
           req[g].pc \notin {"repoWait", "branchWait"}, req[g].branches # "wait",
           NEW x \in Over, Finish(g, x)
    PROVE  LocalStep(g)
<1>1. ~AsksExecutor(g) /\ awaits' = awaits
    BY DEF AsksExecutor, At, StoreStep, cacheVars
<1>2. /\ OnlyOf(g) /\ req' \in [Requests -> Local] /\ AskingPoints'
      /\ req'[g].pc \in Over /\ req'[g].branches = "list"
    BY <1>1, Ends
<1>3. SteadyOf(g)
    BY <1>1, <1>2 DEF SteadyOf, AsksExecutor, At, Over
<1>4. QED
    BY <1>2, <1>3, StoreLocal

LEMMA CreateRepositoryLocal ==
    ASSUME AnswerInv, NEW g \in Requests, CreateRepository(g)
    PROVE  LocalStep(g)
<1>1. /\ StoreStep /\ req[g].pc \in {"commit", "branch", "record"}
      /\ \/ Go(g, "branch") \/ Go(g, "record")
         \/ \E x \in Over : Finish(g, x)
    BY DEF CreateRepository, AddCommit, CreateBranch, CreateRecord, At, Told, Over
<1>2. req[g].branches # "wait"
    BY <1>1 DEF AnswerInv, AskingPoints
<1>3. QED
    BY <1>1, <1>2, StoreGoes, StoreEnds DEF AnswerInv

LEMMA DeleteRepositoryLocal ==
    ASSUME LifeInv, AnswerInv, NEW g \in Requests, DeleteRepository(g)
    PROVE  LocalStep(g)
<1> USE DEF AnswerInv
<1>1. CASE ReadRecord(g)
    <2>1. /\ StoreStep /\ req[g].pc = "start" /\ awaits' = awaits
          /\ \/ Finish(g, "failed")
             \/ /\ repo # NoRepo
                /\ req' = [req EXCEPT ![g].pc = IF repo.state = "active" THEN "mark" ELSE "purge",
                                      ![g].inst = repo.inst]
        BY <1>1 DEF ReadRecord, At, StoreStep, cacheVars
    <2>2. req[g].branches # "wait" /\ ~AsksExecutor(g)
        BY <2>1, NotAsking
    <2>3. CASE Finish(g, "failed")
        BY <2>1, <2>2, <2>3, StoreEnds DEF Over
    <2>4. CASE ~Finish(g, "failed")
        <3> DEFINE x == IF repo.state = "active" THEN "mark" ELSE "purge"
                   i == repo.inst
                   r == [req[g] EXCEPT !.pc = x, !.inst = i]
        <3>1. i \in Instances /\ x \in {"mark", "purge"}
            BY <2>1, <2>4 DEF LifeInv, StoreTypes, Records
        <3>2. req[g] \in Local
            BY DEF LocalTypes
        <3>3. req' = [req EXCEPT ![g] = r]
            BY <2>1, <2>4 DEF LocalTypes
        <3> HIDE DEF x, i
        <3>4. r \in Local /\ r.pc \in {"mark", "purge"} /\ r.branches # "wait"
            BY <2>2, <3>1, <3>2 DEF Local, Points
        <3> HIDE DEF r
        <3>5. OnlyOf(g) /\ req' \in [Requests -> Local] /\ AskingPoints' /\ req'[g] = r
            BY <2>1, <3>3, <3>4, Becomes
        <3>6. SteadyOf(g)
            BY <2>2, <3>4, <3>5 DEF SteadyOf, AsksExecutor, At
        <3>7. QED
            BY <2>1, <3>5, <3>6, StoreLocal
    <2>5. QED
        BY <2>3, <2>4
<1>2. CASE Mark(g)
    BY <1>2, StoreGoes DEF Mark, At
<1>3. CASE RemoveCommits(g)
    <2>1. StoreStep /\ At(g, "purge") /\ awaits' = awaits /\ req' = [req EXCEPT ![g].commits = TRUE]
        BY <1>3 DEF RemoveCommits, StoreStep, cacheVars
    <2>2. /\ OnlyOf(g) /\ req' \in [Requests -> Local] /\ AskingPoints' /\ At(g, "purge")'
          /\ req'[g].branches = req[g].branches
        BY <2>1, Works
    <2>3. SteadyOf(g)
        BY <2>1, <2>2 DEF SteadyOf, AsksExecutor, Asked, At
    <2>4. QED
        BY <2>1, <2>2, <2>3, StoreLocal
<1>4. CASE ListBranches(g)
    <2>1. /\ At(g, "purge") /\ req[g].branches = "list" /\ ~AsksExecutor(g)
          /\ UNCHANGED <<cached, found, inflight, answer, awaits>>
        BY <1>4 DEF ListBranches, cacheVars, AsksExecutor, At
    <2>2. Cache!OnlyOneTypeOK'
        BY <2>1 DEF LocalTypes, Cache!OnlyOneTypeOK
    <2>3. CASE req' = [req EXCEPT ![g].branches = "done"] /\ UNCHANGED batchVars
        <3>1. "done" \in Workers
            BY DEF Workers
        <3>2. /\ OnlyOf(g) /\ req' \in [Requests -> Local] /\ AskingPoints' /\ At(g, "purge")'
              /\ req'[g].branches = "done"
            BY <2>1, <2>3, <3>1, Works
        <3>3. QED
            BY <2>1, <2>2, <2>3, <3>2 DEF LocalStep, LocalTypes, Apart, SteadyOf, AsksExecutor, At
    <2>4. CASE req' = [req EXCEPT ![g].branches = "wait"] /\ Enqueue(g, "branch")
        <3>1. "wait" \in Workers
            BY DEF Workers
        <3>2. /\ OnlyOf(g) /\ req' \in [Requests -> Local] /\ AskingPoints' /\ At(g, "purge")'
              /\ req'[g].branches = "wait"
            BY <2>1, <2>4, <3>1, Works
        <3>3. Asks(g)
            BY <2>1, <2>4, <3>2, RepositoriesAssumption DEF Asks, AsksExecutor, Asked, At
        <3>4. QED
            BY <2>1, <2>2, <3>2, <3>3 DEF LocalStep, LocalTypes
    <2>5. QED
        BY <1>4, <2>3, <2>4 DEF ListBranches
<1>5. CASE BranchKnown(g)
    <2> DEFINE x == IF reply[g] \in {Failed, NoBranch} THEN "failed" ELSE "remove"
    <2>1. /\ At(g, "purge") /\ Hear(g) /\ req' = [req EXCEPT ![g].branches = x]
          /\ UNCHANGED <<cached, found, inflight, answer, awaits>>
        BY <1>5 DEF BranchKnown, cacheVars
    <2>2. Cache!OnlyOneTypeOK'
        BY <2>1 DEF LocalTypes, Cache!OnlyOneTypeOK
    <2>3. x \in Workers /\ x # "wait"
        BY DEF Workers
    <2> HIDE DEF x
    <2>4. /\ OnlyOf(g) /\ req' \in [Requests -> Local] /\ AskingPoints' /\ At(g, "purge")'
          /\ req'[g].branches = x
        BY <2>1, <2>3, Works
    <2>5. Hears(g)
        BY <2>1, <2>3, <2>4 DEF Hears, AsksExecutor, At
    <2>6. QED
        BY <2>1, <2>2, <2>4, <2>5 DEF LocalStep, LocalTypes
<1>6. CASE RemoveBranch(g)
    <2>1. /\ StoreStep /\ At(g, "purge") /\ awaits' = awaits /\ req' = [req EXCEPT ![g].branches = "done"]
          /\ req[g].branches # "wait"
        BY <1>6 DEF RemoveBranch, StoreStep, cacheVars
    <2>2. "done" \in Workers
        BY DEF Workers
    <2>3. /\ OnlyOf(g) /\ req' \in [Requests -> Local] /\ AskingPoints' /\ At(g, "purge")'
          /\ req'[g].branches = "done"
        BY <2>1, <2>2, Works
    <2>4. SteadyOf(g)
        BY <2>1, <2>3 DEF SteadyOf, AsksExecutor, At
    <2>5. QED
        BY <2>1, <2>3, <2>4, StoreLocal
<1>7. CASE EndPurge(g)
    <2>1. /\ StoreStep /\ req[g].pc = "purge" /\ req[g].branches # "wait"
          /\ Go(g, "drop") \/ Finish(g, "failed")
        BY <1>7 DEF EndPurge, At
    <2>2. "failed" \in Over
        BY DEF Over
    <2>3. QED
        BY <2>1, <2>2, StoreGoes, StoreEnds
<1>8. CASE DropRecord(g)
    <2>1. /\ StoreStep /\ req[g].pc = "drop" /\ \E x \in Over : Finish(g, x)
        BY <1>8 DEF DropRecord, At, Told, Over
    <2>2. req[g].branches # "wait"
        BY <2>1 DEF AskingPoints
    <2>3. QED
        BY <2>1, <2>2, StoreEnds
<1>9. QED
    BY <1>1, <1>2, <1>3, <1>4, <1>5, <1>6, <1>7, <1>8 DEF DeleteRepository

LEMMA BranchUpdateLocal ==
    ASSUME AnswerInv, NEW g \in Requests, BranchUpdate(g)
    PROVE  LocalStep(g)
<1> USE DEF AnswerInv
<1>1. CASE AskBranch(g)
    <2>1. /\ req[g].pc = "getBranch" /\ Enqueue(g, "branch") /\ Go(g, "branchWait")
          /\ UNCHANGED <<cached, found, inflight, answer, awaits>>
        BY <1>1 DEF AskBranch, cacheVars, At
    <2>2. req[g].branches # "wait" /\ ~AsksExecutor(g) /\ req[g].inst \in Instances
        BY <2>1, NotAsking DEF AskingPoints
    <2>3. "branchWait" \in Points
        BY DEF Points
    <2>4. /\ OnlyOf(g) /\ req' \in [Requests -> Local] /\ AskingPoints' /\ req'[g].pc = "branchWait"
        BY <2>1, <2>2, <2>3, Goes
    <2>5. LocalTypes'
        BY <2>1, <2>4 DEF LocalTypes, Cache!OnlyOneTypeOK
    <2>6. Asks(g)
        BY <2>1, <2>2, <2>4, RepositoriesAssumption DEF Asks, AsksExecutor, Asked, At
    <2>7. QED
        BY <2>4, <2>5, <2>6 DEF LocalStep
<1>2. CASE BranchRead(g)
    <2>1. /\ req[g].pc = "branchWait" /\ Hear(g) /\ Replied(g)
          /\ UNCHANGED <<cached, found, inflight, answer, awaits>>
          /\ \/ Finish(g, "failed")
             \/ reply[g] # Failed /\ req' = [req EXCEPT ![g].pc = "set", ![g].read = reply[g]]
        BY <1>2 DEF BranchRead, cacheVars, At, Hear
    <2>2. req[g].branches # "wait" /\ req[g].inst \in Instances
        BY <2>1 DEF AskingPoints
    <2>3. AsksExecutor(g) /\ Asked(g) = "branch"
        BY <2>1 DEF AsksExecutor, Asked, At
    <2>4. reply[g] \in Branches \cup {Failed}
        BY <2>1, <2>3 DEF AnswersAreFresh, SinceSound, Values
    <2>5. Cache!OnlyOneTypeOK'
        BY <2>1 DEF LocalTypes, Cache!OnlyOneTypeOK
    <2>6. CASE Finish(g, "failed")
        <3>1. /\ OnlyOf(g) /\ req' \in [Requests -> Local] /\ AskingPoints'
              /\ req'[g].pc = "failed" /\ req'[g].branches = "list"
            BY <2>1, <2>6, Ends DEF Over
        <3>2. Hears(g)
            BY <2>1, <3>1 DEF Hears, AsksExecutor, At
        <3>3. QED
            BY <2>1, <2>5, <3>1, <3>2 DEF LocalStep, LocalTypes
    <2>7. CASE ~Finish(g, "failed")
        <3> DEFINE v == reply[g]
                   r == [req[g] EXCEPT !.pc = "set", !.read = v]
        <3>1. v \in Branches
            BY <2>1, <2>4, <2>7
        <3>2. req[g] \in Local
            BY DEF LocalTypes
        <3>3. req' = [req EXCEPT ![g] = r]
            BY <2>1, <2>7 DEF LocalTypes
        <3> HIDE DEF v
        <3>4. r \in Local /\ r.pc = "set" /\ r.branches # "wait" /\ r.inst \in Instances
            BY <2>2, <3>1, <3>2 DEF Local, Points
        <3> HIDE DEF r
        <3>5. OnlyOf(g) /\ req' \in [Requests -> Local] /\ AskingPoints' /\ req'[g] = r
            BY <2>1, <3>3, <3>4, Becomes
        <3>6. Hears(g)
            BY <2>1, <3>4, <3>5 DEF Hears, AsksExecutor, At
        <3>7. QED
            BY <2>1, <2>5, <3>5, <3>6 DEF LocalStep, LocalTypes
    <2>8. QED
        BY <2>6, <2>7
<1>3. CASE SetBranch(g)
    <2>1. /\ StoreStep /\ req[g].pc = "set" /\ \E x \in Over : Finish(g, x)
        BY <1>3 DEF SetBranch, At, Told, Over
    <2>2. req[g].branches # "wait"
        BY <2>1 DEF AskingPoints
    <2>3. QED
        BY <2>1, <2>2, StoreEnds
<1>4. QED
    BY <1>1, <1>2, <1>3 DEF BranchUpdate

LEMMA FailLocal ==
    ASSUME AnswerInv, NEW g \in Requests, Fail(g)
    PROVE  LocalStep(g)
<1> USE DEF AnswerInv
<1>1. StoreStep /\ awaits' = awaits
    BY DEF Fail, StoreStep, cacheVars
<1>2. CASE req[g].pc \in {"commit", "branch", "record", "mark", "drop", "set"} /\ Finish(g, "failed")
    <2>1. req[g].branches # "wait" /\ req[g].pc \notin {"repoWait", "branchWait"} /\ "failed" \in Over
        BY <1>2 DEF AskingPoints, Over
    <2>2. QED
        BY <1>1, <1>2, <2>1, StoreEnds
<1>3. CASE /\ At(g, "purge") /\ req[g].branches \in {"list", "remove"}
           /\ req' = [req EXCEPT ![g].branches = "failed"]
    <2>1. "failed" \in Workers
        BY DEF Workers
    <2>2. /\ OnlyOf(g) /\ req' \in [Requests -> Local] /\ AskingPoints' /\ At(g, "purge")'
          /\ req'[g].branches = "failed"
        BY <1>1, <1>3, <2>1, Works
    <2>3. SteadyOf(g)
        BY <1>3, <2>2 DEF SteadyOf, AsksExecutor, At
    <2>4. QED
        BY <1>1, <2>2, <2>3, StoreLocal
<1>4. QED
    BY <1>2, <1>3 DEF Fail

-----------------------------------------------------------------------------

LEMMA InitiallySound == Init => AnswerInv
<1> SUFFICES ASSUME Init PROVE AnswerInv
    OBVIOUS
<1>1. /\ req = [g \in Requests |-> Idle] /\ Idle.pc = "start" /\ Idle.branches = "list"
      /\ cached = Origin /\ found = [g \in Requests |-> NoRepo]
      /\ inflight = [k \in {"repo"} |-> Nobody]
      /\ answer = [g \in Requests |-> "none"] /\ awaits = [g \in Requests |-> Nobody]
    BY DEF Init, Idle, Cache!OnlyOneInit
<1>2. /\ requests = <<>> /\ execs = <<>> /\ timers = {} /\ executor = "runs"
      /\ waitingOnKey = [k \in BatchKeys |-> <<>>]
      /\ batch = [c \in Requests |-> <<>>]
      /\ result = [c \in Requests |-> NoReply] /\ reply = [c \in Requests |-> NoReply]
    BY RepositoriesAssumption DEF Init, BatchInit
<1>3. \A g \in Requests : ~AsksExecutor(g) /\ ~Replied(g)
    BY <1>1, <1>2 DEF AsksExecutor, At, Replied
<1>4. BatchTypes
    BY <1>2, RepositoriesAssumption DEF BatchTypes, BatchTypeOK
<1>5. DOMAIN requests = {} /\ DOMAIN execs = {}
    BY <1>2
<1>6. PlaceInv
    BY <1>2, <1>3, <1>4, <1>5, EmptyHas
    DEF PlaceInv, QueueSound, CollectionSound, BatchSound, TimersSound, Kept, Waits
<1>7. LocalTypes
    <2>1. Idle \in Local
        BY DEF Idle, Local, Points, Workers, Branches
    <2>2. QED
        BY <1>1, <2>1 DEF LocalTypes, Cache!OnlyOneTypeOK, Cache!Answers, Instances, Records
<1>8. AskingPoints
    BY <1>1 DEF AskingPoints
<1>9. SinceSound /\ ResultsAreFresh /\ AnswersAreFresh
    BY <1>2, <1>3, EmptyHas DEF SinceSound, ResultsAreFresh, AnswersAreFresh
<1>10. QED
    BY <1>6, <1>7, <1>8, <1>9 DEF AnswerInv

\* The entry of the cache expires, or nothing happens.
LEMMA ElsewhereFresh ==
    ASSUME AnswerInv, UNCHANGED <<req, found, inflight, answer, awaits, batchVars>>,
           cached' \in {cached, Nobody},
           \/ StoreTypes' /\ Witness
           \/ UNCHANGED <<since, storeVars>>
    PROVE  AnswerInv'
<1> USE DEF AnswerInv
<1>1. Steady
    BY DEF Steady, SteadyOf, AsksExecutor, Asked, At
<1>2. PlaceInv'
    BY <1>1, AsideKeeps
<1>3. LocalTypes'
    BY DEF LocalTypes, Cache!OnlyOneTypeOK
<1>4. AskingPoints'
    BY DEF AskingPoints
<1>5. CASE StoreTypes' /\ Witness
    BY <1>1, <1>2, <1>3, <1>4, <1>5, StillFresh DEF batchVars
<1>6. CASE UNCHANGED <<since, storeVars>>
    <2>1. UNCHANGED <<repo, part, since, batch, result, reply, req>>
        BY <1>6 DEF storeVars, batchVars
    <2>2. SinceSound'
        BY <2>1 DEF SinceSound, AsksExecutor, Asked, At, Held, Values
    <2>3. ResultsAreFresh' /\ AnswersAreFresh'
        BY <2>1 DEF ResultsAreFresh, AnswersAreFresh, AsksExecutor, At, Replied
    <2>4. QED
        BY <1>2, <1>3, <1>4, <2>2, <2>3
<1>7. QED
    BY <1>5, <1>6

\* The inductive invariant: every client is in one place of the executor, and
\* the results on their way to it are of the store since it asked (BatchFor,
\* Run).
THEOREM AnswerInvariant == Spec => []AnswerInv
<1>1. Init => AnswerInv
    BY InitiallySound
<1>2. LifeInv /\ LifeInv' /\ AnswerInv /\ [Next]_vars => AnswerInv'
    <2> SUFFICES ASSUME LifeInv, LifeInv', AnswerInv, [Next]_vars PROVE AnswerInv'
        OBVIOUS
    <2>1. StoreTypes'
        BY DEF LifeInv
    <2>2. CASE UNCHANGED vars
        BY <2>2, ElsewhereFresh DEF vars, cacheVars
    <2>3. ASSUME NEW g \in Requests, Step(Request(g) \/ ExecuteFails(g) \/ Fail(g))
          PROVE  AnswerInv'
        <3>1. Witness
            BY <2>3 DEF Step
        <3>2. CASE LocalStep(g)
            BY <2>1, <3>1, <3>2, RequestIsFresh DEF LocalStep
        <3>3. CASE ExecuteBatch(g) \/ ExecuteFails(g)
            BY <2>1, <3>1, <3>3, ExecuteIsFresh
        <3>4. QED
            BY <2>3, <3>2, <3>3, GetRepositoryLocal, CreateRepositoryLocal, DeleteRepositoryLocal,
               BranchUpdateLocal, FailLocal DEF Step, Request
    <2>4. CASE Step(Executor)
        <3>1. Witness
            BY <2>4 DEF Step
        <3>2. CASE Loop
            BY <2>1, <3>1, <3>2, LoopIsFresh DEF Loop, RunLoop
        <3>3. ASSUME NEW k \in BatchKeys, Timer(k) PROVE AnswerInv'
            BY <2>1, <3>1, <3>3, TimerIsFresh
        <3>4. ASSUME NEW g \in Requests, Answering(g) PROVE AnswerInv'
            BY <2>1, <3>1, <3>4, ReplyIsFresh
        <3>5. QED
            BY <2>4, <3>2, <3>3, <3>4 DEF Step, Executor
    <2>5. CASE Step(Expire)
        BY <2>1, <2>5, ElsewhereFresh DEF Step, Expire
    <2>6. CASE Step(Shutdown)
        BY <2>1, <2>6, LoopIsFresh DEF Step, Shutdown
    <2>7. QED
        BY <2>2, <2>3, <2>4, <2>5, <2>6 DEF Next
<1>3. QED
    BY <1>1, <1>2, LifeInvariant, PTL DEF Spec

\* Whatever is read, answered or cached is of its type: an executor that
\* answers repositories and branches over one channel never gives one for the
\* other (getRepositoryBatch, getBranchWithPredicate).
THEOREM RepositoriesTypeCorrect == Spec => []TypeOK
<1>1. LifeInv /\ AnswerInv => TypeOK
    <2> SUFFICES ASSUME LifeInv, AnswerInv PROVE TypeOK
        OBVIOUS
    <2>1. BatchTypeOK /\ \A c \in Requests : batch[c] # <<>> => Head(batch[c]) = c
        BY DEF AnswerInv, PlaceInv, BatchTypes, BatchSound
    <2>2. QED
        BY <2>1 DEF TypeOK, LifeInv, StoreTypes, AnswerInv, LocalTypes, Local
<1>2. QED
    BY <1>1, LifeInvariant, AnswerInvariant, PTL

\* No client of the executor is lost, for any number of them, whatever fails
\* and whenever the executor is told to stop: it has its answer, or is on the
\* channel, or is collected under a key that will be due, or is in a batch
\* (BatchFor, Run).
THEOREM NobodyIsLost == Spec => []WaitersKept
<1>1. AnswerInv => WaitersKept
    <2> SUFFICES ASSUME AnswerInv, NEW g \in Requests, AsksExecutor(g), ~Replied(g)
                 PROVE  \/ \E c \in Requests : Contains(batch[c], g)
                        \/ /\ executor = "runs"
                           /\ Contains(waitingOnKey[Asked(g)], g)
                           /\ Asked(g) \in timers \/ Contains(execs, Asked(g))
                        \/ \E n \in DOMAIN requests : requests[n] = [client |-> g, key |-> Asked(g)]
        BY DEF WaitersKept
    <2> USE DEF AnswerInv, PlaceInv
    <2>1. Queued(g) \/ Collected(g) \/ Batched(g)
        BY DEF Kept, Waits
    <2>2. CASE Queued(g)
        <3>1. PICK n \in DOMAIN requests : requests[n].client = g
            BY <2>2 DEF Queued
        <3>2. requests[n].key = Asked(g)
            BY <3>1 DEF QueueSound
        <3>3. requests[n] \in [client : Requests, key : BatchKeys]
            BY PlaceTypes, ElementIn
        <3>4. QED
            BY <3>1, <3>2, <3>3
    <2>3. CASE Collected(g)
        <3>1. PICK k \in BatchKeys : Contains(waitingOnKey[k], g)
            BY <2>3 DEF Collected
        <3>2. executor = "runs" /\ Asked(g) = k
            BY <3>1 DEF CollectionSound
        <3>3. waitingOnKey[k] # <<>>
            BY <3>1, EmptyHas
        <3>4. QED
            BY <3>1, <3>2, <3>3 DEF TimersSound
    <2>4. QED
        BY <2>1, <2>2, <2>3 DEF Batched
<1>2. QED
    BY <1>1, AnswerInvariant, PTL

\* No answer is older than its question, for any number of clients that share
\* it (Executor.Run).
THEOREM AnswersAreNotStale == Spec => []AnswersAreFresh
<1>1. AnswerInv => AnswersAreFresh
    BY DEF AnswerInv
<1>2. QED
    BY <1>1, AnswerInvariant, PTL
=============================================================================
