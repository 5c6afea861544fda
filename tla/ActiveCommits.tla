---------------------------- MODULE ActiveCommits ----------------------------
(***************************************************************************)
(* Which commits garbage collection retains (pkg/graveler/retention):      *)
(* GetGarbageCollectionCommits starts at the head of every branch and at   *)
(* every commit that is the first parent of none, in the order of their    *)
(* IDs, and follows first parents.  A commit is active while it was the    *)
(* state of a branch at some time within the branch's retention: it is the *)
(* head, or its child was committed since the threshold.  What an earlier  *)
(* walk has passed with a threshold as old is not passed again.            *)
(*                                                                         *)
(* Commit IDs are numbers, in their order; dates are days.  Only the first *)
(* parent of a commit matters here.                                        *)
(***************************************************************************)
EXTENDS Integers, FiniteSets

CONSTANTS CommitIDs,  \* IDs a commit may have
          NoCommit,   \* no parent
          Branches,   \* branch IDs
          Dangling,   \* the branch ID of a starting point that is no head
          Rules,      \* days of retention of each branch; the default's for Dangling
          Today,      \* the day of the run
          MetaRanges  \* what a commit may hold

ASSUME ActiveCommitsAssumption ==
    /\ CommitIDs \subseteq Nat
    /\ NoCommit \notin CommitIDs
    /\ Dangling \notin Branches
    /\ Rules \in [Branches \cup {Dangling} -> Nat]
    /\ Today \in Nat

VARIABLES
    commits,   \* the commits in the store
    starts,    \* the starting points that were listed
    points,    \* those still to come
    node,      \* the commit whose parent is looked at next
    threshold, \* of the walk
    processed, \* threshold of the commits passed so far
    active

walkVars == <<starts, points, node, threshold, processed, active>>

Commit == [parent : CommitIDs \cup {NoCommit}, generation : Nat, created : 0..Today, metaRange : MetaRanges]

\* Parents exist, and are older in every respect.
WellFormed(history) ==
    \A c \in DOMAIN history :
        LET p == history[c].parent
        IN p # NoCommit =>
               /\ p \in DOMAIN history
               /\ history[p].generation < history[c].generation
               /\ history[p].created <= history[c].created

Points == [branch : Branches \cup {Dangling}, commit : CommitIDs]
Nodes  == [parent : CommitIDs \cup {NoCommit}, created : 0..Today]
Nowhere == [parent |-> NoCommit, created |-> 0]

ActiveTypeOK ==
    /\ DOMAIN commits \subseteq CommitIDs
    /\ commits \in [DOMAIN commits -> Commit]
    /\ WellFormed(commits)
    /\ starts \subseteq [branch : Branches \cup {Dangling}, commit : DOMAIN commits]
    /\ points \subseteq starts
    /\ node \in Nodes
    /\ node.parent # NoCommit => node.parent \in DOMAIN commits
    /\ threshold \in Int
    /\ DOMAIN processed \subseteq DOMAIN commits
    /\ processed \in [DOMAIN processed -> Int]
    /\ active \subseteq DOMAIN commits

-----------------------------------------------------------------------------
(* The starting points.                                                    *)

\* getAllFirstParents, and the commits it leaves to OrderedCommitIterator.
Leaves == {c \in DOMAIN commits : \A d \in DOMAIN commits : commits[d].parent # c}

\* The iterators of branch heads and of leaves, merged; a leaf that is a
\* head counts as a head.
StartingPoints(heads) ==
    {[branch |-> b, commit |-> heads[b]] : b \in DOMAIN heads}
    \cup {[branch |-> Dangling, commit |-> c] : c \in Leaves \ {heads[b] : b \in DOMAIN heads}}

BeginWalk(heads) ==
    /\ starts' = StartingPoints(heads)
    /\ points' = StartingPoints(heads)
    /\ node' = Nowhere
    /\ threshold' = 0
    /\ processed' = [c \in {} |-> 0]
    /\ active' = {}

-----------------------------------------------------------------------------
(* The walk.                                                               *)

Threshold(branch) == Today - Rules[branch]

Node(c) == [parent |-> commits[c].parent, created |-> commits[c].created]
Pass(c, t) == processed' = [d \in DOMAIN processed \cup {c} |-> IF d = c THEN t ELSE processed[d]]

Walking == node.parent # NoCommit

\* A bug: a head counts only by its date, as a dangling commit does.
StartHeadUncounted(p) ==
    /\ ~Walking
    /\ p \in points
    /\ \A q \in points : p.commit <= q.commit
    /\ points' = points \ {p}
    /\ threshold' = Threshold(p.branch)
    /\ node' = [Node(p.commit) EXCEPT !.parent = p.commit]
    /\ UNCHANGED <<commits, starts, processed, active>>

\* The next starting point.  Branches with one head come in any order.  A
\* dangling commit is taken for the parent of a head of its age.
StartPoint(p) ==
    /\ ~Walking
    /\ p \in points
    /\ \A q \in points : p.commit <= q.commit
    /\ points' = points \ {p}
    /\ threshold' = Threshold(p.branch)
    /\ IF p.branch = Dangling
       THEN /\ node' = [Node(p.commit) EXCEPT !.parent = p.commit]
            /\ UNCHANGED <<processed, active>>
       ELSE /\ node' = Node(p.commit)
            /\ Pass(p.commit, Threshold(p.branch))
            /\ active' = active \cup {p.commit}
    /\ UNCHANGED <<commits, starts>>

\* A bug: whatever was passed once is not passed again.
PassedOnce(c) == c \in DOMAIN processed

\* Was the commit passed with a threshold that is not after this one?
Passed(c) == c \in DOMAIN processed /\ processed[c] <= threshold

Stop ==
    /\ Walking
    /\ Passed(node.parent)
    /\ node' = Nowhere
    /\ UNCHANGED <<commits, starts, points, threshold, processed, active>>

\* A bug: a commit stays active as long as its own date, and one day more.
ActiveThrough(created) == created >= threshold

\* Was the commit's child made after the threshold?
ActiveSince(created) == created > threshold

Follow ==
    /\ Walking
    /\ ~Passed(node.parent)
    /\ active' = IF ActiveSince(node.created) THEN active \cup {node.parent} ELSE active
    /\ node' = Node(node.parent)
    /\ Pass(node.parent, threshold)
    /\ UNCHANGED <<commits, starts, points, threshold>>

Walk == (\E p \in points : StartPoint(p)) \/ Stop \/ Follow

Walked == points = {} /\ ~Walking

\* The walk of any history, from any heads.
WalkInit ==
    /\ \E ids \in SUBSET CommitIDs : commits \in [ids -> Commit]
    /\ WellFormed(commits)
    /\ \E bs \in SUBSET Branches : \E heads \in [bs -> DOMAIN commits] : starts = StartingPoints(heads)
    /\ points = starts
    /\ node = Nowhere /\ threshold = 0
    /\ processed = [c \in {} |-> 0] /\ active = {}

WalkSpec == WalkInit /\ [][Walk]_<<commits, walkVars>>

-----------------------------------------------------------------------------
(* What is to be retained.                                                 *)

\* A commit and its first parents, theirs, and so on: what every set has
\* that has the commit, and the parents of all it has.
Closed(cs) == \A c \in cs : commits[c].parent # NoCommit => commits[c].parent \in cs
Ancestry(c) ==
    LET closed == {cs \in SUBSET DOMAIN commits : c \in cs /\ Closed(cs)}
    IN {d \in DOMAIN commits : \A cs \in closed : d \in cs}

\* The commits that were the state of a branch within its retention.
RetainedBy(p) ==
    LET past == Ancestry(p.commit)
    IN {d \in past :
           \/ d = p.commit /\ (p.branch = Dangling => commits[d].created > Threshold(Dangling))
           \/ \E e \in past : commits[e].parent = d /\ commits[e].created > Threshold(p.branch)}

\* Nothing outlives the rules: a commit is active because some starting point
\* retains it, in whatever order the walks went and wherever they stopped
\* (GetGarbageCollectionCommits).
NothingOverstays == active \subseteq UNION {RetainedBy(p) : p \in starts}

\* All heads are active in the end, and all commits of an ancestry that were
\* made within its retention, though walks stop at what others have passed
\* (GetGarbageCollectionCommits).
RecentKept ==
    Walked => \A p \in starts :
        /\ p.branch # Dangling => p.commit \in active
        /\ \A d \in Ancestry(p.commit) : commits[d].created > Threshold(p.branch) => d \in active

\* "All commits reached are added to the active set, until and including the
\* first commit performed before the start of the retention period": so is
\* the commit that was a branch's state when its retention began
\* (GetGarbageCollectionCommits).
RetainedKept == Walked => \A p \in starts : RetainedBy(p) \subseteq active
=============================================================================
