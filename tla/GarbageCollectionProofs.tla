------------------------ MODULE GarbageCollectionProofs ------------------------
(***************************************************************************)
(* Two things are proved here.  Of the walk over the commits               *)
(* (ActiveCommits), for every history, all rules and every order in which  *)
(* its walks may go: that it decides of each commit as the rules say.  Of  *)
(* the collection of objects (GarbageCollection), whose job has the walk   *)
(* as one of its parts: no object that a branch needs is removed, for any  *)
(* history, any branches, paths, addresses and clients, and all periods    *)
(* that keep their order.                                                  *)
(***************************************************************************)
EXTENDS GarbageCollection, WellFoundedInduction, TLAPS

walkAll == <<commits, walkVars>>

-----------------------------------------------------------------------------
(* Ancestries.                                                             *)

\* The history the walk reads.
History ==
    /\ DOMAIN commits \subseteq CommitIDs
    /\ commits \in [DOMAIN commits -> Commit]
    /\ WellFormed(commits)

\* What a commit of a history has.
LEMMA CommitFields ==
    ASSUME History, NEW c \in DOMAIN commits
    PROVE  /\ c \in CommitIDs /\ c \in Nat /\ c # NoCommit
           /\ commits[c].created \in Nat /\ commits[c].created \in 0..Today
           /\ commits[c].generation \in Nat
           /\ commits[c].parent \in CommitIDs \cup {NoCommit}
           /\ commits[c].parent # NoCommit =>
                /\ commits[c].parent \in DOMAIN commits
                /\ commits[commits[c].parent].generation < commits[c].generation
                /\ commits[commits[c].parent].created <= commits[c].created
<1>1. commits[c] \in Commit
    BY DEF History
<1>2. QED
    BY <1>1, ActiveCommitsAssumption DEF History, Commit, WellFormed

\* An ancestry is a closed set of commits with the commit, and the smallest.
LEMMA AncestryIsLeast ==
    ASSUME History, NEW c \in DOMAIN commits
    PROVE  /\ Ancestry(c) \subseteq DOMAIN commits
           /\ c \in Ancestry(c)
           /\ Closed(Ancestry(c))
           /\ \A cs \in SUBSET DOMAIN commits : c \in cs /\ Closed(cs) => Ancestry(c) \subseteq cs
<1>1. Ancestry(c) \subseteq DOMAIN commits /\ c \in Ancestry(c)
    BY DEF Ancestry
<1>2. \A cs \in SUBSET DOMAIN commits : c \in cs /\ Closed(cs) => Ancestry(c) \subseteq cs
    BY DEF Ancestry
<1>3. ASSUME NEW d \in Ancestry(c), commits[d].parent # NoCommit
      PROVE  commits[d].parent \in Ancestry(c)
    <2>1. commits[d].parent \in DOMAIN commits
        BY <1>1, <1>3, CommitFields
    <2>2. ASSUME NEW cs \in SUBSET DOMAIN commits, c \in cs, Closed(cs)
          PROVE  commits[d].parent \in cs
        BY <1>2, <1>3, <2>2 DEF Closed
    <2>3. QED
        BY <2>1, <2>2 DEF Ancestry
<1>4. QED
    BY <1>1, <1>2, <1>3 DEF Closed

\* A parent belongs to every ancestry its child belongs to.
LEMMA AncestryHasParents ==
    ASSUME History, NEW c \in DOMAIN commits, NEW d \in Ancestry(c), commits[d].parent # NoCommit
    PROVE  commits[d].parent \in Ancestry(c)
BY AncestryIsLeast DEF Closed

\* An ancestry is the commit and the ancestry of its parent.
LEMMA AncestrySplits ==
    ASSUME History, NEW c \in DOMAIN commits, NEW d \in Ancestry(c), d # c
    PROVE  commits[c].parent # NoCommit /\ d \in Ancestry(commits[c].parent)
<1>1. CASE commits[c].parent = NoCommit
    <2>1. Closed({c})
        BY <1>1 DEF Closed
    <2>2. Ancestry(c) \subseteq {c}
        BY <2>1, AncestryIsLeast
    <2>3. QED
        BY <2>2
<1>2. CASE commits[c].parent # NoCommit
    <2> DEFINE p == commits[c].parent
    <2>1. p \in DOMAIN commits
        BY <1>2, CommitFields
    <2>2. /\ Ancestry(p) \subseteq DOMAIN commits
          /\ p \in Ancestry(p)
          /\ Closed(Ancestry(p))
        BY <2>1, AncestryIsLeast
    <2>3. Closed(Ancestry(p) \cup {c})
        BY <2>2 DEF Closed
    <2>4. Ancestry(c) \subseteq Ancestry(p) \cup {c}
        BY <2>2, <2>3, AncestryIsLeast
    <2>5. QED
        BY <1>2, <2>4
<1>3. QED
    BY <1>1, <1>2

\* The same history has the same ancestries.
LEMMA AncestryStays ==
    ASSUME UNCHANGED commits
    PROVE  \A c : Ancestry(c)' = Ancestry(c)
BY DEF Ancestry, Closed

-----------------------------------------------------------------------------
(* Types.                                                                  *)

LEMMA NodeFields ==
    ASSUME History, NEW c \in DOMAIN commits
    PROVE  /\ Node(c) \in Nodes
           /\ Node(c).parent = commits[c].parent
           /\ Node(c).created = commits[c].created
           /\ Node(c).parent # NoCommit => Node(c).parent \in DOMAIN commits
BY CommitFields DEF Node, Nodes

LEMMA PassEffect ==
    ASSUME NEW c, NEW t, Pass(c, t)
    PROVE  /\ DOMAIN processed' = DOMAIN processed \cup {c}
           /\ processed'[c] = t
           /\ \A d \in DOMAIN processed \ {c} : processed'[d] = processed[d]
BY DEF Pass

LEMMA ThresholdType ==
    ASSUME NEW b \in Branches \cup {Dangling}
    PROVE  Threshold(b) \in Int
BY ActiveCommitsAssumption DEF Threshold

\* A starting point is a branch with its head, or a dangling commit.
LEMMA StartFields ==
    ASSUME ActiveTypeOK, NEW p \in starts
    PROVE  /\ p.branch \in Branches \cup {Dangling}
           /\ p.commit \in DOMAIN commits
BY DEF ActiveTypeOK

LEMMA TypeHistory ==
    ASSUME ActiveTypeOK
    PROVE  History
BY DEF ActiveTypeOK, History

LEMMA ActiveTypeInit ==
    ASSUME WalkInit
    PROVE  ActiveTypeOK
<1>1. PICK ids \in SUBSET CommitIDs : commits \in [ids -> Commit]
    BY DEF WalkInit
<1>2. PICK bs \in SUBSET Branches : \E hs \in [bs -> DOMAIN commits] : starts = StartingPoints(hs)
    BY DEF WalkInit
<1>3. PICK hs \in [bs -> DOMAIN commits] : starts = StartingPoints(hs)
    BY <1>2
<1>4. starts \subseteq [branch : Branches \cup {Dangling}, commit : DOMAIN commits]
    BY <1>3 DEF StartingPoints, Leaves
<1>5. Nowhere \in Nodes /\ Nowhere.parent = NoCommit
    BY ActiveCommitsAssumption DEF Nowhere, Nodes
<1>6. QED
    BY <1>1, <1>4, <1>5 DEF WalkInit, ActiveTypeOK

LEMMA ActiveTypeNext ==
    ASSUME ActiveTypeOK, [Walk]_walkAll
    PROVE  ActiveTypeOK'
<1> USE TypeHistory
<1>1. ASSUME NEW p \in points, StartPoint(p)
      PROVE  ActiveTypeOK'
    <2>1. p \in starts /\ p.branch \in Branches \cup {Dangling} /\ p.commit \in DOMAIN commits
        BY StartFields DEF ActiveTypeOK
    <2>2. Threshold(p.branch) \in Int
        BY <2>1, ThresholdType
    <2>3. node' \in Nodes /\ (node'.parent # NoCommit => node'.parent \in DOMAIN commits)
        BY <1>1, <2>1, NodeFields, CommitFields DEF StartPoint, Nodes
    <2>4. DOMAIN processed' \subseteq DOMAIN commits /\ processed' \in [DOMAIN processed' -> Int]
        <3>1. CASE p.branch = Dangling
            BY <1>1, <3>1 DEF StartPoint, ActiveTypeOK
        <3>2. CASE p.branch # Dangling
            BY <1>1, <2>1, <2>2, <3>2 DEF StartPoint, Pass, ActiveTypeOK
        <3>3. QED
            BY <3>1, <3>2
    <2>5. active' \subseteq DOMAIN commits
        BY <1>1, <2>1 DEF StartPoint, ActiveTypeOK
    <2>6. QED
        BY <1>1, <2>2, <2>3, <2>4, <2>5 DEF StartPoint, ActiveTypeOK, WellFormed
<1>2. CASE Stop
    BY <1>2, ActiveCommitsAssumption DEF Stop, ActiveTypeOK, WellFormed, Nowhere, Nodes
<1>3. CASE Follow
    <2>1. node.parent \in DOMAIN commits
        BY <1>3 DEF Follow, Walking, ActiveTypeOK
    <2>2. node' \in Nodes /\ (node'.parent # NoCommit => node'.parent \in DOMAIN commits)
        BY <1>3, <2>1, NodeFields DEF Follow
    <2>3. DOMAIN processed' \subseteq DOMAIN commits /\ processed' \in [DOMAIN processed' -> Int]
        BY <1>3, <2>1 DEF Follow, Pass, ActiveTypeOK
    <2>4. active' \subseteq DOMAIN commits
        BY <1>3, <2>1 DEF Follow, ActiveTypeOK
    <2>5. QED
        BY <1>3, <2>2, <2>3, <2>4 DEF Follow, ActiveTypeOK, WellFormed
<1>4. CASE UNCHANGED walkAll
    BY <1>4 DEF walkAll, walkVars, ActiveTypeOK, WellFormed
<1>5. QED
    BY <1>1, <1>2, <1>3, <1>4 DEF Walk

\* The walk keeps the types of its variables, for every history and all
\* rules (GetGarbageCollectionCommits).
THEOREM ActiveTypeCorrect == WalkSpec => []ActiveTypeOK
<1>1. WalkInit => ActiveTypeOK
    BY ActiveTypeInit
<1>2. ActiveTypeOK /\ [Walk]_walkAll => ActiveTypeOK'
    BY ActiveTypeNext
<1>3. QED
    BY <1>1, <1>2, PTL DEF WalkSpec, walkAll

-----------------------------------------------------------------------------
(* Nothing overstays.                                                      *)

\* What is active is retained by some starting point; so is the parent that
\* the walk is about to reach, if its child is young enough.
NothingOverstaysInv ==
    /\ \A c \in active : \E p \in starts : c \in RetainedBy(p)
    /\ Walking => \E p \in starts :
          /\ threshold = Threshold(p.branch)
          /\ node.parent \in Ancestry(p.commit)
          /\ node.created > threshold => node.parent \in RetainedBy(p)

\* The parent of a commit that was made after the threshold is retained.
LEMMA ParentRetained ==
    ASSUME ActiveTypeOK, NEW p \in starts, NEW e \in Ancestry(p.commit), Node(e).parent # NoCommit
    PROVE  /\ Node(e).parent \in Ancestry(p.commit)
           /\ Node(e).created > Threshold(p.branch) => Node(e).parent \in RetainedBy(p)
<1> USE TypeHistory
<1>1. p.commit \in DOMAIN commits
    BY StartFields
<1>2. e \in DOMAIN commits
    BY <1>1, AncestryIsLeast
<1>3. Node(e).parent = commits[e].parent /\ Node(e).created = commits[e].created
    BY <1>2, NodeFields
<1>4. commits[e].parent \in Ancestry(p.commit)
    BY <1>1, <1>3, AncestryHasParents
<1>5. QED
    BY <1>3, <1>4 DEF RetainedBy

\* The same history and rules retain the same.
LEMMA RetainedStays ==
    ASSUME UNCHANGED commits
    PROVE  \A p : RetainedBy(p)' = RetainedBy(p)
BY AncestryStays DEF RetainedBy, Threshold

LEMMA OverstaysStep ==
    ASSUME ActiveTypeOK, NothingOverstaysInv, [Walk]_walkAll
    PROVE  NothingOverstaysInv'
<1> USE TypeHistory
<1>0. UNCHANGED <<commits, starts>>
    BY DEF walkAll, walkVars, Walk, StartPoint, Stop, Follow
<1>A. /\ \A c : Ancestry(c)' = Ancestry(c)
      /\ \A p : RetainedBy(p)' = RetainedBy(p)
    BY <1>0, AncestryStays, RetainedStays
<1>T. \A b : Threshold(b)' = Threshold(b)
    BY DEF Threshold
<1>1. ASSUME NEW p \in points, StartPoint(p)
      PROVE  NothingOverstaysInv'
    <2>1. p \in starts /\ p.commit \in DOMAIN commits
        BY StartFields DEF ActiveTypeOK
    <2>2. p.commit \in Ancestry(p.commit)
        BY <2>1, AncestryIsLeast
    <2>3. CASE p.branch = Dangling
        <3>1. node'.parent = p.commit /\ node'.created = commits[p.commit].created
            BY <1>1, <2>1, <2>3, NodeFields DEF StartPoint, Nodes, Node
        <3>2. node'.created > threshold' => node'.parent \in RetainedBy(p)
            BY <1>1, <2>2, <2>3, <3>1 DEF StartPoint, RetainedBy
        <3>3. active' = active /\ threshold' = Threshold(p.branch)
            BY <1>1, <2>3 DEF StartPoint
        <3>4. QED
            BY <1>0, <1>A, <1>T, <2>1, <2>2, <3>1, <3>2, <3>3 DEF NothingOverstaysInv
    <2>4. CASE p.branch # Dangling
        <3>1. node' = Node(p.commit) /\ threshold' = Threshold(p.branch) /\ active' = active \cup {p.commit}
            BY <1>1, <2>4 DEF StartPoint
        <3>2. p.commit \in RetainedBy(p)
            BY <2>2, <2>4 DEF RetainedBy
        <3>3. node'.parent # NoCommit =>
                 /\ node'.parent \in Ancestry(p.commit)
                 /\ node'.created > threshold' => node'.parent \in RetainedBy(p)
            BY <2>1, <2>2, <3>1, ParentRetained
        <3>4. QED
            BY <1>0, <1>A, <1>T, <2>1, <3>1, <3>2, <3>3 DEF NothingOverstaysInv, Walking
    <2>5. QED
        BY <2>3, <2>4
<1>2. CASE Stop
    <2>1. ~Walking'
        BY <1>2 DEF Stop, Walking, Nowhere
    <2>2. active' = active
        BY <1>2 DEF Stop
    <2>3. QED
        BY <1>0, <1>A, <2>1, <2>2 DEF NothingOverstaysInv
<1>3. CASE Follow
    <2>1. Walking
        BY <1>3 DEF Follow
    <2>2. PICK p \in starts :
             /\ threshold = Threshold(p.branch)
             /\ node.parent \in Ancestry(p.commit)
             /\ node.created > threshold => node.parent \in RetainedBy(p)
        BY <2>1 DEF NothingOverstaysInv
    <2>3. node' = Node(node.parent) /\ threshold' = threshold
        BY <1>3 DEF Follow
    <2>4. node'.parent # NoCommit =>
             /\ node'.parent \in Ancestry(p.commit)
             /\ node'.created > threshold' => node'.parent \in RetainedBy(p)
        BY <2>2, <2>3, ParentRetained
    <2>5. \A c \in active' : c \in active \/ c \in RetainedBy(p)
        BY <1>3, <2>2 DEF Follow, ActiveSince
    <2>6. QED
        BY <1>0, <1>A, <1>T, <2>2, <2>3, <2>4, <2>5 DEF NothingOverstaysInv, Walking
<1>4. CASE UNCHANGED walkAll
    BY <1>0, <1>A, <1>T, <1>4 DEF walkAll, walkVars, NothingOverstaysInv, Walking
<1>5. QED
    BY <1>1, <1>2, <1>3, <1>4 DEF Walk

\* Nothing outlives the rules, for every history, all rules and every order
\* of the walks: what is active, some starting point retains
\* (GetGarbageCollectionCommits).
THEOREM OldIsDropped == WalkSpec => []NothingOverstays
<1>1. WalkInit => NothingOverstaysInv
    BY DEF WalkInit, NothingOverstaysInv, Walking, Nowhere
<1>2. ActiveTypeOK /\ NothingOverstaysInv /\ [Walk]_walkAll => NothingOverstaysInv'
    BY OverstaysStep
<1>3. NothingOverstaysInv => NothingOverstays
    BY DEF NothingOverstaysInv, NothingOverstays
<1>4. QED
    BY <1>1, <1>2, <1>3, ActiveTypeCorrect, PTL DEF WalkSpec, walkAll

-----------------------------------------------------------------------------
(* What is recent is kept.                                                 *)

\* What the walk has still to pass.
Ahead(d) == Walking /\ d \in Ancestry(node.parent)

\* What a commit that was passed has after the threshold it was passed with
\* is active, or the walk that passed it is on its way there.
PassedKeep ==
    \A c \in DOMAIN processed, d \in DOMAIN commits :
        d \in Ancestry(c) /\ commits[d].created > processed[c] =>
            \/ d \in active
            \/ /\ Ahead(d)
               /\ processed[c] = threshold
               /\ commits[node.parent].generation < commits[c].generation

\* So is what a starting point has that was taken.
StartsKeep ==
    \A p \in starts \ points :
        /\ p.branch # Dangling => p.commit \in active
        /\ \A d \in DOMAIN commits :
              d \in Ancestry(p.commit) /\ commits[d].created > Threshold(p.branch) =>
                  d \in active \/ (Ahead(d) /\ threshold = Threshold(p.branch))

\* The child is not older than the parent that comes next.
NodeIsYounger == Walking => commits[node.parent].created <= node.created

RecentKeptInv == PassedKeep /\ StartsKeep /\ NodeIsYounger

\* Stepping from a commit to its parent, the walk has the rest of its ancestry
\* ahead.
LEMMA AheadOf ==
    ASSUME History, NEW c \in DOMAIN commits, node' = Node(c), UNCHANGED commits,
           NEW d \in Ancestry(c), d # c
    PROVE  /\ Ahead(d)'
           /\ commits[node'.parent].generation < commits[c].generation
<1>1. node'.parent = commits[c].parent
    BY NodeFields
<1>2. commits[c].parent # NoCommit /\ d \in Ancestry(commits[c].parent)
    BY AncestrySplits
<1>3. commits[commits[c].parent].generation < commits[c].generation
    BY <1>2, CommitFields
<1>4. \A e : Ancestry(e)' = Ancestry(e)
    BY AncestryStays
<1>5. QED
    BY <1>1, <1>2, <1>3, <1>4 DEF Ahead, Walking

LEMMA StartKeeps ==
    ASSUME ActiveTypeOK, RecentKeptInv, NEW p \in points, StartPoint(p)
    PROVE  RecentKeptInv'
<1> USE TypeHistory
<1>0. commits' = commits /\ starts' = starts /\ points' = points \ {p} /\ ~Walking
    BY DEF StartPoint
<1>A. \A c : Ancestry(c)' = Ancestry(c)
    BY <1>0, AncestryStays
<1>T. \A b : Threshold(b)' = Threshold(b)
    BY DEF Threshold
<1>1. p \in starts /\ p.commit \in DOMAIN commits /\ threshold' = Threshold(p.branch)
    BY StartFields DEF ActiveTypeOK, StartPoint
<1>2. active \subseteq active' /\ (p.branch # Dangling => p.commit \in active')
    BY DEF StartPoint
<1>3. \A d \in Ancestry(p.commit) : d \in active' \/ Ahead(d)'
    <2>1. CASE p.branch = Dangling
        <3>1. node'.parent = p.commit
            BY <1>1, <2>1, NodeFields DEF StartPoint, Nodes, Node
        <3>2. QED
            BY <1>1, <1>A, <3>1, CommitFields DEF Ahead, Walking
    <2>2. CASE p.branch # Dangling
        <3>1. node' = Node(p.commit)
            BY <2>2 DEF StartPoint
        <3>2. QED
            BY <1>0, <1>1, <1>2, <2>2, <3>1, AheadOf
    <2>3. QED
        BY <2>1, <2>2
<1>4. StartsKeep'
    <2>1. ASSUME NEW q \in starts' \ points'
          PROVE  /\ q.branch # Dangling => q.commit \in active'
                 /\ \A d \in DOMAIN commits :
                       d \in Ancestry(q.commit) /\ commits[d].created > Threshold(q.branch) =>
                           d \in active' \/ (Ahead(d)' /\ threshold' = Threshold(q.branch))
        <3>1. CASE q = p
            BY <1>1, <1>2, <1>3, <3>1
        <3>2. CASE q # p
            BY <1>0, <1>2, <2>1, <3>2 DEF RecentKeptInv, StartsKeep, Ahead
        <3>3. QED
            BY <3>1, <3>2
    <2>2. QED
        BY <1>0, <1>A, <1>T, <2>1 DEF StartsKeep
<1>5. PassedKeep'
    <2>1. ASSUME NEW c \in DOMAIN processed', NEW d \in DOMAIN commits,
                 d \in Ancestry(c), commits[d].created > processed'[c]
          PROVE  \/ d \in active'
                 \/ /\ Ahead(d)'
                    /\ processed'[c] = threshold'
                    /\ commits[node'.parent].generation < commits[c].generation
        <3>1. CASE c \in DOMAIN processed /\ processed'[c] = processed[c] /\ (p.branch = Dangling \/ c # p.commit)
            BY <1>0, <1>2, <2>1, <3>1 DEF RecentKeptInv, PassedKeep, Ahead
        <3>2. CASE p.branch # Dangling /\ c = p.commit
            <4>1. node' = Node(p.commit) /\ Pass(p.commit, Threshold(p.branch))
                BY <3>2 DEF StartPoint
            <4>2. processed'[c] = threshold'
                BY <1>1, <3>2, <4>1, PassEffect
            <4>3. CASE d = c
                BY <1>2, <3>2, <4>3
            <4>4. CASE d # c
                BY <1>0, <1>1, <2>1, <3>2, <4>1, <4>2, <4>4, AheadOf
            <4>5. QED
                BY <4>3, <4>4
        <3>3. \/ c \in DOMAIN processed /\ processed'[c] = processed[c] /\ (p.branch = Dangling \/ c # p.commit)
              \/ p.branch # Dangling /\ c = p.commit
            <4>1. CASE p.branch = Dangling
                BY <2>1, <4>1 DEF StartPoint
            <4>2. CASE p.branch # Dangling
                BY <2>1, <4>2, PassEffect DEF StartPoint
            <4>3. QED
                BY <4>1, <4>2
        <3>4. QED
            BY <3>1, <3>2, <3>3
    <2>2. QED
        BY <1>0, <1>A, <2>1 DEF PassedKeep
<1>6. NodeIsYounger'
    <2>1. CASE p.branch = Dangling
        <3>1. node'.parent = p.commit /\ node'.created = commits[p.commit].created
            BY <1>1, <2>1, NodeFields DEF StartPoint, Nodes, Node
        <3>2. QED
            BY <1>0, <1>1, <3>1, CommitFields DEF NodeIsYounger
    <2>2. CASE p.branch # Dangling
        <3>1. node' = Node(p.commit)
            BY <2>2 DEF StartPoint
        <3>2. QED
            BY <1>0, <1>1, <3>1, NodeFields, CommitFields DEF NodeIsYounger, Walking
    <2>3. QED
        BY <2>1, <2>2
<1>7. QED
    BY <1>4, <1>5, <1>6 DEF RecentKeptInv

LEMMA StopKeeps ==
    ASSUME ActiveTypeOK, RecentKeptInv, Stop
    PROVE  RecentKeptInv'
<1> USE TypeHistory
<1>0. /\ commits' = commits /\ starts' = starts /\ points' = points
      /\ processed' = processed /\ active' = active /\ threshold' = threshold
      /\ Walking /\ ~Walking'
    BY DEF Stop, Walking, Nowhere
<1>A. \A c : Ancestry(c)' = Ancestry(c)
    BY <1>0, AncestryStays
<1>T. \A b : Threshold(b)' = Threshold(b)
    BY DEF Threshold
<1> DEFINE q == node.parent
<1>1. q \in DOMAIN processed /\ processed[q] <= threshold /\ q \in DOMAIN commits
    BY DEF Stop, Passed, ActiveTypeOK
<1>2. processed[q] \in Int /\ threshold \in Int
    BY <1>1 DEF ActiveTypeOK
<1>3. \A d \in DOMAIN commits : d \in Ancestry(q) /\ commits[d].created > threshold => d \in active
    <2>1. ASSUME NEW d \in DOMAIN commits, d \in Ancestry(q), commits[d].created > threshold
          PROVE  d \in active
        <3>1. commits[d].created > processed[q]
            BY <1>1, <1>2, <2>1, CommitFields
        <3>2. ~(commits[q].generation < commits[q].generation)
            BY <1>1, CommitFields
        <3>3. QED
            BY <1>1, <2>1, <3>1, <3>2 DEF RecentKeptInv, PassedKeep
    <2>2. QED
        BY <2>1
<1>4. PassedKeep'
    BY <1>0, <1>3, <1>A DEF RecentKeptInv, PassedKeep, Ahead
<1>5. StartsKeep'
    BY <1>0, <1>3, <1>A, <1>T DEF RecentKeptInv, StartsKeep, Ahead
<1>6. QED
    BY <1>0, <1>4, <1>5 DEF RecentKeptInv, NodeIsYounger

LEMMA FollowKeeps ==
    ASSUME ActiveTypeOK, RecentKeptInv, Follow
    PROVE  RecentKeptInv'
<1> USE TypeHistory
<1> DEFINE q == node.parent
<1>0. /\ commits' = commits /\ starts' = starts /\ points' = points
      /\ threshold' = threshold /\ Walking
      /\ node' = Node(q) /\ Pass(q, threshold)
    BY DEF Follow
<1>A. \A c : Ancestry(c)' = Ancestry(c)
    BY <1>0, AncestryStays
<1>T. \A b : Threshold(b)' = Threshold(b)
    BY DEF Threshold
<1>1. q \in DOMAIN commits /\ threshold \in Int /\ node.created \in Int
    BY <1>0 DEF ActiveTypeOK, Walking, Nodes
<1>2. active \subseteq active'
    BY DEF Follow
<1>3. commits[q].created > threshold => q \in active'
    BY <1>0, <1>1, CommitFields DEF Follow, ActiveSince, RecentKeptInv, NodeIsYounger
<1>4. \A d \in Ancestry(q) : d # q =>
          Ahead(d)' /\ commits[node'.parent].generation < commits[q].generation
    BY <1>0, <1>1, AheadOf
<1>5. PassedKeep'
    <2>1. ASSUME NEW c \in DOMAIN processed', NEW d \in DOMAIN commits,
                 d \in Ancestry(c), commits[d].created > processed'[c]
          PROVE  \/ d \in active'
                 \/ /\ Ahead(d)'
                    /\ processed'[c] = threshold'
                    /\ commits[node'.parent].generation < commits[c].generation
        <3>1. CASE c = q
            <4>1. processed'[c] = threshold
                BY <1>0, <3>1, PassEffect
            <4>2. QED
                BY <1>0, <1>3, <1>4, <2>1, <3>1, <4>1
        <3>2. CASE c # q
            <4>1. c \in DOMAIN processed /\ processed'[c] = processed[c] /\ c \in DOMAIN commits
                <5>1. /\ DOMAIN processed' = DOMAIN processed \cup {q}
                      /\ \A e \in DOMAIN processed \ {q} : processed'[e] = processed[e]
                    <6> HIDE DEF q
                    <6>1. Pass(q, threshold)
                        BY <1>0 DEF q
                    <6>2. QED
                        BY <6>1, PassEffect
                <5>2. DOMAIN processed \subseteq DOMAIN commits
                    BY DEF ActiveTypeOK
                <5>3. c \in DOMAIN processed \ {q}
                    BY <2>1, <3>2, <5>1
                <5>4. QED
                    BY <5>1, <5>2, <5>3
            <4>2. CASE d \in active
                BY <1>2, <4>2
            <4>3. CASE d \notin active
                <5>1. /\ d \in Ancestry(q) /\ processed[c] = threshold
                      /\ commits[q].generation < commits[c].generation
                    BY <2>1, <4>1, <4>3 DEF RecentKeptInv, PassedKeep, Ahead
                <5>2. CASE d = q
                    BY <1>3, <2>1, <4>1, <5>1, <5>2
                <5>3. CASE d # q
                    <6>1. Ahead(d)' /\ commits[node'.parent].generation < commits[q].generation
                        BY <1>4, <5>1, <5>3
                    <6>2. commits[node'.parent] \in Commit /\ commits[q] \in Commit /\ commits[c] \in Commit
                        BY <1>0, <1>1, <4>1, <6>1, NodeFields DEF Ahead, Walking, History
                    <6>3. commits[node'.parent].generation < commits[c].generation
                        BY <5>1, <6>1, <6>2 DEF Commit
                    <6>4. QED
                        BY <1>0, <4>1, <5>1, <6>1, <6>3
                <5>4. QED
                    BY <5>2, <5>3
            <4>4. QED
                BY <4>2, <4>3
        <3>3. QED
            BY <3>1, <3>2
    <2>2. QED
        BY <1>0, <1>A, <2>1 DEF PassedKeep
<1>6. StartsKeep'
    <2>1. ASSUME NEW p \in starts \ points
          PROVE  /\ p.branch # Dangling => p.commit \in active'
                 /\ \A d \in DOMAIN commits :
                       d \in Ancestry(p.commit) /\ commits[d].created > Threshold(p.branch) =>
                           d \in active' \/ (Ahead(d)' /\ threshold' = Threshold(p.branch))
        <3>1. p.branch # Dangling => p.commit \in active'
            BY <1>2, <2>1 DEF RecentKeptInv, StartsKeep
        <3>2. ASSUME NEW d \in DOMAIN commits, d \in Ancestry(p.commit),
                     commits[d].created > Threshold(p.branch), d \notin active'
              PROVE  Ahead(d)' /\ threshold' = Threshold(p.branch)
            <4>1. d \in Ancestry(q) /\ threshold = Threshold(p.branch)
                BY <1>2, <2>1, <3>2 DEF RecentKeptInv, StartsKeep, Ahead
            <4>2. d # q
                BY <1>3, <3>2, <4>1
            <4>3. QED
                BY <1>0, <1>4, <4>1, <4>2
        <3>3. QED
            BY <3>1, <3>2
    <2>2. QED
        BY <1>0, <1>A, <1>T, <2>1 DEF StartsKeep
<1>7. NodeIsYounger'
    BY <1>0, <1>1, NodeFields, CommitFields DEF NodeIsYounger, Walking
<1>8. QED
    BY <1>5, <1>6, <1>7 DEF RecentKeptInv

\* However the walks meet, in the end all heads are active and all commits of
\* an ancestry that were made within its retention, for every history and all
\* rules (GetGarbageCollectionCommits).
THEOREM RecentSurvives == WalkSpec => []RecentKept
<1>1. WalkInit => RecentKeptInv
    BY DEF WalkInit, RecentKeptInv, PassedKeep, StartsKeep, NodeIsYounger, Walking, Nowhere
<1>2. ActiveTypeOK /\ RecentKeptInv /\ [Walk]_walkAll => RecentKeptInv'
    <2>1. ASSUME ActiveTypeOK, RecentKeptInv, UNCHANGED walkAll
          PROVE  RecentKeptInv'
        <3>1. UNCHANGED <<commits, starts, points, node, threshold, processed, active>>
            BY <2>1 DEF walkAll, walkVars
        <3>A. \A c : Ancestry(c)' = Ancestry(c)
            BY <3>1, AncestryStays
        <3>2. PassedKeep'
            BY <2>1, <3>1, <3>A DEF RecentKeptInv, PassedKeep, Ahead, Walking
        <3>3. StartsKeep'
            BY <2>1, <3>1, <3>A DEF RecentKeptInv, StartsKeep, Ahead, Walking, Threshold
        <3>4. QED
            BY <2>1, <3>1, <3>2, <3>3 DEF RecentKeptInv, NodeIsYounger, Walking
    <2>2. QED
        BY <2>1, StartKeeps, StopKeeps, FollowKeeps DEF Walk
<1>3. ActiveTypeOK /\ RecentKeptInv => RecentKept
    <2>1. ASSUME ActiveTypeOK, RecentKeptInv, Walked, NEW p \in starts
          PROVE  /\ p.branch # Dangling => p.commit \in active
                 /\ \A d \in Ancestry(p.commit) : commits[d].created > Threshold(p.branch) => d \in active
        <3>1. \A d \in Ancestry(p.commit) : d \in DOMAIN commits
            BY <2>1, TypeHistory, StartFields, AncestryIsLeast
        <3>2. QED
            BY <2>1, <3>1 DEF RecentKeptInv, StartsKeep, Walked, Ahead
    <2>2. QED
        BY <2>1 DEF RecentKept
<1>4. QED
    BY <1>1, <1>2, <1>3, ActiveTypeCorrect, PTL DEF WalkSpec, walkAll

Values == Entries \cup {Nothing, Deleted}
Record == [head : DOMAIN commits, token : Nat, staged : [Paths -> Values]]
Link   == [branch : Branches, path : Paths, at : Times]
Task   == [branch : Branches, path : Paths, entry : Entries]

-----------------------------------------------------------------------------
(* Types.                                                                  *)

\* What a branch of the store has.
LEMMA RecordFields ==
    ASSUME TypeOK, NEW b \in DOMAIN branches
    PROVE  /\ b \in Branches /\ b \in Nat
           /\ branches[b] \in Record
           /\ branches[b].head \in DOMAIN commits
           /\ branches[b].token \in Nat
           /\ Staged(b) \in [Paths -> Values]
           /\ Tree(b) \in Trees
<1>1. branches[b] \in Record
    BY DEF TypeOK, Record, Values
<1>2. commits[branches[b].head] \in Commit
    BY <1>1 DEF TypeOK, ActiveTypeOK, Record
<1>3. Tree(b) \in Trees
    BY <1>2, ValuesAssumption DEF Commit, Tree
<1>4. QED
    BY <1>1, <1>3, GarbageCollectionAssumption DEF TypeOK, Record, Staged

\* An entry, and what is none.
LEMMA EntryFields ==
    ASSUME NEW v
    PROVE  /\ v \in Values /\ IsEntry(v) => v \in Entries
           /\ v \in Trees => \A p \in Paths : v[p] \in Values
           /\ v \in Entries => IsEntry(v) /\ v.address \in Addresses /\ v.date \in Times
    BY ValuesAssumption DEF Values, IsEntry, Entries, Trees

\* What a branch shows is an entry or nothing, and a commit of it a tree.
LEMMA ShownTyped ==
    ASSUME TypeOK, NEW b \in DOMAIN branches
    PROVE  /\ \A p \in Paths : Shown(b, p) \in Entries \cup {Nothing}
           /\ NextTree(b) \in Trees
<1>1. \A p \in Paths : Staged(b)[p] \in Values /\ Tree(b)[p] \in Entries \cup {Nothing}
    BY RecordFields DEF Trees
<1>2. \A p \in Paths : Shown(b, p) \in Entries \cup {Nothing}
    BY <1>1 DEF Shown, Values
<1>3. QED
    BY <1>1, <1>2 DEF NextTree, Trees

\* The steps that leave the walk alone, and add to the history at most.
LEMMA WalkStays ==
    ASSUME ActiveTypeOK, UNCHANGED <<commits, walkVars>>
    PROVE  ActiveTypeOK'
    BY DEF ActiveTypeOK, walkVars, WellFormed

LEMMA InitTyped == Init => TypeOK
<1> SUFFICES ASSUME Init PROVE TypeOK
    OBVIOUS
<1>1. PICK w \in Worlds :
          /\ commits = w.commits /\ branches = w.branches /\ objects = w.objects
          /\ clock = w.clock /\ changes = w.changes /\ job = w.job
    BY DEF Init
<1>2. /\ DOMAIN commits \subseteq CommitIDs /\ commits \in [DOMAIN commits -> Commit] /\ WellFormed(commits)
      /\ changes \in 0..MaxChanges /\ clock \in Times
      /\ DOMAIN branches \subseteq Branches
      /\ branches \in [DOMAIN branches -> [head : DOMAIN commits, token : 0..changes, staged : [Paths -> Values]]]
      /\ objects \in [Addresses -> Times \cup {Nothing, Deleted}]
      /\ job \in {"idle", "heads"}
    BY <1>1, WorldsAssumption DEF Values
<1>3. branches \in [DOMAIN branches -> Record]
    BY <1>2, ValuesAssumption DEF Record
<1>4. Nowhere \in Nodes /\ Nowhere.parent = NoCommit
    BY ActiveCommitsAssumption DEF Nowhere, Nodes
<1>5. ActiveTypeOK
    BY <1>2, <1>4 DEF Init, ActiveTypeOK
<1>6. /\ issued \in [Addresses -> Link \cup {Nothing}] /\ pending \in [Clients -> Task \cup {Nothing}]
      /\ pages \in 0..MaxPages /\ located \in BOOLEAN
      /\ DOMAIN heads \subseteq Branches /\ heads \in [DOMAIN heads -> DOMAIN commits]
      /\ DOMAIN astray \subseteq Branches /\ astray \in [DOMAIN astray -> DOMAIN commits]
    <2>1. issued = [a \in Addresses |-> Nothing] /\ pending = [r \in Clients |-> Nothing]
        BY DEF Init
    <2>2. heads = [b \in {} |-> NoCommit] /\ astray = [b \in {} |-> NoCommit]
        BY DEF Init
    <2>3. pages = 0 /\ located = FALSE
        BY DEF Init
    <2>4. /\ DOMAIN heads = {} /\ heads \in [DOMAIN heads -> DOMAIN commits]
          /\ DOMAIN astray = {} /\ astray \in [DOMAIN astray -> DOMAIN commits]
        BY <2>2
    <2>5. pages \in 0..MaxPages
        BY <2>3, ValuesAssumption
    <2>6. issued \in [Addresses -> Link \cup {Nothing}] /\ pending \in [Clients -> Task \cup {Nothing}]
        BY <2>1
    <2>7. QED
        BY <2>3, <2>4, <2>5, <2>6
<1>7. /\ candidates \subseteq Addresses /\ uploaded \subseteq Addresses
      /\ overlooked \subseteq Addresses /\ doomed \subseteq Addresses
      /\ mark \in Marks \cup {Nothing} /\ page \in Page \cup {Nothing}
    BY DEF Init
<1>8. QED
    BY <1>2, <1>3, <1>5, <1>6, <1>7, ValuesAssumption DEF TypeOK, Record, Values, Link, Task

LEMMA BeginTyped ==
    ASSUME TypeOK, NEW r \in Clients, NEW b \in Branches, NEW p \in Paths, NEW a \in Addresses,
           NEW date \in Times, Begin(r, b, p, a, date)
    PROVE  pending' \in [Clients -> Task \cup {Nothing}] /\ astray' = astray
<1>1. [address |-> a, date |-> date] \in Entries
    BY DEF Entries
<1>2. QED
    BY <1>1 DEF Begin, TypeOK, Task

\* Everything of the job and the walk.
LEMMA JobStays ==
    ASSUME TypeOK, UNCHANGED <<commits, jobVars, walkVars>>,
           objects' \in [Addresses -> Times \cup {Nothing, Deleted}],
           issued' \in [Addresses -> Link \cup {Nothing}],
           DOMAIN branches' \subseteq Branches, branches' \in [DOMAIN branches' -> Record],
           pending' \in [Clients -> Task \cup {Nothing}],
           DOMAIN astray' \subseteq Branches, astray' \in [DOMAIN astray' -> DOMAIN commits],
           clock' \in Times, changes' \in 0..MaxChanges
    PROVE  TypeOK'
<1>1. ActiveTypeOK'
    BY WalkStays DEF TypeOK
<1>2. QED
    BY <1>1 DEF TypeOK, jobVars, listVars, Record, Values, Link, Task

LEMMA StoreTyped ==
    ASSUME TypeOK
    PROVE  /\ objects \in [Addresses -> Times \cup {Nothing, Deleted}]
           /\ issued \in [Addresses -> Link \cup {Nothing}]
           /\ DOMAIN branches \subseteq Branches /\ branches \in [DOMAIN branches -> Record]
           /\ pending \in [Clients -> Task \cup {Nothing}]
           /\ DOMAIN astray \subseteq Branches /\ astray \in [DOMAIN astray -> DOMAIN commits]
           /\ clock \in Times /\ clock \in Nat /\ changes \in 0..MaxChanges /\ changes \in Nat
    BY ValuesAssumption DEF TypeOK, Link, Record, Values, Task, Times

LEMMA ChangeTyped ==
    ASSUME TypeOK, Change
    PROVE  /\ changes' \in 0..MaxChanges /\ changes' \in Nat /\ changes' = changes + 1
           /\ clock' = clock /\ UNCHANGED <<jobVars, walkVars>>
    BY StoreTyped, ValuesAssumption DEF Change

\* A branch is put at a commit that is there, or taken away.
LEMMA PutTyped ==
    ASSUME TypeOK, NEW b \in Branches, NEW h \in DOMAIN commits, Put(b, h) \/ Forget(b)
    PROVE  DOMAIN astray' \subseteq Branches /\ astray' \in [DOMAIN astray' -> DOMAIN commits]
<1>1. CASE Put(b, h)
    BY <1>1, StoreTyped DEF Put
<1>2. CASE Forget(b)
    BY <1>2, StoreTyped DEF Forget
<1>3. QED
    BY <1>1, <1>2

\* What can be read by a reference.
LEMMA ReadableTyped ==
    ASSUME TypeOK, NEW e \in Readable, IsEntry(e)
    PROVE  e \in Entries /\ e.address \in Addresses
<1>1. \A b \in DOMAIN branches, p \in Paths : Shown(b, p) \in Values
    BY ShownTyped DEF Values
<1>2. \A c \in DOMAIN commits : commits[c].metaRange \in Trees
    BY ValuesAssumption DEF TypeOK, ActiveTypeOK, Commit
<1>3. \A c \in DOMAIN commits, p \in Paths : commits[c].metaRange[p] \in Values
    BY <1>2, EntryFields
<1>4. e \in Values
    BY <1>1, <1>3 DEF Readable
<1>5. QED
    BY <1>4, EntryFields

LEMMA RequestTyped ==
    ASSUME TypeOK, Request
    PROVE  TypeOK'
<1> USE StoreTyped, ChangeTyped
<1>1. ASSUME NEW r \in Clients, NEW b \in Branches, NEW p \in Paths, NEW a \in Addresses, Upload(r, b, p, a)
      PROVE  TypeOK'
    BY <1>1, BeginTyped, JobStays DEF Upload
<1>2. ASSUME NEW b \in Branches, NEW p \in Paths, NEW a \in Addresses, GetPhysicalAddress(b, p, a)
      PROVE  TypeOK'
    <2>1. issued' \in [Addresses -> Link \cup {Nothing}]
        BY <1>2 DEF GetPhysicalAddress, Link
    <2>2. QED
        BY <1>2, <2>1, JobStays DEF GetPhysicalAddress
<1>3. ASSUME NEW a \in Addresses, PutObject(a)
      PROVE  TypeOK'
    BY <1>3, JobStays DEF PutObject
<1>4. ASSUME NEW r \in Clients, NEW a \in Addresses, NEW date \in Times, LinkPhysicalAddress(r, a, date)
      PROVE  TypeOK'
    <2>1. issued[a] \in Link
        BY <1>4 DEF LinkPhysicalAddress
    <2>2. issued[a].branch \in Branches /\ issued[a].path \in Paths
        BY <2>1 DEF Link
    <2>3. QED
        BY <1>4, <2>2, BeginTyped, JobStays DEF LinkPhysicalAddress
<1>5. ASSUME NEW r \in Clients, NEW e \in Readable, NEW b \in Branches, NEW p \in Paths, CloneEntry(r, e, b, p)
      PROVE  TypeOK'
    <2>1. /\ Change /\ IsEntry(e) /\ Begin(r, b, p, e.address, clock)
          /\ UNCHANGED <<commits, objects, issued, branches>>
        BY <1>5 DEF CloneEntry
    <2>2. e.address \in Addresses
        BY <2>1, ReadableTyped
    <2>3. QED
        BY <2>1, <2>2, BeginTyped, JobStays
<1>6. ASSUME NEW r \in Clients, CreateEntry(r)
      PROVE  TypeOK'
    <2>1. pending[r] \in Task
        BY <1>6 DEF CreateEntry
    <2>2. /\ pending[r].branch \in Branches /\ pending[r].path \in Paths /\ pending[r].entry \in Values
        BY <2>1 DEF Task, Values
    <2>3. DOMAIN branches' \subseteq Branches /\ branches' \in [DOMAIN branches' -> Record]
        BY <1>6, <2>2 DEF CreateEntry, Record
    <2>4. pending' \in [Clients -> Task \cup {Nothing}]
        BY <1>6 DEF CreateEntry
    <2>5. QED
        BY <1>6, <2>3, <2>4, JobStays DEF CreateEntry
<1>7. ASSUME NEW b \in Branches, NEW p \in Paths, DeleteEntry(b, p)
      PROVE  TypeOK'
    <2>1. DOMAIN branches' \subseteq Branches /\ branches' \in [DOMAIN branches' -> Record]
        BY <1>7 DEF DeleteEntry, ChangeBranch, Record, Values
    <2>2. QED
        BY <1>7, <2>1, JobStays DEF DeleteEntry, ChangeBranch
<1>8. Unstaged \in [Paths -> Values]
    BY DEF Unstaged, Values
<1>9. ASSUME NEW b \in Branches, Reset(b)
      PROVE  TypeOK'
    <2>1. DOMAIN branches' \subseteq Branches /\ branches' \in [DOMAIN branches' -> Record]
        BY <1>8, <1>9 DEF Reset, ChangeBranch, Record
    <2>2. QED
        BY <1>9, <2>1, JobStays DEF Reset, ChangeBranch
<1>10. ASSUME NEW b \in Branches, DeleteBranch(b)
       PROVE  TypeOK'
    <2>1. DOMAIN branches' \subseteq Branches /\ branches' \in [DOMAIN branches' -> Record]
        BY <1>10 DEF DeleteBranch
    <2>2. PICK h \in DOMAIN commits : TRUE
        BY <1>10, RecordFields DEF DeleteBranch, ChangeBranch
    <2>3. QED
        BY <1>10, <2>1, <2>2, PutTyped, JobStays DEF DeleteBranch, ChangeBranch
<1>11. ASSUME NEW b \in Branches, NEW h \in DOMAIN commits,
              CreateBranch(b, h) \/ UpdateBranch(b, h) \/ ResetHard(b, h)
       PROVE  TypeOK'
    <2>1. [head |-> h, token |-> changes', staged |-> Unstaged] \in Record
        BY <1>8, <1>11 DEF Record, CreateBranch, UpdateBranch, ResetHard, ChangeBranch
    <2>2. DOMAIN branches' \subseteq Branches /\ branches' \in [DOMAIN branches' -> Record]
        <3>1. CASE CreateBranch(b, h)
            BY <2>1, <3>1 DEF CreateBranch
        <3>2. CASE UpdateBranch(b, h)
            BY <3>2 DEF UpdateBranch, ChangeBranch, Record
        <3>3. CASE ResetHard(b, h)
            BY <3>3 DEF ResetHard, ChangeBranch, Record
        <3>4. QED
            BY <1>11, <3>1, <3>2, <3>3
    <2>3. /\ Change /\ Put(b, h) /\ UNCHANGED <<commits, objects, issued, pending>>
        BY <1>11 DEF CreateBranch, UpdateBranch, ResetHard, ChangeBranch
    <2>4. QED
        BY <2>2, <2>3, PutTyped, JobStays
<1>12. ASSUME NEW b \in Branches, NEW id \in CommitIDs, CommitBranch(b, id)
       PROVE  TypeOK'
    <2> DEFINE h   == branches[b].head
               new == [parent |-> h, generation |-> commits[h].generation + 1,
                       created |-> Today, metaRange |-> NextTree(b)]
    <2>1. /\ Change /\ b \in DOMAIN branches /\ id \notin DOMAIN commits
          /\ UNCHANGED <<objects, issued, pending, astray>>
          /\ commits' = [c \in DOMAIN commits \cup {id} |-> IF c = id THEN new ELSE commits[c]]
          /\ branches' = [branches EXCEPT ![b] = [head |-> id, token |-> changes', staged |-> Unstaged]]
        BY <1>12 DEF CommitBranch, ChangeBranch, NextGeneration
    <2>2. /\ h \in DOMAIN commits /\ h \in CommitIDs /\ NextTree(b) \in MetaRanges
          /\ commits[h] \in Commit /\ DOMAIN commits \subseteq CommitIDs
          /\ commits \in [DOMAIN commits -> Commit] /\ WellFormed(commits)
        BY <2>1, RecordFields, ShownTyped, ValuesAssumption DEF TypeOK, ActiveTypeOK
    <2>3. commits[h].generation \in Nat /\ commits[h].created \in 0..Today
        BY <2>2 DEF Commit
    <2>4. new \in Commit
        BY <2>2, <2>3, ActiveCommitsAssumption DEF Commit
    <2>5. /\ DOMAIN commits' = DOMAIN commits \cup {id}
          /\ commits'[id] = new
          /\ \A c \in DOMAIN commits : commits'[c] = commits[c]
        BY <2>1
    <2>6. DOMAIN commits' \subseteq CommitIDs /\ commits' \in [DOMAIN commits' -> Commit]
        <3> HIDE DEF new
        <3>1. \A c \in DOMAIN commits' : commits'[c] \in Commit
            BY <2>2, <2>4, <2>5
        <3>2. QED
            BY <2>1, <2>2, <2>5, <3>1
    <2>7. WellFormed(commits')
        <3> SUFFICES ASSUME NEW c \in DOMAIN commits', commits'[c].parent # NoCommit
                     PROVE  /\ commits'[c].parent \in DOMAIN commits'
                            /\ commits'[commits'[c].parent].generation < commits'[c].generation
                            /\ commits'[commits'[c].parent].created <= commits'[c].created
            BY DEF WellFormed
        <3>1. CASE c = id
            BY <2>2, <2>3, <2>5, <3>1, ActiveCommitsAssumption
        <3>2. CASE c # id
            BY <2>2, <2>5, <3>2 DEF WellFormed
        <3>3. QED
            BY <3>1, <3>2
    <2>8. ActiveTypeOK'
        BY <2>1, <2>5, <2>6, <2>7 DEF TypeOK, ActiveTypeOK, walkVars
    <2>9. [head |-> id, token |-> changes', staged |-> Unstaged] \in Record'
        BY <1>8, <2>1, <2>5 DEF Record
    <2>10. branches' \in [DOMAIN branches' -> Record']
        <3>1. Record \subseteq Record'
            BY <2>5 DEF Record
        <3>2. QED
            BY <2>1, <2>9, <3>1
    <2>11. QED
        BY <2>1, <2>5, <2>8, <2>10 DEF TypeOK, jobVars, listVars, Record, Values, Link, Task
<1>13. QED
    BY <1>1, <1>2, <1>3, <1>4, <1>5, <1>6, <1>7, <1>9, <1>10, <1>11, <1>12 DEF Request

\* The steps of the job that only read.
LEMMA StoreStays ==
    ASSUME TypeOK, JobStep,
           candidates' \subseteq Addresses, uploaded' \subseteq Addresses,
           overlooked' \subseteq Addresses, doomed' \subseteq Addresses,
           mark' \in Marks \cup {Nothing}, page' \in Page \cup {Nothing},
           pages' \in 0..MaxPages, located' \in BOOLEAN,
           DOMAIN heads' \subseteq Branches, heads' \in [DOMAIN heads' -> DOMAIN commits],
           job' \in {"idle", "page", "heads", "leaves", "walk", "sweep", "done", "failed"},
           ActiveTypeOK'
    PROVE  TypeOK'
    BY DEF TypeOK, JobStep, storeVars

\* What a page has.
LEMMA PageFields ==
    ASSUME TypeOK, page # Nothing
    PROVE  /\ page \in Page
           /\ page.left \subseteq Branches /\ page.branch \in Branches \cup {Nothing}
           /\ page.token \in Nat /\ page.view \in [Paths -> Values] /\ page.tree \in Trees
           /\ page.paths \subseteq Paths /\ page.rows \subseteq Addresses /\ page.count \in Nat
           /\ page.missing \in BOOLEAN /\ page.next \in Marks \cup {Nothing}
    BY DEF TypeOK, Page, Values

\* The first of some branches or paths.
LEMMA FirstOf ==
    ASSUME NEW ns \in SUBSET Nat, ns # {}
    PROVE  First(ns) \in ns /\ \A n \in ns : First(ns) <= n
<1> DEFINE R == OpToRel(<, Nat)
<1>1. IsWellFoundedOn(R, Nat)
    BY NatLessThanWellFounded
<1>2. \A m, n \in Nat : <<m, n>> \in R <=> m < n
    BY DEF OpToRel
<1> HIDE DEF R
<1>3. PICK m \in ns : \A n \in ns : <<n, m>> \notin R
    BY <1>1, WFMin, Zenon
<1>4. \A n \in ns : m \in Nat /\ n \in Nat /\ ~(n < m)
    BY <1>2, <1>3
<1>5. \A n \in ns : m <= n
    BY <1>4
<1>6. QED
    BY <1>5 DEF First

\* The next head that is read.
LEMMA FirstUnread ==
    ASSUME TypeOK, Unread # {}
    PROVE  /\ First(Unread) \in DOMAIN branches /\ First(Unread) \in Branches
           /\ First(Unread) \in Nat /\ ~Behind(First(Unread))
           /\ \A b \in DOMAIN branches : ~Behind(b) => First(Unread) <= b
<1>1. Unread \in SUBSET Nat /\ Unread \subseteq Branches
    BY GarbageCollectionAssumption DEF Unread, TypeOK
<1>2. First(Unread) \in Unread /\ \A b \in Unread : First(Unread) <= b
    BY <1>1, FirstOf
<1>3. QED
    BY <1>1, <1>2 DEF Unread

\* A page that is ended after a branch, or goes on.
LEMMA ContinuedTyped ==
    ASSUME NEW q \in Page
    PROVE  /\ Continued(q) \subseteq Page
           /\ \A r \in Continued(q) :
                 \/ r = q
                 \/ /\ q.left # {} /\ pages < MaxPages
                    /\ r = [q EXCEPT !.next = [branch |-> First(q.left), path |-> 0], !.left = {}]
<1>1. ASSUME q.left # {} PROVE [branch |-> First(q.left), path |-> 0] \in Marks
    <2>1. q.left \in SUBSET Nat /\ q.left \subseteq Branches
        BY GarbageCollectionAssumption DEF Page
    <2>2. First(q.left) \in Branches
        BY <1>1, <2>1, FirstOf
    <2>3. QED
        BY <2>2 DEF Marks
<1>2. ASSUME q.left # {}
      PROVE  [q EXCEPT !.next = [branch |-> First(q.left), path |-> 0], !.left = {}] \in Page
    BY <1>1, <1>2 DEF Page
<1>3. QED
    BY <1>2 DEF Continued

\* What is read under a path.
LEMMA ReadTyped ==
    ASSUME TypeOK, page # Nothing, NEW p \in Paths
    PROVE  Read(p) \subseteq Values
<1>1. page.view[p] \in Values
    BY PageFields
<1>2. page.branch \in DOMAIN branches => Staged(page.branch)[p] \in Values
    BY RecordFields
<1>3. QED
    BY <1>1, <1>2 DEF Read, Values

\* The first branch that is left, and the first path.
LEMMA FirstLeft ==
    ASSUME TypeOK, page # Nothing, page.left # {}
    PROVE  /\ First(page.left) \in page.left /\ First(page.left) \in Branches /\ First(page.left) \in Nat
           /\ \A b \in page.left : b \in Nat /\ First(page.left) <= b
<1>1. page.left \subseteq Branches /\ page.left \in SUBSET Nat
    BY PageFields, GarbageCollectionAssumption
<1>2. QED
    BY <1>1, FirstOf

LEMMA FirstPath ==
    ASSUME TypeOK, page # Nothing, page.paths # {}
    PROVE  /\ First(page.paths) \in page.paths /\ First(page.paths) \in Paths /\ First(page.paths) \in Nat
           /\ \A p \in page.paths : p \in Nat /\ First(page.paths) <= p
<1>1. page.paths \subseteq Paths /\ page.paths \in SUBSET Nat
    BY PageFields, GarbageCollectionAssumption
<1>2. QED
    BY <1>1, FirstOf

\* The steps that turn the page keep their hands off everything else.
LEMMA PageTyped ==
    ASSUME TypeOK, PageStep, page' \in Page \cup {Nothing}, overlooked' \subseteq Addresses,
           job' \in {job, "failed"}
    PROVE  TypeOK'
    BY DEF TypeOK, PageStep, JobStep, storeVars, walkVars, ActiveTypeOK, WellFormed

LEMMA OpenPageTyped ==
    ASSUME TypeOK, OpenPage
    PROVE  page' \in Page
<1>1. Unstaged \in [Paths -> Values] /\ Unstaged \in Trees
    BY DEF Unstaged, Values, Trees
<1>2. {b \in DOMAIN branches : mark = Nothing \/ mark.branch <= b} \subseteq Branches
    BY DEF TypeOK
<1>3. QED
    BY <1>1, <1>2 DEF OpenPage, Page, Values

\* What the page is before it goes on or breaks off.
LEMMA Turned ==
    ASSUME TypeOK, page # Nothing, NEW b, NEW left \in ToList(b)
    PROVE  LET gone == [page EXCEPT !.left = left, !.missing = TRUE, !.count = 0]
               done == [page EXCEPT !.left = left, !.branch = Nothing]
           IN /\ gone \in Page /\ gone.left = left /\ gone.next = page.next
              /\ gone.branch = page.branch /\ gone.rows = page.rows
              /\ done \in Page /\ done.left = left /\ done.next = page.next
              /\ done.branch = Nothing /\ done.rows = page.rows
<1>1. left \in SUBSET Branches
    BY PageFields DEF ToList, TypeOK
<1>2. page \in Page
    BY PageFields
<1>3. QED
    BY <1>1, <1>2 DEF Page

LEMMA OpenBranchEffect ==
    ASSUME TypeOK, OpenBranch
    PROVE  LET b == First(page.left)
           IN /\ page # Nothing /\ job = "page" /\ page.branch = Nothing /\ page.left # {}
              /\ b \in page.left /\ b \in Nat /\ \A c \in page.left : c \in Nat /\ b <= c
              /\ page' \in Page
              /\ PageStep /\ UNCHANGED <<job, overlooked>>
<1> DEFINE b == First(page.left)
           here == [page EXCEPT !.left = @ \ {b}, !.branch = b, !.missing = FALSE,
                                !.token = branches[b].token, !.view = Staged(b), !.tree = Tree(b),
                                !.paths = PathsFrom(b)]
           gone(left) == [page EXCEPT !.left = left, !.missing = TRUE, !.count = 0]
<1>1. /\ page # Nothing /\ page.left # {} /\ job = "page" /\ page.branch = Nothing
      /\ PageStep /\ UNCHANGED <<job, overlooked>>
      /\ IF b \in DOMAIN branches THEN page' = here ELSE \E left \in ToList(b) : page' \in Continued(gone(left))
    BY DEF OpenBranch, Reading
<1>2. /\ b \in page.left /\ b \in Branches /\ b \in Nat
      /\ \A c \in page.left : c \in Nat /\ b <= c
    BY <1>1, FirstLeft
<1>3. page \in Page
    BY <1>1, PageFields
<1>4. PathsFrom(b) \subseteq Paths
    BY DEF PathsFrom
<1>5. ASSUME b \in DOMAIN branches PROVE here \in Page
    BY <1>2, <1>3, <1>4, <1>5, RecordFields DEF Page, Values
<1>6. \A left \in ToList(b) : gone(left) \in Page
    BY <1>1, Turned
<1> HIDE DEF here, gone
<1>7. page' \in Page
    BY <1>1, <1>5, <1>6, ContinuedTyped
<1>8. QED
    BY <1>1, <1>2, <1>7

\* The four ways of reading an entry.
Skips(p, v)  == ~IsEntry(v) /\ page' = [page EXCEPT !.paths = @ \ {p}] /\ UNCHANGED overlooked
Omits(p, v) == /\ Same(v, page.tree[p])
                 /\ page' = [page EXCEPT !.paths = @ \ {p}]
                 /\ overlooked' = overlooked \cup {v.address}
Writes(p, v) == /\ IsEntry(v)
                /\ page' = [page EXCEPT !.paths = @ \ {p}, !.rows = @ \cup {v.address}, !.count = @ + 1]
                /\ UNCHANGED overlooked
Cuts(p, v)   == /\ pages < MaxPages
                /\ page' = [page EXCEPT !.paths = {}, !.left = {}, !.branch = Nothing, !.count = @ + 1,
                                         !.next = [branch |-> page.branch, path |-> p]]
                /\ UNCHANGED overlooked

LEMMA ReadEntryEffect ==
    ASSUME TypeOK, ReadEntry
    PROVE  LET p == First(page.paths)
           IN /\ page # Nothing /\ job = "page" /\ page.branch # Nothing /\ page.branch \in Branches
              /\ p \in page.paths /\ p \in Paths /\ p \in Nat
              /\ \A q \in page.paths : q \in Nat /\ p <= q
              /\ page' \in Page /\ overlooked' \subseteq Addresses
              /\ PageStep /\ UNCHANGED job
              /\ \E v \in Read(p) : Skips(p, v) \/ Omits(p, v) \/ Writes(p, v) \/ Cuts(p, v)
<1> DEFINE p == First(page.paths)
<1>1. /\ page # Nothing /\ page.paths # {} /\ job = "page" /\ page.branch # Nothing
      /\ PageStep /\ UNCHANGED job
    BY DEF ReadEntry, Reading
<1>2. /\ p \in page.paths /\ p \in Paths /\ p \in Nat
      /\ \A q \in page.paths : q \in Nat /\ p <= q
    BY <1>1, FirstPath
<1>3. page \in Page /\ page.branch \in Branches
    BY <1>1, PageFields
<1>4. PICK v \in Read(p) : Skips(p, v) \/ Omits(p, v) \/ Writes(p, v) \/ Cuts(p, v)
    <2>1. PICK v \in Read(p) :
             LET rest == [page EXCEPT !.paths = @ \ {p}]
             IN \/ /\ ~IsEntry(v)
                   /\ page' = rest
                   /\ UNCHANGED overlooked
                \/ /\ Same(v, page.tree[p])
                   /\ page' = rest
                   /\ overlooked' = overlooked \cup {v.address}
                \/ /\ IsEntry(v) /\ ~Same(v, page.tree[p])
                   /\ page' = [rest EXCEPT !.rows = @ \cup {v.address}, !.count = @ + 1]
                   /\ UNCHANGED overlooked
                \/ /\ IsEntry(v) /\ ~Same(v, page.tree[p])
                   /\ pages < MaxPages
                   /\ page' = [rest EXCEPT !.paths = {}, !.left = {}, !.branch = Nothing, !.count = @ + 1,
                                           !.next = [branch |-> page.branch, path |-> p]]
                   /\ UNCHANGED overlooked
        BY DEF ReadEntry
    <2>2. QED
        BY <1>3, <2>1 DEF Skips, Omits, Writes, Cuts, Page
<1>5. v \in Values /\ (IsEntry(v) => v.address \in Addresses)
    BY <1>1, <1>2, <1>4, ReadTyped, EntryFields
<1>6. Same(v, page.tree[p]) => IsEntry(v)
    BY DEF Same
<1>7. page' \in Page
    <2>1. [branch |-> page.branch, path |-> p] \in Marks
        BY <1>2, <1>3 DEF Marks
    <2> HIDE DEF p
    <2>2. [page EXCEPT !.paths = page.paths \ {p}] \in Page
        BY <1>3 DEF Page
    <2>3. ASSUME IsEntry(v)
          PROVE  [page EXCEPT !.paths = page.paths \ {p}, !.rows = page.rows \cup {v.address},
                              !.count = page.count + 1] \in Page
        <3>1. /\ page.paths \ {p} \in SUBSET Paths /\ page.rows \cup {v.address} \in SUBSET Addresses
              /\ page.count + 1 \in Nat
            BY <1>1, <1>5, <2>3, PageFields
        <3>2. QED
            BY <1>3, <3>1 DEF Page
    <2>4. CASE Cuts(p, v)
        <3>1. page.count + 1 \in Nat /\ [branch |-> page.branch, path |-> p] \in Marks \cup {Nothing}
            BY <1>1, <2>1, PageFields
        <3>2. [page EXCEPT !.paths = {}, !.left = {}, !.branch = Nothing, !.count = page.count + 1,
                           !.next = [branch |-> page.branch, path |-> p]] \in Page
            BY <1>3, <3>1 DEF Page
        <3>3. QED
            BY <2>4, <3>2 DEF Cuts
    <2>5. CASE Skips(p, v) \/ Omits(p, v)
        <3>1. page' = [page EXCEPT !.paths = page.paths \ {p}]
            BY <2>5 DEF Skips, Omits
        <3>2. QED
            BY <2>2, <3>1
    <2>6. CASE Writes(p, v)
        <3>1. /\ IsEntry(v)
              /\ page' = [page EXCEPT !.paths = page.paths \ {p}, !.rows = page.rows \cup {v.address},
                                      !.count = page.count + 1]
            BY <2>6 DEF Writes
        <3>2. QED
            BY <2>3, <3>1
    <2>7. QED
        BY <1>4, <2>4, <2>5, <2>6
<1>8. overlooked' \subseteq Addresses
    BY <1>4, <1>5, <1>6 DEF Skips, Omits, Writes, Cuts, TypeOK
<1>9. QED
    BY <1>1, <1>2, <1>3, <1>4, <1>7, <1>8

LEMMA CloseBranchEffect ==
    ASSUME TypeOK, CloseBranch
    PROVE  /\ page # Nothing /\ job = "page" /\ page.branch # Nothing /\ page.paths = {}
           /\ page \in Page /\ page' \in Page
           /\ PageStep /\ UNCHANGED <<job, overlooked>>
           /\ \E left \in ToList(page.branch) :
                  page' \in Continued([page EXCEPT !.left = left, !.branch = Nothing])
<1>1. page # Nothing /\ page \in Page
    BY PageFields DEF CloseBranch, Reading
<1>2. \A left \in ToList(page.branch) : [page EXCEPT !.left = left, !.branch = Nothing] \in Page
    BY <1>1, Turned
<1>3. QED
    BY <1>1, <1>2, ContinuedTyped DEF CloseBranch, Reading

\* A page is cut short only if there may be another.
Cut == page # Nothing /\ page.next # Nothing => pages < MaxPages

LEMMA JobTyped ==
    ASSUME TypeOK, Cut, Job
    PROVE  TypeOK'
<1>1. CASE ListObjects
    BY <1>1, WalkStays, StoreStays DEF ListObjects, TypeOK, JobStep, storeVars
<1>2. CASE OpenPage
    BY <1>2, OpenPageTyped, PageTyped DEF OpenPage, TypeOK
<1>3. CASE OpenBranch
    BY <1>3, OpenBranchEffect, PageTyped DEF TypeOK
<1>4. CASE ReadEntry
    BY <1>4, ReadEntryEffect, PageTyped
<1>5. CASE CloseBranch
    BY <1>5, CloseBranchEffect, PageTyped DEF TypeOK
<1>6. CASE EndPage
    <2>1. /\ page # Nothing /\ page.rows \subseteq Addresses /\ page.next \in Marks \cup {Nothing}
          /\ page.count \in Nat
        BY <1>6, PageFields DEF EndPage, PageEnds, Reading
    <2>2. uploaded' \subseteq Addresses /\ overlooked' \subseteq Addresses
        BY <1>6, <2>1 DEF EndPage, TypeOK
    <2>3. pages' \in 0..MaxPages
        BY <1>6, ValuesAssumption DEF EndPage, TypeOK, Cut, PageEnds, Reading
    <2>4. located' \in BOOLEAN
        BY <1>6 DEF EndPage
    <2>5. ActiveTypeOK'
        BY <1>6, WalkStays DEF EndPage, TypeOK, JobStep, storeVars
    <2>6. QED
        BY <1>6, <2>1, <2>2, <2>3, <2>4, <2>5, StoreStays DEF EndPage, TypeOK
<1>7. CASE PageFails
    BY <1>7, PageTyped DEF PageFails, TypeOK
<1>8. CASE ReadHead \/ HeadsRead
    <2>1. DOMAIN heads' \subseteq Branches /\ heads' \in [DOMAIN heads' -> DOMAIN commits]
        <3>1. CASE ReadHead
            <4>1. PICK b \in DOMAIN branches :
                     heads' = [c \in DOMAIN heads \cup {b} |-> IF c = b THEN branches[b].head ELSE heads[c]]
                BY <3>1, FirstUnread DEF ReadHead
            <4>2. QED
                BY <4>1, RecordFields DEF TypeOK
        <3>2. CASE HeadsRead
            BY <3>2 DEF HeadsRead, TypeOK
        <3>3. QED
            BY <1>8, <3>1, <3>2
    <2>2. ActiveTypeOK'
        BY <1>8, WalkStays DEF ReadHead, HeadsRead, TypeOK, JobStep, storeVars
    <2>3. QED
        BY <1>8, <2>1, <2>2, StoreStays DEF ReadHead, HeadsRead, TypeOK, listVars
<1>9. CASE ReadLeaves
    <2>1. StartingPoints(heads) \subseteq [branch : Branches \cup {Dangling}, commit : DOMAIN commits]
        BY DEF TypeOK, StartingPoints, Leaves
    <2>2. Nowhere \in Nodes /\ Nowhere.parent = NoCommit
        BY ActiveCommitsAssumption DEF Nowhere, Nodes
    <2>3. ActiveTypeOK'
        BY <1>9, <2>1, <2>2 DEF ReadLeaves, BeginWalk, TypeOK, ActiveTypeOK, JobStep, storeVars, WellFormed
    <2>4. QED
        BY <1>9, <2>3, StoreStays DEF ReadLeaves, TypeOK, listVars
<1>10. CASE WalkOn
    <2>1. commits' = commits
        BY <1>10 DEF WalkOn, Walk, StartPoint, Stop, Follow
    <2>2. ActiveTypeOK'
        BY <1>10, ActiveTypeNext DEF WalkOn, TypeOK
    <2>3. QED
        BY <1>10, <2>1, <2>2 DEF WalkOn, TypeOK, jobVars, listVars
<1>11. CASE Mark
    BY <1>11, WalkStays, StoreStays DEF Mark, TypeOK, JobStep, storeVars, listVars
<1>12. CASE Sweep
    <2>1. ActiveTypeOK'
        BY <1>12, WalkStays DEF Sweep, TypeOK
    <2>2. QED
        BY <1>12, <2>1 DEF Sweep, TypeOK, listVars
<1>13. QED
    BY <1>1, <1>2, <1>3, <1>4, <1>5, <1>6, <1>7, <1>8, <1>9, <1>10, <1>11, <1>12 DEF Job

TypeInv == TypeOK /\ Cut

LEMMA CutKept ==
    ASSUME TypeInv, [Next]_vars
    PROVE  Cut'
<1> USE DEF TypeInv
<1>1. CASE OpenPage
    BY <1>1 DEF OpenPage, Cut
<1>2. CASE OpenBranch
    <2> DEFINE b == First(page.left)
    <2>1. /\ page # Nothing /\ page \in Page /\ pages' = pages
          /\ \/ page' = [page EXCEPT !.left = @ \ {b}, !.branch = b, !.missing = FALSE,
                                     !.token = branches[b].token, !.view = Staged(b), !.tree = Tree(b),
                                     !.paths = PathsFrom(b)]
             \/ \E left \in ToList(b) : page' \in Continued([page EXCEPT !.left = left, !.missing = TRUE, !.count = 0])
        BY <1>2, PageFields DEF OpenBranch, Reading, PageStep
    <2>2. \A left \in ToList(b) : [page EXCEPT !.left = left, !.missing = TRUE, !.count = 0] \in Page
        BY <2>1, Turned
    <2>3. page'.next = page.next \/ pages < MaxPages
        BY <2>1, <2>2, ContinuedTyped DEF Page
    <2>4. QED
        BY <2>1, <2>3 DEF Cut
<1>3. CASE ReadEntry
    <2> DEFINE p == First(page.paths)
    <2>1. page # Nothing /\ page \in Page /\ pages' = pages
        BY <1>3, PageFields, ReadEntryEffect DEF PageStep
    <2>2. PICK v \in Read(p) : Skips(p, v) \/ Omits(p, v) \/ Writes(p, v) \/ Cuts(p, v)
        BY <1>3, ReadEntryEffect
    <2>3. page'.next = page.next \/ pages < MaxPages
        BY <2>1, <2>2 DEF Skips, Omits, Writes, Cuts, Page
    <2>4. QED
        BY <2>1, <2>3 DEF Cut
<1>4. CASE CloseBranch
    <2>1. /\ page # Nothing /\ page \in Page /\ pages' = pages
          /\ \E left \in ToList(page.branch) :
                 page' \in Continued([page EXCEPT !.left = left, !.branch = Nothing])
        BY <1>4, CloseBranchEffect DEF PageStep
    <2>2. \A left \in ToList(page.branch) : [page EXCEPT !.left = left, !.branch = Nothing] \in Page
        BY <2>1, Turned
    <2>3. page'.next = page.next \/ pages < MaxPages
        BY <2>1, <2>2, ContinuedTyped DEF Page
    <2>4. QED
        BY <2>1, <2>3 DEF Cut
<1>5. CASE EndPage \/ PageFails
    BY <1>5 DEF EndPage, PageFails, Cut
<1>6. CASE Request \/ Tick \/ ListObjects \/ ReadHead \/ HeadsRead \/ ReadLeaves \/ WalkOn \/ Mark \/ Sweep \/ UNCHANGED vars
    <2>1. UNCHANGED <<page, pages>>
        BY <1>6 DEF Request, Upload, GetPhysicalAddress, PutObject, LinkPhysicalAddress, CloneEntry, CreateEntry,
               DeleteEntry, Reset, DeleteBranch, CommitBranch, CreateBranch, UpdateBranch, ResetHard,
               ChangeBranch, Change, Tick, ListObjects, ReadHead, HeadsRead, ReadLeaves, WalkOn, Mark, Sweep, jobVars, listVars, vars
    <2>2. QED
        BY <2>1 DEF Cut
<1>7. QED
    BY <1>1, <1>2, <1>3, <1>4, <1>5, <1>6 DEF Next, Job

LEMMA NextTyped ==
    ASSUME TypeInv, [Next]_vars
    PROVE  TypeInv'
<1> SUFFICES TypeOK'
    BY CutKept DEF TypeInv
<1> USE DEF TypeInv
<1>1. CASE Tick
    <2>1. ActiveTypeOK'
        BY <1>1, WalkStays DEF Tick, TypeOK
    <2>2. clock' \in Times
        BY <1>1, ValuesAssumption DEF Tick, TypeOK, Times
    <2>3. QED
        BY <1>1, <2>1, <2>2 DEF Tick, TypeOK, jobVars, listVars
<1>2. CASE UNCHANGED vars
    <2>1. ActiveTypeOK'
        BY <1>2, WalkStays DEF vars, storeVars, TypeOK
    <2>2. QED
        BY <1>2, <2>1 DEF vars, storeVars, jobVars, listVars, TypeOK
<1>3. QED
    BY <1>1, <1>2, RequestTyped, JobTyped DEF Next

\* The job, the walk and the requests beside them keep the types of all
\* they share (PrepareGCUncommitted, GetGarbageCollectionCommits).
THEOREM GCTypeCorrect == Spec => []TypeOK
<1>1. Init => TypeInv
    BY InitTyped DEF TypeInv, Init, Cut
<1>2. TypeInv /\ [Next]_vars => TypeInv'
    BY NextTyped
<1>3. TypeInv => TypeOK
    BY DEF TypeInv
<1>4. QED
    BY <1>1, <1>2, <1>3, PTL DEF Spec

-----------------------------------------------------------------------------
(* Candidates are out of reach: no request can make a new entry of one.    *)

Young(a) == Exists(a) => Age(objects[a]) <= MinAge

\* An address is signed before its object is there.
Issued ==
    \A a \in Addresses : issued[a] # Nothing =>
        /\ issued[a].at <= clock
        /\ Exists(a) => issued[a].at <= objects[a]

\* An entry that is about to be made is of an object the job does not take.
Fresh == \A r \in Clients : pending[r] # Nothing => Young(pending[r].entry.address)

OutOfReach(a) ==
    /\ objects[a] # Nothing
    /\ Exists(a) => Age(objects[a]) > MinAge
    /\ issued[a] # Nothing => Age(issued[a].at) > LinkAddressTime
    /\ \A r \in Clients : pending[r] # Nothing => pending[r].entry.address # a

ReachInv ==
    /\ Issued /\ Fresh
    /\ \A a \in candidates : OutOfReach(a)
    /\ job = "idle" => candidates = {}

\* Times and ages are numbers.
LEMMA Ages ==
    ASSUME TypeOK
    PROVE  /\ clock \in Nat /\ MinAge \in Nat /\ LinkAddressTime \in Nat /\ CloneGracePeriod \in Nat
           /\ LinkAddressTime <= MinAge /\ CloneGracePeriod <= MinAge
           /\ \A a \in Addresses : Exists(a) => objects[a] \in Nat
           /\ \A a \in Addresses : issued[a] # Nothing =>
                 issued[a] \in Link /\ issued[a].at \in Nat /\ issued[a].branch \in Branches /\ issued[a].path \in Paths
           /\ \A r \in Clients : pending[r] # Nothing => pending[r] \in Task /\ pending[r].entry.address \in Addresses
           /\ \A t \in Times : t # Nothing /\ t # Deleted /\ t \in Nat
<1>1. \A t \in Times : t # Nothing /\ t # Deleted /\ t \in Nat
    BY ValuesAssumption DEF Times
<1>2. \A a \in Addresses : issued[a] # Nothing => issued[a] \in Link
    BY StoreTyped
<1>3. \A r \in Clients : pending[r] # Nothing => pending[r] \in Task
    BY StoreTyped
<1>4. \A l \in Link : l.at \in Nat /\ l.branch \in Branches /\ l.path \in Paths
    BY <1>1 DEF Link
<1>5. \A t \in Task : t.entry.address \in Addresses
    BY DEF Task, Entries
<1>6. QED
    BY <1>1, <1>2, <1>3, <1>4, <1>5, StoreTyped, GarbageCollectionAssumption DEF Exists

\* A request that is about to make an entry of a young object.
LEMMA BeginReach ==
    ASSUME TypeOK, ReachInv, NEW r \in Clients, NEW b, NEW p, NEW a \in Addresses, NEW date, Begin(r, b, p, a, date),
           \A c \in Addresses : Young(c) => Young(c)', Young(a)'
    PROVE  /\ Fresh'
           /\ \A c \in Addresses : c # a /\ OutOfReach(c) =>
                 \A q \in Clients : pending'[q] # Nothing => pending'[q].entry.address # c
<1>1. /\ pending'[r].entry.address = a
      /\ \A q \in Clients \ {r} : pending'[q] = pending[q]
    BY StoreTyped DEF Begin
<1>2. Fresh'
    BY <1>1, Ages DEF ReachInv, Fresh, Young, Exists, Age
<1>3. QED
    BY <1>1, <1>2 DEF OutOfReach

LEMMA RequestReach ==
    ASSUME TypeOK, ReachInv, Request
    PROVE  ReachInv'
<1> USE Ages, StoreTyped
<1>0. candidates \subseteq Addresses
    BY DEF TypeOK
<1>a. ASSUME Issued', Fresh', \A c \in candidates : OutOfReach(c) => OutOfReach(c)', UNCHANGED <<candidates, job>>
      PROVE  ReachInv'
    BY <1>a DEF ReachInv
<1>1. ASSUME NEW r \in Clients, NEW b \in Branches, NEW p \in Paths, NEW a \in Addresses, Upload(r, b, p, a)
      PROVE  ReachInv'
    <2>1. /\ objects[a] = Nothing /\ issued[a] = Nothing /\ clock' = clock
          /\ objects' = [objects EXCEPT ![a] = clock] /\ issued' = issued
          /\ Begin(r, b, p, a, clock) /\ UNCHANGED <<candidates, job>>
        BY <1>1 DEF Upload, Change, New, jobVars, listVars
    <2>2. objects'[a] = clock /\ \A c \in Addresses \ {a} : objects'[c] = objects[c]
        BY <2>1
    <2>3. Young(a)' /\ \A c \in Addresses : Young(c) => Young(c)'
        BY <2>1, <2>2 DEF Young, Age, Exists
    <2>4. Issued'
        BY <2>1, <2>2 DEF ReachInv, Issued, Exists
    <2>5. QED
        BY <1>0, <1>a, <2>1, <2>2, <2>3, <2>4, BeginReach DEF OutOfReach, Exists, Age
<1>2. ASSUME NEW b \in Branches, NEW p \in Paths, NEW a \in Addresses, GetPhysicalAddress(b, p, a)
      PROVE  ReachInv'
    <2>1. /\ objects[a] = Nothing /\ clock' = clock /\ objects' = objects /\ pending' = pending
          /\ issued' = [issued EXCEPT ![a] = [branch |-> b, path |-> p, at |-> clock]]
          /\ UNCHANGED <<candidates, job>>
        BY <1>2 DEF GetPhysicalAddress, Change, New, jobVars, listVars
    <2>2. issued'[a].at = clock /\ \A c \in Addresses \ {a} : issued'[c] = issued[c]
        BY <2>1
    <2>3. Issued'
        BY <2>1, <2>2 DEF ReachInv, Issued, Exists
    <2>4. QED
        BY <1>0, <1>a, <2>1, <2>2, <2>3 DEF ReachInv, Fresh, Young, OutOfReach, Exists, Age
<1>3. ASSUME NEW a \in Addresses, PutObject(a)
      PROVE  ReachInv'
    <2>1. /\ objects[a] = Nothing /\ clock' = clock /\ objects' = [objects EXCEPT ![a] = clock]
          /\ pending' = pending /\ issued' = issued
          /\ UNCHANGED <<candidates, job>>
        BY <1>3 DEF PutObject, Change, jobVars, listVars
    <2>2. objects'[a] = clock /\ \A c \in Addresses \ {a} : objects'[c] = objects[c]
        BY <2>1
    <2>3. Issued'
        BY <2>1, <2>2 DEF ReachInv, Issued, Exists
    <2>4. \A c \in Addresses : Young(c) => Young(c)'
        BY <2>1, <2>2 DEF Young, Age, Exists
    <2>5. Fresh'
        BY <2>1, <2>4 DEF ReachInv, Fresh
    <2>6. QED
        BY <1>0, <1>a, <2>1, <2>2, <2>3, <2>5 DEF OutOfReach, Exists, Age
<1>4. ASSUME NEW r \in Clients, NEW a \in Addresses, NEW date \in Times, LinkPhysicalAddress(r, a, date)
      PROVE  ReachInv'
    <2>0. PICK b, p : b = issued[a].branch /\ p = issued[a].path
        OBVIOUS
    <2>1. /\ issued[a] # Nothing /\ Age(issued[a].at) <= LinkAddressTime
          /\ Begin(r, b, p, a, date)
          /\ UNCHANGED <<objects, issued, clock, candidates, job>>
        BY <1>4, <2>0 DEF LinkPhysicalAddress, Change, jobVars, listVars
    <2>2. Young(a)' /\ \A c \in Addresses : Young(c) => Young(c)'
        BY <2>1 DEF Young, Age, Exists, ReachInv, Issued
    <2>3. ~OutOfReach(a)
        BY <2>1 DEF OutOfReach, Age
    <2>4. /\ Fresh'
          /\ \A c \in Addresses : c # a /\ OutOfReach(c) =>
                \A q \in Clients : pending'[q] # Nothing => pending'[q].entry.address # c
        BY <2>1, <2>2, BeginReach
    <2>5. QED
        BY <1>0, <1>a, <2>1, <2>3, <2>4 DEF OutOfReach, Exists, Age, ReachInv, Issued
<1>5. ASSUME NEW r \in Clients, NEW e \in Readable, NEW b \in Branches, NEW p \in Paths, CloneEntry(r, e, b, p)
      PROVE  ReachInv'
    <2>0. IsEntry(e)
        BY <1>5 DEF CloneEntry
    <2>2. PICK a \in Addresses : a = e.address
        BY <2>0, ReadableTyped
    <2>1. /\ Exists(a) /\ Age(objects[a]) <= CloneGracePeriod
          /\ Begin(r, b, p, a, clock)
          /\ UNCHANGED <<objects, issued, clock, candidates, job>>
        BY <1>5, <2>2 DEF CloneEntry, Change, jobVars, listVars
    <2>3. Young(a)' /\ \A d \in Addresses : Young(d) => Young(d)'
        BY <2>1, <2>2 DEF Young, Age, Exists
    <2>4. ~OutOfReach(a)
        BY <2>1, <2>2 DEF OutOfReach, Age
    <2>5. /\ Fresh'
          /\ \A c \in Addresses : c # a /\ OutOfReach(c) =>
                \A q \in Clients : pending'[q] # Nothing => pending'[q].entry.address # c
        BY <2>1, <2>3, BeginReach
    <2>6. QED
        BY <1>0, <1>a, <2>1, <2>4, <2>5 DEF OutOfReach, Exists, Age, ReachInv, Issued
<1>6. ASSUME NEW r \in Clients, CreateEntry(r)
      PROVE  ReachInv'
    <2>1. /\ \A q \in Clients : pending'[q] # Nothing => pending'[q] = pending[q]
          /\ UNCHANGED <<objects, issued, clock, candidates, job>>
        BY <1>6 DEF CreateEntry, jobVars, listVars
    <2>2. QED
        BY <2>1 DEF ReachInv, Issued, Fresh, Young, OutOfReach, Exists, Age
<1>7. ASSUME UNCHANGED <<objects, issued, pending, clock, candidates, job>> PROVE ReachInv'
    BY <1>7 DEF ReachInv, Issued, Fresh, Young, OutOfReach, Exists, Age
<1>8. ASSUME NEW b \in Branches,
             \/ \E p \in Paths : DeleteEntry(b, p)
             \/ Reset(b) \/ DeleteBranch(b)
             \/ \E id \in CommitIDs : CommitBranch(b, id)
             \/ \E h \in DOMAIN commits : CreateBranch(b, h) \/ UpdateBranch(b, h) \/ ResetHard(b, h)
      PROVE  ReachInv'
    BY <1>7, <1>8 DEF DeleteEntry, Reset, DeleteBranch, CommitBranch, CreateBranch, UpdateBranch, ResetHard,
           ChangeBranch, Change, jobVars, listVars
<1>9. QED
    BY <1>1, <1>2, <1>3, <1>4, <1>5, <1>6, <1>8 DEF Request

LEMMA NextReach ==
    ASSUME TypeOK, ReachInv, [Next]_vars
    PROVE  ReachInv'
<1> USE Ages, StoreTyped
<1>1. CASE Tick
    <2>1. /\ clock' = clock + 1 /\ \A r \in Clients : pending[r] = Nothing
          /\ UNCHANGED <<objects, issued, pending, candidates, job>>
        BY <1>1 DEF Tick, jobVars, listVars
    <2>2. QED
        BY <2>1 DEF ReachInv, Issued, Fresh, OutOfReach, Exists, Age, TypeOK
<1>2. CASE ListObjects
    <2>1. /\ candidates' = {a \in Addresses : Exists(a) /\ Age(objects[a]) > MinAge}
          /\ job' = "page" /\ UNCHANGED <<objects, issued, pending, clock>>
        BY <1>2 DEF ListObjects, JobStep, storeVars
    <2>2. Issued' /\ Fresh'
        BY <2>1 DEF ReachInv, Issued, Fresh, Young, Exists, Age
    <2>3. ASSUME NEW a \in candidates' PROVE OutOfReach(a)'
        BY <2>1, <2>3 DEF ReachInv, Issued, Fresh, Young, OutOfReach, Exists, Age
    <2>4. QED
        BY <2>1, <2>2, <2>3 DEF ReachInv
<1>3. CASE Sweep
    <2>1. /\ \A a \in Addresses : objects'[a] \in {objects[a], Deleted}
          /\ job' # "idle" /\ UNCHANGED <<issued, pending, clock, candidates>>
        BY <1>3 DEF Sweep, listVars
    <2>2. QED
        BY <2>1, ValuesAssumption DEF ReachInv, Issued, Fresh, Young, OutOfReach, Exists, Age, TypeOK
<1>4. ASSUME UNCHANGED <<objects, issued, pending, clock, candidates>>, job' = "idle" => job = "idle"
      PROVE  ReachInv'
    BY <1>4 DEF ReachInv, Issued, Fresh, Young, OutOfReach, Exists, Age
<1>5. CASE Job
    <2>1. CASE OpenPage \/ OpenBranch \/ ReadEntry \/ CloseBranch \/ EndPage \/ PageFails
        BY <1>4, <2>1 DEF OpenPage, OpenBranch, ReadEntry, CloseBranch, EndPage, PageFails, PageStep, JobStep, storeVars,
               Reading, PageEnds
    <2>2. CASE ReadHead \/ HeadsRead \/ ReadLeaves \/ WalkOn \/ Mark
        BY <1>4, <2>2 DEF ReadHead, HeadsRead, ReadLeaves, WalkOn, Mark, JobStep, storeVars, jobVars, listVars
    <2>3. QED
        BY <1>2, <1>3, <1>5, <2>1, <2>2 DEF Job
<1>6. CASE UNCHANGED vars
    BY <1>4, <1>6 DEF vars, storeVars, jobVars, listVars
<1>7. QED
    BY <1>1, <1>5, <1>6, RequestReach DEF Next

-----------------------------------------------------------------------------
(* Candidates are not taken by other branches or paths: where one is staged *)
(* after a request it was before, and the tree of a branch has one that it *)
(* had or staged before, unless a branch was put at a commit.              *)

Holds(t, p, a) == IsEntry(t[p]) /\ t[p].address = a
Stages(b, p, a) == Holds(Staged(b), p, a)

StagedBefore ==
    \A b \in DOMAIN branches', p \in Paths, a \in candidates :
        Stages(b, p, a)' => /\ b \in DOMAIN branches
                            /\ Stages(b, p, a)
                            /\ branches'[b].token = branches[b].token

HistoryKept == \A c \in DOMAIN commits : c \in DOMAIN commits' /\ commits'[c] = commits[c]

InHead(b, a) == \E p \in Paths : Holds(Tree(b), p, a)
AsAstray(b) == b \in DOMAIN astray => b \in DOMAIN astray' /\ astray'[b] = astray[b]

\* Why the tree of a branch has a candidate after a request.
HadOrStaged(b, a) ==
    /\ b \in DOMAIN branches
    /\ \/ \E p \in Paths : Stages(b, p, a)
       \/ InHead(b, a) /\ AsAstray(b)
Astray(b, p, a) == b \in DOMAIN astray /\ Holds(commits[astray[b]].metaRange, p, a)
AtSettled(a) == \E c \in DOMAIN branches : Behind(c) /\ c \notin DOMAIN astray /\ InHead(c, a)

TreesBefore == \A b \in DOMAIN branches', p \in Paths, a \in candidates :
    Holds(Tree(b), p, a)' => HadOrStaged(b, a) \/ ~Behind(b) \/ Astray(b, p, a)' \/ AtSettled(a)

\* What a branch needs is staged, or in the tree of its head.
LEMMA NeededIs ==
    ASSUME NEW b, NEW a
    PROVE  a \in Needed(b) <=> \E p \in Paths : Stages(b, p, a) \/ Holds(Tree(b), p, a)
BY DEF Needed, InTree, Stages, Holds

\* A branch that is left alone, with its history.
LEMMA BranchStays ==
    ASSUME NEW b \in DOMAIN branches', b \in DOMAIN branches, branches'[b] = branches[b],
           branches[b].head \in DOMAIN commits, HistoryKept
    PROVE  /\ Staged(b)' = Staged(b) /\ Tree(b)' = Tree(b)
           /\ Needed(b)' = Needed(b)
           /\ \A p, a : Stages(b, p, a)' = Stages(b, p, a)
BY DEF Staged, Tree, Needed, InTree, IsEntry, HistoryKept, Stages, Holds

Moves == StagedBefore /\ TreesBefore /\ HistoryKept

\* A branch is put at a commit.
LEMMA PutMoves ==
    ASSUME TypeOK, NEW b, NEW h \in DOMAIN commits, Put(b, h),
           HistoryKept, branches'[b].head = h, NEW p \in Paths, NEW a, Holds(Tree(b), p, a)'
    PROVE  ~Behind(b) \/ Astray(b, p, a)' \/ AtSettled(a)
<1>1. Holds(commits[h].metaRange, p, a)
    BY DEF Tree, Holds, IsEntry, HistoryKept
<1>2. CASE Settled(h)
    BY <1>1, <1>2 DEF Settled, AtSettled, InHead, Tree
<1>3. CASE Behind(b) /\ ~Settled(h)
    <2>1. b \in DOMAIN astray' /\ astray'[b] = h
        BY <1>3 DEF Put
    <2>2. Holds(commits'[h].metaRange, p, a)
        BY <1>1 DEF HistoryKept
    <2>3. QED
        BY <2>1, <2>2 DEF Astray, Holds, IsEntry
<1>4. QED
    BY <1>2, <1>3

LEMMA PutOthers ==
    ASSUME NEW b, NEW h, Put(b, h) \/ Forget(b) \/ UNCHANGED astray, NEW c, c # b \/ UNCHANGED astray
    PROVE  AsAstray(c)
BY DEF Put, Forget, AsAstray

\* One branch is changed, and the others left alone.
LEMMA OneMoves ==
    ASSUME TypeOK, HistoryKept, NEW b,
           \A c \in DOMAIN branches' \ {b} : c \in DOMAIN branches /\ branches'[c] = branches[c] /\ AsAstray(c),
           b \in DOMAIN branches' => \A p \in Paths, a \in candidates :
               Stages(b, p, a)' => b \in DOMAIN branches /\ Stages(b, p, a) /\ branches'[b].token = branches[b].token,
           b \in DOMAIN branches' => \A p \in Paths, a \in candidates :
               Holds(Tree(b), p, a)' => HadOrStaged(b, a) \/ ~Behind(b) \/ Astray(b, p, a)' \/ AtSettled(a)
    PROVE  Moves
<1>1. ASSUME NEW c \in DOMAIN branches' \ {b}
      PROVE  /\ \A p, a : Stages(c, p, a)' = Stages(c, p, a)
             /\ Tree(c)' = Tree(c)
    BY <1>1, RecordFields, BranchStays
<1>2. StagedBefore
    BY <1>1 DEF StagedBefore
<1>3. TreesBefore
    <2>1. ASSUME NEW c \in DOMAIN branches' \ {b}, NEW p \in Paths, NEW a \in candidates, Holds(Tree(c), p, a)'
          PROVE  HadOrStaged(c, a)
        BY <1>1, <2>1 DEF HadOrStaged, InHead, Holds, IsEntry
    <2>2. QED
        BY <2>1 DEF TreesBefore
<1>4. QED
    BY <1>2, <1>3 DEF Moves

LEMMA RequestMoves ==
    ASSUME TypeOK, ReachInv, Request
    PROVE  Moves /\ UNCHANGED <<jobVars, walkVars>>
<1>0. candidates \subseteq Addresses /\ \A b \in DOMAIN branches : branches[b].head \in DOMAIN commits
    BY RecordFields DEF TypeOK
<1>a. ASSUME UNCHANGED <<commits, branches, astray>> PROVE Moves
    <2>1. HistoryKept /\ \A b : AsAstray(b)
        BY <1>a DEF HistoryKept, AsAstray
    <2>2. \A b : Staged(b)' = Staged(b) /\ Tree(b)' = Tree(b)
        BY <1>a DEF Staged, Tree
    <2>3. StagedBefore
        BY <1>a, <2>2 DEF StagedBefore, Stages, Holds, IsEntry
    <2>4. TreesBefore
        BY <1>a, <2>1, <2>2 DEF TreesBefore, HadOrStaged, InHead, Holds, IsEntry
    <2>5. QED
        BY <2>1, <2>3, <2>4 DEF Moves
\* A branch keeps its head, its token, and what it stages of candidates.
<1>b. ASSUME NEW b \in DOMAIN branches, DOMAIN branches' = DOMAIN branches, UNCHANGED <<commits, astray>>,
             \A c \in DOMAIN branches \ {b} : branches'[c] = branches[c],
             branches'[b].head = branches[b].head,
             \A p \in Paths, a \in candidates :
                 Stages(b, p, a)' => Stages(b, p, a) /\ branches'[b].token = branches[b].token
      PROVE  Moves
    <2>1. HistoryKept /\ \A c : AsAstray(c)
        BY <1>b DEF HistoryKept, AsAstray
    <2>2. Tree(b)' = Tree(b)
        BY <1>b DEF Tree
    <2>3. \A p \in Paths, a \in candidates : Holds(Tree(b), p, a)' => HadOrStaged(b, a)
        BY <2>1, <2>2 DEF HadOrStaged, InHead, Holds, IsEntry
    <2>4. QED
        BY <1>b, <2>1, <2>3, OneMoves
<1>1. ASSUME NEW r \in Clients, CreateEntry(r)
      PROVE  Moves /\ UNCHANGED <<jobVars, walkVars>>
    <2> DEFINE n == pending[r]
    <2>1. /\ n # Nothing /\ UNCHANGED <<commits, astray>> /\ UNCHANGED <<jobVars, walkVars>>
          /\ branches' = IF n.branch \in DOMAIN branches
                         THEN [branches EXCEPT ![n.branch].staged[n.path] = n.entry]
                         ELSE branches
        BY <1>1 DEF CreateEntry
    <2>2. \A a \in candidates : n.entry.address # a
        BY <2>1 DEF ReachInv, OutOfReach
    <2>3. CASE n.branch \notin DOMAIN branches
        BY <1>a, <2>1, <2>3
    <2>4. CASE n.branch \in DOMAIN branches
        <3>1. PICK b \in DOMAIN branches : b = n.branch
            BY <2>4
        <3>2. branches[b] \in Record /\ Staged(b) \in [Paths -> Values]
            BY RecordFields
        <3>3. /\ DOMAIN branches' = DOMAIN branches
              /\ \A c \in DOMAIN branches \ {b} : branches'[c] = branches[c]
              /\ branches'[b].head = branches[b].head /\ branches'[b].token = branches[b].token
            BY <2>1, <2>4, <3>1, <3>2 DEF Record
        <3>4. \A p \in Paths : Staged(b)'[p] = Staged(b)[p] \/ Staged(b)'[p] = n.entry
            BY <2>1, <2>4, <3>1, <3>2 DEF Record, Staged
        <3>5. \A p \in Paths, a \in candidates : Stages(b, p, a)' => Stages(b, p, a)
            BY <2>2, <3>4 DEF Stages, Holds, IsEntry
        <3>6. QED
            BY <1>b, <2>1, <3>3, <3>5
    <2>5. QED
        BY <2>1, <2>3, <2>4
<1>2. ASSUME NEW b \in Branches, NEW p \in Paths, DeleteEntry(b, p)
      PROVE  Moves /\ UNCHANGED <<jobVars, walkVars>>
    <2>1. /\ b \in DOMAIN branches /\ UNCHANGED <<commits, astray>> /\ UNCHANGED <<jobVars, walkVars>>
          /\ branches' = [branches EXCEPT ![b].staged[p] = IF Tree(b)[p] = Nothing THEN Nothing ELSE Deleted]
        BY <1>2 DEF DeleteEntry, ChangeBranch, Change
    <2>2. branches[b] \in Record /\ Staged(b) \in [Paths -> Values]
        BY <2>1, RecordFields
    <2>3. /\ DOMAIN branches' = DOMAIN branches
          /\ \A c \in DOMAIN branches \ {b} : branches'[c] = branches[c]
          /\ branches'[b].head = branches[b].head /\ branches'[b].token = branches[b].token
        BY <2>1, <2>2 DEF Record
    <2>4. \A q \in Paths : Staged(b)'[q] = Staged(b)[q] \/ Staged(b)'[q] \in {Nothing, Deleted}
        BY <2>1, <2>2 DEF Record, Staged
    <2>5. \A q \in Paths, a \in candidates : Stages(b, q, a)' => Stages(b, q, a)
        BY <2>4 DEF Stages, Holds, IsEntry
    <2>6. QED
        BY <1>b, <2>1, <2>3, <2>5
<1>c. \A b : Staged(b)' = Unstaged => \A a : \A p \in Paths : ~Stages(b, p, a)'
    BY DEF Stages, Holds, Unstaged, IsEntry
<1>3. ASSUME NEW b \in Branches, Reset(b)
      PROVE  Moves /\ UNCHANGED <<jobVars, walkVars>>
    <2>1. /\ b \in DOMAIN branches /\ UNCHANGED <<commits, astray>> /\ UNCHANGED <<jobVars, walkVars>>
          /\ branches' = [branches EXCEPT ![b].staged = Unstaged, ![b].token = changes']
        BY <1>3 DEF Reset, ChangeBranch, Change
    <2>2. branches[b] \in Record
        BY <2>1, RecordFields
    <2>3. /\ DOMAIN branches' = DOMAIN branches
          /\ \A c \in DOMAIN branches \ {b} : branches'[c] = branches[c]
          /\ branches'[b].head = branches[b].head /\ Staged(b)' = Unstaged
        BY <2>1, <2>2 DEF Record, Staged
    <2>4. QED
        BY <1>b, <1>c, <2>1, <2>3
<1>4. ASSUME NEW b \in Branches, DeleteBranch(b)
      PROVE  Moves /\ UNCHANGED <<jobVars, walkVars>>
    <2>1. /\ commits' = commits /\ Forget(b) /\ UNCHANGED <<jobVars, walkVars>>
          /\ b \notin DOMAIN branches'
          /\ \A c \in DOMAIN branches' : c \in DOMAIN branches /\ branches'[c] = branches[c]
        BY <1>4 DEF DeleteBranch, ChangeBranch, Change
    <2>2. HistoryKept
        BY <2>1 DEF HistoryKept
    <2>3. \A c \in DOMAIN branches' \ {b} : AsAstray(c)
        BY <2>1, PutOthers
    <2>4. QED
        BY <2>1, <2>2, <2>3, OneMoves
<1>5. ASSUME NEW b \in Branches, NEW h \in DOMAIN commits,
             CreateBranch(b, h) \/ UpdateBranch(b, h) \/ ResetHard(b, h)
      PROVE  Moves /\ UNCHANGED <<jobVars, walkVars>>
    <2>1. commits' = commits /\ Put(b, h) /\ UNCHANGED <<jobVars, walkVars>>
        BY <1>5 DEF CreateBranch, UpdateBranch, ResetHard, ChangeBranch, Change
    <2>2. HistoryKept
        BY <2>1 DEF HistoryKept
    <2>3. \A c \in DOMAIN branches' \ {b} : c \in DOMAIN branches /\ branches'[c] = branches[c]
        BY <1>5 DEF CreateBranch, UpdateBranch, ResetHard, ChangeBranch
    <2>4. \A c \in DOMAIN branches' \ {b} : AsAstray(c)
        BY <2>1, PutOthers
    <2>5. /\ branches'[b].head = h
          /\ \/ Staged(b)' = Unstaged
             \/ b \in DOMAIN branches /\ Staged(b)' = Staged(b) /\ branches'[b].token = branches[b].token
        <3>1. CASE CreateBranch(b, h)
            BY <3>1 DEF CreateBranch, Staged
        <3>2. CASE UpdateBranch(b, h)
            <4>1. b \in DOMAIN branches /\ branches[b] \in Record
                BY <3>2, RecordFields DEF UpdateBranch, ChangeBranch
            <4>2. QED
                BY <3>2, <4>1 DEF UpdateBranch, Staged, Record
        <3>3. CASE ResetHard(b, h)
            <4>1. b \in DOMAIN branches /\ branches[b] \in Record
                BY <3>3, RecordFields DEF ResetHard, ChangeBranch
            <4>2. QED
                BY <3>3, <4>1 DEF ResetHard, Staged, Record
        <3>4. QED
            BY <1>5, <3>1, <3>2, <3>3
    <2>6. \A p \in Paths, a \in candidates :
              Stages(b, p, a)' => b \in DOMAIN branches /\ Stages(b, p, a) /\ branches'[b].token = branches[b].token
        BY <1>c, <2>5 DEF Stages, Holds, IsEntry
    <2>7. \A p \in Paths, a \in candidates :
              Holds(Tree(b), p, a)' => HadOrStaged(b, a) \/ ~Behind(b) \/ Astray(b, p, a)' \/ AtSettled(a)
        BY <2>1, <2>2, <2>5, PutMoves
    <2>8. QED
        BY <2>1, <2>2, <2>3, <2>4, <2>6, <2>7, OneMoves
<1>6. ASSUME NEW b \in Branches, NEW id \in CommitIDs, CommitBranch(b, id)
      PROVE  Moves /\ UNCHANGED <<jobVars, walkVars>>
    <2>1. /\ b \in DOMAIN branches /\ id \notin DOMAIN commits /\ UNCHANGED <<jobVars, walkVars>>
          /\ commits'[id].metaRange = NextTree(b)
          /\ DOMAIN commits' = DOMAIN commits \cup {id}
          /\ \A c \in DOMAIN commits : commits'[c] = commits[c]
          /\ DOMAIN branches' = DOMAIN branches
          /\ branches'[b] = [head |-> id, token |-> changes', staged |-> Unstaged]
          /\ \A c \in DOMAIN branches' \ {b} : branches'[c] = branches[c]
          /\ astray' = astray
        BY <1>6 DEF CommitBranch, ChangeBranch, Change
    <2>2. Staged(b)' = Unstaged /\ Tree(b)' = NextTree(b)
        BY <2>1 DEF Staged, Tree
    <2>3. HistoryKept /\ \A c : AsAstray(c)
        BY <2>1 DEF HistoryKept, AsAstray
    <2>4. ASSUME NEW p \in Paths, NEW a \in candidates, Holds(Tree(b), p, a)'
          PROVE  HadOrStaged(b, a)
        <3>1. Holds(NextTree(b), p, a)
            BY <2>2, <2>4 DEF Holds, IsEntry
        <3>2. Stages(b, p, a) \/ Holds(Tree(b), p, a)
            BY <3>1 DEF NextTree, Shown, Stages, Holds, IsEntry
        <3>3. QED
            BY <2>1, <2>3, <3>2 DEF HadOrStaged, InHead
    <2>5. \A p \in Paths, a \in candidates : ~Stages(b, p, a)'
        BY <1>c, <2>2
    <2>6. QED
        BY <2>1, <2>3, <2>4, <2>5, OneMoves
<1>7. QED
    <2>1. CASE \/ \E r \in Clients, b \in Branches, p \in Paths, a \in Addresses : Upload(r, b, p, a)
               \/ \E b \in Branches, p \in Paths, a \in Addresses : GetPhysicalAddress(b, p, a)
               \/ \E a \in Addresses : PutObject(a)
               \/ \E r \in Clients, a \in Addresses, date \in Times : LinkPhysicalAddress(r, a, date)
               \/ \E r \in Clients, e \in Readable, b \in Branches, p \in Paths : CloneEntry(r, e, b, p)
        BY <1>a, <2>1 DEF Upload, GetPhysicalAddress, PutObject, LinkPhysicalAddress, CloneEntry, Change, Begin
    <2>2. QED
        BY <1>1, <1>2, <1>3, <1>4, <1>5, <1>6, <2>1 DEF Request

-----------------------------------------------------------------------------
(* No staged candidate is passed by, whatever the pages break off at.      *)

After(m, b, p) == m.branch < b \/ (m.branch = b /\ m.path <= p)

\* The branch that is being listed still shows what it did to the page.
Opened ==
    page # Nothing =>
        /\ page.branch # Nothing =>
              /\ \A b \in page.left : page.branch < b
              /\ page.next = Nothing
              /\ page.branch \in DOMAIN branches => \A p \in Paths, a \in candidates :
                    Stages(page.branch, p, a) =>
                        /\ branches[page.branch].token = page.token
                        /\ Holds(page.view, p, a)
        /\ page.next # Nothing => page.left = {}

\* What the rest of this page and the pages after it come to.
ToCome(b, p) ==
    IF page = Nothing THEN mark = Nothing \/ After(mark, b, p)
    ELSE \/ b \in page.left /\ p \in PathsFrom(b)
         \/ b = page.branch /\ p \in page.paths
         \/ page.next # Nothing /\ After(page.next, b, p)

Noted == uploaded \cup overlooked \cup (IF page = Nothing THEN {} ELSE page.rows)

Listing ==
    \A b \in DOMAIN branches, p \in Paths, a \in candidates :
        Stages(b, p, a) => a \in Noted \/ (job = "page" /\ ToCome(b, p))

ListInv ==
    /\ job = "idle" => mark = Nothing
    /\ job # "page" => page = Nothing
    /\ job # "failed" => Opened /\ Listing

\* Changes of branches between two steps of the job.
LEMMA ListMoves ==
    ASSUME TypeOK, ListInv, StagedBefore, UNCHANGED listVars, UNCHANGED job
    PROVE  ListInv'
<1>1. UNCHANGED <<candidates, page, mark, uploaded, overlooked, job>>
    BY DEF listVars
<1>2. Opened => Opened'
    BY <1>1, PageFields DEF Opened, StagedBefore
<1>3. Listing => Listing'
    <2>1. \A b, p : ToCome(b, p)' = ToCome(b, p)
        BY <1>1 DEF ToCome, PathsFrom, After
    <2>2. Noted' = Noted
        BY <1>1 DEF Noted
    <2>3. QED
        BY <1>1, <2>1, <2>2 DEF Listing, StagedBefore
<1>4. QED
    BY <1>1, <1>2, <1>3 DEF ListInv

\* A step that reads no more than the branches.
LEMMA ListRead ==
    ASSUME TypeOK, ListInv, JobStep, candidates' = candidates, job # "failed",
           job' = "page" \/ (job' # "idle" /\ page' = Nothing),
           Opened',
           \A b \in DOMAIN branches, p \in Paths, a \in candidates :
               Stages(b, p, a) /\ (a \in Noted \/ (job = "page" /\ ToCome(b, p)))
                   => a \in Noted' \/ (job' = "page" /\ ToCome(b, p)')
    PROVE  ListInv'
<1>1. UNCHANGED <<branches, candidates>> /\ \A b, p, a : Stages(b, p, a)' = Stages(b, p, a)
    BY DEF JobStep, storeVars, Stages, Holds, Staged, IsEntry
<1>2. Listing'
    BY <1>1 DEF ListInv, Listing
<1>3. QED
    BY <1>2 DEF ListInv

LEMMA BranchIDs ==
    ASSUME TypeOK
    PROVE  /\ \A b \in DOMAIN branches : b \in Branches /\ b \in Nat /\ b # Nothing
           /\ \A b \in Branches : b \in Nat /\ b # Nothing
           /\ \A p \in Paths : p \in Nat /\ 0 <= p
           /\ \A m \in Marks : m.branch \in Nat /\ m.path \in Nat /\ m # Nothing
           /\ job = "page" => job # "failed"
           /\ mark # Nothing => mark \in Marks
BY GarbageCollectionAssumption, ValuesAssumption, RecordFields DEF TypeOK, Marks

LEMMA OpenPageList ==
    ASSUME TypeOK, ListInv, OpenPage
    PROVE  ListInv'
<1>1. /\ page = Nothing /\ page' # Nothing /\ job = "page" /\ job' = "page"
      /\ page'.left = {b \in DOMAIN branches : mark = Nothing \/ mark.branch <= b}
      /\ page'.branch = Nothing /\ page'.next = Nothing /\ page'.rows = {}
      /\ UNCHANGED <<candidates, mark, uploaded, overlooked>> /\ JobStep
    BY OpenPageTyped, ValuesAssumption DEF OpenPage, PageStep
<1>2. Opened'
    BY <1>1 DEF Opened
<1>3. Noted' = Noted
    BY <1>1 DEF Noted
<1>4. \A b \in DOMAIN branches, p \in Paths : ToCome(b, p) => ToCome(b, p)'
    BY <1>1, BranchIDs DEF ToCome, After, PathsFrom
<1>5. QED
    BY <1>1, <1>2, <1>3, <1>4, ListRead, BranchIDs

\* A page that goes on after a branch, or breaks off there.
LEMMA ContinuedList ==
    ASSUME TypeOK, ListInv, PageStep, UNCHANGED <<job, overlooked>>, page # Nothing, job = "page",
           NEW q \in Page, page' \in Continued(q),
           page.next = Nothing, q.next = Nothing, q.branch = Nothing, q.rows = page.rows,
           \A b \in DOMAIN branches, p \in Paths : ToCome(b, p) => b \in q.left /\ p \in PathsFrom(b)
    PROVE  ListInv'
<1> DEFINE cut == [q EXCEPT !.next = [branch |-> First(q.left), path |-> 0], !.left = {}]
<1>1. page' \in Page /\ (page' = q \/ (q.left # {} /\ page' = cut))
    BY ContinuedTyped
<1>2. /\ page' # Nothing /\ UNCHANGED <<candidates, mark, uploaded>> /\ JobStep
    BY <1>1, ValuesAssumption DEF PageStep
<1>3. /\ page'.branch = Nothing /\ page'.rows = page.rows
      /\ page'.next # Nothing => page'.left = {}
    BY <1>1 DEF Page
<1>4. Opened'
    BY <1>2, <1>3 DEF Opened
<1>5. Noted' = Noted
    BY <1>2, <1>3 DEF Noted
<1>6. ASSUME NEW b \in DOMAIN branches, NEW p \in Paths, ToCome(b, p)
      PROVE  ToCome(b, p)'
    <2>1. b \in q.left /\ p \in PathsFrom(b) /\ PathsFrom(b)' = PathsFrom(b)
        BY <1>2, <1>6 DEF PathsFrom
    <2>2. CASE page' = q
        BY <1>2, <2>1, <2>2 DEF ToCome
    <2>3. CASE page' = cut
        <3>1. page'.next = [branch |-> First(q.left), path |-> 0]
            BY <2>3 DEF Page
        <3>2. q.left \in SUBSET Nat
            BY GarbageCollectionAssumption DEF Page
        <3>3. First(q.left) \in q.left /\ First(q.left) <= b /\ First(q.left) \in Nat
            BY <2>1, <3>2, FirstOf
        <3>4. After(page'.next, b, p)
            BY <2>1, <3>1, <3>2, <3>3, BranchIDs DEF After
        <3>5. page'.next # Nothing
            BY <3>1, <3>3, BranchIDs, ValuesAssumption DEF Marks, Page
        <3>6. QED
            BY <1>2, <3>4, <3>5 DEF ToCome
    <2>4. QED
        BY <1>1, <2>2, <2>3
<1>7. QED
    BY <1>2, <1>4, <1>5, <1>6, ListRead

LEMMA OpenBranchList ==
    ASSUME TypeOK, ListInv, OpenBranch
    PROVE  ListInv'
<1> DEFINE b == First(page.left)
           here == [page EXCEPT !.left = @ \ {b}, !.branch = b, !.missing = FALSE,
                                !.token = branches[b].token, !.view = Staged(b), !.tree = Tree(b),
                                !.paths = PathsFrom(b)]
           gone(left) == [page EXCEPT !.left = left, !.missing = TRUE, !.count = 0]
<1>1. /\ page # Nothing /\ page \in Page /\ job = "page" /\ page.branch = Nothing /\ page.left # {}
      /\ b \in page.left /\ b \in Nat /\ \A c \in page.left : c \in Nat /\ b <= c
      /\ page' \in Page /\ page' # Nothing
      /\ PageStep /\ UNCHANGED <<job, overlooked>>
    BY OpenBranchEffect, PageFields, ValuesAssumption
<1>2. Opened /\ page.next = Nothing
    BY <1>1 DEF ListInv, Opened
<1>3. \A c \in DOMAIN branches, p \in Paths : ToCome(c, p) => c \in page.left /\ p \in PathsFrom(c)
    BY <1>1, <1>2, BranchIDs DEF ToCome
<1>4. CASE b \in DOMAIN branches
    <2>1. page' = here
        BY <1>4 DEF OpenBranch
    <2>2. /\ page'.left = page.left \ {b} /\ page'.branch = b /\ page'.token = branches[b].token
          /\ page'.view = Staged(b) /\ page'.paths = PathsFrom(b) /\ page'.next = Nothing
          /\ page'.rows = page.rows
        BY <1>1, <1>2, <2>1 DEF Page
    <2>3. UNCHANGED <<candidates, mark, uploaded, overlooked, branches>> /\ JobStep
        BY <1>1 DEF PageStep, JobStep, storeVars
    <2>4. Opened'
        BY <1>1, <2>2, <2>3 DEF Opened, Stages, Holds, Staged
    <2>5. Noted' = Noted
        BY <1>1, <2>2, <2>3 DEF Noted
    <2>6. \A c \in DOMAIN branches, p \in Paths : ToCome(c, p) => ToCome(c, p)'
        BY <1>1, <1>3, <2>2, <2>3 DEF ToCome, PathsFrom
    <2>7. QED
        BY <1>1, <2>3, <2>4, <2>5, <2>6, ListRead
<1>5. CASE b \notin DOMAIN branches
    <2>1. PICK left \in ToList(b) : page' \in Continued(gone(left))
        BY <1>5 DEF OpenBranch
    <2>2. /\ gone(left) \in Page /\ gone(left).left = left /\ gone(left).next = Nothing
          /\ gone(left).branch = Nothing /\ gone(left).rows = page.rows
        BY <1>1, <1>2, Turned
    <2> HIDE DEF gone
    <2>3. \A c \in DOMAIN branches, p \in Paths : ToCome(c, p) => c \in left /\ p \in PathsFrom(c)
        BY <1>1, <1>3, <1>5 DEF ToList
    <2>4. QED
        BY <1>1, <1>2, <2>1, <2>2, <2>3, ContinuedList
<1>6. QED
    BY <1>4, <1>5

LEMMA CloseBranchList ==
    ASSUME TypeOK, ListInv, CloseBranch
    PROVE  ListInv'
<1> DEFINE q(left) == [page EXCEPT !.left = left, !.branch = Nothing]
<1>1. /\ page # Nothing /\ page \in Page /\ job = "page" /\ page.branch # Nothing /\ page.paths = {}
      /\ PageStep /\ UNCHANGED <<job, overlooked>>
    BY PageFields DEF CloseBranch, Reading
<1>2. page.next = Nothing /\ \A b \in page.left : page.branch < b
    BY <1>1 DEF ListInv, Opened
<1>3. PICK left \in ToList(page.branch) : page' \in Continued(q(left))
    BY DEF CloseBranch
<1>4. /\ q(left) \in Page /\ q(left).left = left /\ q(left).next = Nothing
      /\ q(left).branch = Nothing /\ q(left).rows = page.rows
    BY <1>1, <1>2, Turned
<1> HIDE DEF q
<1>5. \A c \in DOMAIN branches, p \in Paths : ToCome(c, p) => c \in page.left /\ p \in PathsFrom(c)
    BY <1>1, <1>2 DEF ToCome
<1>6. page.branch \in Nat
    BY <1>1, PageFields, BranchIDs
<1>7. \A c \in page.left \cap DOMAIN branches : c \in left
    BY <1>2, <1>6, BranchIDs DEF ToList
<1>8. QED
    BY <1>1, <1>2, <1>3, <1>4, <1>5, <1>7, ContinuedList

LEMMA ReadEntryList ==
    ASSUME TypeOK, ListInv, ReadEntry
    PROVE  ListInv'
<1> DEFINE q == First(page.paths)
           o == page.branch
<1>1. /\ page # Nothing /\ page \in Page /\ job = "page" /\ o # Nothing /\ o \in Branches /\ o \in Nat
      /\ q \in page.paths /\ q \in Paths /\ q \in Nat
      /\ \A p \in page.paths : p \in Nat /\ q <= p
      /\ page' \in Page /\ page' # Nothing
      /\ PageStep /\ UNCHANGED job
    BY ReadEntryEffect, PageFields, ValuesAssumption, GarbageCollectionAssumption
<1>2. PICK v \in Read(q) : Skips(q, v) \/ Omits(q, v) \/ Writes(q, v) \/ Cuts(q, v)
    BY ReadEntryEffect
<1>3. /\ page.next = Nothing /\ \A b \in page.left : b \in Nat /\ o < b
      /\ o \in DOMAIN branches => \A p \in Paths, a \in candidates :
             Stages(o, p, a) => branches[o].token = page.token /\ Holds(page.view, p, a)
    BY <1>1, PageFields, BranchIDs DEF ListInv, Opened
<1>4. UNCHANGED <<candidates, mark, uploaded, branches>> /\ JobStep
    BY <1>1 DEF PageStep, JobStep, storeVars
\* What is staged there is what is read.
<1>5. ASSUME o \in DOMAIN branches, NEW a \in candidates, Stages(o, q, a)
      PROVE  IsEntry(v) /\ v.address = a
    <2>1. branches[o].token = page.token /\ Holds(page.view, q, a)
        BY <1>1, <1>3, <1>5
    <2>2. v \in {page.view[q], Staged(o)[q]}
        BY <1>2, <1>5, <2>1 DEF Read
    <2>3. QED
        BY <1>5, <2>1, <2>2 DEF Stages, Holds
<1>6. \A b \in DOMAIN branches, p \in Paths :
          ToCome(b, p) => \/ b \in page.left /\ p \in PathsFrom(b)
                          \/ b = o /\ p \in page.paths
    BY <1>1, <1>3 DEF ToCome
<1>7. CASE Cuts(q, v)
    <2>1. /\ page'.left = {} /\ page'.branch = Nothing /\ page'.next = [branch |-> o, path |-> q]
          /\ page'.rows = page.rows /\ overlooked' = overlooked
        BY <1>1, <1>7 DEF Cuts, Page
    <2>2. Opened'
        BY <2>1 DEF Opened
    <2>3. Noted' = Noted
        BY <1>1, <1>4, <2>1 DEF Noted
    <2>4. page'.next # Nothing
        BY <1>1, <2>1, BranchIDs DEF Marks
    <2>5. \A b \in DOMAIN branches, p \in Paths : ToCome(b, p) => After(page'.next, b, p)
        BY <1>1, <1>3, <1>6, <2>1 DEF After
    <2>6. \A b \in DOMAIN branches, p \in Paths : ToCome(b, p) => ToCome(b, p)'
        BY <1>1, <2>4, <2>5 DEF ToCome
    <2>7. QED
        BY <1>1, <1>4, <2>2, <2>3, <2>6, ListRead
<1>8. CASE Skips(q, v) \/ Omits(q, v) \/ Writes(q, v)
    <2>1. /\ page'.left = page.left /\ page'.branch = o /\ page'.token = page.token /\ page'.view = page.view
          /\ page'.paths = page.paths \ {q} /\ page'.next = Nothing
        BY <1>1, <1>3, <1>8 DEF Skips, Omits, Writes, Page
    <2>2. /\ page.rows \subseteq page'.rows /\ overlooked \subseteq overlooked'
          /\ IsEntry(v) => v.address \in page'.rows \cup overlooked'
        BY <1>1, <1>8 DEF Skips, Omits, Writes, Page
    <2>3. Opened'
        BY <1>1, <1>3, <1>4, <2>1 DEF Opened, Stages, Holds, Staged
    <2>4. Noted \subseteq Noted'
        BY <1>1, <1>4, <2>2 DEF Noted
    <2>5. ASSUME NEW b \in DOMAIN branches, NEW p \in Paths, NEW a \in candidates, Stages(b, p, a), ToCome(b, p)
          PROVE  a \in Noted' \/ ToCome(b, p)'
        <3>1. CASE b = o /\ p = q
            <4>1. a \in page'.rows \cup overlooked'
                BY <1>5, <2>2, <2>5, <3>1
            <4>2. QED
                BY <1>1, <4>1 DEF Noted
        <3>2. CASE ~(b = o /\ p = q)
            BY <1>1, <1>4, <1>6, <2>1, <2>5, <3>2 DEF ToCome, PathsFrom
        <3>3. QED
            BY <3>1, <3>2
    <2>6. QED
        BY <1>1, <1>4, <2>3, <2>4, <2>5, ListRead
<1>9. QED
    BY <1>2, <1>7, <1>8

LEMMA EndPageList ==
    ASSUME TypeOK, ListInv, EndPage
    PROVE  ListInv'
<1>1. /\ page # Nothing /\ job = "page" /\ page.branch = Nothing /\ page.left = {}
      /\ page' = Nothing /\ mark' = page.next /\ candidates' = candidates /\ JobStep
      /\ IF page.next = Nothing THEN job' = "heads" ELSE job' = job
      /\ uploaded \cup overlooked \cup page.rows = uploaded' \cup overlooked'
    BY DEF EndPage, PageEnds, Reading
<1>2. Opened' /\ Noted' = Noted
    BY <1>1 DEF Opened, Noted
<1>3. ASSUME NEW b \in DOMAIN branches, NEW p \in Paths, ToCome(b, p)
      PROVE  job' = "page" /\ ToCome(b, p)'
    BY <1>1, <1>3, BranchIDs DEF ToCome, After
<1>4. QED
    BY <1>1, <1>2, <1>3, ListRead

LEMMA NextList ==
    ASSUME TypeInv, ReachInv, ListInv, [Next]_vars
    PROVE  ListInv'
<1> USE DEF TypeInv
<1>0. ASSUME UNCHANGED branches PROVE StagedBefore
    BY <1>0 DEF StagedBefore, Stages, Holds, Staged, IsEntry
<1>1. CASE Request
    BY <1>1, RequestMoves, ListMoves DEF Moves, jobVars
<1>2. CASE Tick \/ UNCHANGED vars
    BY <1>0, <1>2, ListMoves DEF Tick, vars, storeVars, jobVars
<1>3. CASE ListObjects
    <2>1. job = "idle" /\ job' = "page" /\ page = Nothing /\ mark = Nothing /\ UNCHANGED <<page, mark>>
        BY <1>3 DEF ListObjects, ListInv
    <2>2. Opened' /\ Listing'
        BY <2>1 DEF Opened, Listing, ToCome
    <2>3. QED
        BY <2>1, <2>2 DEF ListInv
<1>4. CASE PageFails
    BY <1>4 DEF PageFails, ListInv
<1>5. CASE ReadHead \/ HeadsRead \/ ReadLeaves \/ WalkOn \/ Mark \/ Sweep
    <2>1. /\ job \in {"heads", "leaves", "walk", "sweep"} /\ job' \in {"heads", "leaves", "walk", "sweep", "done"}
          /\ UNCHANGED <<branches, candidates, mark, page, uploaded, overlooked>>
        BY <1>5 DEF ReadHead, HeadsRead, ReadLeaves, WalkOn, Mark, Sweep, JobStep, storeVars, jobVars, listVars
    <2>2. page = Nothing /\ Opened /\ Listing
        BY <2>1 DEF ListInv
    <2>3. Opened' /\ Listing'
        BY <2>1, <2>2 DEF Opened, Listing, Noted, Stages, Holds, Staged, IsEntry
    <2>4. QED
        BY <2>1, <2>2, <2>3 DEF ListInv
<1>6. QED
    BY <1>1, <1>2, <1>3, <1>4, <1>5, OpenPageList, OpenBranchList, ReadEntryList, CloseBranchList, EndPageList
    DEF Next, Job

-----------------------------------------------------------------------------
(* A candidate in the tree of a branch that the job has passed by is       *)
(* listed, in the tree of a head that was read, or where the branch was    *)
(* put unseen.                                                             *)

HeadTrees == UNION {InTree(commits[heads[b]].metaRange) : b \in DOMAIN heads}

Headed == \A b \in DOMAIN branches, p \in Paths, a \in candidates :
    Behind(b) /\ Holds(Tree(b), p, a) => a \in uploaded \cup overlooked \cup HeadTrees \/ \E q \in Paths : Astray(b, q, a)

\* The walk makes the heads active.
HeadsStart ==
    /\ \A b \in DOMAIN heads : [branch |-> b, commit |-> heads[b]] \in starts
    /\ \A p \in starts \ points : p.branch # Dangling => p.commit \in active

HeadInv ==
    /\ Headed
    /\ job \in {"idle", "page", "failed"} => DOMAIN heads = {}
    /\ job = "walk" => HeadsStart
    /\ IF job \in {"sweep", "done"}
       THEN doomed \subseteq candidates \ Committed /\ \A b \in DOMAIN heads : heads[b] \in active
       ELSE doomed = {}

LEMMA HeadTreesIs ==
    ASSUME NEW a
    PROVE  a \in HeadTrees <=> \E b \in DOMAIN heads : \E p \in Paths : Holds(commits[heads[b]].metaRange, p, a)
BY DEF HeadTrees, InTree, Holds

LEMMA CommittedIs ==
    ASSUME NEW a
    PROVE  a \in Committed <=> \E c \in active : \E p \in Paths : Holds(commits[c].metaRange, p, a)
BY DEF Committed, InTree, Holds

\* More heads are read, and more commits there.
LEMMA HeadTreesGrow ==
    ASSUME TypeOK, HistoryKept,
           \A b \in DOMAIN heads : b \in DOMAIN heads' /\ heads'[b] = heads[b]
    PROVE  HeadTrees \subseteq HeadTrees'
<1> SUFFICES ASSUME NEW a \in HeadTrees PROVE a \in HeadTrees'
    OBVIOUS
<1>1. PICK b \in DOMAIN heads : a \in InTree(commits[heads[b]].metaRange)
    BY DEF HeadTrees
<1>2. commits'[heads'[b]] = commits[heads[b]] /\ b \in DOMAIN heads'
    BY <1>1 DEF TypeOK, HistoryKept
<1>3. a \in InTree(commits'[heads'[b]].metaRange)
    BY <1>1, <1>2 DEF InTree, IsEntry
<1>4. QED
    BY <1>2, <1>3 DEF HeadTrees, InTree, IsEntry

LEMMA AstrayStays ==
    ASSUME TypeOK, HistoryKept, NEW b, NEW p, NEW a, AsAstray(b), Astray(b, p, a)
    PROVE  Astray(b, p, a)'
<1>1. b \in DOMAIN astray /\ astray[b] \in DOMAIN commits
    BY DEF Astray, TypeOK
<1>2. QED
    BY <1>1 DEF Astray, AsAstray, HistoryKept, Holds, IsEntry

\* What is staged has been listed when heads are read.
LEMMA StagedNoted ==
    ASSUME ListInv, NEW b \in DOMAIN branches, Behind(b), NEW a \in candidates, NEW p \in Paths, Stages(b, p, a)
    PROVE  a \in uploaded \cup overlooked
BY DEF ListInv, Listing, Noted, Behind

\* Changes of branches and new commits, and the walk.
LEMMA HeadMoves ==
    ASSUME TypeOK, ListInv, HeadInv, TreesBefore, HistoryKept, UNCHANGED jobVars, HeadsStart => HeadsStart',
           job # "walk" => UNCHANGED active
    PROVE  HeadInv'
<1>1. UNCHANGED <<job, candidates, uploaded, overlooked, heads, doomed>>
    BY DEF jobVars, listVars
<1>2. HeadTrees \subseteq HeadTrees'
    BY <1>1, HeadTreesGrow
<1>3. ASSUME NEW b \in DOMAIN branches', NEW p \in Paths, NEW a \in candidates, Behind(b), Holds(Tree(b), p, a)'
      PROVE  a \in uploaded \cup overlooked \cup HeadTrees' \/ \E q \in Paths : Astray(b, q, a)'
    <2>1. HadOrStaged(b, a) \/ Astray(b, p, a)' \/ AtSettled(a)
        BY <1>3 DEF TreesBefore
    <2>2. CASE b \in DOMAIN branches /\ \E q \in Paths : Stages(b, q, a)
        BY <1>3, <2>2, StagedNoted
    <2>3. CASE b \in DOMAIN branches /\ InHead(b, a) /\ AsAstray(b)
        <3>1. PICK q \in Paths : Holds(Tree(b), q, a)
            BY <2>3 DEF InHead
        <3>2. a \in uploaded \cup overlooked \cup HeadTrees \/ \E r \in Paths : Astray(b, r, a)
            BY <1>3, <2>3, <3>1 DEF HeadInv, Headed
        <3>3. QED
            BY <1>2, <2>3, <3>2, AstrayStays
    <2>4. CASE AtSettled(a)
        <3>1. PICK c \in DOMAIN branches : Behind(c) /\ c \notin DOMAIN astray /\ InHead(c, a)
            BY <2>4 DEF AtSettled
        <3>2. PICK q \in Paths : Holds(Tree(c), q, a)
            BY <3>1 DEF InHead
        <3>3. a \in uploaded \cup overlooked \cup HeadTrees
            BY <1>3, <3>1, <3>2 DEF HeadInv, Headed, Astray
        <3>4. QED
            BY <1>2, <3>3
    <2>5. QED
        BY <2>1, <2>2, <2>3, <2>4 DEF HadOrStaged
<1>4. Headed'
    <2>1. \A b : Behind(b)' = Behind(b)
        BY <1>1 DEF Behind
    <2>2. QED
        BY <1>1, <1>3, <2>1 DEF Headed
<1>5. ASSUME job # "walk" PROVE Committed' = Committed
    <2>1. active' = active /\ \A c \in active : commits'[c] = commits[c]
        BY <1>5 DEF HistoryKept, TypeOK, ActiveTypeOK
    <2>2. QED
        BY <2>1 DEF Committed, InTree, IsEntry
<1>6. QED
    BY <1>1, <1>4, <1>5 DEF HeadInv

LEMMA WalkMoves ==
    ASSUME TypeOK, WalkOn, HeadsStart
    PROVE  HeadsStart'
<1>1. UNCHANGED <<heads, starts>>
    BY DEF WalkOn, Walk, StartPoint, Stop, Follow, jobVars
<1>2. CASE Stop \/ Follow
    BY <1>1, <1>2 DEF HeadsStart, Stop, Follow
<1>3. ASSUME NEW p \in points, StartPoint(p) PROVE HeadsStart'
    BY <1>1, <1>3 DEF HeadsStart, StartPoint
<1>4. QED
    BY <1>2, <1>3 DEF WalkOn, Walk

\* A step that reads.
LEMMA HeadRead ==
    ASSUME TypeOK, HeadInv, JobStep, UNCHANGED <<candidates, uploaded, overlooked, heads>>,
           \A b \in DOMAIN branches : Behind(b)' => Behind(b)
    PROVE  Headed'
<1>1. HeadTrees' = HeadTrees /\ \A b : Tree(b)' = Tree(b)
    BY DEF HeadTrees, InTree, IsEntry, Tree, JobStep, storeVars
<1>2. \A b, p, a : Astray(b, p, a)' = Astray(b, p, a)
    BY DEF Astray, Holds, IsEntry, JobStep, storeVars
<1>3. \A t, p, a : Holds(t, p, a)' = Holds(t, p, a)
    BY DEF Holds, IsEntry
<1>4. QED
    BY <1>1, <1>2 DEF HeadInv, Headed, JobStep, storeVars, Holds, IsEntry

\* The next head is read: the branch joins those the job has passed by.
LEMMA ReadHeadMoves ==
    ASSUME TypeOK, HeadInv, ReadHead
    PROVE  HeadInv'
<1> DEFINE o == First(Unread)
<1>1. /\ job = "heads" /\ job' = job /\ JobStep /\ UNCHANGED <<candidates, uploaded, overlooked, doomed>>
      /\ heads' = [c \in DOMAIN heads \cup {o} |-> IF c = o THEN branches[o].head ELSE heads[c]]
    BY DEF ReadHead, listVars
<1>2. /\ o \in DOMAIN branches /\ o \in Nat /\ ~Behind(o)
      /\ \A b \in DOMAIN branches : ~Behind(b) => o <= b
    BY FirstUnread DEF ReadHead
<1> HIDE DEF o
<1>3. o \notin DOMAIN heads
    BY <1>1, <1>2 DEF Behind
<1>4. HeadTrees \subseteq HeadTrees'
    BY <1>1, <1>3, HeadTreesGrow DEF HistoryKept, JobStep, storeVars
<1>5. ASSUME NEW b \in DOMAIN branches, Behind(b)' PROVE Behind(b) \/ b = o
    <2>1. PICK c \in DOMAIN heads \cup {o} : b <= c
        BY <1>1, <1>5 DEF Behind
    <2>2. b \in Nat
        BY RecordFields
    <2>3. QED
        BY <1>1, <1>2, <2>1, <2>2 DEF Behind
<1>6. /\ UNCHANGED <<branches, commits, astray>>
      /\ \A b : Tree(b)' = Tree(b)
      /\ \A b, p, a : Astray(b, p, a)' = Astray(b, p, a)
    BY <1>1 DEF JobStep, storeVars, Tree, Astray, Holds, IsEntry
<1>7. ASSUME NEW p \in Paths, NEW a \in candidates, Holds(Tree(o), p, a)
      PROVE  a \in HeadTrees'
    <2>1. o \in DOMAIN heads' /\ commits'[heads'[o]].metaRange = Tree(o)
        BY <1>1, <1>6 DEF Tree
    <2>2. QED
        BY <1>7, <2>1 DEF HeadTrees, InTree, Holds, IsEntry
<1>8. Headed'
    BY <1>1, <1>4, <1>5, <1>6, <1>7 DEF HeadInv, Headed, Holds, IsEntry
<1>9. QED
    BY <1>1, <1>8 DEF HeadInv

LEMMA NextHead ==
    ASSUME TypeInv, ReachInv, ListInv, HeadInv, [Next]_vars
    PROVE  HeadInv'
<1> USE DEF TypeInv
<1>0. ASSUME UNCHANGED <<branches, commits, astray>> PROVE TreesBefore /\ HistoryKept
    <2>1. HistoryKept /\ \A b : AsAstray(b) /\ Tree(b)' = Tree(b)
        BY <1>0 DEF HistoryKept, AsAstray, Tree
    <2>2. QED
        BY <1>0, <2>1 DEF TreesBefore, HadOrStaged, InHead, Holds, IsEntry
<1>1. CASE Request
    <2>1. TreesBefore /\ HistoryKept /\ UNCHANGED <<jobVars, walkVars>>
        BY <1>1, RequestMoves DEF Moves
    <2>2. HeadsStart => HeadsStart'
        BY <2>1 DEF HeadsStart, jobVars, walkVars
    <2>3. QED
        BY <2>1, <2>2, HeadMoves DEF walkVars
<1>2. CASE Tick \/ UNCHANGED vars
    <2>1. TreesBefore /\ HistoryKept /\ UNCHANGED <<jobVars, walkVars>>
        BY <1>0, <1>2 DEF Tick, vars, storeVars
    <2>2. HeadsStart => HeadsStart'
        BY <2>1 DEF HeadsStart, jobVars, walkVars
    <2>3. QED
        BY <2>1, <2>2, HeadMoves DEF walkVars
<1>3. CASE WalkOn
    <2>1. TreesBefore /\ HistoryKept /\ UNCHANGED jobVars
        BY <1>0, <1>3 DEF WalkOn, Walk, StartPoint, Stop, Follow
    <2>2. QED
        BY <1>3, <2>1, HeadMoves, WalkMoves DEF WalkOn
<1>4. CASE ListObjects \/ OpenPage \/ OpenBranch \/ ReadEntry \/ CloseBranch \/ EndPage \/ PageFails
    <2>1. /\ job \in {"idle", "page"} /\ job' \in {"page", "heads", "failed"}
          /\ UNCHANGED <<doomed, heads>>
        BY <1>4 DEF ListObjects, OpenPage, OpenBranch, ReadEntry, CloseBranch, EndPage, PageFails, Reading, PageEnds, PageStep
    <2>2. \A b : ~Behind(b)'
        BY <2>1 DEF HeadInv, Behind
    <2>3. QED
        BY <2>1, <2>2 DEF HeadInv, Headed
<1>5. CASE ReadHead
    BY <1>5, ReadHeadMoves
<1>6. CASE HeadsRead \/ ReadLeaves
    <2>1. /\ job \in {"heads", "leaves"} /\ job' \in {"leaves", "walk"} /\ JobStep
          /\ UNCHANGED <<candidates, uploaded, overlooked, heads, doomed>>
        BY <1>6 DEF HeadsRead, ReadLeaves, listVars
    <2>2. \A b \in DOMAIN branches : Behind(b)
        BY <1>6 DEF HeadsRead, ReadLeaves, Unread, Behind
    <2>3. Headed'
        BY <2>1, <2>2, HeadRead
    <2>4. job' = "walk" => HeadsStart'
        BY <1>6 DEF HeadsRead, ReadLeaves, BeginWalk, HeadsStart, StartingPoints
    <2>5. QED
        BY <2>1, <2>3, <2>4 DEF HeadInv
<1>7. CASE Mark
    <2>1. /\ job = "walk" /\ job' = "sweep" /\ points = {} /\ JobStep
          /\ doomed' \subseteq candidates \ Committed
          /\ UNCHANGED <<candidates, uploaded, overlooked, heads, active>>
        BY <1>7 DEF Mark, Walked, listVars, walkVars
    <2>2. \A b \in DOMAIN heads : heads[b] \in active
        <3>1. ASSUME NEW b \in DOMAIN heads PROVE heads[b] \in active
            <4>1. b \in Branches /\ b # Dangling
                BY ActiveCommitsAssumption DEF TypeOK
            <4>2. [branch |-> b, commit |-> heads[b]] \in starts \ points
                BY <2>1 DEF HeadInv, HeadsStart
            <4>3. QED
                BY <2>1, <4>1, <4>2 DEF HeadInv, HeadsStart
        <3>2. QED
            BY <3>1
    <2>3. Headed'
        BY <2>1, HeadRead DEF Behind
    <2>4. Committed' = Committed
        BY <2>1 DEF Committed, InTree, IsEntry, JobStep, storeVars
    <2>5. QED
        BY <2>1, <2>2, <2>3, <2>4 DEF HeadInv
<1>8. CASE Sweep
    <2>1. /\ job = "sweep" /\ job' = "done"
          /\ UNCHANGED <<commits, branches, astray, candidates, uploaded, overlooked, heads, active, doomed>>
        BY <1>8 DEF Sweep, listVars, walkVars
    <2>2. TreesBefore /\ HistoryKept /\ \A b : Behind(b)' = Behind(b)
        BY <1>0, <2>1 DEF Behind
    <2>3. /\ HeadTrees' = HeadTrees /\ \A b : Tree(b)' = Tree(b)
          /\ \A b, p, a : Astray(b, p, a)' = Astray(b, p, a)
        BY <2>1 DEF HeadTrees, InTree, IsEntry, Tree, Astray, Holds
    <2>4. Headed'
        BY <2>1, <2>2, <2>3 DEF HeadInv, Headed, Holds, IsEntry
    <2>5. Committed' = Committed
        BY <2>1 DEF Committed, InTree, IsEntry
    <2>6. QED
        BY <2>1, <2>4, <2>5 DEF HeadInv
<1>9. QED
    BY <1>1, <1>2, <1>3, <1>4, <1>5, <1>6, <1>7, <1>8 DEF Next, Job

GCInv == TypeInv /\ ReachInv /\ ListInv /\ HeadInv

LEMMA GCInvInit == Init => GCInv
<1> SUFFICES ASSUME Init PROVE GCInv
    OBVIOUS
<1>1. TypeInv
    BY InitTyped DEF TypeInv, Init, Cut
<1>2. job \in {"idle", "heads"} /\ DOMAIN heads = {}
    BY WorldsAssumption DEF Init
<1>3. ReachInv
    BY DEF Init, ReachInv, Issued, Fresh
<1>4. ListInv
    BY DEF Init, ListInv, Opened, Listing
<1>5. HeadInv
    BY <1>2 DEF Init, HeadInv, Headed, Behind
<1>6. QED
    BY <1>1, <1>3, <1>4, <1>5 DEF GCInv

LEMMA GCInvHolds == GCInv => NothingMissed
<1> SUFFICES ASSUME GCInv, NEW b \in DOMAIN branches, NEW a \in doomed, a \in Needed(b)
             PROVE  a \in overlooked \cup uploaded \cup Unseen(b)
    BY DEF NothingMissed
<1>1. /\ job \in {"sweep", "done"} /\ a \in candidates /\ a \notin Committed
      /\ \A c \in DOMAIN heads : heads[c] \in active
      /\ Headed /\ ListInv /\ Behind(b)
    BY DEF GCInv, HeadInv, Behind
<1>2. a \notin HeadTrees
    BY <1>1, HeadTreesIs, CommittedIs
<1>3. PICK p \in Paths : Stages(b, p, a) \/ Holds(Tree(b), p, a)
    BY NeededIs
<1>4. CASE Stages(b, p, a)
    BY <1>1, <1>4, StagedNoted
<1>5. CASE Holds(Tree(b), p, a)
    <2>1. a \in uploaded \cup overlooked \/ \E q \in Paths : Astray(b, q, a)
        BY <1>1, <1>2, <1>5 DEF Headed
    <2>2. ASSUME NEW q \in Paths, Astray(b, q, a) PROVE a \in Unseen(b)
        <3>1. \A c \in DOMAIN heads : astray[b] # heads[c]
            BY <1>2, <2>2, HeadTreesIs DEF Astray
        <3>2. QED
            BY <2>2, <3>1 DEF Unseen, Astray, InTree, Holds
    <2>3. QED
        BY <2>1, <2>2
<1>6. QED
    BY <1>3, <1>4, <1>5

\* Whatever histories, branches and objects there are, and however requests
\* come between the steps of the job, the heads it reads one by one included,
\* it removes no object a branch needs but those it came across and left out,
\* or listed in files its last answer did not tell of, or that are in the tree
\* of a commit that a branch was put at behind its back
\* (PrepareGCUncommitted, CopyEntry, VerifyLinkAddress, GCBranchIterator).
THEOREM NoneIsMissed == Spec => []NothingMissed
<1>1. Init => GCInv
    BY GCInvInit
<1>2. GCInv /\ [Next]_vars => GCInv'
    BY NextTyped, NextReach, NextList, NextHead DEF GCInv, TypeInv
<1>3. GCInv => NothingMissed
    BY GCInvHolds
<1>4. QED
    BY <1>1, <1>2, <1>3, PTL DEF Spec
================================================================================
