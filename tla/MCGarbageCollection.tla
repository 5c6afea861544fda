------------------------- MODULE MCGarbageCollection -------------------------
(* Small histories for TLC.                                                *)
EXTENDS GarbageCollection, TLC

CONSTANTS a1, a2, a3

\* The rule of branch 2 is longer.
MCRules == [b \in Branches \cup {Dangling} |-> IF b = 2 THEN 2 ELSE 1]

\* The first two objects have the same content.
Contents == a1 :> "same" @@ a2 :> "same" @@ a3 :> "other"

Only(a, time) == [p \in Paths |-> IF p = 1 THEN [address |-> a, date |-> time] ELSE Nothing]
MCMetaRanges == [Paths -> [address : Addresses, date : 0..MaxClock] \cup {Nothing}]

Branch(h, entries) == [head |-> h, token |-> 0, staged |-> entries]

\* Every history of one root, which is old, and every two branches of it: only the walk is
\* looked at.
Shapes ==
    {t \in [parent : [CommitIDs -> CommitIDs \cup {NoCommit}], generation : [CommitIDs -> CommitIDs]] :
        /\ Cardinality({c \in CommitIDs : t.parent[c] = NoCommit}) = 1
        /\ \A c \in CommitIDs :
              t.generation[c] = IF t.parent[c] = NoCommit THEN 1 ELSE t.generation[t.parent[c]] + 1}
Histories ==
    UNION {{[c \in CommitIDs |-> [parent |-> t.parent[c], generation |-> t.generation[c],
                                  created |-> days[c], metaRange |-> Unstaged]] :
               days \in {d \in [CommitIDs -> 0..Today] :
                            \A c \in CommitIDs : IF t.parent[c] = NoCommit THEN d[c] = 0 ELSE d[t.parent[c]] <= d[c]}} :
           t \in Shapes}
HistoryWorlds ==
    {[commits |-> history, branches |-> 1 :> Branch(h1, Unstaged) @@ 2 :> Branch(h2, Unstaged),
      objects |-> [a \in Addresses |-> Nothing], clock |-> MaxClock, changes |-> MaxChanges, job |-> "heads"] :
        history \in Histories, h1 \in CommitIDs, h2 \in CommitIDs}

\* An old object is committed, or staged by an entry that is younger; others
\* may be uploaded, to these addresses, when some changes have been made.
First1 == [parent |-> NoCommit, generation |-> 1, created |-> 0, metaRange |-> Unstaged]
OldWorld(tree, heads2, entries, unused, made) ==
    [commits |-> 1 :> First1 @@ 2 :> [First1 EXCEPT !.parent = 1, !.generation = 2, !.metaRange = tree],
     branches |-> 1 :> Branch(heads2, Unstaged) @@ 2 :> Branch(1, entries),
     objects |-> [a \in Addresses |-> IF a = a1 THEN 0 ELSE IF a \in unused THEN Nothing ELSE Deleted],
     clock |-> 2, changes |-> made, job |-> "idle"]
OldWorlds == {OldWorld(Only(a1, 0), 2, Unstaged, {}, 0), OldWorld(Unstaged, 1, Only(a1, 1), {}, 0)}
             \cup {OldWorld(Only(a1, 0), 2, Unstaged, {a}, 1) : a \in {a2, a3}}
NewWorlds ==
    {[commits |-> 1 :> First1, branches |-> 1 :> Branch(1, Unstaged) @@ 2 :> Branch(1, Unstaged),
      objects |-> [a \in Addresses |-> IF a = a1 THEN Nothing ELSE Deleted],
      clock |-> 0, changes |-> 0, job |-> "idle"]}

\* The object is as new as the commit; it may be uploaded again.
AgainWorlds == {[OldWorld(Only(a1, 0), 2, Unstaged, {a2}, 0) EXCEPT !.clock = 0]}

MCWorlds == HistoryWorlds \cup OldWorlds \cup NewWorlds
=============================================================================
