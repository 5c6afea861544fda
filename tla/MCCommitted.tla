----------------------------- MODULE MCCommitted -----------------------------
(* Small requests: every way to cut a few keys into ranges. *)
EXTENDS Committed

CONSTANTS MergeKeys, CompareKeys

AllKeys == 1..LastKey

\* The meta-range with these contents and with a range that ends at each of
\* these keys, and at the last one.
Cut(contents, cuts) ==
    LET keys == DOMAIN contents
        Group(end) == {k \in keys : k <= end /\ \A c \in cuts : c < k \/ c >= end}
        Listed(S) == [n \in 1..Cardinality(S) |->
                        CHOOSE k \in S : Cardinality({j \in S : j < k}) = n - 1]
        ends == Listed(cuts \cup {k \in keys : \A j \in keys : j <= k})
        Rec(k) == [key |-> k, id |-> contents[k]]
    IN [n \in DOMAIN ends |->
            [i \in 1..Cardinality(Group(ends[n])) |-> Rec(Listed(Group(ends[n]))[i])]]

\* Identities are of one key, or the same ones serve all keys.
OwnId(k, v) == 10 * k + v
SameId(k, v) == v

\* By contents, which are given by a number for each key, 0 if it is absent.
CutsOf(Id(_, _)) ==
    [numbers \in [AllKeys -> 0..3] |->
        LET keys == {k \in AllKeys : numbers[k] # 0}
            contents == [k \in keys |-> Id(k, numbers[k])]
        IN {Cut(contents, cuts) : cuts \in SUBSET {k \in keys : \E j \in keys : j > k}}]
OwnCuts == CutsOf(OwnId)
SameCuts == CutsOf(SameId)

\* What a key is in the base, the source and the destination: 0 is absent,
\* and where names do not matter the first ones are taken.
Cases ==
    {<<1, s, d>> : s \in {0, 1}, d \in {0, 1, 2}} \cup {<<1, 2, d>> : d \in 0..3}
    \cup {<<0, 0, d>> : d \in {0, 1}} \cup {<<0, 1, d>> : d \in {0, 1, 2}}

Clash(case) == case[2] # case[3] /\ case[1] \notin {case[2], case[3]}
Numbers(cases, n) == [k \in AllKeys |-> IF k \in DOMAIN cases THEN cases[k][n] ELSE 0]

\* Changes with the number 3 are deletions.
ChangesOf(numbers) ==
    LET listed == Cut([k \in {j \in AllKeys : numbers[j] # 0} |->
                          IF numbers[k] = 3 THEN Tombstone ELSE OwnId(k, numbers[k])], {})
    IN IF listed = <<>> THEN <<>> ELSE listed[1]

\* At most one key conflicts, and the base has at most two ranges.
MergeOf(j, keys, cutsOf) ==
    \E cases \in {c \in [keys -> Cases] : Cardinality({k \in keys : Clash(c[k])}) <= 1} :
    \E b \in {mr \in cutsOf[Numbers(cases, 1)] : Len(mr) <= 2} :
    \E s \in cutsOf[Numbers(cases, 2)], d \in cutsOf[Numbers(cases, 3)] :
    \E strategy \in IF \E k \in keys : Clash(cases[k]) THEN Strategies ELSE {"none"} :
    \E empty \in IF \E k \in keys : cases[k][1] # cases[k][2] THEN {FALSE} ELSE BOOLEAN :
        j = [op |-> "merge", base |-> b, source |-> s, dest |-> d, prefixes |-> <<>>,
               changes |-> <<>>, strategy |-> strategy, allowEmpty |-> empty]

CommitOf(j) ==
    \E numbers \in [AllKeys -> {0, 1}], changed \in [AllKeys -> 0..3], empty \in BOOLEAN :
    \E b \in OwnCuts[numbers] :
        j = [op |-> "commit", base |-> b, source |-> <<>>, dest |-> <<>>, prefixes |-> <<>>,
               changes |-> ChangesOf(changed), strategy |-> "none", allowEmpty |-> empty]

\* Prefixes are apart or one is within the other, and sorted.
Prefixes == {[lo |-> l, hi |-> h] : l \in AllKeys, h \in AllKeys}
PrefixLists ==
    {<<p>> : p \in {q \in Prefixes : q.lo <= q.hi}} \cup
    {<<pair[1], pair[2]>> : pair \in
        {two \in Prefixes \X Prefixes :
            /\ two[1].lo <= two[1].hi /\ two[2].lo <= two[2].hi
            /\ two[1].lo <= two[2].lo /\ two[1] # two[2]
            /\ two[1].hi < two[2].lo \/ two[2].hi <= two[1].hi}}

\* What is imported lies under the prefixes.
ImportOf(j) ==
    \E prefixes \in PrefixLists, old \in [AllKeys -> {0, 1}], new \in [AllKeys -> {0, 1, 2}] :
        /\ \E k \in AllKeys : new[k] # 0
        /\ \A k \in AllKeys : new[k] # 0 => \E n \in DOMAIN prefixes : HasPrefix(k, prefixes[n])
        /\ \E d \in OwnCuts[old], s \in OwnCuts[new] :
            j = [op |-> "import", base |-> <<>>, source |-> s, dest |-> d, prefixes |-> prefixes,
                 changes |-> <<>>, strategy |-> "none", allowEmpty |-> FALSE]

DiffOf(j) ==
    \E cases \in [AllKeys -> {<<0, 0>>, <<0, 1>>, <<1, 0>>, <<1, 1>>, <<1, 2>>}] :
    \E s \in OwnCuts[Numbers(cases, 2)], d \in OwnCuts[Numbers(cases, 1)] :
        j = [op |-> "diff", base |-> <<>>, source |-> s, dest |-> d, prefixes |-> <<>>,
             changes |-> <<>>, strategy |-> "none", allowEmpty |-> FALSE]

\* How the base is cut makes no difference to compareIterator.
CompareOf(j) ==
    \E cases \in [CompareKeys -> Cases] :
    \E s \in OwnCuts[Numbers(cases, 2)], d \in OwnCuts[Numbers(cases, 3)] :
        j = [op |-> "compare", base |-> CHOOSE b \in OwnCuts[Numbers(cases, 1)] : Len(b) <= 1,
             source |-> s, dest |-> d, prefixes |-> <<>>,
             changes |-> <<>>, strategy |-> "none", allowEmpty |-> FALSE]

\* Merges of objects that may be alike under different paths.
AlikeRequest(j) == MergeOf(j, MergeKeys, SameCuts)

MCRequest(j) ==
    \/ MergeOf(j, MergeKeys, OwnCuts) \/ CommitOf(j) \/ ImportOf(j)
    \/ DiffOf(j) \/ CompareOf(j)
=============================================================================
