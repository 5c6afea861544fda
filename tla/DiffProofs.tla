----------------------------- MODULE DiffProofs -----------------------------
(***************************************************************************)
(* Of those who read differences from the committed manager (Diff), for    *)
(* any two meta-ranges and any base, any number of keys, and any sequence  *)
(* of calls of Next and NextRange and a SeekGE: they are told what differs *)
(* and nothing else, and a comparison foretells what the merge does.       *)
(*                                                                         *)
(* The argument: between two steps of a reader there is a key m so that it *)
(* knows (Knows) all that differs from the key it sought to m, and it      *)
(* stands (StandsAt) where both iterators have ahead what is after m.  The *)
(* second has as many cases as the reader has places to stop at: before a  *)
(* call that reads both sides, between two turns of the loop, and within a *)
(* range of the left side, of the right side or of both.  One lemma for    *)
(* each call and each kind of turn says that the reader reads on           *)
(* (ReadsOn): there is such a key after the step.                          *)
(***************************************************************************)
EXTENDS CommittedProofs

-----------------------------------------------------------------------------
(* Iterators of a reader *)

\* Without prefixes, nothing is skipped.
Plain(it) == it = [range |-> it.range, rec |-> it.rec, prefix |-> 1]

\* No prefix is passed, and no range is bounded by one.
LEMMA NoneToPass ==
    ASSUME NEW mr, NEW it, Plain(it)
    PROVE  Updated(mr, <<>>, it) = it /\ ~Bounded(mr, <<>>, it) /\ it.prefix = 1
<1>1. it.prefix = 1
    BY DEF Plain
<1>2. PICK a : a = it.range
    OBVIOUS
<1>3. PICK b : b = it.rec
    OBVIOUS
<1>4. it = [range |-> a, rec |-> b, prefix |-> 1]
    BY <1>2, <1>3 DEF Plain
<1>5. [it EXCEPT !.prefix = 1] = it
    BY <1>4
<1>6. UpdatePrefix(<<>>, RangeAt(mr, it), it) = it
    <2> DEFINE key == IF it.rec = 0 THEN MinKey(RangeAt(mr, it)) ELSE RangeAt(mr, it)[it.rec].key
               Stay(p) == \/ p > Len(<<>>)
                          \/ key <= <<>>[p].hi
                          \/ p < Len(<<>>) /\ <<>>[p + 1].lo > MaxKey(RangeAt(mr, it))
    <2>1. Stay(1)
        OBVIOUS
    <2> HIDE DEF Stay
    <2>2. {p \in it.prefix..(Len(<<>>) + 1) : Stay(p)} = {1}
        BY <1>1, <2>1
    <2>3. Seqs!Min({1}) = 1
        <3>1. {1} \subseteq Nat /\ {1} # {}
            OBVIOUS
        <3>2. Seqs!Min({1}) \in {1}
            BY <3>1, MinOfNumbers
        <3>3. QED
            BY <3>2
    <2>4. UpdatePrefix(<<>>, RangeAt(mr, it), it) =
            [it EXCEPT !.prefix = Seqs!Min({p \in it.prefix..(Len(<<>>) + 1) : Stay(p)})]
        BY DEF UpdatePrefix, Stay
    <2>5. QED
        BY <1>5, <2>2, <2>3, <2>4
<1>7. QED
    BY <1>1, <1>6 DEF Updated, Bounded

\* The iterator of the destination moves as that of the source does.
LEMMA PlainMoves ==
    ASSUME NEW mr, IsMetaRange(mr), NEW it, Plain(it), it.range \in 0..(Len(mr) + 1), it.rec \in Nat
    PROVE  /\ SkipNext(mr, <<>>, it) = Next1(mr, it)
           /\ SkipNextRange(mr, <<>>, it) = NextRange(mr, it)
<1>0. Len(mr) \in Nat /\ DOMAIN mr = 1..Len(mr)
    BY DEF IsMetaRange
<1>1. ASSUME NEW x, Plain(x), x.range \in Nat
      PROVE  SkipRanges(mr, <<>>, x) = x
    <2>1. CASE ~Have(mr, x)
        BY <2>1 DEF SkipRanges
    <2>2. CASE Have(mr, x)
        <3> DEFINE At(n) == Updated(mr, <<>>, [x EXCEPT !.range = n])
                   stops == {n \in x.range..Len(mr) : ~Bounded(mr, <<>>, At(n))}
        <3>0. PICK a : a = x.range
            OBVIOUS
        <3>0a. PICK b : b = x.rec
            OBVIOUS
        <3>1. [x EXCEPT !.range = x.range] = x
            <4>1. x = [range |-> a, rec |-> b, prefix |-> 1]
                BY <1>1, <3>0, <3>0a DEF Plain
            <4>2. [x EXCEPT !.range = a] = [range |-> a, rec |-> b, prefix |-> 1]
                BY <4>1
            <4>3. QED
                BY <3>0, <4>1, <4>2
        <3>2. At(x.range) = x /\ ~Bounded(mr, <<>>, x)
            BY <1>1, <3>1, NoneToPass
        <3>3. x.range \in stops /\ stops \subseteq Nat
            BY <1>0, <1>1, <2>2, <3>2 DEF Have
        <3>4. \A n \in stops : x.range <= n
            BY <1>1
        <3>5. SkipRanges(mr, <<>>, x) = At(Seqs!Min(stops))
            <4>1. stops # {}
                BY <3>3
            <4>2. QED
                BY <2>2, <4>1 DEF SkipRanges
        <3> HIDE DEF At, stops
        <3>6. Seqs!Min(stops) = x.range
            <4>1. Seqs!Min(stops) \in stops /\ Seqs!Min(stops) \in Nat /\ Seqs!Min(stops) <= x.range
                BY <3>3, MinOfNumbers
            <4>2. QED
                BY <1>1, <3>4, <4>1
        <3>7. QED
            BY <3>2, <3>5, <3>6
    <2>3. QED
        BY <2>1, <2>2
<1>2. ASSUME NEW x, Plain(x), x.range \in Nat, x.rec \in Nat, Have(mr, x) => x.rec <= Len(mr[x.range])
      PROVE  SkipRecords(mr, <<>>, x) = x
    <2>1. CASE ~AtRecord(mr, x)
        BY <2>1 DEF SkipRecords
    <2>2. CASE AtRecord(mr, x)
        <3> DEFINE At(i) == Updated(mr, <<>>, [x EXCEPT !.rec = i])
                   stops == {i \in x.rec..Len(RangeAt(mr, x)) : ~UnderItsPrefix(mr, <<>>, At(i))}
        <3>0. PICK a : a = x.range
            OBVIOUS
        <3>0a. PICK b : b = x.rec
            OBVIOUS
        <3>1. [x EXCEPT !.rec = x.rec] = x
            <4>1. x = [range |-> a, rec |-> b, prefix |-> 1]
                BY <1>2, <3>0, <3>0a DEF Plain
            <4>2. [x EXCEPT !.rec = b] = [range |-> a, rec |-> b, prefix |-> 1]
                BY <4>1
            <4>3. QED
                BY <3>0a, <4>1, <4>2
        <3>2. At(x.rec) = x /\ ~UnderItsPrefix(mr, <<>>, x)
            <4>1. At(x.rec) = x /\ x.prefix = 1
                BY <1>2, <3>1, NoneToPass
            <4>2. QED
                BY <4>1 DEF UnderItsPrefix
        <3>3. x.rec \in stops /\ stops \subseteq Nat
            <4>1. Len(RangeAt(mr, x)) \in Nat /\ x.rec <= Len(RangeAt(mr, x))
                BY <1>2, <2>2, RangeTypes DEF AtRecord, Have, RangeAt
            <4>2. x.rec \in x.rec..Len(RangeAt(mr, x))
                BY <1>2, <4>1
            <4>3. QED
                BY <1>2, <3>2, <4>1, <4>2
        <3>4. \A i \in stops : x.rec <= i
            BY <1>2
        <3>5. SkipRecords(mr, <<>>, x) = At(Seqs!Min(stops))
            <4>1. stops # {}
                BY <3>3
            <4>2. QED
                BY <2>2, <4>1 DEF SkipRecords
        <3> HIDE DEF At, stops
        <3>6. Seqs!Min(stops) = x.rec
            <4>1. Seqs!Min(stops) \in stops /\ Seqs!Min(stops) \in Nat /\ Seqs!Min(stops) <= x.rec
                BY <3>3, MinOfNumbers
            <4>2. QED
                BY <1>2, <3>4, <4>1
        <3>7. QED
            BY <3>2, <3>5, <3>6
    <2>3. QED
        BY <2>1, <2>2
<1>3. /\ Plain(Next1(mr, it)) /\ Plain(NextRange(mr, it))
      /\ NextRange(mr, it).range \in Nat
    <2>1. it.prefix = 1 /\ it = [range |-> it.range, rec |-> it.rec, prefix |-> it.prefix]
        BY DEF Plain
    <2>2. PICK y : y = NextRange(mr, it)
        OBVIOUS
    <2>3. PICK r : r = IF it.range > Len(mr) THEN it.range ELSE it.range + 1
        OBVIOUS
    <2>4. y = [range |-> r, rec |-> 0, prefix |-> 1]
        BY <2>1, <2>2, <2>3, SkipFields
    <2>5. PICK z : z = Next1(mr, it)
        OBVIOUS
    <2>6. z = [range |-> z.range, rec |-> z.rec, prefix |-> 1]
        BY <2>1, <2>5, SkipFields
    <2>7. r \in Nat
        BY <1>0, <2>3
    <2>8. QED
        BY <2>2, <2>4, <2>5, <2>6, <2>7 DEF Plain
<1>4. /\ Next1(mr, it).range \in Nat /\ Next1(mr, it).rec \in Nat
      /\ Have(mr, Next1(mr, it)) => Next1(mr, it).rec <= Len(mr[Next1(mr, it).range])
    <2>1. CASE Have(mr, it) /\ it.rec < Len(RangeAt(mr, it))
        <3>1. Next1(mr, it) = [it EXCEPT !.rec = @ + 1]
            BY <2>1 DEF Next1
        <3>2. it.range \in DOMAIN mr
            BY <2>1 DEF Have
        <3>3. PICK l : l = Len(mr[it.range])
            OBVIOUS
        <3>4. l \in Nat /\ it.rec < l
            BY <2>1, <3>2, <3>3, RangeTypes DEF RangeAt
        <3>5. Next1(mr, it).range = it.range /\ Next1(mr, it).rec = it.rec + 1
            <4>1. PICK a : a = it.range
                OBVIOUS
            <4>2. PICK b : b = it.rec
                OBVIOUS
            <4>3. it = [range |-> a, rec |-> b, prefix |-> 1]
                BY <4>1, <4>2 DEF Plain
            <4>4. Next1(mr, it) = [range |-> a, rec |-> b + 1, prefix |-> 1]
                BY <3>1, <4>3
            <4>5. QED
                BY <4>1, <4>2, <4>4
        <3>6. QED
            BY <1>0, <3>2, <3>3, <3>4, <3>5
    <2>2. CASE ~(Have(mr, it) /\ it.rec < Len(RangeAt(mr, it)))
        <3>1. Next1(mr, it) = NextRange(mr, it)
            BY <2>2 DEF Next1
        <3>2. {"range", "rec"} \subseteq DOMAIN it
            BY DEF Plain
        <3>3. NextRange(mr, it).rec = 0 /\ Stands(mr, NextRange(mr, it))
            BY <3>2, NextRangeFields
        <3>4. QED
            BY <1>3, <3>1, <3>3 DEF Stands
    <2>3. QED
        BY <2>1, <2>2
<1>5. SkipNextRange(mr, <<>>, it) = NextRange(mr, it)
    BY <1>1, <1>3, NoneToPass DEF SkipNextRange
<1>6. SkipNext(mr, <<>>, it) = Next1(mr, it)
    <2>1. Updated(mr, <<>>, Next1(mr, it)) = Next1(mr, it)
        BY <1>3, NoneToPass
    <2>2. SkipRanges(mr, <<>>, Next1(mr, it)) = Next1(mr, it)
        BY <1>1, <1>3, <1>4
    <2>3. SkipRecords(mr, <<>>, Next1(mr, it)) = Next1(mr, it)
        BY <1>2, <1>3, <1>4
    <2>4. QED
        BY <2>1, <2>2, <2>3 DEF SkipNext
<1>7. QED
    BY <1>5, <1>6

\* The records before a key are the first ones of a range.
LEMMA FirstRecords ==
    ASSUME NEW mr, IsMetaRange(mr), NEW n \in DOMAIN mr, NEW key \in Nat
    PROVE  LET few == Cardinality({i \in DOMAIN mr[n] : mr[n][i].key < key})
           IN few \in Nat /\ \A i \in DOMAIN mr[n] : i <= few <=> mr[n][i].key < key
<1>1. PICK l : l = Len(mr[n])
    OBVIOUS
<1>2. l \in Nat /\ DOMAIN mr[n] = 1..l
    BY <1>1, RangeTypes
<1>3. \A i \in 1..l : mr[n][i].key \in Nat
    BY <1>2, RangeTypes, CommittedAssumption
<1>4. \A i, j \in 1..l : i < j => mr[n][i].key < mr[n][j].key
    <2> SUFFICES ASSUME NEW i \in 1..l, NEW j \in 1..l, i < j PROVE mr[n][i].key < mr[n][j].key
        OBVIOUS
    <2>1. i \in DOMAIN mr[n] /\ j \in DOMAIN mr[n]
        BY <1>2
    <2>2. QED
        BY <2>1, KeysAscend
<1> DEFINE Not == {i \in 1..(l + 1) : i = l + 1 \/ ~(mr[n][i].key < key)}
<1>5. PICK s \in Nat : s <= l /\ \A i \in 1..l : i <= s <=> mr[n][i].key < key
    <2>1. l + 1 \in Not /\ Not \subseteq Nat
        BY <1>2
    <2>2. PICK f \in Not : \A i \in Not : f <= i
        BY <2>1, LeastNumber
    <2>3. f \in 1..(l + 1)
        OBVIOUS
    <2>4. f - 1 \in Nat /\ f - 1 <= l
        BY <1>2, <2>3
    <2>5. \A i \in 1..l : i < f => mr[n][i].key < key
        BY <1>2, <2>2
    <2>6. \A i \in 1..l : i >= f => ~(mr[n][i].key < key)
        <3> SUFFICES ASSUME NEW i \in 1..l, i >= f PROVE ~(mr[n][i].key < key)
            OBVIOUS
        <3>1. f \in 1..l /\ ~(mr[n][f].key < key)
            BY <1>2, <2>3, <2>2
        <3>2. f = i \/ mr[n][f].key < mr[n][i].key
            BY <1>4, <3>1
        <3>3. mr[n][f].key \in Nat /\ mr[n][i].key \in Nat
            BY <1>3, <3>1
        <3>4. QED
            BY <3>1, <3>2, <3>3
    <2>7. \A i \in 1..l : i <= f - 1 <=> i < f
        BY <2>3
    <2>8. \A i \in 1..l : i <= f - 1 <=> mr[n][i].key < key
        <3> SUFFICES ASSUME NEW i \in 1..l PROVE i <= f - 1 <=> mr[n][i].key < key
            OBVIOUS
        <3>1. i < f \/ i >= f
            BY <2>3
        <3>2. QED
            BY <2>5, <2>6, <2>7, <3>1
    <2>9. QED
        BY <2>4, <2>8
<1>6. PICK S : S = {i \in DOMAIN mr[n] : mr[n][i].key < key}
    OBVIOUS
<1>7. S = 1..s
    BY <1>2, <1>5, <1>6
<1>8. Cardinality(S) = s
    <2>1. 1 \in Int /\ s \in Int
        OBVIOUS
    <2>2. Cardinality(1..s) = IF 1 > s THEN 0 ELSE s - 1 + 1
        BY <2>1, FS_Interval
    <2>3. QED
        BY <1>7, <2>2
<1>9. QED
    BY <1>2, <1>5, <1>6, <1>8

\* After SeekGE, the next step passes what is before the key, and nothing else.
LEMMA SeekAhead ==
    ASSUME NEW mr, IsMetaRange(mr), NEW it, Stands(mr, it) \/ ~AtRecord(mr, it), NEW key \in 1..LastKey,
           NEW y, {"range", "rec"} \subseteq DOMAIN y,
           y.range = SeekGE(mr, it, key).range, y.rec = SeekGE(mr, it, key).rec
    PROVE  PassedTo(mr, Next1(mr, y), key - 1) /\ key - 1 < Front(mr, Next1(mr, y))
<1>0. Len(mr) \in Nat /\ DOMAIN mr = 1..Len(mr)
    BY DEF IsMetaRange
<1>0a. key \in Nat /\ key - 1 \in Nat /\ LastKey \in Nat /\ key <= LastKey
    BY CommittedAssumption
<1>0b. \A p \in DOMAIN mr : \A i \in DOMAIN mr[p] :
            mr[p][i].key \in Nat /\ mr[p][i].key <= MaxKey(mr[p]) /\ MinKey(mr[p]) <= mr[p][i].key
    BY WithinRange, CommittedAssumption
<1>0c. \A p \in DOMAIN mr : MaxKey(mr[p]) \in Nat /\ MinKey(mr[p]) \in Nat
    <2> SUFFICES ASSUME NEW p \in DOMAIN mr PROVE MaxKey(mr[p]) \in Nat /\ MinKey(mr[p]) \in Nat
        OBVIOUS
    <2>1. 1 \in DOMAIN mr[p]
        BY RangeTypes
    <2>2. QED
        BY <2>1, WithinRange, CommittedAssumption
<1> DEFINE found == {p \in DOMAIN mr : MaxKey(mr[p]) >= key}
           n == IF found = {} THEN Len(mr) + 1 ELSE Seqs!Min(found)
           Few(p) == Cardinality({i \in DOMAIN mr[p] : mr[p][i].key < key})
           nx == Next1(mr, y)
<1>1. n \in 1..(Len(mr) + 1) /\ \A p \in DOMAIN mr : (p < n => MaxKey(mr[p]) < key) /\ (p = n => MaxKey(mr[p]) >= key)
    <2>1. found \subseteq DOMAIN mr /\ found \subseteq Nat
        BY <1>0
    <2>1a. \A p \in DOMAIN mr : p \in found <=> MaxKey(mr[p]) >= key
        OBVIOUS
    <2> HIDE DEF found
    <2>2. found # {} => /\ Seqs!Min(found) \in found
                        /\ \A p \in found : Seqs!Min(found) <= p
        BY <2>1, MinOfNumbers
    <2>3. n \in 1..(Len(mr) + 1)
        BY <1>0, <2>1, <2>2
    <2>4. ASSUME NEW p \in DOMAIN mr, p < n PROVE MaxKey(mr[p]) < key
        <3>1. p \notin found
            BY <1>0, <2>1, <2>2, <2>3, <2>4
        <3>2. QED
            BY <1>0a, <1>0c, <2>1a, <3>1
    <2>5. ASSUME NEW p \in DOMAIN mr, p = n PROVE MaxKey(mr[p]) >= key
        <3>1. found # {}
            BY <1>0, <2>5
        <3>2. QED
            BY <2>1a, <2>2, <2>5, <3>1
    <2>6. QED
        BY <2>3, <2>4, <2>5
<1>2. \/ \E p \in DOMAIN mr : /\ \A q \in DOMAIN mr : q < p => MaxKey(mr[q]) < key
                              /\ MinKey(mr[p]) <= key /\ key <= MaxKey(mr[p])
                              /\ y.range = p /\ y.rec = Few(p)
      \/ /\ y.range = n - 1 /\ y.rec = IF n = 1 THEN 0 ELSE Len(mr[n - 1])
         /\ n > Len(mr) \/ key <= MinKey(mr[n])
    <2>1. CASE AtRecord(mr, it) /\ MinKey(RangeAt(mr, it)) <= key /\ key <= MaxKey(RangeAt(mr, it))
        <3>1. SeekGE(mr, it, key) = [range |-> it.range, rec |-> Few(it.range)]
            BY <2>1 DEF SeekGE, RangeAt
        <3>2. it.range \in DOMAIN mr
            BY <2>1 DEF AtRecord, Have
        <3>3. ASSUME NEW q \in DOMAIN mr, q < it.range PROVE MaxKey(mr[q]) < key
            <4>1. 1 \in DOMAIN mr[it.range] /\ Len(mr[q]) \in DOMAIN mr[q]
                BY <3>2, RangeTypes
            <4>2. mr[q][Len(mr[q])].key < mr[it.range][1].key
                BY <3>2, <3>3, <4>1, KeysAscend
            <4>3. MaxKey(mr[q]) < MinKey(mr[it.range])
                BY <4>2 DEF MaxKey, MinKey
            <4>4. QED
                BY <1>0a, <1>0c, <2>1, <3>2, <4>3 DEF RangeAt
        <3>4. y.range = it.range /\ y.rec = Few(it.range)
            BY <3>1
        <3>5. MinKey(mr[it.range]) <= key /\ key <= MaxKey(mr[it.range])
            BY <2>1 DEF RangeAt
        <3>6. QED
            BY <3>2, <3>3, <3>4, <3>5
    <2>2. CASE ~(AtRecord(mr, it) /\ MinKey(RangeAt(mr, it)) <= key /\ key <= MaxKey(RangeAt(mr, it)))
        <3> DEFINE before == IF n = 1 THEN Start ELSE [range |-> n - 1, rec |-> Len(mr[n - 1])]
        <3>1. SeekGE(mr, it, key) = IF n > Len(mr) \/ key <= MinKey(mr[n]) THEN before
                                    ELSE [range |-> n, rec |-> Few(n)]
            BY <2>2 DEF SeekGE
        <3> HIDE DEF n, Few
        <3>2. CASE n > Len(mr) \/ key <= MinKey(mr[n])
            <4>1. before.range = n - 1 /\ before.rec = IF n = 1 THEN 0 ELSE Len(mr[n - 1])
                BY <1>1 DEF Start
            <4>2. QED
                BY <3>1, <3>2, <4>1
        <3>3. CASE ~(n > Len(mr) \/ key <= MinKey(mr[n]))
            <4>1. n \in DOMAIN mr
                BY <1>0, <1>1, <3>3
            <4>2. MinKey(mr[n]) <= key /\ key <= MaxKey(mr[n])
                BY <1>0a, <1>0c, <1>1, <3>3, <4>1
            <4>3. y.range = n /\ y.rec = Few(n)
                BY <3>1, <3>3
            <4>4. QED
                BY <1>1, <4>1, <4>2, <4>3
        <3>4. QED
            BY <3>2, <3>3
    <2>3. QED
        BY <2>1, <2>2
<1> HIDE DEF n
<1>3. ASSUME NEW p \in DOMAIN mr, \A q \in DOMAIN mr : q < p => MaxKey(mr[q]) < key,
             MinKey(mr[p]) <= key, key <= MaxKey(mr[p]), y.range = p, y.rec = Few(p)
      PROVE  PassedTo(mr, nx, key - 1) /\ key - 1 < Front(mr, nx)
    <2>1. PICK s : s = Few(p)
        OBVIOUS
    <2>2. PICK l : l = Len(mr[p])
        OBVIOUS
    <2>3. s \in Nat /\ \A i \in DOMAIN mr[p] : i <= s <=> mr[p][i].key < key
        BY <1>0a, <2>1, FirstRecords
    <2>4. l \in Nat /\ l \in DOMAIN mr[p] /\ DOMAIN mr[p] = 1..l /\ MaxKey(mr[p]) = mr[p][l].key
        BY <2>2, RangeTypes DEF MaxKey
    <2>5. s < l
        <3>1. ~(mr[p][l].key < key)
            BY <1>0a, <1>0b, <1>3, <2>4
        <3>2. QED
            BY <2>3, <2>4, <3>1
    <2>6. nx = [y EXCEPT !.rec = @ + 1]
        BY <1>3, <2>1, <2>2, <2>5 DEF Next1, Have, RangeAt
    <2>7. nx.range = p /\ nx.rec = s + 1 /\ DOMAIN nx = DOMAIN y
        <3>1. PICK r : r = y.rec + 1
            OBVIOUS
        <3>2. nx = [y EXCEPT !.rec = r]
            BY <2>6, <3>1
        <3>3. nx.range = y.range /\ nx.rec = r /\ DOMAIN nx = DOMAIN y
            BY <3>2
        <3>4. QED
            BY <1>3, <2>1, <3>1, <3>3
    <2> HIDE DEF nx
    <2>8. Stands(mr, nx)
        BY <1>0, <2>2, <2>3, <2>4, <2>5, <2>7 DEF Stands, Have
    <2>9. \A q \in DOMAIN mr : \A i \in DOMAIN mr[q] :
               q < nx.range \/ (q = nx.range /\ i < nx.rec) => mr[q][i].key <= key - 1
        <3> SUFFICES ASSUME NEW q \in DOMAIN mr, NEW i \in DOMAIN mr[q], q < p \/ (q = p /\ i < s + 1)
                     PROVE  mr[q][i].key <= key - 1
            BY <2>7
        <3>1. mr[q][i].key < key
            <4>1. CASE q < p
                BY <1>0a, <1>0b, <1>0c, <1>3, <4>1
            <4>2. CASE q = p /\ i < s + 1
                <5>1. i \in Nat
                    BY <2>4, <4>2
                <5>2. i <= s
                    BY <2>3, <4>2, <5>1
                <5>3. QED
                    BY <2>3, <4>2, <5>2
            <4>3. QED
                BY <4>1, <4>2
        <3>2. QED
            BY <1>0a, <1>0b, <3>1
    <2>10. PassedTo(mr, nx, key - 1)
        BY <1>0a, <2>8, <2>9, PassedBy
    <2>11. Front(mr, nx) = mr[p][s + 1].key /\ s + 1 \in DOMAIN mr[p]
        <3>1. AtRecord(mr, nx)
            BY <2>3, <2>7 DEF AtRecord, Have
        <3>2. QED
            BY <2>7, <2>8, <3>1, WhereItStands
    <2>12. ~(mr[p][s + 1].key < key)
        BY <2>3, <2>11
    <2>13. QED
        BY <1>0a, <1>0b, <2>10, <2>11, <2>12
<1>4. ASSUME y.range = n - 1, y.rec = IF n = 1 THEN 0 ELSE Len(mr[n - 1]),
             n > Len(mr) \/ key <= MinKey(mr[n])
      PROVE  PassedTo(mr, nx, key - 1) /\ key - 1 < Front(mr, nx)
    <2>1. nx = NextRange(mr, y)
        <3>1. CASE n = 1
            BY <1>0, <1>4, <3>1 DEF Next1, Have
        <3>2. CASE n # 1
            <4>1. y.range \in DOMAIN mr /\ y.rec = Len(mr[y.range])
                BY <1>0, <1>1, <1>4, <3>2
            <4>2. PICK l : l = Len(mr[y.range])
                OBVIOUS
            <4>3. l \in Nat /\ y.rec = l
                BY <4>1, <4>2, RangeTypes
            <4>4. ~(y.rec < Len(RangeAt(mr, y)))
                BY <4>2, <4>3 DEF RangeAt
            <4>5. QED
                BY <4>4 DEF Next1
        <3>3. QED
            BY <3>1, <3>2
    <2>2. y.range \in 0..(Len(mr) + 1) /\ y.range # Len(mr) + 1
        BY <1>0, <1>1, <1>4
    <2>3. nx.range = n /\ nx.rec = 0 /\ Stands(mr, nx)
        <3>1. /\ NextRange(mr, y).range = IF y.range = Len(mr) + 1 THEN y.range ELSE y.range + 1
              /\ NextRange(mr, y).rec = 0 /\ Stands(mr, NextRange(mr, y))
            BY <2>2, NextRangeFields
        <3>2. y.range + 1 = n
            BY <1>0, <1>1, <1>4
        <3>3. QED
            BY <2>1, <2>2, <3>1, <3>2
    <2> HIDE DEF nx
    <2>4. \A q \in DOMAIN mr : \A i \in DOMAIN mr[q] :
               q < nx.range \/ (q = nx.range /\ i < nx.rec) => mr[q][i].key <= key - 1
        <3> SUFFICES ASSUME NEW q \in DOMAIN mr, NEW i \in DOMAIN mr[q], q < n \/ i < 0
                     PROVE  mr[q][i].key <= key - 1
            BY <2>3
        <3>1. i \in Nat
            BY RangeTypes
        <3>2. MaxKey(mr[q]) < key
            BY <1>1, <3>1
        <3>3. QED
            BY <1>0a, <1>0b, <1>0c, <3>2
    <2>5. PassedTo(mr, nx, key - 1)
        BY <1>0a, <2>3, <2>4, PassedBy
    <2>6. CASE n > Len(mr)
        <3>1. ~Have(mr, nx)
            BY <1>0, <2>3, <2>6 DEF Have
        <3>2. Front(mr, nx) = LastKey + 1
            BY <2>3, <3>1, WhereItStands
        <3>3. QED
            BY <1>0a, <2>5, <3>2
    <2>7. CASE ~(n > Len(mr))
        <3>1. n \in DOMAIN mr /\ AtRange(mr, nx)
            BY <1>0, <1>1, <2>3, <2>7 DEF AtRange, Have
        <3>2. Front(mr, nx) = MinKey(mr[n]) /\ key <= MinKey(mr[n])
            BY <1>4, <2>3, <2>7, <3>1, WhereItStands
        <3>3. QED
            BY <1>0a, <1>0c, <2>5, <3>1, <3>2
    <2>8. QED
        BY <2>6, <2>7
<1>5. QED
    BY <1>2, <1>3, <1>4

-----------------------------------------------------------------------------
(* What a reader has been told *)

\* What both sides have for a key, the destination on the left.
LeftHas(k) == IdOf(job.dest, k)
RightHas(k) == IdOf(job.source, k)
Differs(k) == LeftHas(k) # RightHas(k)

\* What is to be told of a key, and what that means for a merge.
DifferenceAt(k) ==
    [type |-> IF LeftHas(k) = 0 THEN "added" ELSE IF RightHas(k) = 0 THEN "removed" ELSE "changed",
     key |-> k,
     id |-> IF RightHas(k) = 0 THEN LeftHas(k) ELSE RightHas(k),
     left |-> LeftHas(k)]
MeaningAt(k) == [type |-> Meaning(DifferenceAt(k)), key |-> k]

Differences == {DifferenceAt(k) : k \in 1..LastKey}
Meanings == {MeaningAt(k) : k \in 1..LastKey}

Told(k) == \E n \in DOMAIN told : told[n].key = k
IsForetold(k) == \E n \in DOMAIN foretold : foretold[n].key = k

\* What is told are differences, in the order of their keys.
ToldInOrder ==
    /\ told \in Seq(Differences)
    /\ \A n, o \in DOMAIN told : n < o => told[n].key < told[o].key

\* Of the keys from the one it sought to m, all that differ are told, if no
\* skipped range covers them.
ToldTo(m) ==
    /\ \A n \in DOMAIN told : seeked <= told[n].key /\ told[n].key <= m /\ Differs(told[n].key)
    /\ \A k \in 1..LastKey : seeked <= k /\ k <= m /\ Differs(k) =>
            Told(k) \/ \E skip \in skipped : Covers(skip, k)

\* The iterator of a comparison gives what these mean for a merge.
ForetoldAsTold ==
    /\ skipped = {}
    /\ foretold \in Seq(Meanings)
    /\ \A k : IsForetold(k) <=> Told(k) /\ MeaningAt(k).type # "nothing"

\* A reader knows what differs from the key it sought to m.
Knows(m) ==
    /\ seeked \in 0..LastKey /\ seeked <= m + 1
    /\ ToldInOrder
    /\ ToldTo(m)
    /\ job.op = "compare" => ForetoldAsTold

\* One more element.
LEMMA OneMore ==
    ASSUME NEW S, NEW s \in Seq(S), NEW e \in S
    PROVE  LET more == Append(s, e)
           IN /\ more \in Seq(S)
              /\ Len(s) \in Nat /\ Len(more) = Len(s) + 1
              /\ DOMAIN s = 1..Len(s) /\ DOMAIN more = 1..(Len(s) + 1)
              /\ \A n \in DOMAIN s : more[n] = s[n]
              /\ more[Len(s) + 1] = e
OBVIOUS

\* What is told of a key is the difference there.
LEMMA ToldAreDifferences ==
    ASSUME told \in Seq(Differences), NEW n \in DOMAIN told
    PROVE  /\ told[n].key \in 1..LastKey
           /\ told[n] = DifferenceAt(told[n].key)
<1>1. told[n] \in Differences
    <2> HIDE DEF Differences
    <2>1. QED
        OBVIOUS
<1>2. PICK k \in 1..LastKey : told[n] = DifferenceAt(k)
    BY <1>1 DEF Differences
<1>3. DifferenceAt(k).key = k
    BY DEF DifferenceAt
<1>4. QED
    BY <1>2, <1>3

\* What is foretold of a key is the meaning of the difference there.
LEMMA ForetoldAreMeanings ==
    ASSUME foretold \in Seq(Meanings), NEW n \in DOMAIN foretold
    PROVE  /\ foretold[n].key \in 1..LastKey
           /\ foretold[n] = MeaningAt(foretold[n].key)
<1>1. foretold[n] \in Meanings
    <2> HIDE DEF Meanings
    <2>1. QED
        OBVIOUS
<1>2. PICK k \in 1..LastKey : foretold[n] = MeaningAt(k)
    BY <1>1 DEF Meanings
<1>3. MeaningAt(k).key = k
    BY DEF MeaningAt
<1>4. QED
    BY <1>2, <1>3

\* What both sides have for a key depends on the request alone.
LEMMA DifferencesStay ==
    ASSUME job' = job
    PROVE  /\ \A k : LeftHas(k)' = LeftHas(k) /\ RightHas(k)' = RightHas(k)
           /\ \A k : DifferenceAt(k)' = DifferenceAt(k)
           /\ \A k : MeaningAt(k)' = MeaningAt(k)
           /\ Differences' = Differences /\ Meanings' = Meanings
<1>1. \A k : LeftHas(k)' = LeftHas(k) /\ RightHas(k)' = RightHas(k)
    BY DEF LeftHas, RightHas, IdOf, Promise!At, Promise!Absent
<1>2. \A k : DifferenceAt(k)' = DifferenceAt(k)
    BY <1>1 DEF DifferenceAt
<1>3. \A k : MeaningAt(k)' = MeaningAt(k)
    BY <1>2 DEF MeaningAt, Meaning, BaseId
<1>4. Differences' = Differences
    BY <1>2 DEF Differences
<1>5. Meanings' = Meanings
    BY <1>3 DEF Meanings
<1>6. QED
    BY <1>1, <1>2, <1>3, <1>4, <1>5

\* A step that tells the difference at the next key that differs.
TellsOf(k) ==
    /\ told' = Append(told, DifferenceAt(k))
    /\ foretold' = IF job.op = "compare" /\ MeaningAt(k).type # "nothing"
                   THEN Append(foretold, MeaningAt(k)) ELSE foretold
    /\ UNCHANGED <<skipped, seeked>>

\* One more element, one more key.
LEMMA OneMoreKey ==
    ASSUME NEW S, NEW s \in Seq(S), NEW e \in S
    PROVE  \A j : (\E n \in DOMAIN Append(s, e) : Append(s, e)[n].key = j) <=>
                      (\E n \in DOMAIN s : s[n].key = j) \/ e.key = j
<1>1. PICK more : more = Append(s, e)
    OBVIOUS
<1>2. PICK l : l = Len(s)
    OBVIOUS
<1>3. /\ l \in Nat /\ DOMAIN s = 1..l /\ DOMAIN more = 1..(l + 1)
      /\ \A n \in DOMAIN s : more[n] = s[n]
      /\ more[l + 1] = e
    BY <1>1, <1>2, OneMore
<1>4. ASSUME NEW j, NEW n \in DOMAIN more, more[n].key = j
      PROVE  (\E o \in DOMAIN s : s[o].key = j) \/ e.key = j
    <2>1. n \in DOMAIN s \/ n = l + 1
        BY <1>3
    <2>2. QED
        BY <1>3, <1>4, <2>1
<1>5. ASSUME NEW j, NEW n \in DOMAIN s, s[n].key = j
      PROVE  \E o \in DOMAIN more : more[o].key = j
    <2>1. n \in DOMAIN more /\ more[n] = s[n]
        BY <1>3
    <2>2. QED
        BY <1>5, <2>1
<1>6. ASSUME NEW j, e.key = j
      PROVE  \E o \in DOMAIN more : more[o].key = j
    <2>1. l + 1 \in DOMAIN more /\ more[l + 1] = e
        BY <1>3
    <2>2. QED
        BY <1>6, <2>1
<1>7. QED
    BY <1>1, <1>4, <1>5, <1>6

\* A difference, and its meaning, are about their key.
LEMMA KeyOfDifference ==
    ASSUME NEW k \in 1..LastKey
    PROVE  /\ DifferenceAt(k) \in Differences /\ DifferenceAt(k).key = k
           /\ MeaningAt(k) \in Meanings /\ MeaningAt(k).key = k
BY DEF DifferenceAt, Differences, MeaningAt, Meanings

\* The next difference keeps the order.
LEMMA ToldOneMore ==
    ASSUME job' = job, NEW m \in Nat, ToldInOrder, ToldTo(m), NEW k \in 1..LastKey, k > m, TellsOf(k)
    PROVE  /\ ToldInOrder'
           /\ \A j : Told(j)' <=> Told(j) \/ j = k
<1>1. DifferenceAt(k) \in Differences /\ DifferenceAt(k).key = k
    BY KeyOfDifference
<1>2. PICK S : S = Differences
    OBVIOUS
<1>3. PICK e : e = DifferenceAt(k)
    OBVIOUS
<1>4. told \in Seq(S) /\ e \in S /\ e.key = k /\ told' = Append(told, e)
    BY <1>1, <1>2, <1>3 DEF ToldInOrder, TellsOf
<1>5. PICK l : l = Len(told)
    OBVIOUS
<1>6. /\ told' \in Seq(S)
      /\ l \in Nat /\ DOMAIN told = 1..l /\ DOMAIN told' = 1..(l + 1)
      /\ \A n \in DOMAIN told : told'[n] = told[n]
      /\ told'[l + 1] = e
    BY <1>4, <1>5, OneMore
<1>7. Differences' = S
    BY <1>2, DifferencesStay
<1>8. ASSUME NEW n \in DOMAIN told', NEW o \in DOMAIN told', n < o
      PROVE  told'[n].key < told'[o].key
    <2>1. n \in DOMAIN told
        BY <1>6, <1>8
    <2>2. CASE o \in DOMAIN told
        BY <1>6, <1>8, <2>1, <2>2 DEF ToldInOrder
    <2>3. CASE o = l + 1
        <3>1. told[n].key <= m
            BY <2>1 DEF ToldTo
        <3>2. told[n].key \in 1..LastKey
            BY <2>1, ToldAreDifferences DEF ToldInOrder
        <3>3. told'[o].key = k
            BY <1>4, <1>6, <2>3
        <3>4. QED
            BY <1>6, <2>1, <3>1, <3>2, <3>3, CommittedAssumption
    <2>4. o \in DOMAIN told \/ o = l + 1
        BY <1>6
    <2>5. QED
        BY <2>2, <2>3, <2>4
<1>9. ToldInOrder'
    BY <1>6, <1>7, <1>8 DEF ToldInOrder
<1>10. \A j : Told(j)' <=> Told(j) \/ j = k
    BY <1>4, OneMoreKey DEF Told
<1>11. QED
    BY <1>9, <1>10

\* ... and its meaning is foretold with it.
LEMMA ForetoldOneMore ==
    ASSUME job' = job, ForetoldAsTold, job.op = "compare", NEW k \in 1..LastKey, TellsOf(k),
           \A j : Told(j)' <=> Told(j) \/ j = k
    PROVE  ForetoldAsTold'
<1>1. MeaningAt(k) \in Meanings /\ MeaningAt(k).key = k
    BY KeyOfDifference
<1>2. PICK S : S = Meanings
    OBVIOUS
<1>3. Meanings' = S /\ \A j : MeaningAt(j)' = MeaningAt(j)
    BY <1>2, DifferencesStay
<1>4. foretold \in Seq(S)
    BY <1>2 DEF ForetoldAsTold
<1>5. foretold' \in Seq(S) /\ \A j : IsForetold(j)' <=> IsForetold(j) \/ (j = k /\ MeaningAt(k).type # "nothing")
    <2>1. CASE MeaningAt(k).type # "nothing"
        <3>1. PICK e : e = MeaningAt(k)
            OBVIOUS
        <3>2. foretold' = Append(foretold, e) /\ e \in S /\ e.key = k
            BY <1>1, <1>2, <2>1, <3>1 DEF TellsOf
        <3>3. \A j : IsForetold(j)' <=> IsForetold(j) \/ j = k
            BY <1>4, <3>2, OneMoreKey DEF IsForetold
        <3>4. foretold' \in Seq(S)
            BY <1>4, <3>2, OneMore
        <3>5. QED
            BY <2>1, <3>3, <3>4
    <2>2. CASE MeaningAt(k).type = "nothing"
        <3>1. foretold' = foretold
            BY <2>2 DEF TellsOf
        <3>2. \A j : IsForetold(j)' <=> IsForetold(j)
            BY <3>1 DEF IsForetold
        <3>3. QED
            BY <1>4, <2>2, <3>1, <3>2
    <2>3. QED
        BY <2>1, <2>2
<1>6. \A j : IsForetold(j)' <=> Told(j)' /\ MeaningAt(j)'.type # "nothing"
    <2>1. \A j : IsForetold(j) <=> Told(j) /\ MeaningAt(j).type # "nothing"
        BY DEF ForetoldAsTold
    <2>2. \A j : IsForetold(j)' <=> IsForetold(j) \/ (j = k /\ MeaningAt(j).type # "nothing")
        BY <1>5
    <2>3. \A j : IsForetold(j)' <=> Told(j)' /\ MeaningAt(j).type # "nothing"
        BY <2>1, <2>2
    <2>4. QED
        BY <1>3, <2>3
<1>7. skipped' = {}
    BY DEF ForetoldAsTold, TellsOf
<1>8. QED
    BY <1>3, <1>5, <1>6, <1>7 DEF ForetoldAsTold

\* No key differs between.
NoneDiffers(m, h) == \A j \in 1..LastKey : m < j /\ j <= h => ~Differs(j)

\* To tell the next key that differs is to know all up to it.
LEMMA KnowsOneMore ==
    ASSUME job' = job, NEW m \in Nat, Knows(m), NEW k \in 1..LastKey, k > m,
           Differs(k), NoneDiffers(m, k - 1), TellsOf(k)
    PROVE  Knows(k)'
<1>0. k \in Nat /\ LastKey \in Nat /\ seeked \in Nat
    BY CommittedAssumption DEF Knows
<1>1. ToldInOrder' /\ \A j : Told(j)' <=> Told(j) \/ j = k
    BY ToldOneMore DEF Knows
<1>2. job.op = "compare" => ForetoldAsTold'
    BY <1>1, ForetoldOneMore DEF Knows
<1>3. skipped' = skipped /\ seeked' = seeked
    BY DEF TellsOf
<1>4. \A j : Differs(j)' <=> Differs(j)
    BY DifferencesStay DEF Differs
<1>5. seeked <= k
    BY <1>0 DEF Knows
<1>6. \A n \in DOMAIN told' : seeked <= told'[n].key /\ told'[n].key <= k /\ Differs(told'[n].key)
    <2> SUFFICES ASSUME NEW n \in DOMAIN told'
                 PROVE  seeked <= told'[n].key /\ told'[n].key <= k /\ Differs(told'[n].key)
        OBVIOUS
    <2>1. PICK j : j = told'[n].key
        OBVIOUS
    <2>2. Told(j)'
        BY <2>1 DEF Told
    <2>3. CASE j = k
        BY <1>0, <1>5, <2>1, <2>3
    <2>4. CASE Told(j)
        <3>1. PICK o \in DOMAIN told : told[o].key = j
            BY <2>4 DEF Told
        <3>2. seeked <= j /\ j <= m /\ Differs(j)
            BY <3>1 DEF Knows, ToldTo
        <3>3. j \in 1..LastKey
            BY <3>1, ToldAreDifferences DEF Knows, ToldInOrder
        <3>4. j <= k
            BY <1>0, <3>2, <3>3
        <3>5. QED
            BY <2>1, <3>2, <3>4
    <2>5. QED
        BY <1>1, <2>2, <2>3, <2>4
<1>7. \A j \in 1..LastKey : seeked <= j /\ j <= k /\ Differs(j) =>
            Told(j)' \/ \E skip \in skipped : Covers(skip, j)
    <2> SUFFICES ASSUME NEW j \in 1..LastKey, seeked <= j, j <= k, Differs(j)
                 PROVE  Told(j)' \/ \E skip \in skipped : Covers(skip, j)
        OBVIOUS
    <2>1. CASE j <= m
        <3>1. Told(j) \/ \E skip \in skipped : Covers(skip, j)
            BY <2>1 DEF Knows, ToldTo
        <3>2. QED
            BY <1>1, <3>1
    <2>2. CASE j = k
        BY <1>1, <2>2
    <2>3. CASE m < j /\ j <= k - 1
        BY <2>3 DEF NoneDiffers
    <2>4. j <= m \/ j = k \/ (m < j /\ j <= k - 1)
        BY <1>0
    <2>5. QED
        BY <2>1, <2>2, <2>3, <2>4
<1>8. ToldTo(k)'
    BY <1>3, <1>4, <1>6, <1>7 DEF ToldTo
<1>9. seeked' \in 0..LastKey /\ seeked' <= k + 1
    BY <1>0, <1>3, <1>5 DEF Knows
<1>10. job'.op = "compare" => ForetoldAsTold'
    BY <1>2
<1>11. QED
    BY <1>1, <1>8, <1>9, <1>10 DEF Knows

\* A step that tells nothing, and passes keys that do not differ or skips them.
LEMMA KnowsOn ==
    ASSUME job' = job, NEW m \in Nat, Knows(m), NEW h \in Nat, m <= h,
           UNCHANGED <<told, foretold, seeked>>, skipped \subseteq skipped',
           job.op = "compare" => skipped' = skipped,
           \A j \in 1..LastKey : m < j /\ j <= h => ~Differs(j) \/ \E skip \in skipped' : Covers(skip, j)
    PROVE  Knows(h)'
<1>0. LastKey \in Nat /\ seeked \in Nat
    BY CommittedAssumption DEF Knows
<1>1. \A j : Told(j)' <=> Told(j)
    BY DEF Told
<1>2. \A j : Differs(j)' <=> Differs(j)
    BY DifferencesStay DEF Differs
<1>3. \A n \in DOMAIN told : seeked <= told[n].key /\ told[n].key <= h /\ Differs(told[n].key)
    <2> SUFFICES ASSUME NEW n \in DOMAIN told
                 PROVE  seeked <= told[n].key /\ told[n].key <= h /\ Differs(told[n].key)
        OBVIOUS
    <2>1. seeked <= told[n].key /\ told[n].key <= m /\ Differs(told[n].key)
        BY DEF Knows, ToldTo
    <2>2. told[n].key \in 1..LastKey
        BY ToldAreDifferences DEF Knows, ToldInOrder
    <2>3. QED
        BY <1>0, <2>1, <2>2
<1>4. \A j \in 1..LastKey : seeked <= j /\ j <= h /\ Differs(j) =>
            Told(j) \/ \E skip \in skipped' : Covers(skip, j)
    <2> SUFFICES ASSUME NEW j \in 1..LastKey, seeked <= j, j <= h, Differs(j)
                 PROVE  Told(j) \/ \E skip \in skipped' : Covers(skip, j)
        OBVIOUS
    <2>1. CASE j <= m
        <3>1. Told(j) \/ \E skip \in skipped : Covers(skip, j)
            BY <2>1 DEF Knows, ToldTo
        <3>2. QED
            BY <3>1
    <2>2. CASE m < j
        BY <2>2
    <2>3. QED
        BY <1>0, <2>1, <2>2
<1>5. ToldTo(h)'
    BY <1>1, <1>2, <1>3, <1>4 DEF ToldTo
<1>6. ToldInOrder'
    <2>1. Differences' = Differences
        BY DifferencesStay
    <2> HIDE DEF Differences
    <2>2. QED
        BY <2>1 DEF Knows, ToldInOrder
<1>7. job'.op = "compare" => ForetoldAsTold'
    <2> SUFFICES ASSUME job.op = "compare" PROVE ForetoldAsTold'
        OBVIOUS
    <2>1. ForetoldAsTold /\ skipped' = skipped
        BY DEF Knows
    <2>2. Meanings' = Meanings /\ \A j : MeaningAt(j)' = MeaningAt(j)
        BY DifferencesStay
    <2>3. \A j : IsForetold(j)' <=> IsForetold(j)
        BY DEF IsForetold
    <2>4. \A j : IsForetold(j) <=> Told(j) /\ MeaningAt(j).type # "nothing"
        BY <2>1 DEF ForetoldAsTold
    <2>5. \A j : IsForetold(j)' <=> Told(j)' /\ MeaningAt(j)'.type # "nothing"
        BY <1>1, <2>2, <2>3, <2>4
    <2>6. skipped' = {} /\ foretold' \in Seq(Meanings)
        BY <2>1 DEF ForetoldAsTold
    <2>7. QED
        BY <2>2, <2>5, <2>6 DEF ForetoldAsTold
<1>8. seeked' \in 0..LastKey /\ seeked' <= h + 1
    BY <1>0 DEF Knows
<1>9. QED
    BY <1>5, <1>6, <1>7, <1>8 DEF Knows

-----------------------------------------------------------------------------
(* Where a reader stands *)

\* All above m is ahead.
IsAhead(mr, it, m) == PassedTo(mr, it, m) /\ m < Front(mr, it)

\* The header of a range was given, or the record that it is at.
Gives(mr, it, m) ==
    \/ AtRange(mr, it) /\ IsAhead(mr, it, m)
    \/ AtRecord(mr, it) /\ Stands(mr, it) /\ m = Front(mr, it)

\* Between m and what is ahead there is nothing.
LEMMA NoneAhead ==
    ASSUME NEW mr, IsMetaRange(mr), NEW it, NEW m \in Nat, IsAhead(mr, it, m),
           NEW j \in 1..LastKey, m < j, j < Front(mr, it)
    PROVE  IdOf(mr, j) = 0
<1>1. Stands(mr, it) /\ Front(mr, it) \in Nat /\ j \in Nat
    BY WhereItStands, CommittedAssumption DEF IsAhead, PassedTo
<1>2. j \notin DOMAIN Contents(mr)
    BY <1>1 DEF IsAhead, PassedTo
<1>3. QED
    BY <1>2, HeldBy

\* What is ahead of m is ahead of all before it.
LEMMA AheadMore ==
    ASSUME NEW mr, IsMetaRange(mr), NEW it, NEW m \in Nat, IsAhead(mr, it, m),
           NEW h \in Nat, m <= h, h < Front(mr, it)
    PROVE  IsAhead(mr, it, h)
<1> SUFFICES ASSUME NEW k \in DOMAIN Contents(mr), k > h PROVE k >= Front(mr, it)
    BY DEF IsAhead, PassedTo
<1>1. k \in 1..LastKey
    BY HeldBy
<1>2. k > m
    BY <1>1, CommittedAssumption
<1>3. QED
    BY <1>2 DEF IsAhead, PassedTo

\* The record it is at is next, and one step passes it.
LEMMA RecordAhead ==
    ASSUME NEW mr, IsMetaRange(mr), NEW it, Stands(mr, it), AtRecord(mr, it)
    PROVE  /\ Record(mr, it).key = Front(mr, it) /\ Front(mr, it) \in 1..LastKey
           /\ Record(mr, it).id = IdOf(mr, Front(mr, it)) /\ Record(mr, it).id # 0
           /\ Record(mr, it) = [key |-> Record(mr, it).key, id |-> Record(mr, it).id]
           /\ IsAhead(mr, Next1(mr, it), Front(mr, it))
           /\ AtRecord(mr, Next1(mr, it)) => Next1(mr, it).range = it.range
           /\ Have(mr, it) /\ Front(mr, it) <= MaxKey(RangeAt(mr, it))
<1>1. it.range \in DOMAIN mr /\ it.rec \in DOMAIN mr[it.range] /\ Front(mr, it) = mr[it.range][it.rec].key
    BY WhereItStands DEF Have
<1>2. Record(mr, it) = mr[it.range][it.rec]
    BY DEF Record
<1>3. /\ IdOf(mr, mr[it.range][it.rec].key) = mr[it.range][it.rec].id
      /\ mr[it.range][it.rec].id \in Nat \ {0} /\ mr[it.range][it.rec].key \in 1..LastKey
    BY <1>1, Holds
<1>4. mr[it.range][it.rec] = [key |-> mr[it.range][it.rec].key, id |-> mr[it.range][it.rec].id]
    BY <1>1, RangeTypes
<1>5. IsAhead(mr, Next1(mr, it), Front(mr, it))
    BY <1>1, OverRecord DEF IsAhead
<1>6. AtRecord(mr, Next1(mr, it)) => Next1(mr, it).range = it.range
    BY OverRecord
<1>7. mr[it.range][it.rec].key <= MaxKey(mr[it.range])
    BY <1>1, WithinRange
<1>8. QED
    BY <1>1, <1>2, <1>3, <1>4, <1>5, <1>6, <1>7 DEF Have, RangeAt

\* At a header the first record of the range is next, and one step enters.
LEMMA HeaderAhead ==
    ASSUME NEW mr, IsMetaRange(mr), NEW it, NEW m \in Nat, IsAhead(mr, it, m), AtRange(mr, it)
    PROVE  /\ Front(mr, it) = MinKey(RangeAt(mr, it)) /\ Front(mr, it) \in 1..LastKey
           /\ Front(mr, it) <= MaxKey(RangeAt(mr, it))
           /\ IsAhead(mr, Next1(mr, it), m) /\ Front(mr, Next1(mr, it)) = Front(mr, it)
           /\ AtRecord(mr, Next1(mr, it)) /\ Next1(mr, it).range = it.range
<1>1. Stands(mr, it)
    BY DEF IsAhead, PassedTo
<1>2. it.range \in DOMAIN mr /\ Front(mr, it) = MinKey(mr[it.range])
    BY <1>1, WhereItStands DEF Have
<1>3. MinKey(mr[it.range]) <= MaxKey(mr[it.range]) /\ MinKey(mr[it.range]) \in 1..LastKey
    <2>1. 1 \in DOMAIN mr[it.range]
        BY <1>2, RangeTypes
    <2>2. QED
        BY <1>2, <2>1, WithinRange
<1>4. PICK nx : nx = Next1(mr, it)
    OBVIOUS
<1>5. Stands(mr, nx) /\ Front(mr, nx) = Front(mr, it) /\ AtRecord(mr, nx) /\ nx.range = it.range
    BY <1>1, <1>4, IntoRange DEF PassedTo
<1>6. IsAhead(mr, nx, m)
    BY <1>5 DEF IsAhead, PassedTo
<1>7. QED
    BY <1>2, <1>3, <1>4, <1>5, <1>6 DEF RangeAt

\* To skip a range is to pass its last key.
LEMMA RangeAhead ==
    ASSUME NEW mr, IsMetaRange(mr), NEW it, Stands(mr, it), Have(mr, it)
    PROVE  /\ IsAhead(mr, NextRange(mr, it), MaxKey(RangeAt(mr, it)))
           /\ MaxKey(RangeAt(mr, it)) \in 1..LastKey
           /\ Front(mr, it) <= MaxKey(RangeAt(mr, it))
           /\ MinKey(RangeAt(mr, it)) <= Front(mr, it)
<1>1. it.range \in DOMAIN mr
    BY DEF Have
<1>2. IsAhead(mr, NextRange(mr, it), MaxKey(RangeAt(mr, it)))
    BY OverRange DEF IsAhead, RangeAt
<1>3. /\ 1 \in DOMAIN mr[it.range]
      /\ \A i \in DOMAIN mr[it.range] : /\ MinKey(mr[it.range]) <= mr[it.range][i].key
                                        /\ mr[it.range][i].key <= MaxKey(mr[it.range])
                                        /\ MaxKey(mr[it.range]) \in 1..LastKey
                                        /\ MinKey(mr[it.range]) \in 1..LastKey
                                        /\ MinKey(mr[it.range]) <= MaxKey(mr[it.range])
    BY <1>1, RangeTypes, WithinRange
<1>4. CASE AtRange(mr, it)
    <2>1. Front(mr, it) = MinKey(mr[it.range])
        BY <1>4, WhereItStands
    <2>2. QED
        BY <1>2, <1>3, <2>1, CommittedAssumption DEF RangeAt
<1>5. CASE AtRecord(mr, it)
    <2>1. Front(mr, it) = mr[it.range][it.rec].key /\ it.rec \in DOMAIN mr[it.range]
        BY <1>5, WhereItStands
    <2>2. QED
        BY <1>2, <1>3, <2>1 DEF RangeAt
<1>6. QED
    BY <1>4, <1>5, WhereItStands

\* The next step from what was given.
LEMMA GivesNext ==
    ASSUME NEW mr, IsMetaRange(mr), NEW it, NEW m \in Nat, Gives(mr, it, m)
    PROVE  /\ IsAhead(mr, Next1(mr, it), m)
           /\ AtRecord(mr, Next1(mr, it)) => Next1(mr, it).range = it.range
           /\ Stands(mr, it) /\ Have(mr, it)
           /\ m <= MaxKey(RangeAt(mr, it))
           /\ \A k \in DOMAIN Contents(mr) : k > m => k >= Front(mr, it)
<1>1. CASE AtRange(mr, it) /\ IsAhead(mr, it, m)
    <2>1. Stands(mr, it) /\ m < Front(mr, it)
        BY <1>1 DEF IsAhead, PassedTo
    <2>2. Have(mr, it) /\ Front(mr, it) \in 1..LastKey
        BY <1>1, <2>1, WhereItStands
    <2>3. m <= MaxKey(RangeAt(mr, it))
        BY <2>1, <2>2, RangeAhead, CommittedAssumption
    <2>4. QED
        BY <1>1, <2>1, <2>2, <2>3, HeaderAhead DEF IsAhead, PassedTo
<1>2. CASE AtRecord(mr, it) /\ Stands(mr, it) /\ m = Front(mr, it)
    <2>1. \A k \in DOMAIN Contents(mr) : k > m => k >= m
        BY HeldBy, CommittedAssumption
    <2>2. QED
        BY <1>2, <2>1, RecordAhead
<1>3. QED
    BY <1>1, <1>2 DEF Gives

\* Both iterators have ahead what is after m.
BothAhead(m) == IsAhead(job.source, source, m) /\ IsAhead(job.dest, dest, m)

\* Before its next call reads both sides.
ReadsNext(m) ==
    /\ status \in {"begin", "reading"} /\ fresh /\ inside = "none"
    /\ IsAhead(job.source, Next1(job.source, source), m)
    /\ IsAhead(job.dest, Next1(job.dest, dest), m)

\* Before the next turn of its loop.
Compares(m) ==
    /\ status \in {"diffing", "reading", "told"} /\ ~fresh /\ inside = "none"
    /\ BothAhead(m)
    /\ status = "told" => ~Have(job.source, source) /\ ~Have(job.dest, dest)

\* It was given a range of one side, which the other is wholly beyond, or a
\* range of both.
LeftGiven(m) ==
    /\ status = "reading" /\ ~fresh /\ inside = "left"
    /\ IsAhead(job.source, source, m) /\ Gives(job.dest, dest, m)
    /\ MaxKey(RangeAt(job.dest, dest)) < Front(job.source, source)
RightGiven(m) ==
    /\ status = "reading" /\ ~fresh /\ inside = "right"
    /\ IsAhead(job.dest, dest, m) /\ Gives(job.source, source, m)
    /\ MaxKey(RangeAt(job.source, source)) < Front(job.dest, dest)
BothGiven(m) ==
    /\ status = "reading" /\ fresh /\ inside = "both"
    /\ BothAhead(m)
    /\ AtRange(job.source, source) /\ AtRange(job.dest, dest)
    /\ EqualBounds(RangeAt(job.dest, dest), RangeAt(job.source, source))

\* The places where a reader stops.
StandsAt(m) == ReadsNext(m) \/ Compares(m) \/ LeftGiven(m) \/ RightGiven(m) \/ BothGiven(m)

\* To read further is to know more, or as much.
ReadsOn == \E h \in Nat : Knows(h)' /\ StandsAt(h)'

\* Who reads, and is of its types.
Reader == IsRequest(job) /\ IsDiff /\ DiffInv

\* For a reader both iterators are plain ones.
LEMMA ReaderHas ==
    ASSUME Reader
    PROVE  /\ IsMetaRange(job.source) /\ IsMetaRange(job.dest) /\ job.prefixes = <<>>
           /\ DestNext <=> dest' = Next1(job.dest, dest)
           /\ DestNextRange <=> dest' = NextRange(job.dest, dest)
           /\ dest = [range |-> dest.range, rec |-> dest.rec, prefix |-> 1]
           /\ source = Start \/ Stands(job.source, source)
           /\ dest = DestStart \/ Stands(job.dest, dest)
<1>1. IsMetaRange(job.source) /\ IsMetaRange(job.dest) /\ job.prefixes = <<>>
    BY DEF Reader, IsRequest, IsDiff
<1>2. /\ source = Start \/ Stands(job.source, source)
      /\ dest = DestStart \/ DestPlaced(job.dest, <<>>, dest)
    BY <1>1 DEF Reader, DiffInv, Iterators
<1>3. dest = [range |-> dest.range, rec |-> dest.rec, prefix |-> 1]
    BY <1>1, <1>2, PlainDest
<1>4. dest = DestStart \/ Stands(job.dest, dest)
    BY <1>2 DEF DestPlaced, Skips
<1>5. dest.range \in 0..(Len(job.dest) + 1) /\ dest.rec \in Nat
    <2>1. Len(job.dest) \in Nat
        BY <1>1 DEF IsMetaRange
    <2>2. CASE dest = DestStart
        BY <2>1, <2>2 DEF DestStart
    <2>3. CASE Stands(job.dest, dest)
        BY <2>1, <2>3 DEF Stands
    <2>4. QED
        BY <1>4, <2>2, <2>3
<1>6. /\ SkipNext(job.dest, <<>>, dest) = Next1(job.dest, dest)
      /\ SkipNextRange(job.dest, <<>>, dest) = NextRange(job.dest, dest)
    BY <1>1, <1>3, <1>5, PlainMoves DEF Plain
<1>7. QED
    BY <1>1, <1>2, <1>3, <1>4, <1>6 DEF DestNext, DestNextRange

\* A call of Next that reads both sides.
LEMMA FreshReadsOn ==
    ASSUME Reader, job' = job, NEW m \in Nat, Knows(m), StandsAt(m), CallNextFresh
    PROVE  ReadsOn
<1>1. /\ IsMetaRange(job.source) /\ IsMetaRange(job.dest)
      /\ source' = Next1(job.source, source) /\ dest' = Next1(job.dest, dest)
    BY ReaderHas DEF CallNextFresh, SourceNext
<1>2. IsAhead(job.source, source', m) /\ IsAhead(job.dest, dest', m)
    <2>1. ReadsNext(m) \/ BothGiven(m)
        BY DEF CallNextFresh, StandsAt, Compares, LeftGiven, RightGiven
    <2>2. CASE ReadsNext(m)
        BY <1>1, <2>2 DEF ReadsNext
    <2>3. CASE BothGiven(m)
        BY <1>1, <2>3, HeaderAhead DEF BothGiven, BothAhead
    <2>4. QED
        BY <2>1, <2>2, <2>3
<1>3. Compares(m)'
    BY <1>2 DEF Compares, BothAhead, CallNextFresh
<1>4. Knows(m)'
    BY KnowsOn DEF CallNextFresh, TellNothing
<1>5. QED
    BY <1>3, <1>4 DEF ReadsOn, StandsAt

\* A call of Next that goes on from where it was.
LEMMA NextReadsOn ==
    ASSUME Reader, job' = job, NEW m \in Nat, Knows(m), StandsAt(m), CallNext
    PROVE  ReadsOn
<1>1. Compares(m)
    BY DEF CallNext, StandsAt, ReadsNext, LeftGiven, RightGiven, BothGiven
<1>2. /\ source' = source /\ dest' = dest /\ inside' = inside /\ fresh' = fresh /\ status' = "diffing"
      /\ UNCHANGED <<told, foretold, seeked, skipped>>
    BY DEF CallNext, diffVars
<1>3. Compares(m)'
    BY <1>1, <1>2 DEF Compares, BothAhead
<1>4. Knows(m)'
    BY <1>2, KnowsOn
<1>5. QED
    BY <1>3, <1>4 DEF ReadsOn, StandsAt

\* SeekGE begins anew before its key.
LEMMA SeekReadsOn ==
    ASSUME Reader, job' = job, NEW key \in 1..LastKey, CallSeekGE(key)
    PROVE  ReadsOn
<1>1. IsMetaRange(job.source) /\ IsMetaRange(job.dest)
    BY ReaderHas
<1>2. key - 1 \in Nat /\ key \in 0..LastKey
    BY CommittedAssumption
<1>3. /\ told' = <<>> /\ foretold' = <<>> /\ skipped' = {} /\ seeked' = key
      /\ status' = "reading" /\ fresh' /\ inside' = "none"
      /\ source' = SeekGE(job.source, source, key)
      /\ DestSeekGE(key)
    BY DEF CallSeekGE
<1>4. Knows(key - 1)'
    <2>1. DOMAIN told' = {} /\ DOMAIN foretold' = {}
        BY <1>3
    <2>2. ToldInOrder'
        <3>1. told' \in Seq(Differences')
            <4>1. PICK S : S = Differences'
                OBVIOUS
            <4>2. <<>> \in Seq(S)
                OBVIOUS
            <4>3. QED
                BY <1>3, <4>1, <4>2
        <3>2. QED
            BY <2>1, <3>1 DEF ToldInOrder
    <2>3. ToldTo(key - 1)'
        BY <1>2, <1>3, <2>1 DEF ToldTo
    <2>4. ForetoldAsTold'
        <3>1. foretold' \in Seq(Meanings')
            <4>1. PICK S : S = Meanings'
                OBVIOUS
            <4>2. <<>> \in Seq(S)
                OBVIOUS
            <4>3. QED
                BY <1>3, <4>1, <4>2
        <3>2. \A j : ~Told(j)' /\ ~IsForetold(j)'
            BY <2>1 DEF Told, IsForetold
        <3>3. QED
            BY <1>3, <3>1, <3>2 DEF ForetoldAsTold
    <2>5. QED
        BY <1>2, <1>3, <2>2, <2>3, <2>4 DEF Knows
<1>5. IsAhead(job.source, Next1(job.source, source'), key - 1)
    <2>1. Stands(job.source, source) \/ ~AtRecord(job.source, source)
        BY ReaderHas DEF Start, AtRecord
    <2>2. source' = Start \/ source' = [range |-> source'.range, rec |-> source'.rec]
        BY <1>1, <1>3, SeekLands
    <2>3. {"range", "rec"} \subseteq DOMAIN source'
        BY <2>2 DEF Start
    <2>4. QED
        BY <1>1, <1>3, <2>1, <2>3, SeekAhead DEF IsAhead
<1>6. IsAhead(job.dest, Next1(job.dest, dest'), key - 1)
    <2>1. PICK it : it = [range |-> dest.range, rec |-> dest.rec]
        OBVIOUS
    <2>2. PICK x : x = SeekGE(job.dest, it, key)
        OBVIOUS
    <2>3. PICK a : a = x.range
        OBVIOUS
    <2>4. PICK b : b = x.rec
        OBVIOUS
    <2>5. dest' = [dest EXCEPT !.range = a, !.rec = b]
        BY <1>3, <2>1, <2>2, <2>3, <2>4 DEF DestSeekGE
    <2>6. dest'.range = a /\ dest'.rec = b /\ {"range", "rec"} \subseteq DOMAIN dest'
        <3>1. PICK c : c = dest.range
            OBVIOUS
        <3>2. PICK d : d = dest.rec
            OBVIOUS
        <3>3. dest = [range |-> c, rec |-> d, prefix |-> 1]
            BY <3>1, <3>2, ReaderHas
        <3>4. PICK z : z = [dest EXCEPT !.range = a]
            OBVIOUS
        <3>5. z = [range |-> a, rec |-> d, prefix |-> 1]
            BY <3>3, <3>4
        <3>6. dest' = [z EXCEPT !.rec = b]
            BY <2>5, <3>4
        <3>7. dest' = [range |-> a, rec |-> b, prefix |-> 1]
            BY <3>5, <3>6
        <3>8. QED
            BY <3>7
    <2>7. Stands(job.dest, it) \/ ~AtRecord(job.dest, it)
        <3>1. it.range = dest.range /\ it.rec = dest.rec /\ {"range", "rec"} \subseteq DOMAIN it
            BY <2>1
        <3>2. CASE dest = DestStart
            BY <3>1, <3>2 DEF DestStart, AtRecord
        <3>3. CASE Stands(job.dest, dest)
            BY <3>1, <3>3 DEF Stands, Have
        <3>4. QED
            BY <3>2, <3>3, ReaderHas
    <2>8. QED
        BY <1>1, <2>2, <2>3, <2>4, <2>6, <2>7, SeekAhead DEF IsAhead
<1>7. ReadsNext(key - 1)'
    BY <1>3, <1>5, <1>6 DEF ReadsNext
<1>8. QED
    BY <1>2, <1>4, <1>7 DEF ReadsOn, StandsAt

\* What is told is the difference at a key.
LEMMA TellIs ==
    ASSUME NEW type, NEW rec, NEW left, NEW k, Tell(type, rec, left), UNCHANGED <<skipped, seeked>>,
           rec.key = k, type = DifferenceAt(k).type, rec.id = DifferenceAt(k).id, left = DifferenceAt(k).left
    PROVE  TellsOf(k) /\ status' = "reading"
<1>1. [type |-> type, key |-> rec.key, id |-> rec.id, left |-> left] = DifferenceAt(k)
    BY DEF DifferenceAt
<1>2. [type |-> Meaning(DifferenceAt(k)), key |-> rec.key] = MeaningAt(k)
    BY DEF MeaningAt
<1>3. MeaningAt(k).type = Meaning(DifferenceAt(k))
    BY DEF MeaningAt
<1>4. /\ told' = Append(told, DifferenceAt(k))
      /\ foretold' = IF job.op = "compare" /\ Meaning(DifferenceAt(k)) # "nothing"
                     THEN Append(foretold, [type |-> Meaning(DifferenceAt(k)), key |-> rec.key]) ELSE foretold
      /\ status' = "reading"
    BY <1>1 DEF Tell
<1>5. QED
    BY <1>2, <1>3, <1>4 DEF TellsOf

\* What is ahead of a side up to a key, the other having nothing there.
LEMMA OnlyLeft ==
    ASSUME IsMetaRange(job.source), IsMetaRange(job.dest), NEW m \in Nat, NEW it, Stands(job.dest, it),
           AtRecord(job.dest, it), IsAhead(job.dest, it, m), IsAhead(job.source, source, m),
           Front(job.dest, it) < Front(job.source, source)
    PROVE  LET k == Front(job.dest, it)
               rec == Record(job.dest, it)
           IN /\ k \in 1..LastKey /\ k > m /\ rec.key = k
              /\ Differs(k) /\ NoneDiffers(m, k - 1)
              /\ "removed" = DifferenceAt(k).type /\ rec.id = DifferenceAt(k).id /\ rec.id = DifferenceAt(k).left
              /\ IsAhead(job.source, source, k)
<1>1. PICK k : k = Front(job.dest, it)
    OBVIOUS
<1>2. PICK rec : rec = Record(job.dest, it)
    OBVIOUS
<1>3. rec.key = k /\ k \in 1..LastKey /\ rec.id = IdOf(job.dest, k) /\ rec.id # 0
    BY <1>1, <1>2, RecordAhead
<1>4. k > m /\ k \in Nat
    BY <1>1, <1>3, CommittedAssumption DEF IsAhead
<1>5. Front(job.source, source) \in Nat
    BY WhereItStands, CommittedAssumption DEF IsAhead, PassedTo
<1>6. \A j \in 1..LastKey : m < j /\ j < Front(job.source, source) => RightHas(j) = 0
    BY NoneAhead DEF RightHas
<1>7. \A j \in 1..LastKey : m < j /\ j < k => LeftHas(j) = 0
    BY <1>1, NoneAhead DEF LeftHas
<1>8. RightHas(k) = 0 /\ LeftHas(k) = rec.id
    BY <1>1, <1>3, <1>4, <1>6 DEF LeftHas
<1>9. NoneDiffers(m, k - 1)
    <2> SUFFICES ASSUME NEW j \in 1..LastKey, m < j, j <= k - 1 PROVE ~Differs(j)
        BY DEF NoneDiffers
    <2>1. j < k /\ j < Front(job.source, source)
        BY <1>1, <1>4, <1>5, CommittedAssumption
    <2>2. QED
        BY <1>6, <1>7, <2>1 DEF Differs
<1>10. IsAhead(job.source, source, k)
    BY <1>1, <1>4, AheadMore
<1>11. QED
    BY <1>1, <1>2, <1>3, <1>4, <1>8, <1>9, <1>10 DEF Differs, DifferenceAt

\* The same for the source.
LEMMA OnlyRight ==
    ASSUME IsMetaRange(job.source), IsMetaRange(job.dest), NEW m \in Nat, NEW it, Stands(job.source, it),
           AtRecord(job.source, it), IsAhead(job.source, it, m), IsAhead(job.dest, dest, m),
           Front(job.source, it) < Front(job.dest, dest)
    PROVE  LET k == Front(job.source, it)
               rec == Record(job.source, it)
           IN /\ k \in 1..LastKey /\ k > m /\ rec.key = k
              /\ Differs(k) /\ NoneDiffers(m, k - 1)
              /\ "added" = DifferenceAt(k).type /\ rec.id = DifferenceAt(k).id /\ 0 = DifferenceAt(k).left
              /\ IsAhead(job.dest, dest, k)
<1>1. PICK k : k = Front(job.source, it)
    OBVIOUS
<1>2. PICK rec : rec = Record(job.source, it)
    OBVIOUS
<1>3. rec.key = k /\ k \in 1..LastKey /\ rec.id = IdOf(job.source, k) /\ rec.id # 0
    BY <1>1, <1>2, RecordAhead
<1>4. k > m /\ k \in Nat
    BY <1>1, <1>3, CommittedAssumption DEF IsAhead
<1>5. Front(job.dest, dest) \in Nat
    BY WhereItStands, CommittedAssumption DEF IsAhead, PassedTo
<1>6. \A j \in 1..LastKey : m < j /\ j < Front(job.dest, dest) => LeftHas(j) = 0
    BY NoneAhead DEF LeftHas
<1>7. \A j \in 1..LastKey : m < j /\ j < k => RightHas(j) = 0
    BY <1>1, NoneAhead DEF RightHas
<1>8. LeftHas(k) = 0 /\ RightHas(k) = rec.id
    BY <1>1, <1>3, <1>4, <1>6 DEF RightHas
<1>9. NoneDiffers(m, k - 1)
    <2> SUFFICES ASSUME NEW j \in 1..LastKey, m < j, j <= k - 1 PROVE ~Differs(j)
        BY DEF NoneDiffers
    <2>1. j < k /\ j < Front(job.dest, dest)
        BY <1>1, <1>4, <1>5, CommittedAssumption
    <2>2. QED
        BY <1>6, <1>7, <2>1 DEF Differs
<1>10. IsAhead(job.dest, dest, k)
    BY <1>1, <1>4, AheadMore
<1>11. QED
    BY <1>1, <1>2, <1>3, <1>4, <1>8, <1>9, <1>10 DEF Differs, DifferenceAt

\* Within a range of the left side.
LEMMA InsideLeft ==
    ASSUME Reader, job' = job, NEW m \in Nat, Knows(m), LeftGiven(m), CallNextInside
    PROVE  ReadsOn
<1>1. IsMetaRange(job.source) /\ IsMetaRange(job.dest)
    BY ReaderHas
<1>2. /\ dest' = Next1(job.dest, dest) /\ source' = source
      /\ \/ /\ AtRecord(job.dest, dest') /\ inside' = inside
            /\ Tell("removed", Record(job.dest, dest'), Record(job.dest, dest').id)
         \/ ~AtRecord(job.dest, dest') /\ status' = "diffing" /\ inside' = "none" /\ TellNothing
      /\ UNCHANGED <<skipped, seeked>> /\ fresh' = fresh
    BY ReaderHas DEF CallNextInside, LeftGiven, SourceStays
<1>3. /\ IsAhead(job.dest, dest', m) /\ Stands(job.dest, dest')
      /\ AtRecord(job.dest, dest') => dest'.range = dest.range
    BY <1>1, <1>2, GivesNext DEF LeftGiven, IsAhead, PassedTo
<1>4. IsAhead(job.source, source, m) /\ MaxKey(RangeAt(job.dest, dest)) < Front(job.source, source)
    BY DEF LeftGiven
<1>5. CASE AtRecord(job.dest, dest') /\ Tell("removed", Record(job.dest, dest'), Record(job.dest, dest').id)
    <2>1. RangeAt(job.dest, dest') = RangeAt(job.dest, dest)
        BY <1>3, <1>5 DEF RangeAt
    <2>2. PICK k : k = Front(job.dest, dest')
        OBVIOUS
    <2>3. k < Front(job.source, source)
        <3>1. k <= MaxKey(RangeAt(job.dest, dest'))  /\ MaxKey(RangeAt(job.dest, dest')) \in 1..LastKey
              /\ Have(job.dest, dest')
            BY <1>1, <1>3, <1>5, <2>2, RangeAhead DEF AtRecord
        <3>2. k \in 1..LastKey
            BY <1>1, <1>3, <1>5, <2>2, RecordAhead
        <3>3. Front(job.source, source) \in Nat
            BY <1>1, <1>4, WhereItStands, CommittedAssumption DEF IsAhead, PassedTo
        <3>4. QED
            BY <1>4, <2>1, <3>1, <3>2, <3>3, CommittedAssumption
    <2>4. /\ k \in 1..LastKey /\ k > m
          /\ Differs(k) /\ NoneDiffers(m, k - 1)
          /\ IsAhead(job.source, source, k)
          /\ TellsOf(k) /\ status' = "reading"
        <3>1. PICK rec : rec = Record(job.dest, dest')
            OBVIOUS
        <3>2. /\ k \in 1..LastKey /\ k > m /\ rec.key = k
              /\ Differs(k) /\ NoneDiffers(m, k - 1)
              /\ "removed" = DifferenceAt(k).type /\ rec.id = DifferenceAt(k).id /\ rec.id = DifferenceAt(k).left
              /\ IsAhead(job.source, source, k)
            BY <1>1, <1>3, <1>4, <1>5, <2>2, <2>3, <3>1, OnlyLeft
        <3>3. TellsOf(k) /\ status' = "reading"
            BY <1>2, <1>5, <3>1, <3>2, TellIs
        <3>4. QED
            BY <3>2, <3>3
    <2>5. Knows(k)'
        BY <2>4, KnowsOneMore
    <2>6. inside' = "left" /\ ~fresh'
        BY <1>2, <1>5 DEF LeftGiven
    <2>7. Gives(job.dest, dest', k)
        BY <1>3, <1>5, <2>2 DEF Gives
    <2>8. LeftGiven(k)'
        BY <1>2, <1>4, <2>1, <2>4, <2>6, <2>7 DEF LeftGiven
    <2>9. k \in Nat
        BY <2>4, CommittedAssumption
    <2>10. QED
        BY <2>5, <2>8, <2>9 DEF ReadsOn, StandsAt
<1>6. CASE ~AtRecord(job.dest, dest') /\ status' = "diffing" /\ inside' = "none" /\ TellNothing
    <2>1. Knows(m)'
        BY <1>2, <1>6, KnowsOn DEF TellNothing
    <2>2. Compares(m)'
        BY <1>2, <1>3, <1>4, <1>6 DEF Compares, BothAhead, LeftGiven
    <2>3. QED
        BY <2>1, <2>2 DEF ReadsOn, StandsAt
<1>7. QED
    BY <1>2, <1>5, <1>6

\* Within a range of the right side.
LEMMA InsideRight ==
    ASSUME Reader, job' = job, NEW m \in Nat, Knows(m), RightGiven(m), CallNextInside
    PROVE  ReadsOn
<1>1. IsMetaRange(job.dest) /\ IsMetaRange(job.source)
    BY ReaderHas
<1>2. /\ source' = Next1(job.source, source) /\ dest' = dest
      /\ \/ /\ AtRecord(job.source, source') /\ inside' = inside
            /\ Tell("added", Record(job.source, source'), 0)
         \/ ~AtRecord(job.source, source') /\ status' = "diffing" /\ inside' = "none" /\ TellNothing
      /\ UNCHANGED <<skipped, seeked>> /\ fresh' = fresh
    BY DEF CallNextInside, RightGiven, DestStays, SourceNext
<1>3. /\ IsAhead(job.source, source', m) /\ Stands(job.source, source')
      /\ AtRecord(job.source, source') => source'.range = source.range
    BY <1>1, <1>2, GivesNext DEF RightGiven, IsAhead, PassedTo
<1>4. IsAhead(job.dest, dest, m) /\ MaxKey(RangeAt(job.source, source)) < Front(job.dest, dest)
    BY DEF RightGiven
<1>5. CASE AtRecord(job.source, source') /\ Tell("added", Record(job.source, source'), 0)
    <2>1. RangeAt(job.source, source') = RangeAt(job.source, source)
        BY <1>3, <1>5 DEF RangeAt
    <2>2. PICK k : k = Front(job.source, source')
        OBVIOUS
    <2>3. k < Front(job.dest, dest)
        <3>1. k <= MaxKey(RangeAt(job.source, source'))  /\ MaxKey(RangeAt(job.source, source')) \in 1..LastKey
              /\ Have(job.source, source')
            BY <1>1, <1>3, <1>5, <2>2, RangeAhead DEF AtRecord
        <3>2. k \in 1..LastKey
            BY <1>1, <1>3, <1>5, <2>2, RecordAhead
        <3>3. Front(job.dest, dest) \in Nat
            BY <1>1, <1>4, WhereItStands, CommittedAssumption DEF IsAhead, PassedTo
        <3>4. QED
            BY <1>4, <2>1, <3>1, <3>2, <3>3, CommittedAssumption
    <2>4. /\ k \in 1..LastKey /\ k > m
          /\ Differs(k) /\ NoneDiffers(m, k - 1)
          /\ IsAhead(job.dest, dest, k)
          /\ TellsOf(k) /\ status' = "reading"
        <3>1. PICK rec : rec = Record(job.source, source')
            OBVIOUS
        <3>2. /\ k \in 1..LastKey /\ k > m /\ rec.key = k
              /\ Differs(k) /\ NoneDiffers(m, k - 1)
              /\ "added" = DifferenceAt(k).type /\ rec.id = DifferenceAt(k).id /\ 0 = DifferenceAt(k).left
              /\ IsAhead(job.dest, dest, k)
            BY <1>1, <1>3, <1>4, <1>5, <2>2, <2>3, <3>1, OnlyRight
        <3>3. TellsOf(k) /\ status' = "reading"
            BY <1>2, <1>5, <3>1, <3>2, TellIs
        <3>4. QED
            BY <3>2, <3>3
    <2>5. Knows(k)'
        BY <2>4, KnowsOneMore
    <2>6. inside' = "right" /\ ~fresh'
        BY <1>2, <1>5 DEF RightGiven
    <2>7. Gives(job.source, source', k)
        BY <1>3, <1>5, <2>2 DEF Gives
    <2>8. RightGiven(k)'
        BY <1>2, <1>4, <2>1, <2>4, <2>6, <2>7 DEF RightGiven
    <2>9. k \in Nat
        BY <2>4, CommittedAssumption
    <2>10. QED
        BY <2>5, <2>8, <2>9 DEF ReadsOn, StandsAt
<1>6. CASE ~AtRecord(job.source, source') /\ status' = "diffing" /\ inside' = "none" /\ TellNothing
    <2>1. Knows(m)'
        BY <1>2, <1>6, KnowsOn DEF TellNothing
    <2>2. Compares(m)'
        BY <1>2, <1>3, <1>4, <1>6 DEF Compares, BothAhead, RightGiven
    <2>3. QED
        BY <2>1, <2>2 DEF ReadsOn, StandsAt
<1>7. QED
    BY <1>2, <1>5, <1>6

\* A range that was given is skipped.
SkipsRange(side, range) ==
    /\ skipped' = skipped \cup {[type |-> side, range |-> range]}
    /\ status' = "diffing" /\ inside' = "none" /\ ~fresh'
    /\ UNCHANGED <<told, foretold, seeked>>
    /\ job.op = "diff"

\* A skipped range covers the keys it has.
LEMMA RangeCovers ==
    ASSUME NEW mr, IsMetaRange(mr), NEW it, Stands(mr, it), Have(mr, it), NEW j, IdOf(mr, j) # 0,
           MinKey(RangeAt(mr, it)) <= j, j <= MaxKey(RangeAt(mr, it))
    PROVE  \E i \in DOMAIN RangeAt(mr, it) : RangeAt(mr, it)[i].key = j
<1>1. it.range \in DOMAIN mr
    BY DEF Have
<1>2. IdOf(mr, j) = IdIn(mr[it.range], j)
    BY <1>1, RangeTells DEF RangeAt
<1>3. QED
    BY <1>1, <1>2, RangeTells DEF RangeAt

\* NextRange within a range of the left side.
LEMMA SkipsLeft ==
    ASSUME Reader, job' = job, NEW m \in Nat, Knows(m), LeftGiven(m), SkipsRange("left", RangeAt(job.dest, dest)),
           source' = source, dest' = NextRange(job.dest, dest)
    PROVE  ReadsOn
<1>1. IsMetaRange(job.source) /\ IsMetaRange(job.dest)
    BY ReaderHas
<1>2. PICK r : r = RangeAt(job.dest, dest)
    OBVIOUS
<1>3. /\ Stands(job.dest, dest) /\ Have(job.dest, dest) /\ m <= MaxKey(r)
      /\ \A k \in DOMAIN Contents(job.dest) : k > m => k >= Front(job.dest, dest)
    BY <1>1, <1>2, GivesNext DEF LeftGiven
<1>4. PICK h : h = MaxKey(r)
    OBVIOUS
<1>5. IsAhead(job.dest, dest', h) /\ h \in 1..LastKey /\ MinKey(r) <= Front(job.dest, dest)
    BY <1>1, <1>2, <1>3, <1>4, RangeAhead
<1>6. h \in Nat /\ m <= h
    BY <1>3, <1>4, <1>5, CommittedAssumption
<1>7. h < Front(job.source, source) /\ IsAhead(job.source, source, m)
    BY <1>2, <1>4 DEF LeftGiven
<1>8. IsAhead(job.source, source', h)
    BY <1>1, <1>6, <1>7, AheadMore
<1>9. ASSUME NEW j \in 1..LastKey, m < j, j <= h
      PROVE  ~Differs(j) \/ \E skip \in skipped' : Covers(skip, j)
    <2>1. RightHas(j) = 0
        <3>1. j < Front(job.source, source)
            <4>1. Front(job.source, source) \in Nat
                BY <1>1, <1>7, WhereItStands, CommittedAssumption DEF IsAhead, PassedTo
            <4>2. QED
                BY <1>6, <1>7, <1>9, <4>1, CommittedAssumption
        <3>2. QED
            BY <1>1, <1>7, <1>9, <3>1, NoneAhead DEF RightHas
    <2>2. CASE LeftHas(j) = 0
        BY <2>1, <2>2 DEF Differs
    <2>3. CASE LeftHas(j) # 0
        <3>1. j \in DOMAIN Contents(job.dest)
            BY <1>1, <2>3, HeldBy DEF LeftHas
        <3>2. j >= Front(job.dest, dest)
            BY <1>3, <1>9, <3>1, CommittedAssumption
        <3>3. MinKey(r) <= j
            <4>1. Front(job.dest, dest) \in Nat
                BY <1>1, <1>3, WhereItStands, CommittedAssumption
            <4>2. MinKey(r) \in Nat
                <5>1. dest.range \in DOMAIN job.dest /\ 1 \in DOMAIN job.dest[dest.range]
                    BY <1>1, <1>3, RangeTypes DEF Have
                <5>2. QED
                    BY <1>1, <1>2, <5>1, WithinRange, CommittedAssumption DEF RangeAt
            <4>3. QED
                BY <1>5, <3>2, <4>1, <4>2, CommittedAssumption
        <3>4. \E i \in DOMAIN r : r[i].key = j
            BY <1>1, <1>2, <1>3, <1>4, <1>9, <2>3, <3>3, RangeCovers DEF LeftHas
        <3>5. PICK skip : skip = [type |-> "left", range |-> r]
            OBVIOUS
        <3>6. skip \in skipped' /\ skip.type # "both" /\ skip.range = r
            BY <1>2, <3>5 DEF SkipsRange
        <3>7. Covers(skip, j)
            BY <3>4, <3>6 DEF Covers
        <3>8. QED
            BY <3>6, <3>7
    <2>4. QED
        BY <2>2, <2>3
<1>10. Knows(h)'
    <2>1. skipped \subseteq skipped' /\ job.op # "compare"
        BY DEF SkipsRange
    <2>2. UNCHANGED <<told, foretold, seeked>>
        BY DEF SkipsRange
    <2>3. QED
        BY <1>6, <1>9, <2>1, <2>2, KnowsOn
<1>11. Compares(h)'
    BY <1>5, <1>8 DEF Compares, BothAhead, SkipsRange
<1>12. QED
    BY <1>6, <1>10, <1>11 DEF ReadsOn, StandsAt

\* NextRange within a range of the right side.
LEMMA SkipsRight ==
    ASSUME Reader, job' = job, NEW m \in Nat, Knows(m), RightGiven(m), SkipsRange("right", RangeAt(job.source, source)),
           dest' = dest, source' = NextRange(job.source, source)
    PROVE  ReadsOn
<1>1. IsMetaRange(job.dest) /\ IsMetaRange(job.source)
    BY ReaderHas
<1>2. PICK r : r = RangeAt(job.source, source)
    OBVIOUS
<1>3. /\ Stands(job.source, source) /\ Have(job.source, source) /\ m <= MaxKey(r)
      /\ \A k \in DOMAIN Contents(job.source) : k > m => k >= Front(job.source, source)
    BY <1>1, <1>2, GivesNext DEF RightGiven
<1>4. PICK h : h = MaxKey(r)
    OBVIOUS
<1>5. IsAhead(job.source, source', h) /\ h \in 1..LastKey /\ MinKey(r) <= Front(job.source, source)
    BY <1>1, <1>2, <1>3, <1>4, RangeAhead
<1>6. h \in Nat /\ m <= h
    BY <1>3, <1>4, <1>5, CommittedAssumption
<1>7. h < Front(job.dest, dest) /\ IsAhead(job.dest, dest, m)
    BY <1>2, <1>4 DEF RightGiven
<1>8. IsAhead(job.dest, dest', h)
    BY <1>1, <1>6, <1>7, AheadMore
<1>9. ASSUME NEW j \in 1..LastKey, m < j, j <= h
      PROVE  ~Differs(j) \/ \E skip \in skipped' : Covers(skip, j)
    <2>1. LeftHas(j) = 0
        <3>1. j < Front(job.dest, dest)
            <4>1. Front(job.dest, dest) \in Nat
                BY <1>1, <1>7, WhereItStands, CommittedAssumption DEF IsAhead, PassedTo
            <4>2. QED
                BY <1>6, <1>7, <1>9, <4>1, CommittedAssumption
        <3>2. QED
            BY <1>1, <1>7, <1>9, <3>1, NoneAhead DEF LeftHas
    <2>2. CASE RightHas(j) = 0
        BY <2>1, <2>2 DEF Differs
    <2>3. CASE RightHas(j) # 0
        <3>1. j \in DOMAIN Contents(job.source)
            BY <1>1, <2>3, HeldBy DEF RightHas
        <3>2. j >= Front(job.source, source)
            BY <1>3, <1>9, <3>1, CommittedAssumption
        <3>3. MinKey(r) <= j
            <4>1. Front(job.source, source) \in Nat
                BY <1>1, <1>3, WhereItStands, CommittedAssumption
            <4>2. MinKey(r) \in Nat
                <5>1. source.range \in DOMAIN job.source /\ 1 \in DOMAIN job.source[source.range]
                    BY <1>1, <1>3, RangeTypes DEF Have
                <5>2. QED
                    BY <1>1, <1>2, <5>1, WithinRange, CommittedAssumption DEF RangeAt
            <4>3. QED
                BY <1>5, <3>2, <4>1, <4>2, CommittedAssumption
        <3>4. \E i \in DOMAIN r : r[i].key = j
            BY <1>1, <1>2, <1>3, <1>4, <1>9, <2>3, <3>3, RangeCovers DEF RightHas
        <3>5. PICK skip : skip = [type |-> "right", range |-> r]
            OBVIOUS
        <3>6. skip \in skipped' /\ skip.type # "both" /\ skip.range = r
            BY <1>2, <3>5 DEF SkipsRange
        <3>7. Covers(skip, j)
            BY <3>4, <3>6 DEF Covers
        <3>8. QED
            BY <3>6, <3>7
    <2>4. QED
        BY <2>2, <2>3
<1>10. Knows(h)'
    <2>1. skipped \subseteq skipped' /\ job.op # "compare"
        BY DEF SkipsRange
    <2>2. UNCHANGED <<told, foretold, seeked>>
        BY DEF SkipsRange
    <2>3. QED
        BY <1>6, <1>9, <2>1, <2>2, KnowsOn
<1>11. Compares(h)'
    BY <1>5, <1>8 DEF Compares, BothAhead, SkipsRange
<1>12. QED
    BY <1>6, <1>10, <1>11 DEF ReadsOn, StandsAt

\* NextRange at two ranges with the same bounds.
LEMMA SkipsBoth ==
    ASSUME Reader, job' = job, NEW m \in Nat, Knows(m), BothGiven(m), SkipsRange("both", RangeAt(job.source, source)),
           source' = NextRange(job.source, source), dest' = NextRange(job.dest, dest)
    PROVE  ReadsOn
<1>1. IsMetaRange(job.source) /\ IsMetaRange(job.dest)
    BY ReaderHas
<1>2. PICK r : r = RangeAt(job.source, source)
    OBVIOUS
<1>3. PICK h : h = MaxKey(r)
    OBVIOUS
<1>4. /\ IsAhead(job.source, source, m) /\ IsAhead(job.dest, dest, m)
      /\ AtRange(job.source, source) /\ AtRange(job.dest, dest)
      /\ MinKey(RangeAt(job.dest, dest)) = MinKey(r) /\ MaxKey(RangeAt(job.dest, dest)) = h
    BY <1>2, <1>3 DEF BothGiven, BothAhead, EqualBounds
<1>5. Front(job.source, source) = MinKey(r) /\ Front(job.dest, dest) = MinKey(r)
    BY <1>1, <1>2, <1>4, HeaderAhead
<1>6. IsAhead(job.source, source', h) /\ IsAhead(job.dest, dest', h) /\ h \in 1..LastKey /\ MinKey(r) <= h
    <2>1. Stands(job.source, source) /\ Have(job.source, source) /\ Stands(job.dest, dest) /\ Have(job.dest, dest)
        BY <1>4 DEF IsAhead, PassedTo, AtRange
    <2>2. IsAhead(job.source, source', h) /\ h \in 1..LastKey /\ Front(job.source, source) <= h
        BY <1>1, <1>2, <1>3, <2>1, RangeAhead
    <2>3. IsAhead(job.dest, dest', h)
        BY <1>1, <1>4, <2>1, RangeAhead
    <2>4. QED
        BY <1>5, <2>2, <2>3
<1>7. h \in Nat /\ MinKey(r) \in Nat /\ m <= h
    <2>1. MinKey(r) \in 1..LastKey
        BY <1>1, <1>4, <1>5, HeaderAhead
    <2>2. m < MinKey(r)
        BY <1>4, <1>5 DEF IsAhead
    <2>3. QED
        BY <1>6, <2>1, <2>2, CommittedAssumption
<1>8. ASSUME NEW j \in 1..LastKey, m < j, j <= h
      PROVE  ~Differs(j) \/ \E skip \in skipped' : Covers(skip, j)
    <2>1. CASE j < MinKey(r)
        <3>1. LeftHas(j) = 0 /\ RightHas(j) = 0
            BY <1>1, <1>4, <1>5, <1>8, <2>1, NoneAhead DEF LeftHas, RightHas
        <3>2. QED
            BY <3>1 DEF Differs
    <2>2. CASE MinKey(r) <= j
        <3>1. PICK skip : skip = [type |-> "both", range |-> r]
            OBVIOUS
        <3>2. skip \in skipped' /\ skip.type = "both" /\ skip.range = r
            BY <1>2, <3>1 DEF SkipsRange
        <3>3. Covers(skip, j)
            BY <1>3, <1>8, <2>2, <3>2 DEF Covers
        <3>4. QED
            BY <3>2, <3>3
    <2>3. QED
        BY <1>7, <2>1, <2>2, CommittedAssumption
<1>9. Knows(h)'
    <2>1. skipped \subseteq skipped' /\ job.op # "compare"
        BY DEF SkipsRange
    <2>2. UNCHANGED <<told, foretold, seeked>>
        BY DEF SkipsRange
    <2>3. QED
        BY <1>7, <1>8, <2>1, <2>2, KnowsOn
<1>10. Compares(h)'
    BY <1>6 DEF Compares, BothAhead, SkipsRange
<1>11. QED
    BY <1>7, <1>9, <1>10 DEF ReadsOn, StandsAt

\* Next within a range of one side.
LEMMA InsideReadsOn ==
    ASSUME Reader, job' = job, NEW m \in Nat, Knows(m), StandsAt(m), CallNextInside
    PROVE  ReadsOn
<1>1. LeftGiven(m) \/ RightGiven(m)
    BY DEF CallNextInside, StandsAt, ReadsNext, Compares, BothGiven
<1>2. QED
    BY <1>1, InsideLeft, InsideRight

\* NextRange, wherever it may be called.
LEMMA RangeReadsOn ==
    ASSUME Reader, job' = job, NEW m \in Nat, Knows(m), StandsAt(m), CallNextRange
    PROVE  ReadsOn
<1>1. LeftGiven(m) \/ RightGiven(m) \/ BothGiven(m)
    BY DEF CallNextRange, StandsAt, ReadsNext, Compares
<1>2. CASE LeftGiven(m)
    <2>1. inside = "left" /\ ~fresh
        BY <1>2 DEF LeftGiven
    <2>2. source' = source /\ dest' = NextRange(job.dest, dest)
        BY <2>1, ReaderHas DEF CallNextRange, SourceStays
    <2>3. SkipsRange("left", RangeAt(job.dest, dest))
        BY <2>1 DEF CallNextRange, SkipsRange, TellNothing, DestRange
    <2>4. QED
        BY <1>2, <2>2, <2>3, SkipsLeft
<1>3. CASE RightGiven(m)
    <2>1. inside = "right" /\ ~fresh
        BY <1>3 DEF RightGiven
    <2>2. dest' = dest /\ source' = NextRange(job.source, source)
        BY <2>1 DEF CallNextRange, DestStays, SourceNextRange
    <2>3. SkipsRange("right", RangeAt(job.source, source))
        BY <2>1 DEF CallNextRange, SkipsRange, TellNothing, SourceRange
    <2>4. QED
        BY <1>3, <2>2, <2>3, SkipsRight
<1>4. CASE BothGiven(m)
    <2>1. inside = "both" /\ fresh
        BY <1>4 DEF BothGiven
    <2>2. dest' = NextRange(job.dest, dest) /\ source' = NextRange(job.source, source)
        BY <2>1, ReaderHas DEF CallNextRange, SourceNextRange
    <2>3. SkipsRange("both", RangeAt(job.source, source))
        BY <2>1 DEF CallNextRange, SkipsRange, TellNothing, SourceRange
    <2>4. QED
        BY <1>4, <2>2, <2>3, SkipsBoth
<1>5. QED
    BY <1>1, <1>2, <1>3, <1>4

\* A turn that skips, enters or compares finds more to be ahead.
TurnsPast(h) ==
    /\ IsAhead(job.source, source', h) /\ IsAhead(job.dest, dest', h)
    /\ status' \in {"diffing", "reading"} /\ UNCHANGED <<inside, fresh>>

\* ... and compares on from there.
LEMMA TurnsTo ==
    ASSUME job' = job, NEW m \in Nat, Compares(m), NEW h \in Nat, TurnsPast(h)
    PROVE  Compares(h)'
BY DEF TurnsPast, Compares, BothAhead

\* The same range of both sides: where they are within it makes no difference.
LEMMA SameRangeTurn ==
    ASSUME Reader, job' = job, NEW m \in Nat, Knows(m), Compares(m), status = "diffing",
           SameRanges, source' = NextRange(job.source, source), dest' = NextRange(job.dest, dest),
           UNCHANGED <<inside, fresh, status, told, foretold, skipped, seeked>>
    PROVE  ReadsOn
<1>1. IsMetaRange(job.source) /\ IsMetaRange(job.dest)
    BY ReaderHas
<1>2. PICK r : r = RangeAt(job.source, source)
    OBVIOUS
<1>3. PICK h : h = MaxKey(r)
    OBVIOUS
<1>4. /\ Have(job.source, source) /\ Have(job.dest, dest) /\ RangeAt(job.dest, dest) = r
      /\ IsAhead(job.source, source, m) /\ IsAhead(job.dest, dest, m)
      /\ Stands(job.source, source) /\ Stands(job.dest, dest)
    BY <1>2 DEF SameRanges, HaveSource, HaveDest, SourceRange, DestRange, Compares, BothAhead, IsAhead, PassedTo
<1>5. /\ IsAhead(job.source, source', h) /\ IsAhead(job.dest, dest', h)
      /\ h \in 1..LastKey
      /\ MinKey(r) <= Front(job.source, source) /\ Front(job.source, source) <= h
      /\ MinKey(r) <= Front(job.dest, dest)
    BY <1>1, <1>2, <1>3, <1>4, RangeAhead
<1>6. Front(job.source, source) \in Nat /\ Front(job.dest, dest) \in Nat
    BY <1>1, <1>4, WhereItStands, CommittedAssumption
<1>7. h \in Nat /\ m <= h
    <2>1. m < Front(job.source, source)
        BY <1>4 DEF IsAhead
    <2>2. QED
        BY <1>5, <1>6, <2>1, CommittedAssumption
<1>8. source.range \in DOMAIN job.source /\ dest.range \in DOMAIN job.dest
      /\ r = job.source[source.range] /\ r = job.dest[dest.range]
    BY <1>2, <1>4 DEF Have, RangeAt
<1>9. ASSUME NEW j \in 1..LastKey, m < j, j <= h
      PROVE  ~Differs(j)
    <2>1. CASE MinKey(r) <= j
        <3>1. IdOf(job.source, j) = IdIn(r, j) /\ IdOf(job.dest, j) = IdIn(r, j)
            <4>0. MinKey(r) <= j /\ j <= MaxKey(r)
                BY <1>3, <1>9, <2>1
            <4>1. /\ MinKey(job.source[source.range]) <= j /\ j <= MaxKey(job.source[source.range])
                  /\ MinKey(job.dest[dest.range]) <= j /\ j <= MaxKey(job.dest[dest.range])
                  /\ source.range \in DOMAIN job.source /\ dest.range \in DOMAIN job.dest
                BY <1>8, <4>0
            <4>2. IdOf(job.source, j) = IdIn(job.source[source.range], j)
                BY <1>1, <4>1, RangeTells
            <4>3. IdOf(job.dest, j) = IdIn(job.dest[dest.range], j)
                BY <1>1, <4>1, RangeTells
            <4>4. QED
                BY <1>8, <4>2, <4>3
        <3>2. QED
            BY <3>1 DEF Differs, LeftHas, RightHas
    <2>2. CASE j < MinKey(r)
        <3>1. MinKey(r) \in Nat
            <4>1. 1 \in DOMAIN job.source[source.range]
                BY <1>1, <1>8, RangeTypes
            <4>2. QED
                BY <1>1, <1>8, <4>1, WithinRange, CommittedAssumption
        <3>2. j < Front(job.source, source) /\ j < Front(job.dest, dest)
            BY <1>5, <1>6, <2>2, <3>1, CommittedAssumption
        <3>3. LeftHas(j) = 0 /\ RightHas(j) = 0
            BY <1>1, <1>4, <1>9, <3>2, NoneAhead DEF LeftHas, RightHas
        <3>4. QED
            BY <3>3 DEF Differs
    <2>3. MinKey(r) \in Int
        <3>1. 1 \in DOMAIN job.source[source.range]
            BY <1>1, <1>8, RangeTypes
        <3>2. QED
            BY <1>1, <1>8, <3>1, WithinRange, CommittedAssumption
    <2>4. QED
        BY <2>1, <2>2, <2>3
<1>10. Knows(h)'
    BY <1>7, <1>9, KnowsOn
<1>11. Compares(h)'
    <2>1. TurnsPast(h)
        BY <1>5 DEF TurnsPast
    <2>2. QED
        BY <1>7, <2>1, TurnsTo
<1>12. QED
    BY <1>7, <1>10, <1>11 DEF ReadsOn, StandsAt

\* A turn at ranges: the end, two that are the same, or one that is given.
LEMMA RangesTurn ==
    ASSUME Reader, job' = job, NEW m \in Nat, Knows(m), Compares(m), status = "diffing",
           TurnOnRanges, UNCHANGED <<skipped, seeked>>
    PROVE  ReadsOn
<1>1. IsMetaRange(job.source) /\ IsMetaRange(job.dest)
    BY ReaderHas
<1>2. UNCHANGED <<told, foretold>>
    BY DEF TurnOnRanges, TellNothing
<1>3. Knows(m)'
    BY <1>2, KnowsOn
<1>4. IsAhead(job.source, source, m) /\ IsAhead(job.dest, dest, m) /\ inside = "none" /\ ~fresh
    BY DEF Compares, BothAhead
<1>5. /\ Stands(job.source, source) /\ Stands(job.dest, dest)
      /\ ~HaveSource => Front(job.source, source) = LastKey + 1
      /\ ~HaveDest => Front(job.dest, dest) = LastKey + 1
      /\ RightStart => Front(job.source, source) = MinKey(SourceRange)
      /\ LeftStart => Front(job.dest, dest) = MinKey(DestRange)
    BY <1>1, <1>4, WhereItStands DEF IsAhead, PassedTo, HaveSource, HaveDest, RightStart, LeftStart,
                                     SourceRange, DestRange, RangeAt
<1>6. /\ LeftStart => MaxKey(DestRange) \in 1..LastKey
      /\ RightStart => MaxKey(SourceRange) \in 1..LastKey
    BY <1>1, <1>5, RangeAhead DEF LeftStart, RightStart, AtRange, SourceRange, DestRange
<1>7. CASE ~HaveSource /\ ~HaveDest /\ status' = "told" /\ SourceStays /\ DestStays /\ UNCHANGED <<inside, fresh>>
    <2>1. Compares(m)'
        BY <1>4, <1>7 DEF Compares, BothAhead, HaveSource, HaveDest, SourceStays, DestStays
    <2>2. QED
        BY <1>3, <2>1 DEF ReadsOn, StandsAt
<1>8. CASE SameRanges /\ SourceNextRange /\ DestNextRange /\ UNCHANGED <<inside, fresh, status>>
    <2>1. source' = NextRange(job.source, source) /\ dest' = NextRange(job.dest, dest)
        BY <1>8, ReaderHas DEF SourceNextRange
    <2>2. QED
        BY <1>2, <1>8, <2>1, SameRangeTurn
<1>9. CASE LeftRangeBefore /\ GiveRange("left") /\ UNCHANGED fresh
    <2>1. LeftStart /\ MaxKey(DestRange) < Front(job.source, source)
        <3>1. LeftStart
            BY <1>9 DEF LeftRangeBefore
        <3>2. CASE ~HaveSource
            BY <1>5, <1>6, <3>1, <3>2, CommittedAssumption
        <3>3. CASE RightStart /\ MaxKey(DestRange) < MinKey(SourceRange)
            BY <1>5, <3>1, <3>3
        <3>4. QED
            BY <1>9, <3>1, <3>2, <3>3 DEF LeftRangeBefore
    <2>2. Gives(job.dest, dest, m)
        BY <1>4, <2>1 DEF Gives, LeftStart
    <2>3. LeftGiven(m)'
        BY <1>4, <1>9, <2>1, <2>2 DEF LeftGiven, GiveRange, SourceStays, DestStays, DestRange
    <2>4. QED
        BY <1>3, <2>3 DEF ReadsOn, StandsAt
<1>10. CASE RightRangeBefore /\ GiveRange("right") /\ UNCHANGED fresh
    <2>1. RightStart /\ MaxKey(SourceRange) < Front(job.dest, dest)
        <3>1. RightStart
            BY <1>10 DEF RightRangeBefore
        <3>2. CASE ~HaveDest
            BY <1>5, <1>6, <3>1, <3>2, CommittedAssumption
        <3>3. CASE LeftStart /\ MaxKey(SourceRange) < MinKey(DestRange)
            BY <1>5, <3>1, <3>3
        <3>4. QED
            BY <1>10, <3>1, <3>2, <3>3 DEF RightRangeBefore
    <2>2. Gives(job.source, source, m)
        BY <1>4, <2>1 DEF Gives, RightStart
    <2>3. RightGiven(m)'
        BY <1>4, <1>10, <2>1, <2>2 DEF RightGiven, GiveRange, SourceStays, DestStays, SourceRange
    <2>4. QED
        BY <1>3, <2>3 DEF ReadsOn, StandsAt
<1>11. CASE SameBoundsBoth /\ GiveRange("both") /\ fresh' = TRUE
    <2>1. BothGiven(m)'
        BY <1>4, <1>11 DEF BothGiven, BothAhead, SameBoundsBoth, GiveRange, SourceStays, DestStays,
                           LeftStart, RightStart, DestRange, SourceRange
    <2>2. QED
        BY <1>3, <2>1 DEF ReadsOn, StandsAt
<1>12. QED
    BY <1>7, <1>8, <1>9, <1>10, <1>11 DEF TurnOnRanges

\* A turn that enters the range with the smaller key, or both.
LEMMA IntoTurn ==
    ASSUME Reader, job' = job, NEW m \in Nat, Knows(m), Compares(m), status = "diffing",
           TurnIntoRange, UNCHANGED <<skipped, seeked>>
    PROVE  ReadsOn
<1>1. IsMetaRange(job.source) /\ IsMetaRange(job.dest)
    BY ReaderHas
<1>2. IsAhead(job.source, source, m) /\ IsAhead(job.dest, dest, m)
    BY DEF Compares, BothAhead
<1>3. IsAhead(job.dest, dest', m)
    <2>1. dest' = dest \/ (AtRange(job.dest, dest) /\ dest' = Next1(job.dest, dest))
        BY ReaderHas DEF TurnIntoRange, DestStays, LeftStart
    <2>2. QED
        BY <1>1, <1>2, <2>1, HeaderAhead
<1>4. IsAhead(job.source, source', m)
    <2>1. source' = source \/ (AtRange(job.source, source) /\ source' = Next1(job.source, source))
        BY DEF TurnIntoRange, SourceStays, SourceNext, RightStart
    <2>2. QED
        BY <1>1, <1>2, <2>1, HeaderAhead
<1>5. TurnsPast(m)
    BY <1>3, <1>4 DEF TurnsPast, TurnIntoRange
<1>6. Compares(m)'
    BY <1>5, TurnsTo
<1>7. Knows(m)'
    BY KnowsOn DEF TurnIntoRange, TellNothing
<1>8. QED
    BY <1>6, <1>7 DEF ReadsOn, StandsAt

\* A record of both sides, or of one, is next.
LEMMA BothRecords ==
    ASSUME IsMetaRange(job.source), IsMetaRange(job.dest), NEW m \in Nat,
           AtRecord(job.source, source), AtRecord(job.dest, dest),
           IsAhead(job.source, source, m), IsAhead(job.dest, dest, m),
           Front(job.source, source) = Front(job.dest, dest)
    PROVE  LET k == Front(job.dest, dest)
           IN /\ k \in 1..LastKey /\ k > m /\ NoneDiffers(m, k - 1)
              /\ SourceRecord.key = k /\ DestRecord.key = k
              /\ SourceRecord.id = RightHas(k) /\ DestRecord.id = LeftHas(k)
              /\ RightHas(k) # 0 /\ LeftHas(k) # 0
              /\ SourceRecord = DestRecord <=> ~Differs(k)
              /\ IsAhead(job.source, Next1(job.source, source), k)
              /\ IsAhead(job.dest, Next1(job.dest, dest), k)
<1>1. PICK k : k = Front(job.dest, dest)
    OBVIOUS
<1>2. Stands(job.source, source) /\ Stands(job.dest, dest)
    BY DEF IsAhead, PassedTo
<1>3. PICK s : s = SourceRecord
    OBVIOUS
<1>4. PICK d : d = DestRecord
    OBVIOUS
<1>5. /\ s.key = k /\ k \in 1..LastKey /\ s.id = RightHas(k) /\ s.id # 0
      /\ s = [key |-> s.key, id |-> s.id]
      /\ IsAhead(job.source, Next1(job.source, source), k)
    BY <1>1, <1>2, <1>3, RecordAhead DEF SourceRecord, RightHas
<1>6. /\ d.key = k /\ d.id = LeftHas(k) /\ d.id # 0
      /\ d = [key |-> d.key, id |-> d.id]
      /\ IsAhead(job.dest, Next1(job.dest, dest), k)
    BY <1>1, <1>2, <1>4, RecordAhead DEF DestRecord, LeftHas
<1>7. k > m
    BY <1>1, <1>5, CommittedAssumption DEF IsAhead
<1>8. NoneDiffers(m, k - 1)
    <2> SUFFICES ASSUME NEW j \in 1..LastKey, m < j, j <= k - 1 PROVE ~Differs(j)
        BY DEF NoneDiffers
    <2>1. j < k
        BY <1>5, CommittedAssumption
    <2>2. LeftHas(j) = 0 /\ RightHas(j) = 0
        BY <1>1, <2>1, NoneAhead DEF LeftHas, RightHas
    <2>3. QED
        BY <2>2 DEF Differs
<1>9. s = d <=> ~Differs(k)
    <2>1. s = d <=> s.id = d.id
        BY <1>5, <1>6
    <2>2. QED
        BY <1>5, <1>6, <2>1 DEF Differs
<1>10. QED
    BY <1>1, <1>3, <1>4, <1>5, <1>6, <1>7, <1>8, <1>9

\* A turn at records tells the difference at the smaller key, if there is one.
LEMMA RecordsTurn ==
    ASSUME Reader, job' = job, NEW m \in Nat, Knows(m), Compares(m), status = "diffing",
           TurnOnRecords, UNCHANGED <<skipped, seeked>>
    PROVE  ReadsOn
<1>1. IsMetaRange(job.source) /\ IsMetaRange(job.dest)
    BY ReaderHas
<1>2. /\ IsAhead(job.source, source, m) /\ IsAhead(job.dest, dest, m)
      /\ Stands(job.source, source) /\ Stands(job.dest, dest)
    BY DEF Compares, BothAhead, IsAhead, PassedTo
<1>3. PICK l : l = Front(job.dest, dest)
    OBVIOUS
<1>4. PICK r : r = Front(job.source, source)
    OBVIOUS
<1>5. LeftKey = l /\ RightKey = r
    BY <1>3, <1>4 DEF LeftKey, RightKey, Beyond, Front
<1>6. l \in Nat /\ r \in Nat
    BY <1>1, <1>2, <1>3, <1>4, WhereItStands, CommittedAssumption
<1>7. /\ l <= r => AtRecord(job.dest, dest) /\ dest' = Next1(job.dest, dest)
      /\ ~(l <= r) => dest' = dest
      /\ r <= l => AtRecord(job.source, source) /\ source' = Next1(job.source, source)
      /\ ~(r <= l) => source' = source
    BY <1>5, ReaderHas DEF TurnOnRecords, SourceNext, SourceStays, DestStays
<1>8. /\ \/ l < r /\ Tell("removed", DestRecord, DestRecord.id)
         \/ r < l /\ Tell("added", SourceRecord, 0)
         \/ l = r /\ DestRecord # SourceRecord /\ Tell("changed", SourceRecord, DestRecord.id)
         \/ l = r /\ DestRecord = SourceRecord /\ TellNothing /\ UNCHANGED status
      /\ UNCHANGED <<inside, fresh>>
    BY <1>5 DEF TurnOnRecords
<1>9. ASSUME NEW k \in 1..LastKey, k > m, Differs(k), NoneDiffers(m, k - 1), TellsOf(k), status' = "reading",
             IsAhead(job.source, source', k), IsAhead(job.dest, dest', k)
      PROVE  ReadsOn
    <2>1. k \in Nat
        BY CommittedAssumption
    <2>2. TurnsPast(k)
        BY <1>8, <1>9 DEF TurnsPast
    <2>3. Compares(k)'
        BY <2>1, <2>2, TurnsTo
    <2>4. Knows(k)'
        BY <1>9, KnowsOneMore
    <2>5. QED
        BY <2>1, <2>3, <2>4 DEF ReadsOn, StandsAt
<1>10. CASE l < r /\ Tell("removed", DestRecord, DestRecord.id)
    <2>1. AtRecord(job.dest, dest) /\ dest' = Next1(job.dest, dest) /\ source' = source
        BY <1>6, <1>7, <1>10
    <2>2. IsAhead(job.dest, dest', l)
        BY <1>1, <1>2, <1>3, <2>1, RecordAhead
    <2>3. PICK rec : rec = DestRecord
        OBVIOUS
    <2>4. /\ l \in 1..LastKey /\ l > m /\ rec.key = l
          /\ Differs(l) /\ NoneDiffers(m, l - 1)
          /\ "removed" = DifferenceAt(l).type /\ rec.id = DifferenceAt(l).id /\ rec.id = DifferenceAt(l).left
          /\ IsAhead(job.source, source, l)
        BY <1>1, <1>2, <1>3, <1>4, <1>10, <2>1, <2>3, OnlyLeft DEF DestRecord
    <2>5. TellsOf(l) /\ status' = "reading"
        BY <1>10, <2>3, <2>4, TellIs
    <2>6. QED
        BY <1>9, <2>1, <2>2, <2>4, <2>5
<1>11. CASE r < l /\ Tell("added", SourceRecord, 0)
    <2>1. AtRecord(job.source, source) /\ source' = Next1(job.source, source) /\ dest' = dest
        BY <1>6, <1>7, <1>11
    <2>2. IsAhead(job.source, source', r)
        BY <1>1, <1>2, <1>4, <2>1, RecordAhead
    <2>3. PICK rec : rec = SourceRecord
        OBVIOUS
    <2>4. /\ r \in 1..LastKey /\ r > m /\ rec.key = r
          /\ Differs(r) /\ NoneDiffers(m, r - 1)
          /\ "added" = DifferenceAt(r).type /\ rec.id = DifferenceAt(r).id /\ 0 = DifferenceAt(r).left
          /\ IsAhead(job.dest, dest, r)
        BY <1>1, <1>2, <1>3, <1>4, <1>11, <2>1, <2>3, OnlyRight DEF SourceRecord
    <2>5. TellsOf(r) /\ status' = "reading"
        BY <1>11, <2>3, <2>4, TellIs
    <2>6. QED
        BY <1>9, <2>1, <2>2, <2>4, <2>5
<1>12. ASSUME l = r
       PROVE  /\ l \in 1..LastKey /\ l > m /\ NoneDiffers(m, l - 1)
              /\ SourceRecord.key = l
              /\ SourceRecord.id = RightHas(l) /\ DestRecord.id = LeftHas(l)
              /\ RightHas(l) # 0 /\ LeftHas(l) # 0
              /\ SourceRecord = DestRecord <=> ~Differs(l)
              /\ IsAhead(job.source, source', l) /\ IsAhead(job.dest, dest', l)
    <2>1. /\ AtRecord(job.source, source) /\ source' = Next1(job.source, source)
          /\ AtRecord(job.dest, dest) /\ dest' = Next1(job.dest, dest)
        BY <1>6, <1>7, <1>12
    <2>2. QED
        BY <1>1, <1>2, <1>3, <1>4, <1>12, <2>1, BothRecords
<1>13. CASE l = r /\ DestRecord # SourceRecord /\ Tell("changed", SourceRecord, DestRecord.id)
    <2>1. Differs(l)
        BY <1>12, <1>13
    <2>2. /\ DifferenceAt(l).type = "changed" /\ DifferenceAt(l).id = RightHas(l)
          /\ DifferenceAt(l).left = LeftHas(l)
        BY <1>12, <1>13 DEF DifferenceAt
    <2>3. TellsOf(l) /\ status' = "reading"
        BY <1>12, <1>13, <2>2, TellIs
    <2>4. QED
        BY <1>9, <1>12, <1>13, <2>1, <2>3
<1>14. CASE l = r /\ DestRecord = SourceRecord /\ TellNothing /\ UNCHANGED status
    <2>1. ~Differs(l) /\ NoneDiffers(m, l - 1) /\ l > m
        BY <1>12, <1>14
    <2>2. \A j \in 1..LastKey : m < j /\ j <= l => ~Differs(j)
        <3> SUFFICES ASSUME NEW j \in 1..LastKey, m < j, j <= l PROVE ~Differs(j)
            OBVIOUS
        <3>1. j = l \/ j <= l - 1
            BY <1>6, CommittedAssumption
        <3>2. QED
            BY <2>1, <3>1 DEF NoneDiffers
    <2>3. m <= l
        BY <1>6, <2>1
    <2>4. Knows(l)'
        BY <1>6, <1>14, <2>2, <2>3, KnowsOn DEF TellNothing
    <2>5. TurnsPast(l)
        BY <1>8, <1>12, <1>14 DEF TurnsPast
    <2>6. Compares(l)'
        BY <1>6, <2>5, TurnsTo
    <2>7. QED
        BY <1>6, <2>4, <2>6 DEF ReadsOn, StandsAt
<1>15. QED
    BY <1>8, <1>10, <1>11, <1>13, <1>14

\* Any turn.
LEMMA TurnReadsOn ==
    ASSUME Reader, job' = job, NEW m \in Nat, Knows(m), StandsAt(m), Turn
    PROVE  ReadsOn
<1>1. status = "diffing" /\ UNCHANGED <<skipped, seeked>>
    BY DEF Turn
<1>2. Compares(m)
    BY <1>1 DEF StandsAt, ReadsNext, LeftGiven, RightGiven, BothGiven
<1>3. CASE TurnOnRanges
    BY <1>1, <1>2, <1>3, RangesTurn
<1>4. CASE TurnIntoRange
    BY <1>1, <1>2, <1>4, IntoTurn
<1>5. CASE TurnOnRecords
    BY <1>1, <1>2, <1>5, RecordsTurn
<1>6. TurnOnRanges \/ TurnIntoRange \/ TurnOnRecords
    BY DEF Turn
<1>7. QED
    BY <1>3, <1>4, <1>5, <1>6

\* Where a reader stands is told by its own variables and the request.
LEMMA StandsStill ==
    ASSUME UNCHANGED vars, NEW m \in Nat, Knows(m), StandsAt(m)
    PROVE  ReadsOn
<1>1. /\ job' = job /\ source' = source /\ dest' = dest /\ status' = status
      /\ inside' = inside /\ fresh' = fresh
      /\ told' = told /\ foretold' = foretold /\ skipped' = skipped /\ seeked' = seeked
    BY DEF vars, mergeVars, diffVars
<1>2. Knows(m)'
    BY <1>1, KnowsOn
<1>3. StandsAt(m)'
    <2>1. CASE ReadsNext(m)
        <3>1. ReadsNext(m)'
            BY <1>1, <2>1 DEF ReadsNext
        <3>2. QED
            BY <3>1 DEF StandsAt
    <2>2. CASE Compares(m)
        <3>1. Compares(m)'
            BY <1>1, <2>2 DEF Compares, BothAhead
        <3>2. QED
            BY <3>1 DEF StandsAt
    <2>3. CASE LeftGiven(m)
        <3>1. LeftGiven(m)'
            BY <1>1, <2>3 DEF LeftGiven
        <3>2. QED
            BY <3>1 DEF StandsAt
    <2>4. CASE RightGiven(m)
        <3>1. RightGiven(m)'
            BY <1>1, <2>4 DEF RightGiven
        <3>2. QED
            BY <3>1 DEF StandsAt
    <2>5. CASE BothGiven(m)
        <3>1. BothGiven(m)'
            BY <1>1, <2>5 DEF BothGiven, BothAhead
        <3>2. QED
            BY <3>1 DEF StandsAt
    <2>6. QED
        BY <2>1, <2>2, <2>3, <2>4, <2>5 DEF StandsAt
<1>4. QED
    BY <1>2, <1>3 DEF ReadsOn

\* Any step.
LEMMA ReaderStep ==
    ASSUME Reader, job' = job, NEW m \in Nat, Knows(m), StandsAt(m), [Next]_vars
    PROVE  ReadsOn
<1>1. UNCHANGED vars \/ DiffNext
    BY DiffStepsAre DEF Reader
<1>2. CASE UNCHANGED vars
    BY <1>2, StandsStill
<1>3. CASE DiffNext
    <2>1. CASE CallNextFresh
        BY <2>1, FreshReadsOn
    <2>2. CASE CallNext
        BY <2>2, NextReadsOn
    <2>3. CASE CallNextInside
        BY <2>3, InsideReadsOn
    <2>4. CASE CallNextRange
        BY <2>4, RangeReadsOn
    <2>5. CASE \E key \in 1..LastKey : CallSeekGE(key)
        <3>1. PICK key \in 1..LastKey : CallSeekGE(key)
            BY <2>5
        <3>2. QED
            BY <3>1, SeekReadsOn
    <2>6. CASE Turn
        BY <2>6, TurnReadsOn
    <2>7. CallNextFresh \/ CallNext \/ CallNextInside \/ CallNextRange \/ (\E key \in 1..LastKey : CallSeekGE(key)) \/ Turn
        BY <1>3 DEF DiffNext
    <2>8. QED
        BY <2>1, <2>2, <2>3, <2>4, <2>5, <2>6, <2>7
<1>4. QED
    BY <1>1, <1>2, <1>3

-----------------------------------------------------------------------------

\* A reader always knows and stands somewhere.
ReaderInv ==
    /\ IsDiff => \E m \in Nat : Knows(m) /\ StandsAt(m)
    /\ ~IsDiff => told = <<>>

\* At first it knows of no key, and stands before all.
LEMMA ReaderInit == Init => ReaderInv
<1> SUFFICES ASSUME Init PROVE ReaderInv
    OBVIOUS
<1>1. /\ IsRequest(job) /\ status = "begin" /\ fresh /\ inside = "none"
      /\ source = Start /\ dest = DestStart
      /\ told = <<>> /\ foretold = <<>> /\ skipped = {} /\ seeked = 0
    BY DEF Init, MergeInit, DiffInit, DestStart
<1>2. IsMetaRange(job.source) /\ IsMetaRange(job.dest)
    BY <1>1 DEF IsRequest
<1>3. IsAhead(job.source, Next1(job.source, source), 0)
    <2>1. source.range = 0 /\ source.rec = 0 /\ {"range", "rec"} \subseteq DOMAIN source
        BY <1>1 DEF Start
    <2>2. PassedTo(job.source, Next1(job.source, source), 0) /\ Stands(job.source, Next1(job.source, source))
        BY <1>2, <2>1, FirstMove
    <2>3. Front(job.source, Next1(job.source, source)) \in 1..(LastKey + 1)
        BY <1>2, <2>2, WhereItStands
    <2>4. QED
        BY <2>2, <2>3, CommittedAssumption DEF IsAhead
<1>4. IsAhead(job.dest, Next1(job.dest, dest), 0)
    <2>1. dest.range = 0 /\ dest.rec = 0 /\ {"range", "rec"} \subseteq DOMAIN dest
        BY <1>1 DEF DestStart
    <2>2. PassedTo(job.dest, Next1(job.dest, dest), 0) /\ Stands(job.dest, Next1(job.dest, dest))
        BY <1>2, <2>1, FirstMove
    <2>3. Front(job.dest, Next1(job.dest, dest)) \in 1..(LastKey + 1)
        BY <1>2, <2>2, WhereItStands
    <2>4. QED
        BY <2>2, <2>3, CommittedAssumption DEF IsAhead
<1>5. StandsAt(0)
    BY <1>1, <1>3, <1>4 DEF StandsAt, ReadsNext
<1>6. DOMAIN told = {} /\ DOMAIN foretold = {}
    BY <1>1
<1>7. ToldInOrder
    <2>1. told \in Seq(Differences)
        <3> HIDE DEF Differences
        <3>1. QED
            BY <1>1
    <2>2. QED
        BY <1>6, <2>1 DEF ToldInOrder
<1>8. ToldTo(0)
    <2>1. \A k \in 1..LastKey : ~(k <= 0)
        BY CommittedAssumption
    <2>2. QED
        BY <1>6, <2>1 DEF ToldTo
<1>9. ForetoldAsTold
    <2>1. foretold \in Seq(Meanings)
        <3> HIDE DEF Meanings
        <3>1. QED
            BY <1>1
    <2>2. \A k : ~Told(k) /\ ~IsForetold(k)
        BY <1>6 DEF Told, IsForetold
    <2>3. QED
        BY <1>1, <2>1, <2>2 DEF ForetoldAsTold
<1>10. Knows(0)
    <2>1. seeked \in 0..LastKey /\ seeked <= 0 + 1
        BY <1>1, CommittedAssumption
    <2>2. QED
        BY <1>7, <1>8, <1>9, <2>1 DEF Knows
<1>11. QED
    BY <1>1, <1>5, <1>10 DEF ReaderInv

\* Only a reader is told anything.
LEMMA OthersAreNotTold ==
    ASSUME ~IsDiff, [Next]_vars, told = <<>>
    PROVE  told' = <<>>
<1>1. ~DiffNext
    <2>1. ~Reading /\ ~Turn
        BY DEF IsDiff, Reading, Turn
    <2>2. QED
        BY <2>1 DEF DiffNext, CallNextFresh, CallNext, CallNextInside, CallNextRange, CallSeekGE
<1>2. told' = told
    <2>1. CASE UNCHANGED vars
        BY <2>1 DEF vars, diffVars
    <2>2. CASE UNCHANGED diffVars
        BY <2>2 DEF diffVars
    <2>3. UNCHANGED vars \/ UNCHANGED diffVars
        BY <1>1 DEF Next, Answered
    <2>4. QED
        BY <2>1, <2>2, <2>3
<1>3. QED
    BY <1>2

\* The invariant is inductive, given that of the manager.
LEMMA ReaderStays == CommittedInv /\ ReaderInv /\ [Next]_vars => ReaderInv'
<1> SUFFICES ASSUME CommittedInv, ReaderInv, [Next]_vars PROVE ReaderInv'
    OBVIOUS
<1>1. job' = job
    BY CommittedStep
<1>2. IsDiff' <=> IsDiff
    BY <1>1 DEF IsDiff
<1>3. CASE IsDiff
    <2>1. PICK m \in Nat : Knows(m) /\ StandsAt(m)
        BY <1>3 DEF ReaderInv
    <2>2. Reader
        BY <1>3 DEF Reader, CommittedInv
    <2>3. ReadsOn
        BY <1>1, <2>1, <2>2, ReaderStep
    <2>4. QED
        BY <1>2, <1>3, <2>3 DEF ReaderInv, ReadsOn
<1>4. CASE ~IsDiff
    BY <1>2, <1>4, OthersAreNotTold DEF ReaderInv
<1>5. QED
    BY <1>3, <1>4

LEMMA ReaderAlways == Spec => [](CommittedInv /\ ReaderInv)
<1>1. CommittedInv /\ ReaderInv /\ [Next]_vars => CommittedInv' /\ ReaderInv'
    BY CommittedStep, ReaderStays
<1>2. QED
    BY <1>1, CommittedInit, ReaderInit, PTL DEF Spec

\* The sides of the properties are those of a reader.
LEMMA ReaderSides ==
    ASSUME IsRequest(job), IsDiff, NEW k
    PROVE  /\ Promise!At(DestSide, k) = LeftHas(k)
           /\ Promise!At(SourceSide, k) = RightHas(k)
           /\ Promise!At(Contents(job.base), k) = BaseId(k)
<1>1. job.op # "commit" /\ job.prefixes = <<>>
    BY DEF IsRequest, IsDiff
<1>2. \A j : ~UnderPrefix(j)
    BY <1>1 DEF UnderPrefix
<1>3. PICK c : c = Contents(job.dest)
    OBVIOUS
<1>4. DestSide = [j \in DOMAIN c |-> c[j]]
    BY <1>1, <1>2, <1>3 DEF DestSide
<1>5. Promise!At(DestSide, k) = LeftHas(k)
    BY <1>3, <1>4 DEF LeftHas, IdOf, Promise!At
<1>6. SourceSide = Contents(job.source)
    BY <1>1 DEF SourceSide
<1>7. Promise!At(SourceSide, k) = RightHas(k)
    BY <1>6 DEF RightHas, IdOf
<1>8. Promise!At(Contents(job.base), k) = BaseId(k)
    BY DEF BaseId, Promise!At, Promise!Absent
<1>9. QED
    BY <1>5, <1>7, <1>8

\* At the end nothing differs that it does not know.
LEMMA NoneIsLeft ==
    ASSUME Reader, NEW m \in Nat, StandsAt(m), status = "told", NEW k \in 1..LastKey, k > m
    PROVE  ~Differs(k)
<1>1. Compares(m)
    BY DEF StandsAt, ReadsNext, LeftGiven, RightGiven, BothGiven
<1>2. /\ ~Have(job.source, source) /\ ~Have(job.dest, dest)
      /\ IsAhead(job.source, source, m) /\ IsAhead(job.dest, dest, m)
    BY <1>1 DEF Compares, BothAhead
<1>3. IsMetaRange(job.source) /\ IsMetaRange(job.dest)
    BY ReaderHas
<1>4. Front(job.source, source) = LastKey + 1 /\ Front(job.dest, dest) = LastKey + 1
    BY <1>2, <1>3, WhereItStands DEF IsAhead, PassedTo
<1>5. k < LastKey + 1 /\ m < k
    BY CommittedAssumption
<1>6. LeftHas(k) = 0
    BY <1>2, <1>3, <1>4, <1>5, NoneAhead DEF LeftHas
<1>7. RightHas(k) = 0
    BY <1>2, <1>3, <1>4, <1>5, NoneAhead DEF RightHas
<1>8. QED
    BY <1>6, <1>7 DEF Differs

\* Who knows and stands somewhere was told what differs.
LEMMA ReadersHear ==
    ASSUME Reader, NEW m \in Nat, Knows(m), StandsAt(m)
    PROVE  DiffTells
<1>1. /\ told \in Seq(Differences) /\ ToldTo(m) /\ seeked \in 0..LastKey
      /\ \A n, o \in DOMAIN told : n < o => told[n].key < told[o].key
    BY DEF Knows, ToldInOrder
<1>2. IsRequest(job) /\ IsDiff
    BY DEF Reader
<1>3. Len(told) \in Nat /\ DOMAIN told = 1..Len(told)
    <2> HIDE DEF Differences
    <2>1. QED
        BY <1>1
<1>4. \A n \in 1..(Len(told) - 1) : told[n].key < told[n + 1].key
    <2> SUFFICES ASSUME NEW n \in 1..(Len(told) - 1) PROVE told[n].key < told[n + 1].key
        OBVIOUS
    <2>1. n \in DOMAIN told /\ n + 1 \in DOMAIN told /\ n < n + 1
        BY <1>3
    <2>2. QED
        BY <1>1, <2>1
<1>5. ASSUME NEW n \in DOMAIN told
      PROVE  LET k == told[n].key
                 l == Promise!At(DestSide, k)
                 r == Promise!At(SourceSide, k)
             IN /\ k >= seeked /\ l # r
                /\ told[n].type = IF l = 0 THEN "added" ELSE IF r = 0 THEN "removed" ELSE "changed"
    <2>1. PICK k : k = told[n].key
        OBVIOUS
    <2>2. k \in 1..LastKey /\ told[n] = DifferenceAt(k)
        BY <1>1, <1>5, <2>1, ToldAreDifferences
    <2>3. seeked <= k /\ Differs(k)
        BY <1>1, <1>5, <2>1 DEF ToldTo
    <2>4. k >= seeked
        BY <1>1, <2>2, <2>3, CommittedAssumption
    <2>5. told[n].type = IF LeftHas(k) = 0 THEN "added" ELSE IF RightHas(k) = 0 THEN "removed" ELSE "changed"
        BY <2>2 DEF DifferenceAt
    <2>6. Promise!At(DestSide, k) = LeftHas(k) /\ Promise!At(SourceSide, k) = RightHas(k)
        BY <1>2, ReaderSides
    <2>7. QED
        BY <2>1, <2>3, <2>4, <2>5, <2>6 DEF Differs
<1>6. ASSUME status = "told", NEW k \in (IF seeked = 0 THEN 1 ELSE seeked)..LastKey,
             Promise!At(DestSide, k) # Promise!At(SourceSide, k)
      PROVE  (\E n \in DOMAIN told : told[n].key = k) \/ (\E skip \in skipped : Covers(skip, k))
    <2>1. k \in 1..LastKey /\ seeked <= k
        BY <1>1, <1>6, CommittedAssumption
    <2>2. Differs(k)
        BY <1>2, <1>6, ReaderSides DEF Differs
    <2>3. k <= m
        BY <1>6, <2>1, <2>2, NoneIsLeft
    <2>4. QED
        BY <1>1, <2>1, <2>2, <2>3 DEF ToldTo, Told
<1>7. status = "told" =>
        \A k \in (IF seeked = 0 THEN 1 ELSE seeked)..LastKey :
            Promise!At(DestSide, k) # Promise!At(SourceSide, k) =>
                \/ \E n \in DOMAIN told : told[n].key = k
                \/ \E skip \in skipped : Covers(skip, k)
    BY <1>6
<1>8. QED
    BY <1>4, <1>5, <1>7 DEF DiffTells

\* Whoever reads the differences of two meta-ranges is told each of them once,
\* in order, with its type, and nothing else, however ranges are entered,
\* skipped and sought (diff.go, diffIterator).
THEOREM ReadersAreTold == Spec => []DiffTells
<1>1. CommittedInv /\ ReaderInv => DiffTells
    <2> SUFFICES ASSUME CommittedInv, ReaderInv PROVE DiffTells
        OBVIOUS
    <2>1. IsRequest(job)
        BY DEF CommittedInv
    <2>2. CASE IsDiff
        <3>1. PICK m \in Nat : Knows(m) /\ StandsAt(m)
            BY <2>2 DEF ReaderInv
        <3>2. Reader
            BY <2>2 DEF Reader, CommittedInv
        <3>3. QED
            BY <3>1, <3>2, ReadersHear
    <2>3. CASE ~IsDiff
        <3>1. told = <<>>
            BY <2>3 DEF ReaderInv
        <3>2. DOMAIN told = {} /\ Len(told) = 0
            BY <3>1
        <3>3. 1..(Len(told) - 1) = {}
            BY <3>2
        <3>4. status # "told"
            BY <2>1, <2>3, Operations DEF CommittedInv, MergeInv, CommitInv
        <3>5. QED
            BY <3>2, <3>3, <3>4 DEF DiffTells
    <2>4. QED
        BY <2>2, <2>3
<1>2. QED
    BY <1>1, ReaderAlways, PTL

-----------------------------------------------------------------------------

\* What a difference means for a merge is what the merge would do.
LEMMA MeaningIsForetold ==
    ASSUME IsRequest(job), IsDiff, NEW k \in 1..LastKey
    PROVE  /\ Differs(k) => MeaningAt(k).type = Foretold(k)
           /\ ~Differs(k) => Foretold(k) = "nothing"
<1>1. PICK l : l = LeftHas(k)
    OBVIOUS
<1>2. PICK r : r = RightHas(k)
    OBVIOUS
<1>3. PICK b : b = BaseId(k)
    OBVIOUS
<1>4. /\ Promise!At(DestSide, k) = l /\ Promise!At(SourceSide, k) = r
      /\ Promise!At(Contents(job.base), k) = b
    BY <1>1, <1>2, <1>3, ReaderSides
<1>5. Promise!Conflicting(k) <=> r # l /\ r # b /\ l # b
    BY <1>4 DEF Promise!Conflicting
<1>6. ~Promise!Conflicting(k) => Promise!Outcome(k) = IF r = b THEN l ELSE r
    BY <1>4 DEF Promise!Outcome
<1>7. Foretold(k) =
        IF r # l /\ r # b /\ l # b THEN "conflict"
        ELSE IF (IF r = b THEN l ELSE r) = l THEN "nothing"
        ELSE IF l = 0 THEN "added"
        ELSE IF (IF r = b THEN l ELSE r) = 0 THEN "removed" ELSE "changed"
    BY <1>4, <1>5, <1>6 DEF Foretold
<1>8. PICK d : d = DifferenceAt(k)
    OBVIOUS
<1>9. /\ d.key = k /\ d.left = l
      /\ d.type = IF l = 0 THEN "added" ELSE IF r = 0 THEN "removed" ELSE "changed"
      /\ d.id = IF r = 0 THEN l ELSE r
    BY <1>1, <1>2, <1>8 DEF DifferenceAt
<1>10. MeaningAt(k).type = Meaning(d)
    BY <1>8 DEF MeaningAt
<1>11. ASSUME l # r PROVE Meaning(d) = Foretold(k)
    <2>1. BaseId(d.key) = b
        BY <1>3, <1>9
    <2>2. CASE l = 0
        <3>1. d.type = "added" /\ d.id = r /\ r # 0
            BY <1>9, <1>11, <2>2
        <3>2. Meaning(d) = IF b = 0 THEN "added" ELSE IF b = r THEN "nothing" ELSE "conflict"
            BY <2>1, <3>1 DEF Meaning
        <3>3. QED
            BY <1>7, <2>2, <3>1, <3>2
    <2>3. CASE l # 0 /\ r = 0
        <3>1. d.type = "removed"
            BY <1>9, <2>3
        <3>2. Meaning(d) = IF b = 0 THEN "nothing" ELSE IF b = l THEN "removed" ELSE "conflict"
            BY <1>9, <2>1, <3>1 DEF Meaning
        <3>3. QED
            BY <1>7, <2>3, <3>2
    <2>4. CASE l # 0 /\ r # 0
        <3>1. d.type = "changed" /\ d.id = r
            BY <1>9, <2>4
        <3>2. Meaning(d) = IF b = 0 THEN "conflict" ELSE IF b = r THEN "nothing"
                           ELSE IF b = l THEN "changed" ELSE "conflict"
            BY <1>9, <2>1, <3>1 DEF Meaning
        <3>3. QED
            BY <1>7, <1>11, <2>4, <3>2
    <2>5. QED
        BY <2>2, <2>3, <2>4
<1>12. l = r => Foretold(k) = "nothing"
    BY <1>7
<1>13. QED
    BY <1>1, <1>2, <1>10, <1>11, <1>12 DEF Differs

\* At the end of a comparison all that a merge would do is foretold.
LEMMA AllIsForetold ==
    ASSUME Reader, NEW m \in Nat, Knows(m), StandsAt(m), job.op = "compare", status = "told",
           NEW k \in 1..LastKey
    PROVE  {foretold[n].type : n \in {o \in DOMAIN foretold : foretold[o].key = k}}
             = IF k < seeked \/ Foretold(k) = "nothing" THEN {} ELSE {Foretold(k)}
<1>1. /\ ForetoldAsTold /\ ToldTo(m) /\ seeked \in 0..LastKey
    BY DEF Knows
<1>2. IsRequest(job) /\ IsDiff
    BY DEF Reader
<1>3. /\ skipped = {} /\ foretold \in Seq(Meanings)
      /\ IsForetold(k) <=> Told(k) /\ MeaningAt(k).type # "nothing"
    BY <1>1 DEF ForetoldAsTold
<1>4. Told(k) <=> seeked <= k /\ Differs(k)
    <2>1. Told(k) => seeked <= k /\ Differs(k)
        BY <1>1 DEF Told, ToldTo
    <2>2. ASSUME seeked <= k, Differs(k) PROVE Told(k)
        <3>1. k <= m
            BY <2>2, NoneIsLeft
        <3>2. QED
            BY <1>1, <1>3, <2>2, <3>1 DEF ToldTo
    <2>3. QED
        BY <2>1, <2>2
<1>5. /\ Differs(k) => MeaningAt(k).type = Foretold(k)
      /\ ~Differs(k) => Foretold(k) = "nothing"
    BY <1>2, MeaningIsForetold
<1>6. IsForetold(k) <=> ~(k < seeked) /\ Foretold(k) # "nothing"
    <2>1. seeked <= k <=> ~(k < seeked)
        BY <1>1, CommittedAssumption
    <2>2. QED
        BY <1>3, <1>4, <1>5, <2>1
<1>7. ASSUME NEW n \in DOMAIN foretold, foretold[n].key = k PROVE foretold[n].type = Foretold(k)
    <2>1. foretold[n] = MeaningAt(k)
        BY <1>3, <1>7, ForetoldAreMeanings
    <2>2. IsForetold(k)
        BY <1>7 DEF IsForetold
    <2>3. QED
        BY <1>3, <1>4, <1>5, <2>1, <2>2
<1>8. CASE IsForetold(k)
    <2>1. \E n \in DOMAIN foretold : foretold[n].key = k
        BY <1>8 DEF IsForetold
    <2>2. {foretold[n].type : n \in {o \in DOMAIN foretold : foretold[o].key = k}} = {Foretold(k)}
        BY <1>7, <2>1
    <2>3. QED
        BY <1>6, <1>8, <2>2
<1>9. CASE ~IsForetold(k)
    <2>1. {foretold[n].type : n \in {o \in DOMAIN foretold : foretold[o].key = k}} = {}
        BY <1>9 DEF IsForetold
    <2>2. QED
        BY <1>6, <1>9, <2>1
<1>10. QED
    BY <1>8, <1>9

\* What a comparison shows of a merge before it (compare_iterator.go) is what
\* the table of merge.md makes of every key: the same conflicts and the same
\* changes.
THEOREM ComparisonsForetell == Spec => []CompareForetells
<1>1. CommittedInv /\ ReaderInv => CompareForetells
    <2> SUFFICES ASSUME CommittedInv, ReaderInv, job.op = "compare", status = "told"
                 PROVE  \A k \in 1..LastKey :
                            {foretold[n].type : n \in {o \in DOMAIN foretold : foretold[o].key = k}}
                              = IF k < seeked \/ Foretold(k) = "nothing" THEN {} ELSE {Foretold(k)}
        BY DEF CompareForetells
    <2>1. IsDiff /\ Reader
        BY DEF IsDiff, Reader, CommittedInv
    <2>2. PICK m \in Nat : Knows(m) /\ StandsAt(m)
        BY <2>1 DEF ReaderInv
    <2>3. QED
        BY <2>1, <2>2, AllIsForetold
<1>2. QED
    BY <1>1, ReaderAlways, PTL
=============================================================================
