-------------------------- MODULE CommittedProofs --------------------------
(***************************************************************************)
(* Of the committed manager, for any requests, any number of keys and any  *)
(* keys that close a range: its type invariant, that the ranges of what it *)
(* writes are apart, that the summary of a commit counts what differs, and *)
(* that a merge, an import and a commit keep the promise of ThreeWayMerge. *)
(*                                                                         *)
(* The argument: between two steps of a walk there is a key up to which    *)
(* all is settled (SettledTo for a merge and an import, CommittedTo for a  *)
(* commit).  The iterators have passed what is not after it and have ahead *)
(* what is, and the writer has what these keys are to become.  A step      *)
(* passes some keys and writes some records (Passes, Turns), which decides *)
(* how far all is settled after it (Settling, CommitAdvances).             *)
(***************************************************************************)
EXTENDS Committed, FiniteSetTheorems, TLAPS

IdOf(mr, k) == Promise!At(Contents(mr), k)

\* A set of natural numbers has a least element.
LEMMA LeastNumber ==
    ASSUME NEW I, I \subseteq Nat, I # {}
    PROVE  \E i \in I : \A j \in I : i <= j
<1> DEFINE R == OpToRel(<, Nat)
<1>1. IsWellFoundedOn(R, Nat)
    BY NatLessThanWellFounded
<1>2. \A i, j \in Nat : <<i, j>> \in R <=> i < j
    BY DEF OpToRel
<1> HIDE DEF R
<1>3. PICK i \in I : \A j \in I : <<j, i>> \notin R
    BY <1>1, WFMin, Zenon
<1>4. \A j \in I : i \in Nat /\ j \in Nat /\ ~(j < i)
    BY <1>2, <1>3
<1>5. \A j \in I : i <= j
    BY <1>4
<1>6. QED
    BY <1>5

LEMMA MinOfNumbers ==
    ASSUME NEW I, I \subseteq Nat, I # {}
    PROVE  Seqs!Min(I) \in I /\ Seqs!Min(I) \in Nat /\ \A i \in I : Seqs!Min(I) <= i
<1>1. \E i \in I : \A j \in I : i <= j
    BY LeastNumber
<1>2. QED
    BY <1>1 DEF Seqs!Min

-----------------------------------------------------------------------------
(* Meta-ranges *)

LEMMA RangeTypes ==
    ASSUME NEW mr, IsMetaRange(mr), NEW n \in DOMAIN mr
    PROVE  /\ Len(mr) \in Nat /\ DOMAIN mr = 1..Len(mr) /\ n \in Nat
           /\ Len(mr[n]) \in Nat \ {0} /\ DOMAIN mr[n] = 1..Len(mr[n])
           /\ 1 \in DOMAIN mr[n] /\ Len(mr[n]) \in DOMAIN mr[n]
           /\ \A i \in DOMAIN mr[n] :
                /\ mr[n][i] = [key |-> mr[n][i].key, id |-> mr[n][i].id]
                /\ mr[n][i].key \in 1..LastKey /\ mr[n][i].id \in Nat \ {0}
           /\ mr[n] # <<>>
<1> DEFINE R == [key : 1..LastKey, id : Nat \ {0}]
<1>1. mr \in Seq(Seq(R)) /\ mr[n] # <<>>
    BY DEF IsMetaRange, Identities
<1>2. \A i \in DOMAIN mr[n] : mr[n][i] \in R =>
         /\ mr[n][i] = [key |-> mr[n][i].key, id |-> mr[n][i].id]
         /\ mr[n][i].key \in 1..LastKey /\ mr[n][i].id \in Nat \ {0}
    OBVIOUS
<1> HIDE DEF R
<1>3. mr[n] \in Seq(R) /\ Len(mr) \in Nat /\ DOMAIN mr = 1..Len(mr) /\ n \in Nat
    BY <1>1
<1>4. Len(mr[n]) \in Nat /\ DOMAIN mr[n] = 1..Len(mr[n]) /\ Len(mr[n]) # 0
    BY <1>1, <1>3
<1>5. \A i \in DOMAIN mr[n] : mr[n][i] \in R
    BY <1>3, <1>4
<1>6. QED
    BY <1>1, <1>2, <1>3, <1>4, <1>5

\* The keys of a range are between the first and the last.
LEMMA WithinRange ==
    ASSUME NEW mr, IsMetaRange(mr), NEW n \in DOMAIN mr, NEW i \in DOMAIN mr[n]
    PROVE  /\ MinKey(mr[n]) <= mr[n][i].key /\ mr[n][i].key <= MaxKey(mr[n])
           /\ MinKey(mr[n]) = mr[n][1].key /\ MaxKey(mr[n]) = mr[n][Len(mr[n])].key
           /\ MinKey(mr[n]) \in 1..LastKey /\ MaxKey(mr[n]) \in 1..LastKey
           /\ MinKey(mr[n]) <= MaxKey(mr[n])
           /\ mr[n][i].key \in 1..LastKey
<1>1. /\ Len(mr[n]) \in Nat /\ DOMAIN mr[n] = 1..Len(mr[n])
      /\ 1 \in DOMAIN mr[n] /\ Len(mr[n]) \in DOMAIN mr[n]
    BY RangeTypes
<1>2. \A o \in DOMAIN mr[n] : mr[n][o].key \in 1..LastKey
    BY RangeTypes
<1>3. \A o, p \in DOMAIN mr[n] : o < p => mr[n][o].key < mr[n][p].key
    BY DEF IsMetaRange, Sorted
<1> DEFINE key(o) == mr[n][o].key
<1>4. \A o, p \in 1..Len(mr[n]) : key(o) \in Nat /\ (o < p => key(o) < key(p))
    BY <1>1, <1>2, <1>3, CommittedAssumption
<1> HIDE DEF key
<1>5. i \in 1..Len(mr[n]) /\ 1 \in 1..Len(mr[n])
    BY <1>1
<1>6. key(1) <= key(i) /\ key(i) <= key(Len(mr[n])) /\ key(1) <= key(Len(mr[n]))
    BY <1>1, <1>4, <1>5
<1>7. QED
    BY <1>1, <1>2, <1>6 DEF key, MinKey, MaxKey

\* Records are in the order of their keys, over all ranges.
LEMMA KeysAscend ==
    ASSUME NEW mr, IsMetaRange(mr),
           NEW n \in DOMAIN mr, NEW i \in DOMAIN mr[n], NEW m \in DOMAIN mr, NEW j \in DOMAIN mr[m]
    PROVE  /\ n < m \/ (n = m /\ i < j) => mr[n][i].key < mr[m][j].key
           /\ mr[n][i].key = mr[m][j].key => n = m /\ i = j
<1>1. /\ n \in Nat /\ Len(mr[n]) \in Nat /\ DOMAIN mr[n] = 1..Len(mr[n])
      /\ 1 \in DOMAIN mr[n] /\ Len(mr[n]) \in DOMAIN mr[n]
    BY RangeTypes
<1>2. /\ m \in Nat /\ Len(mr[m]) \in Nat /\ DOMAIN mr[m] = 1..Len(mr[m])
      /\ 1 \in DOMAIN mr[m] /\ Len(mr[m]) \in DOMAIN mr[m]
    BY RangeTypes
<1>3. \A l \in DOMAIN mr : \A o \in DOMAIN mr[l] : mr[l][o].key \in 1..LastKey
    BY RangeTypes
<1>4. \A l \in DOMAIN mr : \A o \in DOMAIN mr[l] : mr[l][o].key \in Nat
    BY <1>3, CommittedAssumption
<1>5. \A l \in DOMAIN mr : \A o, p \in DOMAIN mr[l] : o < p => mr[l][o].key < mr[l][p].key
    BY DEF IsMetaRange, Sorted
<1>6. \A l, o \in DOMAIN mr : l < o => mr[l][Len(mr[l])].key < mr[o][1].key
    BY DEF IsMetaRange, Sorted, MinKey, MaxKey
<1>7. /\ mr[n][i].key <= mr[n][Len(mr[n])].key /\ mr[m][1].key <= mr[m][j].key
      /\ mr[m][j].key <= mr[m][Len(mr[m])].key /\ mr[n][1].key <= mr[n][i].key
    BY WithinRange
<1>8. CASE n < m
    <2>1. mr[n][Len(mr[n])].key < mr[m][1].key
        BY <1>6, <1>8
    <2>2. mr[n][i].key < mr[m][j].key
        BY <1>1, <1>2, <1>4, <1>7, <2>1
    <2>3. QED
        BY <1>1, <1>2, <1>4, <1>8, <2>2
<1>9. CASE m < n
    <2>1. mr[m][Len(mr[m])].key < mr[n][1].key
        BY <1>6, <1>9
    <2>2. mr[m][j].key < mr[n][i].key
        BY <1>1, <1>2, <1>4, <1>7, <2>1
    <2>3. QED
        BY <1>1, <1>2, <1>4, <1>9, <2>2
<1>10. CASE n = m
    <2>1. i \in Nat /\ j \in Nat
        BY <1>1, <1>2
    <2>2. i < j => mr[n][i].key < mr[m][j].key
        BY <1>5, <1>10
    <2>3. j < i => mr[m][j].key < mr[n][i].key
        BY <1>5, <1>10
    <2>4. mr[n][i].key \in Nat /\ mr[m][j].key \in Nat
        BY <1>4
    <2>5. mr[n][i].key = mr[m][j].key => i = j
        BY <2>1, <2>2, <2>3, <2>4
    <2>6. QED
        BY <1>1, <1>10, <2>2, <2>5
<1>11. QED
    BY <1>1, <1>2, <1>8, <1>9, <1>10

LEMMA RecordsOf ==
    ASSUME NEW mr
    PROVE  /\ \A n \in DOMAIN mr : \A i \in DOMAIN mr[n] : mr[n][i] \in Records(mr)
           /\ \A rec \in Records(mr) : \E n \in DOMAIN mr : \E i \in DOMAIN mr[n] : rec = mr[n][i]
BY DEF Records, Seqs!ToSet

\* What a meta-range holds, by its records.
LEMMA Holds ==
    ASSUME NEW mr, IsMetaRange(mr), NEW n \in DOMAIN mr, NEW i \in DOMAIN mr[n]
    PROVE  /\ mr[n][i].key \in DOMAIN Contents(mr)
           /\ Contents(mr)[mr[n][i].key] = mr[n][i].id
           /\ IdOf(mr, mr[n][i].key) = mr[n][i].id
           /\ mr[n][i].id \in Nat \ {0} /\ mr[n][i].key \in 1..LastKey
<1> DEFINE rec == mr[n][i]
<1>1. rec \in Records(mr)
    BY RecordsOf
<1>2. \A other \in Records(mr) : other.key = rec.key => other = rec
    BY RecordsOf, KeysAscend
<1>3. (CHOOSE other \in Records(mr) : other.key = rec.key) = rec
    BY <1>1, <1>2
<1>4. rec.key \in DOMAIN Contents(mr) /\ Contents(mr)[rec.key] = rec.id
    BY <1>1, <1>3 DEF Contents
<1>5. QED
    BY <1>4, RangeTypes DEF IdOf, Promise!At

LEMMA HeldBy ==
    ASSUME NEW mr, IsMetaRange(mr), NEW k
    PROVE  /\ k \in DOMAIN Contents(mr) =>
                \E n \in DOMAIN mr : \E i \in DOMAIN mr[n] :
                    k = mr[n][i].key /\ IdOf(mr, k) = mr[n][i].id
           /\ k \in DOMAIN Contents(mr) <=> IdOf(mr, k) # 0
           /\ k \in DOMAIN Contents(mr) => k \in 1..LastKey /\ IdOf(mr, k) \in Nat
           /\ k \notin DOMAIN Contents(mr) => IdOf(mr, k) = 0
<1>1. ASSUME k \in DOMAIN Contents(mr)
      PROVE  \E n \in DOMAIN mr : \E i \in DOMAIN mr[n] : k = mr[n][i].key
    BY <1>1, RecordsOf DEF Contents
<1>2. ASSUME k \in DOMAIN Contents(mr)
      PROVE  \E n \in DOMAIN mr : \E i \in DOMAIN mr[n] :
                    k = mr[n][i].key /\ IdOf(mr, k) = mr[n][i].id /\ mr[n][i].id \in Nat \ {0}
                    /\ mr[n][i].key \in 1..LastKey
    BY <1>1, <1>2, Holds
<1>3. k \notin DOMAIN Contents(mr) => IdOf(mr, k) = 0
    BY DEF IdOf, Promise!At, Promise!Absent
<1>4. QED
    BY <1>2, <1>3

-----------------------------------------------------------------------------
(* Iterators *)

\* An iterator that has been moved.
Stands(mr, it) ==
    /\ {"range", "rec"} \subseteq DOMAIN it
    /\ it.range \in 1..(Len(mr) + 1)
    /\ it.rec \in Nat
    /\ Have(mr, it) => it.rec <= Len(mr[it.range])
    /\ ~Have(mr, it) => it.rec = 0

\* The smallest key it has ahead.
Front(mr, it) == KeyAhead(mr, it, LastKey + 1)

LEMMA WhereItStands ==
    ASSUME NEW mr, IsMetaRange(mr), NEW it, Stands(mr, it)
    PROVE  /\ Len(mr) \in Nat /\ DOMAIN mr = 1..Len(mr)
           /\ it.range \in Nat /\ it.rec \in Nat
           /\ Have(mr, it) <=> it.range <= Len(mr)
           /\ ~Have(mr, it) => it.range = Len(mr) + 1 /\ it.rec = 0 /\ Front(mr, it) = LastKey + 1
           /\ AtRange(mr, it) => Have(mr, it) /\ it.rec = 0 /\ Front(mr, it) = MinKey(mr[it.range])
           /\ AtRecord(mr, it) => /\ Have(mr, it) /\ it.rec \in DOMAIN mr[it.range]
                                  /\ Front(mr, it) = mr[it.range][it.rec].key
           /\ Have(mr, it) <=> AtRange(mr, it) \/ AtRecord(mr, it)
           /\ ~(AtRange(mr, it) /\ AtRecord(mr, it))
           /\ Front(mr, it) \in 1..(LastKey + 1)
           /\ Have(mr, it) => Front(mr, it) \in 1..LastKey
<1>1. Len(mr) \in Nat /\ DOMAIN mr = 1..Len(mr)
    BY DEF IsMetaRange
<1>2. /\ it.range \in Nat /\ it.rec \in Nat
      /\ Have(mr, it) <=> it.range <= Len(mr)
      /\ ~Have(mr, it) => it.range = Len(mr) + 1 /\ it.rec = 0
    BY <1>1 DEF Stands, Have
<1>3. /\ Have(mr, it) <=> AtRange(mr, it) \/ AtRecord(mr, it)
      /\ ~(AtRange(mr, it) /\ AtRecord(mr, it))
    BY <1>2 DEF AtRange, AtRecord
<1>4. ~Have(mr, it) => Front(mr, it) = LastKey + 1
    BY <1>3 DEF Front, KeyAhead
<1>5. ASSUME AtRange(mr, it)
      PROVE  it.rec = 0 /\ Front(mr, it) = MinKey(mr[it.range]) /\ MinKey(mr[it.range]) \in 1..LastKey
    <2>1. Have(mr, it) /\ it.rec = 0 /\ it.range \in DOMAIN mr
        BY <1>5 DEF AtRange, Have
    <2>2. Front(mr, it) = MinKey(mr[it.range])
        BY <1>3, <1>5 DEF Front, KeyAhead, RangeAt
    <2>3. 1 \in DOMAIN mr[it.range]
        BY <2>1, RangeTypes
    <2>4. QED
        BY <2>1, <2>2, <2>3, WithinRange
<1>6. ASSUME AtRecord(mr, it)
      PROVE  /\ it.rec \in DOMAIN mr[it.range] /\ Front(mr, it) = mr[it.range][it.rec].key
             /\ mr[it.range][it.rec].key \in 1..LastKey
    <2>1. Have(mr, it) /\ it.rec > 0 /\ it.range \in DOMAIN mr /\ it.rec <= Len(mr[it.range])
        BY <1>6 DEF AtRecord, Have, Stands
    <2>2. Front(mr, it) = mr[it.range][it.rec].key
        BY <1>3, <1>6 DEF Front, KeyAhead, Record
    <2>3. Len(mr[it.range]) \in Nat /\ DOMAIN mr[it.range] = 1..Len(mr[it.range])
        BY <2>1, RangeTypes
    <2>4. it.rec \in DOMAIN mr[it.range]
        BY <1>2, <2>1, <2>3
    <2>5. QED
        BY <2>1, <2>2, <2>4, WithinRange
<1>7. QED
    BY <1>1, <1>2, <1>3, <1>4, <1>5, <1>6, CommittedAssumption

\* What it has behind it is what has a smaller key.
LEMMA Frontier ==
    ASSUME NEW mr, IsMetaRange(mr), NEW it, Stands(mr, it),
           NEW n \in DOMAIN mr, NEW i \in DOMAIN mr[n]
    PROVE  (n < it.range \/ (n = it.range /\ i < it.rec)) <=> mr[n][i].key < Front(mr, it)
<1>1. /\ mr[n][i].key \in 1..LastKey /\ MinKey(mr[n]) <= mr[n][i].key
      /\ MinKey(mr[n]) = mr[n][1].key
    BY WithinRange
<1>2. n \in Nat /\ i \in Nat /\ n <= Len(mr) /\ 1 <= i /\ Len(mr) \in Nat
    BY RangeTypes
<1>3. it.range \in Nat /\ it.rec \in Nat
    BY WhereItStands
<1>4. CASE ~Have(mr, it)
    <2>1. it.range = Len(mr) + 1 /\ Front(mr, it) = LastKey + 1
        BY <1>4, WhereItStands
    <2>2. QED
        BY <1>1, <1>2, <2>1, CommittedAssumption
<1>5. CASE AtRecord(mr, it)
    <2>1. it.rec \in DOMAIN mr[it.range] /\ it.range \in DOMAIN mr /\ Front(mr, it) = mr[it.range][it.rec].key
        BY <1>5, WhereItStands DEF Have
    <2>2. mr[it.range][it.rec].key \in 1..LastKey
        BY <2>1, WithinRange
    <2>3. n < it.range \/ (n = it.range /\ i < it.rec) => mr[n][i].key < mr[it.range][it.rec].key
        BY <2>1, KeysAscend
    <2>4. it.range < n \/ (it.range = n /\ it.rec < i) => mr[it.range][it.rec].key < mr[n][i].key
        BY <2>1, KeysAscend
    <2>5. n = it.range /\ i = it.rec => mr[n][i].key = mr[it.range][it.rec].key
        OBVIOUS
    <2>6. mr[n][i].key \in Nat /\ mr[it.range][it.rec].key \in Nat
        BY <1>1, <2>2, CommittedAssumption
    <2>7. QED
        BY <1>2, <1>3, <2>1, <2>3, <2>4, <2>5, <2>6
<1>6. CASE AtRange(mr, it)
    <2>1. it.rec = 0 /\ it.range \in DOMAIN mr /\ Front(mr, it) = MinKey(mr[it.range])
        BY <1>6, WhereItStands DEF Have
    <2>2. 1 \in DOMAIN mr[it.range]
        BY <2>1, RangeTypes
    <2>3. MinKey(mr[it.range]) = mr[it.range][1].key /\ mr[it.range][1].key \in 1..LastKey
        BY <2>1, <2>2, WithinRange
    <2>4. n < it.range => mr[n][i].key < mr[it.range][1].key
        BY <2>1, <2>2, KeysAscend
    <2>5. it.range < n => mr[it.range][1].key < mr[n][i].key
        BY <2>1, <2>2, KeysAscend
    <2>6. n = it.range => mr[it.range][1].key <= mr[n][i].key
        BY <1>1
    <2>7. mr[n][i].key \in Nat /\ mr[it.range][1].key \in Nat
        BY <1>1, <2>3, CommittedAssumption
    <2>8. QED
        BY <1>2, <1>3, <2>1, <2>3, <2>4, <2>5, <2>6, <2>7
<1>7. QED
    BY <1>4, <1>5, <1>6, WhereItStands

\* A move, of one step or over a range.
Moved(it, nx) == DOMAIN nx = DOMAIN it /\ \A f \in DOMAIN it \ {"range", "rec"} : nx[f] = it[f]

\* Of the keys of a meta-range, those above passed are ahead.
PassedTo(mr, nx, passed) ==
    /\ Stands(mr, nx)
    /\ \A k \in DOMAIN Contents(mr) : k > passed => k >= Front(mr, nx)

LEMMA NextRangeFields ==
    ASSUME NEW mr, IsMetaRange(mr), NEW it, {"range", "rec"} \subseteq DOMAIN it,
           it.range \in 0..(Len(mr) + 1)
    PROVE  /\ Moved(it, NextRange(mr, it))
           /\ NextRange(mr, it).range = IF it.range = Len(mr) + 1 THEN it.range ELSE it.range + 1
           /\ NextRange(mr, it).rec = 0
           /\ Stands(mr, NextRange(mr, it))
           /\ ~AtRecord(mr, NextRange(mr, it))
<1>1. Len(mr) \in Nat /\ DOMAIN mr = 1..Len(mr)
    BY DEF IsMetaRange
<1>2. /\ NextRange(mr, it).range = (IF it.range > Len(mr) THEN it.range ELSE it.range + 1)
      /\ NextRange(mr, it).rec = 0 /\ DOMAIN NextRange(mr, it) = DOMAIN it
    BY DEF NextRange
<1>3. \A f \in DOMAIN it \ {"range", "rec"} : NextRange(mr, it)[f] = it[f]
    BY DEF NextRange
<1>4. (IF it.range > Len(mr) THEN it.range ELSE it.range + 1) = (IF it.range = Len(mr) + 1 THEN it.range ELSE it.range + 1)
    BY <1>1
<1>5. NextRange(mr, it).range \in 1..(Len(mr) + 1)
    BY <1>1, <1>2
<1>6. ASSUME Have(mr, NextRange(mr, it))
      PROVE  0 <= Len(mr[NextRange(mr, it).range])
    <2>1. NextRange(mr, it).range \in DOMAIN mr
        BY <1>6 DEF Have
    <2>2. QED
        BY <2>1, RangeTypes
<1>7. Stands(mr, NextRange(mr, it))
    BY <1>2, <1>5, <1>6 DEF Stands
<1>8. QED
    BY <1>2, <1>3, <1>4, <1>7 DEF Moved, AtRecord

\* Over a range: what is behind it is ahead.
LEMMA OverRange ==
    ASSUME NEW mr, IsMetaRange(mr), NEW it, Stands(mr, it), Have(mr, it)
    PROVE  LET nx == NextRange(mr, it)
           IN /\ PassedTo(mr, nx, MaxKey(mr[it.range]))
              /\ MaxKey(mr[it.range]) < Front(mr, nx)
              /\ Moved(it, nx)
              /\ nx.range = it.range + 1 /\ nx.rec = 0
<1> DEFINE nx == NextRange(mr, it)
           l == Len(mr[it.range])
<1>1. it.range \in DOMAIN mr /\ it.range \in Nat /\ it.range <= Len(mr) /\ Len(mr) \in Nat
    BY WhereItStands DEF Have
<1>2. Moved(it, nx) /\ nx.range = it.range + 1 /\ nx.rec = 0 /\ Stands(mr, nx)
    BY <1>1, NextRangeFields DEF Stands
<1>3. l \in DOMAIN mr[it.range] /\ MaxKey(mr[it.range]) = mr[it.range][l].key
      /\ DOMAIN mr[it.range] = 1..l /\ l \in Nat
    BY <1>1, RangeTypes, WithinRange
<1> HIDE DEF nx
<1>4. mr[it.range][l].key < Front(mr, nx)
    BY <1>1, <1>2, <1>3, Frontier
<1>5. ASSUME NEW k \in DOMAIN Contents(mr), k > MaxKey(mr[it.range])
      PROVE  k >= Front(mr, nx)
    <2>1. PICK n \in DOMAIN mr : \E i \in DOMAIN mr[n] : k = mr[n][i].key
        BY HeldBy
    <2>1a. PICK i \in DOMAIN mr[n] : k = mr[n][i].key
        BY <2>1
    <2>2. n \in Nat /\ i \in Nat
        BY RangeTypes
    <2>3. k \in 1..LastKey /\ Front(mr, nx) \in 1..(LastKey + 1) /\ MaxKey(mr[it.range]) \in 1..LastKey
        BY <1>2, <1>1, <1>3, HeldBy, WhereItStands, WithinRange
    <2>4. n = it.range => k <= MaxKey(mr[it.range])
        BY <2>1a, WithinRange
    <2>5. n < it.range => k < MaxKey(mr[it.range])
        BY <1>1, <1>3, <2>1a, KeysAscend
    <2>6. it.range + 1 <= n
        BY <1>1, <1>5, <2>2, <2>3, <2>4, <2>5, CommittedAssumption
    <2>7. ~(n < nx.range) /\ ~(i < nx.rec)
        BY <1>1, <1>2, <2>2, <2>6, RangeTypes
    <2>8. ~(k < Front(mr, nx))
        BY <1>2, <2>1a, <2>7, Frontier
    <2>9. QED
        BY <2>3, <2>8, CommittedAssumption
<1>6. QED
    BY <1>2, <1>3, <1>4, <1>5 DEF PassedTo, nx

\* What an iterator passes is given by what stands before it.
LEMMA PassedBy ==
    ASSUME NEW mr, IsMetaRange(mr), NEW nx, Stands(mr, nx), NEW passed \in Nat,
           \A n \in DOMAIN mr : \A i \in DOMAIN mr[n] :
               n < nx.range \/ (n = nx.range /\ i < nx.rec) => mr[n][i].key <= passed
    PROVE  PassedTo(mr, nx, passed)
<1>1. SUFFICES ASSUME NEW k \in DOMAIN Contents(mr), k > passed
               PROVE  k >= Front(mr, nx)
    BY DEF PassedTo
<1>2. PICK n \in DOMAIN mr : \E i \in DOMAIN mr[n] : k = mr[n][i].key
    BY HeldBy
<1>3. PICK i \in DOMAIN mr[n] : k = mr[n][i].key
    BY <1>2
<1>4. k \in 1..LastKey /\ Front(mr, nx) \in 1..(LastKey + 1)
    BY HeldBy, WhereItStands
<1>5. ~(k < Front(mr, nx))
    <2>1. ASSUME n < nx.range \/ (n = nx.range /\ i < nx.rec)
          PROVE  FALSE
        BY <1>1, <1>3, <1>4, <2>1, CommittedAssumption
    <2>2. QED
        BY <1>3, <2>1, Frontier
<1>6. QED
    BY <1>4, <1>5, CommittedAssumption

LEMMA FirstMove ==
    ASSUME NEW mr, IsMetaRange(mr), NEW it, {"range", "rec"} \subseteq DOMAIN it,
           it.range = 0, it.rec = 0
    PROVE  /\ PassedTo(mr, Next1(mr, it), 0) /\ Moved(it, Next1(mr, it))
           /\ Next1(mr, it) = NextRange(mr, it) /\ Next1(mr, it).range = 1
           /\ ~AtRecord(mr, Next1(mr, it))
           /\ Stands(mr, Next1(mr, it))
<1>1. Len(mr) \in Nat /\ DOMAIN mr = 1..Len(mr)
    BY DEF IsMetaRange
<1>2. Next1(mr, it) = NextRange(mr, it)
    BY <1>1 DEF Next1, Have
<1> DEFINE nx == NextRange(mr, it)
<1>3. Moved(it, nx) /\ nx.range = 1 /\ nx.rec = 0 /\ Stands(mr, nx) /\ ~AtRecord(mr, nx)
    BY <1>1, NextRangeFields
<1> HIDE DEF nx
<1>4. ASSUME NEW n \in DOMAIN mr, NEW i \in DOMAIN mr[n], n < nx.range \/ (n = nx.range /\ i < nx.rec)
      PROVE  FALSE
    <2>1. n \in Nat /\ n >= 1 /\ i \in Nat /\ i >= 1
        BY <1>1, RangeTypes
    <2>2. QED
        BY <1>3, <1>4, <2>1
<1>5. PassedTo(mr, nx, 0)
    BY <1>3, <1>4, PassedBy
<1>6. QED
    BY <1>2, <1>3, <1>5 DEF nx

LEMMA OverRecord ==
    ASSUME NEW mr, IsMetaRange(mr), NEW it, Stands(mr, it), AtRecord(mr, it)
    PROVE  LET nx == Next1(mr, it)
               rec == mr[it.range][it.rec]
           IN /\ PassedTo(mr, nx, rec.key)
              /\ rec.key < Front(mr, nx)
              /\ Moved(it, nx)
              /\ AtRecord(mr, nx) => nx.range = it.range
              /\ Stands(mr, nx)
              /\ nx.range = it.range \/ nx.range = it.range + 1
              /\ nx.range = it.range => nx.rec = it.rec + 1 /\ it.rec < Len(mr[it.range])
              /\ nx.range = it.range + 1 => nx.rec = 0 /\ it.rec = Len(mr[it.range])
<1> DEFINE nx == Next1(mr, it)
           rec == mr[it.range][it.rec]
           l == Len(mr[it.range])
<1>1. /\ it.range \in DOMAIN mr /\ it.rec \in DOMAIN mr[it.range] /\ it.range \in Nat /\ it.rec \in Nat
      /\ Have(mr, it) /\ it.rec # 0
    BY WhereItStands DEF Have, AtRecord
<1>2. l \in Nat /\ DOMAIN mr[it.range] = 1..l /\ it.rec <= l
    BY <1>1, RangeTypes
<1>3. CASE it.rec < l
    <2>1. nx = [it EXCEPT !.rec = it.rec + 1]
        BY <1>1, <1>3 DEF Next1, RangeAt
    <2>2. {"range", "rec"} \subseteq DOMAIN it /\ it.range \in 1..(Len(mr) + 1)
        BY DEF Stands
    <2>3. nx.range = it.range /\ nx.rec = it.rec + 1 /\ Moved(it, nx) /\ DOMAIN nx = DOMAIN it
        BY <2>1, <2>2 DEF Moved
    <2> HIDE DEF nx
    <2>4. Stands(mr, nx) /\ it.rec + 1 \in DOMAIN mr[it.range]
        BY <1>1, <1>2, <1>3, <2>2, <2>3 DEF Stands, Have
    <2>5. rec.key < Front(mr, nx)
        BY <1>1, <2>3, <2>4, Frontier
    <2>6. ASSUME NEW n \in DOMAIN mr, NEW i \in DOMAIN mr[n], n < nx.range \/ (n = nx.range /\ i < nx.rec)
          PROVE  mr[n][i].key <= rec.key
        <3>1. i \in Nat /\ n \in Nat
            BY RangeTypes
        <3>2. n < it.range \/ (n = it.range /\ i < it.rec) \/ (n = it.range /\ i = it.rec)
            BY <1>1, <2>3, <2>6, <3>1
        <3>3. mr[n][i].key \in 1..LastKey /\ rec.key \in 1..LastKey
            BY <1>1, WithinRange
        <3>4. n < it.range \/ (n = it.range /\ i < it.rec) => mr[n][i].key < rec.key
            BY <1>1, KeysAscend
        <3>5. mr[n][i].key < rec.key \/ mr[n][i].key = rec.key
            BY <3>2, <3>4
        <3>6. QED
            BY <3>3, <3>5, CommittedAssumption
    <2>7. rec.key \in Nat
        BY <1>1, WithinRange, CommittedAssumption
    <2>8. PassedTo(mr, nx, rec.key)
        BY <2>4, <2>6, <2>7, PassedBy
    <2>9. QED
        BY <1>1, <1>3, <2>3, <2>4, <2>5, <2>8 DEF nx
<1>4. CASE it.rec = l
    <2>1. nx = NextRange(mr, it)
        BY <1>1, <1>2, <1>4 DEF Next1, RangeAt
    <2>2. rec.key = MaxKey(mr[it.range])
        BY <1>1, <1>4, WithinRange
    <2>3. it.range \in 0..(Len(mr) + 1) /\ {"range", "rec"} \subseteq DOMAIN it
        BY <1>1, WhereItStands DEF Stands
    <2>4. ~AtRecord(mr, nx) /\ Stands(mr, nx)
        BY <2>1, <2>3, NextRangeFields
    <2>5. QED
        BY <1>1, <1>4, <2>1, <2>2, <2>4, OverRange DEF nx
<1>5. it.rec < l \/ it.rec = l
    BY <1>1, <1>2
<1>6. QED
    BY <1>3, <1>4, <1>5

LEMMA IntoRange ==
    ASSUME NEW mr, IsMetaRange(mr), NEW it, Stands(mr, it), AtRange(mr, it)
    PROVE  LET nx == Next1(mr, it)
           IN /\ PassedTo(mr, nx, Front(mr, it) - 1)
              /\ Front(mr, nx) = Front(mr, it)
              /\ AtRecord(mr, nx) /\ nx.range = it.range /\ nx.rec = 1
              /\ Moved(it, nx)
<1> DEFINE nx == Next1(mr, it)
<1>1. /\ it.range \in DOMAIN mr /\ it.rec = 0 /\ it.range \in Nat /\ Have(mr, it)
      /\ Front(mr, it) = MinKey(mr[it.range])
    BY WhereItStands DEF Have
<1>2. Len(mr[it.range]) \in Nat \ {0} /\ 1 \in DOMAIN mr[it.range]
    BY <1>1, RangeTypes
<1>3. nx = [it EXCEPT !.rec = 1]
    BY <1>1, <1>2 DEF Next1, RangeAt
<1>4. {"range", "rec"} \subseteq DOMAIN it /\ it.range \in 1..(Len(mr) + 1)
    BY DEF Stands
<1>5. nx.range = it.range /\ nx.rec = 1 /\ Moved(it, nx) /\ DOMAIN nx = DOMAIN it
    BY <1>3, <1>4 DEF Moved
<1> HIDE DEF nx
<1>6. Stands(mr, nx) /\ AtRecord(mr, nx)
    BY <1>1, <1>2, <1>4, <1>5 DEF Stands, Have, AtRecord
<1>7. Front(mr, nx) = mr[it.range][1].key
    BY <1>5, <1>6, WhereItStands
<1>8. Front(mr, nx) = Front(mr, it) /\ Front(mr, it) \in 1..LastKey
    BY <1>1, <1>2, <1>7, WithinRange
<1>9. ASSUME NEW n \in DOMAIN mr, NEW i \in DOMAIN mr[n], n < nx.range \/ (n = nx.range /\ i < nx.rec)
      PROVE  mr[n][i].key <= Front(mr, it) - 1
    <2>1. mr[n][i].key < Front(mr, nx)
        BY <1>6, <1>9, Frontier
    <2>2. mr[n][i].key \in 1..LastKey
        BY WithinRange
    <2>3. QED
        BY <1>8, <2>1, <2>2, CommittedAssumption
<1>10. PassedTo(mr, nx, Front(mr, it) - 1)
    BY <1>6, <1>8, <1>9, PassedBy, CommittedAssumption
<1>11. QED
    BY <1>5, <1>6, <1>8, <1>10 DEF nx

\* The keys of one range are between its bounds, and no others of the
\* meta-range are.
LEMMA RangeAlone ==
    ASSUME NEW mr, IsMetaRange(mr), NEW n \in DOMAIN mr,
           NEW k, MinKey(mr[n]) <= k, k <= MaxKey(mr[n]), k \in DOMAIN Contents(mr)
    PROVE  \E i \in DOMAIN mr[n] : k = mr[n][i].key
<1>1. PICK m \in DOMAIN mr : \E j \in DOMAIN mr[m] : k = mr[m][j].key
    BY HeldBy
<1>2. PICK j \in DOMAIN mr[m] : k = mr[m][j].key
    BY <1>1
<1>3. n \in Nat /\ m \in Nat /\ 1 \in DOMAIN mr[n] /\ Len(mr[n]) \in DOMAIN mr[n]
    BY RangeTypes
<1>4. /\ MinKey(mr[n]) = mr[n][1].key /\ MaxKey(mr[n]) = mr[n][Len(mr[n])].key
      /\ MinKey(mr[n]) \in 1..LastKey /\ MaxKey(mr[n]) \in 1..LastKey /\ k \in 1..LastKey
    BY <1>3, WithinRange, HeldBy
<1>5. m < n => k < MinKey(mr[n])
    BY <1>2, <1>3, <1>4, KeysAscend
<1>6. n < m => MaxKey(mr[n]) < k
    BY <1>2, <1>3, <1>4, KeysAscend
<1>7. m = n
    BY <1>3, <1>4, <1>5, <1>6, CommittedAssumption
<1>8. QED
    BY <1>2, <1>7

\* The identity that a range alone has for a key.
IdIn(range, k) ==
    IF \E i \in DOMAIN range : range[i].key = k
    THEN range[CHOOSE i \in DOMAIN range : range[i].key = k].id
    ELSE 0

LEMMA RangeTells ==
    ASSUME NEW mr, IsMetaRange(mr), NEW n \in DOMAIN mr, NEW k
    PROVE  /\ MinKey(mr[n]) <= k /\ k <= MaxKey(mr[n]) => IdOf(mr, k) = IdIn(mr[n], k)
           /\ \A i \in DOMAIN mr[n] : mr[n][i].key = k => mr[n][i].id = IdIn(mr[n], k)
           /\ IdIn(mr[n], k) # 0 => \E i \in DOMAIN mr[n] : mr[n][i].key = k /\ mr[n][i].id = IdIn(mr[n], k)
           /\ IdIn(mr[n], k) # 0 => MinKey(mr[n]) <= k /\ k <= MaxKey(mr[n])
<1>1. ASSUME NEW i \in DOMAIN mr[n], mr[n][i].key = k
      PROVE  mr[n][i].id = IdIn(mr[n], k)
    <2>1. \A j \in DOMAIN mr[n] : mr[n][j].key = k => j = i
        BY <1>1, KeysAscend
    <2>2. (CHOOSE j \in DOMAIN mr[n] : mr[n][j].key = k) = i
        BY <1>1, <2>1
    <2>3. QED
        BY <1>1, <2>2 DEF IdIn
<1>2. ASSUME IdIn(mr[n], k) # 0
      PROVE  \E i \in DOMAIN mr[n] : mr[n][i].key = k /\ mr[n][i].id = IdIn(mr[n], k)
    <2>1. \E i \in DOMAIN mr[n] : mr[n][i].key = k
        BY <1>2 DEF IdIn
    <2>2. QED
        BY <1>1, <2>1
<1>3. ASSUME MinKey(mr[n]) <= k, k <= MaxKey(mr[n])
      PROVE  IdOf(mr, k) = IdIn(mr[n], k)
    <2>1. CASE k \in DOMAIN Contents(mr)
        <3>1. PICK i \in DOMAIN mr[n] : k = mr[n][i].key
            BY <1>3, <2>1, RangeAlone
        <3>2. IdOf(mr, k) = mr[n][i].id
            BY <3>1, Holds
        <3>3. QED
            BY <1>1, <3>1, <3>2
    <2>2. CASE k \notin DOMAIN Contents(mr)
        <3>1. IdOf(mr, k) = 0
            BY <2>2, HeldBy
        <3>2. ~\E i \in DOMAIN mr[n] : mr[n][i].key = k
            BY <2>2, Holds
        <3>3. QED
            BY <3>1, <3>2 DEF IdIn
    <2>3. QED
        BY <2>1, <2>2
<1>4. QED
    BY <1>1, <1>2, <1>3, WithinRange

-----------------------------------------------------------------------------
(* The iterator that leaves out what is under the prefixes *)

Under(ps, k) == \E n \in DOMAIN ps : HasPrefix(k, ps[n])

ArePrefixes(ps) ==
    /\ ps \in Seq([lo : 1..LastKey, hi : 1..LastKey])
    /\ \A n, m \in DOMAIN ps : n < m => ps[n].lo <= ps[m].lo

\* It has passed prefixes that end before what is ahead.
Skips(mr, ps, it) ==
    /\ it = [range |-> it.range, rec |-> it.rec, prefix |-> it.prefix]
    /\ Stands(mr, it)
    /\ it.prefix \in 1..(Len(ps) + 1)
    /\ \A n \in DOMAIN ps : n < it.prefix => ps[n].hi < Front(mr, it)

\* It is up to date for the place where it is.
Stays(ps, p, key, last) ==
    \/ p > Len(ps)
    \/ key <= ps[p].hi
    \/ p < Len(ps) /\ ps[p + 1].lo > last

\* Where it has come to, when of what is above passed it leaves out only what
\* is under a prefix.
LeavesOut(mr, ps, nx, passed) ==
    /\ Skips(mr, ps, nx)
    /\ AtRecord(mr, nx) => ~Under(ps, Front(mr, nx))
    /\ \A k \in DOMAIN Contents(mr) : k > passed => k >= Front(mr, nx) \/ Under(ps, k)

LEMMA PrefixTypes ==
    ASSUME NEW ps, ArePrefixes(ps)
    PROVE  /\ Len(ps) \in Nat /\ DOMAIN ps = 1..Len(ps)
           /\ \A n \in DOMAIN ps : ps[n].lo \in Nat /\ ps[n].hi \in Nat /\ ps[n].hi <= LastKey
<1> DEFINE P == [lo : 1..LastKey, hi : 1..LastKey]
<1>1. ps \in Seq(P)
    BY DEF ArePrefixes
<1>2. \A p \in P : p.lo \in 1..LastKey /\ p.hi \in 1..LastKey
    OBVIOUS
<1> HIDE DEF P
<1>3. Len(ps) \in Nat /\ DOMAIN ps = 1..Len(ps)
    BY <1>1
<1>4. \A n \in DOMAIN ps : ps[n].lo \in 1..LastKey /\ ps[n].hi \in 1..LastKey
    BY <1>1, <1>2, <1>3
<1>5. QED
    BY <1>3, <1>4, CommittedAssumption

LEMMA UpdatedTo ==
    ASSUME NEW mr, IsMetaRange(mr), NEW ps, ArePrefixes(ps), NEW it, Skips(mr, ps, it), Have(mr, it)
    PROVE  LET u == Updated(mr, ps, it)
           IN /\ u = [range |-> it.range, rec |-> it.rec, prefix |-> u.prefix]
              /\ Front(mr, u) = Front(mr, it)
              /\ Skips(mr, ps, u)
              /\ Stays(ps, u.prefix, Front(mr, it), MaxKey(mr[it.range]))
              /\ AtRecord(mr, u) <=> AtRecord(mr, it)
<1> DEFINE key == IF it.rec = 0 THEN MinKey(mr[it.range]) ELSE mr[it.range][it.rec].key
           S == {p \in it.prefix..(Len(ps) + 1) : Stays(ps, p, key, MaxKey(mr[it.range]))}
           p == Seqs!Min(S)
           u == Updated(mr, ps, it)
<1>1. Len(ps) \in Nat /\ DOMAIN ps = 1..Len(ps) /\ it.prefix \in 1..(Len(ps) + 1)
    BY PrefixTypes DEF Skips
<1>2. key = Front(mr, it) /\ key \in 1..LastKey
    <2>1. Stands(mr, it)
        BY DEF Skips
    <2>2. AtRange(mr, it) => it.rec = 0 /\ Front(mr, it) = MinKey(mr[it.range])
        BY <2>1, WhereItStands
    <2>3. AtRecord(mr, it) => it.rec # 0 /\ Front(mr, it) = mr[it.range][it.rec].key
        BY <2>1, WhereItStands DEF AtRecord
    <2>4. Front(mr, it) \in 1..LastKey
        BY <2>1, WhereItStands
    <2>5. AtRange(mr, it) \/ AtRecord(mr, it)
        BY <2>1, WhereItStands
    <2>6. QED
        BY <2>2, <2>3, <2>4, <2>5
<1>3. u = [it EXCEPT !.prefix = p]
    BY DEF Updated, UpdatePrefix, RangeAt, Stays
<1> HIDE DEF key
<1>4. Len(ps) + 1 \in S /\ S \subseteq Nat
    BY <1>1 DEF Stays
<1>5. p \in S /\ \A q \in S : p <= q
    BY <1>4, MinOfNumbers
<1>6. p \in it.prefix..(Len(ps) + 1) /\ Stays(ps, p, key, MaxKey(mr[it.range]))
    BY <1>5
<1>7. ASSUME NEW q \in DOMAIN ps, q < p
      PROVE  ps[q].hi < key
    <2>1. CASE q < it.prefix
        BY <1>2, <2>1 DEF Skips
    <2>2. CASE q >= it.prefix
        <3>1. q \in it.prefix..(Len(ps) + 1)
            BY <1>1, <2>2
        <3>2. q \notin S
            BY <1>1, <1>4, <1>5, <1>7
        <3>3. ~(key <= ps[q].hi)
            BY <3>1, <3>2 DEF Stays
        <3>4. QED
            BY <1>2, <3>3, PrefixTypes, CommittedAssumption
    <2>3. QED
        BY <1>1, <2>1, <2>2
<1> HIDE DEF S, p
<1>8. u = [range |-> it.range, rec |-> it.rec, prefix |-> p]
    BY <1>3 DEF Skips
<1> HIDE DEF u
<1>9. u.range = it.range /\ u.rec = it.rec /\ u.prefix = p
    BY <1>8
<1>10. /\ Front(mr, u) = Front(mr, it) /\ (AtRecord(mr, u) <=> AtRecord(mr, it))
       /\ Have(mr, u) = Have(mr, it)
    BY <1>9 DEF Front, KeyAhead, AtRecord, AtRange, Have, Record, RangeAt
<1>11. Stands(mr, u)
    <2>1. Stands(mr, it)
        BY DEF Skips
    <2>2. {"range", "rec"} \subseteq DOMAIN u
        BY <1>8
    <2>3. QED
        BY <1>9, <1>10, <2>1, <2>2 DEF Stands
<1>12. Skips(mr, ps, u)
    BY <1>1, <1>2, <1>6, <1>7, <1>8, <1>9, <1>10, <1>11 DEF Skips
<1>13. QED
    BY <1>2, <1>6, <1>8, <1>9, <1>10, <1>12 DEF u

\* Who is up to date and not under the current prefix is under none.
LEMMA UnderNone ==
    ASSUME NEW mr, IsMetaRange(mr), NEW ps, ArePrefixes(ps), NEW u, Skips(mr, ps, u), AtRecord(mr, u),
           Stays(ps, u.prefix, Front(mr, u), MaxKey(mr[u.range])), ~UnderItsPrefix(mr, ps, u)
    PROVE  ~Under(ps, Front(mr, u))
<1> DEFINE k == Front(mr, u)
           p == u.prefix
<1>1. Stands(mr, u)
    BY DEF Skips
<1>2. /\ k = mr[u.range][u.rec].key /\ u.range \in DOMAIN mr /\ u.rec \in DOMAIN mr[u.range]
    BY <1>1, WhereItStands DEF Have
<1>3. k \in 1..LastKey /\ MaxKey(mr[u.range]) \in 1..LastKey /\ k <= MaxKey(mr[u.range])
    BY <1>2, WithinRange
<1>4. /\ Len(ps) \in Nat /\ DOMAIN ps = 1..Len(ps) /\ p \in 1..(Len(ps) + 1)
      /\ \A n \in DOMAIN ps : ps[n].lo \in Nat /\ ps[n].hi \in Nat
    BY PrefixTypes DEF Skips
<1>5. p <= Len(ps) => ~(ps[p].lo <= k /\ k <= ps[p].hi)
    BY <1>2 DEF UnderItsPrefix, HasPrefix, Record
<1>6. \A n \in DOMAIN ps : n < p => ps[n].hi < k
    BY DEF Skips
<1>7. \A n, m \in DOMAIN ps : n < m => ps[n].lo <= ps[m].lo
    BY DEF ArePrefixes
<1>8. p > Len(ps) \/ k <= ps[p].hi \/ (p < Len(ps) /\ ps[p + 1].lo > MaxKey(mr[u.range]))
    BY DEF Stays
<1> HIDE DEF k, p
<1>9. k \in Nat /\ MaxKey(mr[u.range]) \in Nat
    BY <1>3, CommittedAssumption
<1>10. ASSUME NEW n \in DOMAIN ps, ps[n].lo <= k, k <= ps[n].hi
       PROVE  FALSE
    <2>1. n >= p /\ p <= Len(ps) /\ p \in DOMAIN ps
        BY <1>4, <1>6, <1>9, <1>10
    <2>2. n # p
        BY <1>5, <1>10, <2>1
    <2>3. n > p /\ ps[p].lo <= ps[n].lo
        BY <1>4, <1>7, <2>1, <2>2
    <2>4. ~(k <= ps[p].hi)
        BY <1>4, <1>5, <1>9, <1>10, <2>1, <2>3
    <2>5. p < Len(ps) /\ ps[p + 1].lo > MaxKey(mr[u.range])
        BY <1>4, <1>8, <2>1, <2>4
    <2>6. n = p + 1 \/ n > p + 1
        BY <1>4, <2>1, <2>3
    <2>7. p + 1 \in DOMAIN ps
        BY <1>4, <2>1, <2>5
    <2>8. ps[p + 1].lo <= ps[n].lo
        BY <1>4, <1>7, <2>6, <2>7
    <2>9. QED
        BY <1>3, <1>4, <1>9, <1>10, <2>5, <2>7, <2>8
<1>11. QED
    BY <1>10 DEF Under, HasPrefix, k

LEMMA SkipFields ==
    ASSUME NEW mr, NEW it, it = [range |-> it.range, rec |-> it.rec, prefix |-> it.prefix]
    PROVE  /\ NextRange(mr, it) = [range |-> IF it.range > Len(mr) THEN it.range ELSE it.range + 1,
                                   rec |-> 0, prefix |-> it.prefix]
           /\ Next1(mr, it) = [range |-> Next1(mr, it).range, rec |-> Next1(mr, it).rec, prefix |-> it.prefix]
           /\ \A i : [it EXCEPT !.rec = i] = [range |-> it.range, rec |-> i, prefix |-> it.prefix]
<1> DEFINE P(x) == x = [range |-> x.range, rec |-> x.rec, prefix |-> it.prefix]
<1>0a. PICK a : a = it.range
    OBVIOUS
<1>0b. PICK b : b = it.rec
    OBVIOUS
<1>0c. PICK c : c = it.prefix
    OBVIOUS
<1>1. it = [range |-> a, rec |-> b, prefix |-> c]
    BY <1>0a, <1>0b, <1>0c
<1>2. it.range = a /\ it.rec = b /\ it.prefix = c
    BY <1>0a, <1>0b, <1>0c
<1>3. NextRange(mr, it) = [range |-> IF a > Len(mr) THEN a ELSE a + 1, rec |-> 0, prefix |-> c]
    <2>1. PICK x : x = IF a > Len(mr) THEN a ELSE a + 1
        OBVIOUS
    <2>2. NextRange(mr, it) = [it EXCEPT !.range = x, !.rec = 0]
        BY <1>2, <2>1 DEF NextRange
    <2>3. PICK y : y = [it EXCEPT !.range = x]
        OBVIOUS
    <2>3a. y = [range |-> x, rec |-> b, prefix |-> c]
        BY <1>1, <2>3
    <2>3b. [y EXCEPT !.rec = 0] = [range |-> x, rec |-> 0, prefix |-> c]
        BY <2>3a
    <2>3c. [it EXCEPT !.range = x, !.rec = 0] = [y EXCEPT !.rec = 0]
        BY <2>3
    <2>4. QED
        BY <2>1, <2>2, <2>3b, <2>3c
<1>4. \A i : [it EXCEPT !.rec = i] = [range |-> a, rec |-> i, prefix |-> c]
    BY <1>1
<1>5. Next1(mr, it) = [it EXCEPT !.rec = b + 1] \/ Next1(mr, it) = NextRange(mr, it)
    BY <1>2 DEF Next1
<1>6. P(NextRange(mr, it))
    BY <1>2, <1>3
<1>7. P([it EXCEPT !.rec = b + 1])
    BY <1>2, <1>4
<1>8. QED
    BY <1>2, <1>3, <1>4, <1>5, <1>6, <1>7

LEMMA SkipRangesTo ==
    ASSUME NEW mr, IsMetaRange(mr), NEW ps, ArePrefixes(ps), NEW it, Skips(mr, ps, it),
           ~AtRecord(mr, it)
    PROVE  /\ LeavesOut(mr, ps, SkipRanges(mr, ps, it), Front(mr, it) - 1)
           /\ Front(mr, it) <= Front(mr, SkipRanges(mr, ps, it))
           /\ ~AtRecord(mr, SkipRanges(mr, ps, it))
<1> DEFINE s == SkipRanges(mr, ps, it)
           To(n) == [it EXCEPT !.range = n]
           At(n) == Updated(mr, ps, To(n))
           stops == {n \in it.range..Len(mr) : ~Bounded(mr, ps, At(n))}
<1>1. Stands(mr, it) /\ Len(mr) \in Nat /\ DOMAIN mr = 1..Len(mr) /\ it.range \in Nat
      /\ Front(mr, it) \in 1..(LastKey + 1) /\ it.range >= 1
    BY WhereItStands DEF Skips, Stands
<1>2. CASE ~Have(mr, it)
    <2>1. s = it
        BY <1>2 DEF SkipRanges
    <2>2. \A k \in DOMAIN Contents(mr) : k > Front(mr, it) - 1 => k >= Front(mr, it)
        BY <1>1, HeldBy, CommittedAssumption
    <2>3. QED
        BY <1>1, <2>1, <2>2, CommittedAssumption DEF LeavesOut
<1>3. CASE Have(mr, it)
    <2>1. it.rec = 0 /\ Front(mr, it) = MinKey(mr[it.range]) /\ it.range \in DOMAIN mr
        BY <1>1, <1>3, WhereItStands DEF Have
    <2>2. ASSUME NEW n \in it.range..Len(mr)
          PROVE  /\ n \in DOMAIN mr
                 /\ Skips(mr, ps, To(n)) /\ Have(mr, To(n)) /\ Front(mr, To(n)) = MinKey(mr[n])
                 /\ Front(mr, it) <= MinKey(mr[n])
                 /\ To(n) = [range |-> n, rec |-> 0, prefix |-> it.prefix]
        <3>1. n \in DOMAIN mr /\ To(n) = [range |-> n, rec |-> 0, prefix |-> it.prefix]
            BY <1>1, <2>1 DEF Skips
        <3>2. To(n).range = n /\ To(n).rec = 0 /\ To(n).prefix = it.prefix
            BY <3>1
        <3>3. Len(mr[n]) \in Nat /\ 1 \in DOMAIN mr[n] /\ 1 \in DOMAIN mr[it.range]
            BY <2>1, <3>1, RangeTypes
        <3>4. Stands(mr, To(n)) /\ Have(mr, To(n)) /\ AtRange(mr, To(n))
            BY <1>1, <3>1, <3>2, <3>3 DEF Stands, Have, AtRange
        <3>5. Front(mr, To(n)) = MinKey(mr[n])
            BY <3>2, <3>4, WhereItStands
        <3>6. MinKey(mr[n]) = mr[n][1].key /\ MinKey(mr[it.range]) = mr[it.range][1].key
              /\ MinKey(mr[n]) \in 1..LastKey
            BY <2>1, <3>1, <3>3, WithinRange
        <3>7. n = it.range \/ it.range < n
            BY <1>1
        <3>8. Front(mr, it) <= MinKey(mr[n])
            <4>1. it.range < n => mr[it.range][1].key < mr[n][1].key
                BY <2>1, <3>1, <3>3, KeysAscend
            <4>2. QED
                BY <1>1, <2>1, <3>6, <3>7, <4>1, CommittedAssumption
        <3>9. it.prefix \in 1..(Len(ps) + 1) /\ \A q \in DOMAIN ps : q < it.prefix => ps[q].hi < Front(mr, it)
            BY DEF Skips
        <3>10. \A q \in DOMAIN ps : q < To(n).prefix => ps[q].hi < Front(mr, To(n))
            BY <1>1, <3>2, <3>5, <3>6, <3>8, <3>9, PrefixTypes, CommittedAssumption
        <3>11. Skips(mr, ps, To(n))
            BY <3>1, <3>2, <3>4, <3>9, <3>10 DEF Skips
        <3>12. QED
            BY <3>1, <3>4, <3>5, <3>8, <3>11
    <2>3. s = IF stops # {} THEN At(Seqs!Min(stops)) ELSE NextRange(mr, At(Len(mr)))
        BY <1>3 DEF SkipRanges
    <2> HIDE DEF To
    <2>4. ASSUME NEW n \in it.range..Len(mr)
          PROVE  /\ At(n) = [range |-> n, rec |-> 0, prefix |-> At(n).prefix]
                 /\ Skips(mr, ps, At(n)) /\ Front(mr, At(n)) = MinKey(mr[n]) /\ ~AtRecord(mr, At(n))
                 /\ At(n).range = n /\ Have(mr, At(n))
        <3>1. Skips(mr, ps, To(n)) /\ Have(mr, To(n)) /\ Front(mr, To(n)) = MinKey(mr[n])
              /\ To(n).range = n /\ To(n).rec = 0 /\ n \in DOMAIN mr
            BY <2>2
        <3>2. /\ At(n) = [range |-> To(n).range, rec |-> To(n).rec, prefix |-> At(n).prefix]
              /\ Front(mr, At(n)) = Front(mr, To(n)) /\ Skips(mr, ps, At(n))
              /\ AtRecord(mr, At(n)) <=> AtRecord(mr, To(n))
            BY <3>1, UpdatedTo
        <3>3. ~AtRecord(mr, To(n))
            BY <3>1 DEF AtRecord
        <3> HIDE DEF At
        <3>4. At(n).range = n
            BY <3>1, <3>2
        <3>5. QED
            BY <3>1, <3>2, <3>3, <3>4 DEF Have
    <2>5. ASSUME NEW n \in it.range..Len(mr), n \notin stops, NEW i \in DOMAIN mr[n]
          PROVE  Under(ps, mr[n][i].key)
        <3>1. Bounded(mr, ps, At(n)) /\ n \in DOMAIN mr /\ At(n).range = n
            BY <2>2, <2>4, <2>5
        <3> DEFINE p == At(n).prefix
        <3>2. /\ p <= Len(ps) /\ HasPrefix(MinKey(mr[n]), ps[p]) /\ HasPrefix(MaxKey(mr[n]), ps[p])
            BY <3>1 DEF Bounded, RangeAt
        <3>3. p \in DOMAIN ps /\ ps[p].lo \in Nat /\ ps[p].hi \in Nat
            <4>1. p \in 1..(Len(ps) + 1)
                BY <2>4 DEF Skips
            <4>2. QED
                BY <3>2, <4>1, PrefixTypes
        <3> HIDE DEF p, At
        <3>4. /\ MinKey(mr[n]) <= mr[n][i].key /\ mr[n][i].key <= MaxKey(mr[n])
              /\ MinKey(mr[n]) \in 1..LastKey /\ MaxKey(mr[n]) \in 1..LastKey /\ mr[n][i].key \in 1..LastKey
            BY <3>1, WithinRange
        <3>5. HasPrefix(mr[n][i].key, ps[p])
            BY <3>2, <3>3, <3>4, CommittedAssumption DEF HasPrefix
        <3>6. QED
            BY <3>3, <3>5 DEF Under
    <2> HIDE DEF At
    \* What is between: the ranges up to m are under the prefixes.
    <2>6. ASSUME NEW m \in Nat, m >= it.range, m <= Len(mr) + 1, \A n \in it.range..(m - 1) : n \notin stops,
                 Stands(mr, s), s.range = m, s.rec = 0
          PROVE  \A k \in DOMAIN Contents(mr) : k > Front(mr, it) - 1 => k >= Front(mr, s) \/ Under(ps, k)
        <3>0. Front(mr, s) \in Nat /\ \A k \in DOMAIN Contents(mr) : k \in Nat
            BY <2>6, HeldBy, WhereItStands, CommittedAssumption
        <3>1. SUFFICES ASSUME NEW k \in DOMAIN Contents(mr), k > Front(mr, it) - 1, k < Front(mr, s)
                       PROVE  Under(ps, k)
            BY <3>0
        <3>2. PICK n \in DOMAIN mr : \E i \in DOMAIN mr[n] : k = mr[n][i].key
            BY HeldBy
        <3>3. PICK i \in DOMAIN mr[n] : k = mr[n][i].key
            BY <3>2
        <3>4. k \in 1..LastKey
            BY HeldBy
        <3>4a. i \in Nat /\ n \in Nat /\ i >= 1 /\ n <= Len(mr)
            BY RangeTypes
        <3>5. ~(n < it.range \/ (n = it.range /\ i < it.rec))
            BY <1>1, <3>1, <3>3, <3>4, Frontier, CommittedAssumption
        <3>6. n < s.range \/ (n = s.range /\ i < s.rec)
            BY <2>6, <3>1, <3>3, Frontier
        <3>7. n \in it.range..(m - 1) /\ n \in it.range..Len(mr)
            BY <1>1, <2>6, <3>4a, <3>5, <3>6
        <3>8. QED
            BY <2>5, <2>6, <3>3, <3>7
    <2>7. CASE stops # {}
        <3> DEFINE m == Seqs!Min(stops)
        <3>1. stops \subseteq Nat
            BY <1>1
        <3>2. m \in stops /\ m \in Nat /\ \A n \in stops : m <= n
            BY <2>7, <3>1, MinOfNumbers
        <3>3. s = At(m)
            BY <2>3, <2>7
        <3> HIDE DEF m, s
        <3>4. m \in it.range..Len(mr)
            BY <3>2
        <3>5. Skips(mr, ps, s) /\ s.range = m /\ s.rec = 0 /\ Front(mr, s) = MinKey(mr[m]) /\ ~AtRecord(mr, s)
            BY <2>4, <3>3, <3>4
        <3>6. \A n \in it.range..(m - 1) : n \notin stops
            BY <1>1, <3>2, <3>4
        <3>7. Stands(mr, s)
            BY <3>5 DEF Skips
        <3>8. \A k \in DOMAIN Contents(mr) : k > Front(mr, it) - 1 => k >= Front(mr, s) \/ Under(ps, k)
            <4>1. m >= it.range /\ m <= Len(mr) + 1
                BY <1>1, <3>4
            <4>2. QED
                BY <2>6, <3>2, <3>5, <3>6, <3>7, <4>1
        <3>9. Front(mr, it) <= Front(mr, s)
            BY <2>2, <3>4, <3>5
        <3>10. QED
            BY <3>5, <3>8, <3>9 DEF LeavesOut, s
    <2>8. CASE stops = {}
        <3> DEFINE a == At(Len(mr))
        <3>1. Len(mr) \in it.range..Len(mr)
            BY <1>1, <2>1
        <3>2. /\ a = [range |-> Len(mr), rec |-> 0, prefix |-> a.prefix] /\ Skips(mr, ps, a)
              /\ Have(mr, a) /\ a.range = Len(mr) /\ Front(mr, a) = MinKey(mr[Len(mr)])
            BY <2>4, <3>1
        <3>3. s = NextRange(mr, a)
            BY <2>3, <2>8
        <3> HIDE DEF a, s
        <3>4. s = [range |-> Len(mr) + 1, rec |-> 0, prefix |-> a.prefix]
            <4>1. NextRange(mr, a) = [range |-> IF a.range > Len(mr) THEN a.range ELSE a.range + 1,
                                      rec |-> 0, prefix |-> a.prefix]
                BY <3>2, SkipFields
            <4>2. QED
                BY <1>1, <3>2, <3>3, <4>1
        <3>5. s.range = Len(mr) + 1 /\ s.rec = 0 /\ s.prefix = a.prefix /\ {"range", "rec"} \subseteq DOMAIN s
            BY <3>4
        <3>6. Stands(mr, s) /\ ~Have(mr, s) /\ ~AtRecord(mr, s)
            BY <1>1, <3>5 DEF Stands, Have, AtRecord
        <3>7. Front(mr, s) = LastKey + 1
            BY <3>6, WhereItStands
        <3>8. \A n \in DOMAIN ps : n < s.prefix => ps[n].hi < Front(mr, s)
            BY <3>7, PrefixTypes, CommittedAssumption
        <3>9. s.prefix \in 1..(Len(ps) + 1)
            BY <3>2, <3>5 DEF Skips
        <3>10. Skips(mr, ps, s)
            BY <3>4, <3>5, <3>6, <3>8, <3>9 DEF Skips
        <3>11. \A k \in DOMAIN Contents(mr) : k > Front(mr, it) - 1 => k >= Front(mr, s) \/ Under(ps, k)
            BY <1>1, <2>1, <2>6, <2>8, <3>5, <3>6
        <3>12. QED
            BY <1>1, <3>6, <3>7, <3>10, <3>11, CommittedAssumption DEF LeavesOut, s
    <2>9. QED
        BY <2>7, <2>8
<1>4. QED
    BY <1>2, <1>3

LEMMA SkipRecordsTo ==
    ASSUME NEW mr, IsMetaRange(mr), NEW ps, ArePrefixes(ps), NEW it, Skips(mr, ps, it),
           AtRecord(mr, it)
    PROVE  /\ LeavesOut(mr, ps, SkipRecords(mr, ps, it), Front(mr, it) - 1)
           /\ Front(mr, it) <= Front(mr, SkipRecords(mr, ps, it))
<1> DEFINE s == SkipRecords(mr, ps, it)
           To(i) == [it EXCEPT !.rec = i]
           At(i) == Updated(mr, ps, To(i))
           r == mr[it.range]
           last == Len(r)
           stops == {i \in it.rec..last : ~UnderItsPrefix(mr, ps, At(i))}
<1>1. Stands(mr, it) /\ Len(mr) \in Nat /\ DOMAIN mr = 1..Len(mr) /\ it.range \in Nat
      /\ Front(mr, it) \in 1..(LastKey + 1) /\ it.range >= 1 /\ it.range \in DOMAIN mr
      /\ it.rec \in DOMAIN r /\ Front(mr, it) = r[it.rec].key
    BY WhereItStands DEF Skips, Stands, Have
<1>2. last \in Nat \ {0} /\ DOMAIN r = 1..last /\ it.rec \in Nat /\ it.rec >= 1 /\ it.rec <= last
    BY <1>1, RangeTypes
<1>3. ASSUME NEW i \in it.rec..last
      PROVE  /\ i \in DOMAIN r
             /\ Skips(mr, ps, To(i)) /\ AtRecord(mr, To(i)) /\ Front(mr, To(i)) = r[i].key
             /\ Front(mr, it) <= r[i].key /\ Have(mr, To(i))
             /\ To(i) = [range |-> it.range, rec |-> i, prefix |-> it.prefix]
    <2>1. i \in DOMAIN r /\ i \in Nat /\ i >= 1
        BY <1>2
    <2>2. To(i) = [range |-> it.range, rec |-> i, prefix |-> it.prefix]
        BY SkipFields DEF Skips
    <2>3. To(i).range = it.range /\ To(i).rec = i /\ To(i).prefix = it.prefix
          /\ {"range", "rec"} \subseteq DOMAIN To(i)
        BY <2>2
    <2>4. Stands(mr, To(i)) /\ Have(mr, To(i)) /\ AtRecord(mr, To(i))
        BY <1>1, <1>2, <2>1, <2>3 DEF Stands, Have, AtRecord
    <2>5. Front(mr, To(i)) = r[i].key
        BY <2>3, <2>4, WhereItStands
    <2>6. i = it.rec \/ it.rec < i
        BY <1>2
    <2>7. r[i].key \in 1..LastKey
        BY <1>1, <2>1, WithinRange
    <2>8. Front(mr, it) <= r[i].key
        <3>1. it.rec < i => r[it.rec].key < r[i].key
            BY <1>1, <2>1, KeysAscend
        <3>2. QED
            BY <1>1, <2>6, <2>7, <3>1, CommittedAssumption
    <2>9. it.prefix \in 1..(Len(ps) + 1) /\ \A q \in DOMAIN ps : q < it.prefix => ps[q].hi < Front(mr, it)
        BY DEF Skips
    <2>10. \A q \in DOMAIN ps : q < To(i).prefix => ps[q].hi < Front(mr, To(i))
        BY <1>1, <2>3, <2>5, <2>7, <2>8, <2>9, PrefixTypes, CommittedAssumption
    <2>11. Skips(mr, ps, To(i))
        BY <2>2, <2>3, <2>4, <2>9, <2>10 DEF Skips
    <2>12. QED
        BY <2>1, <2>2, <2>4, <2>5, <2>8, <2>11
<1>4. s = IF stops # {} THEN At(Seqs!Min(stops)) ELSE Updated(mr, ps, NextRange(mr, At(last)))
    BY DEF SkipRecords, RangeAt
<1> HIDE DEF To
<1>5. ASSUME NEW i \in it.rec..last
      PROVE  /\ At(i) = [range |-> it.range, rec |-> i, prefix |-> At(i).prefix]
             /\ Skips(mr, ps, At(i)) /\ Front(mr, At(i)) = r[i].key /\ AtRecord(mr, At(i))
             /\ At(i).range = it.range /\ At(i).rec = i
             /\ Stays(ps, At(i).prefix, r[i].key, MaxKey(r))
    <2>1. Skips(mr, ps, To(i)) /\ Have(mr, To(i)) /\ Front(mr, To(i)) = r[i].key /\ AtRecord(mr, To(i))
          /\ To(i).range = it.range /\ To(i).rec = i
        BY <1>3
    <2>2. /\ At(i) = [range |-> To(i).range, rec |-> To(i).rec, prefix |-> At(i).prefix]
          /\ Front(mr, At(i)) = Front(mr, To(i)) /\ Skips(mr, ps, At(i))
          /\ AtRecord(mr, At(i)) <=> AtRecord(mr, To(i))
          /\ Stays(ps, At(i).prefix, Front(mr, To(i)), MaxKey(mr[To(i).range]))
        BY <2>1, UpdatedTo
    <2> HIDE DEF At
    <2>3. At(i).range = it.range /\ At(i).rec = i
        BY <2>1, <2>2
    <2>4. QED
        BY <2>1, <2>2, <2>3
<1>6. ASSUME NEW i \in it.rec..last, UnderItsPrefix(mr, ps, At(i))
      PROVE  Under(ps, r[i].key)
    <2> DEFINE p == At(i).prefix
    <2>1. p <= Len(ps) /\ HasPrefix(r[i].key, ps[p])
        BY <1>5, <1>6 DEF UnderItsPrefix, Record
    <2>2. p \in 1..(Len(ps) + 1)
        BY <1>5 DEF Skips
    <2>3. p \in DOMAIN ps
        BY <2>1, <2>2, PrefixTypes
    <2>4. QED
        BY <2>1, <2>3 DEF Under
<1>7. ASSUME NEW i \in it.rec..last, ~UnderItsPrefix(mr, ps, At(i))
      PROVE  ~Under(ps, r[i].key)
    <2> HIDE DEF At
    <2>1. Skips(mr, ps, At(i)) /\ AtRecord(mr, At(i)) /\ Front(mr, At(i)) = r[i].key /\ At(i).range = it.range
          /\ Stays(ps, At(i).prefix, r[i].key, MaxKey(r))
        BY <1>5
    <2>2. QED
        BY <1>7, <2>1, UnderNone
<1> HIDE DEF At
\* What is between: the records up to where it stops are under the prefixes.
<1>8. ASSUME Stands(mr, s), \/ \E m \in it.rec..last : /\ s.range = it.range /\ s.rec = m
                                                      /\ \A i \in it.rec..(m - 1) : i \notin stops
                            \/ s.range = it.range + 1 /\ s.rec = 0 /\ stops = {}
      PROVE  \A k \in DOMAIN Contents(mr) : k > Front(mr, it) - 1 => k >= Front(mr, s) \/ Under(ps, k)
    <2>1. Front(mr, s) \in Nat /\ \A k \in DOMAIN Contents(mr) : k \in Nat
        BY <1>8, HeldBy, WhereItStands, CommittedAssumption
    <2>2. SUFFICES ASSUME NEW k \in DOMAIN Contents(mr), k > Front(mr, it) - 1, k < Front(mr, s)
                   PROVE  Under(ps, k)
        BY <2>1
    <2>3. PICK n \in DOMAIN mr : \E i \in DOMAIN mr[n] : k = mr[n][i].key
        BY HeldBy
    <2>4. PICK i \in DOMAIN mr[n] : k = mr[n][i].key
        BY <2>3
    <2>5. k \in 1..LastKey
        BY HeldBy
    <2>6. i \in Nat /\ n \in Nat /\ i >= 1 /\ n <= Len(mr) /\ i <= Len(mr[n])
        BY RangeTypes
    <2>7. ~(n < it.range \/ (n = it.range /\ i < it.rec))
        BY <1>1, <2>2, <2>4, <2>5, Frontier, CommittedAssumption
    <2>8. n < s.range \/ (n = s.range /\ i < s.rec)
        BY <1>8, <2>2, <2>4, Frontier
    <2>9. CASE s.range = it.range + 1 /\ s.rec = 0 /\ stops = {}
        <3>1. n = it.range /\ i \in it.rec..last
            BY <1>1, <1>2, <2>6, <2>7, <2>8, <2>9
        <3>2. UnderItsPrefix(mr, ps, At(i))
            BY <2>9, <3>1
        <3>3. QED
            BY <1>6, <2>4, <3>1, <3>2
    <2>10. CASE \E m \in it.rec..last : /\ s.range = it.range /\ s.rec = m
                                        /\ \A j \in it.rec..(m - 1) : j \notin stops
        <3>1. PICK m \in it.rec..last : /\ s.range = it.range /\ s.rec = m
                                        /\ \A j \in it.rec..(m - 1) : j \notin stops
            BY <2>10
        <3>2. n = it.range /\ i \in it.rec..last /\ i \in it.rec..(m - 1)
            BY <1>1, <1>2, <2>6, <2>7, <2>8, <3>1
        <3>3. UnderItsPrefix(mr, ps, At(i))
            BY <3>1, <3>2
        <3>4. QED
            BY <1>6, <2>4, <3>2, <3>3
    <2>11. QED
        BY <1>8, <2>9, <2>10
<1>9. CASE stops # {}
    <2> DEFINE m == Seqs!Min(stops)
    <2>1. stops \subseteq Nat
        BY <1>2
    <2>2. m \in stops /\ m \in Nat /\ \A i \in stops : m <= i
        BY <1>9, <2>1, MinOfNumbers
    <2>3. s = At(m)
        BY <1>4, <1>9
    <2> HIDE DEF m, s
    <2>4. m \in it.rec..last /\ ~UnderItsPrefix(mr, ps, At(m))
        BY <2>2
    <2>5. Skips(mr, ps, s) /\ s.range = it.range /\ s.rec = m /\ Front(mr, s) = r[m].key
        BY <1>5, <2>3, <2>4
    <2>6. ~Under(ps, Front(mr, s))
        BY <1>7, <2>4, <2>5
    <2>7. \A i \in it.rec..(m - 1) : i \notin stops
        BY <1>2, <2>2, <2>4
    <2>8. Stands(mr, s)
        BY <2>5 DEF Skips
    <2>9. \A k \in DOMAIN Contents(mr) : k > Front(mr, it) - 1 => k >= Front(mr, s) \/ Under(ps, k)
        BY <1>8, <2>4, <2>5, <2>7, <2>8 DEF s
    <2>10. Front(mr, it) <= Front(mr, s)
        BY <1>3, <2>4, <2>5
    <2>11. QED
        BY <2>5, <2>6, <2>9, <2>10 DEF LeavesOut, s
<1>10. CASE stops = {}
    <2> DEFINE a == At(last)
               x == NextRange(mr, a)
    <2>1. last \in it.rec..last
        BY <1>2
    <2>2. /\ a = [range |-> it.range, rec |-> last, prefix |-> a.prefix] /\ Skips(mr, ps, a)
          /\ a.range = it.range /\ Front(mr, a) = r[last].key
        BY <1>5, <2>1
    <2>3. s = Updated(mr, ps, x)
        BY <1>4, <1>10
    <2> HIDE DEF a, s
    <2>4. x = [range |-> it.range + 1, rec |-> 0, prefix |-> a.prefix]
        <3>1. x = [range |-> IF a.range > Len(mr) THEN a.range ELSE a.range + 1,
                                      rec |-> 0, prefix |-> a.prefix]
            BY <2>2, SkipFields
        <3>2. QED
            BY <1>1, <2>2, <3>1
    <2>5. Stands(mr, a) /\ Have(mr, a)
        BY <1>1, <2>2 DEF Skips, Have
    <2>6. /\ PassedTo(mr, x, MaxKey(r)) /\ MaxKey(r) < Front(mr, x)
        BY <2>2, <2>5, OverRange DEF x
    <2> HIDE DEF x
    <2>7. x.range = it.range + 1 /\ x.rec = 0 /\ x.prefix = a.prefix /\ Stands(mr, x)
        BY <2>4, <2>6 DEF PassedTo
    <2>8. ~AtRecord(mr, x)
        BY <2>7 DEF AtRecord
    <2>9. MaxKey(r) = r[last].key /\ MaxKey(r) \in 1..LastKey /\ Front(mr, x) \in 1..(LastKey + 1)
        BY <1>1, <2>7, WithinRange, WhereItStands
    <2>10. a.prefix \in 1..(Len(ps) + 1) /\ \A q \in DOMAIN ps : q < a.prefix => ps[q].hi < r[last].key
        BY <2>2 DEF Skips
    <2>11. \A q \in DOMAIN ps : q < x.prefix => ps[q].hi < Front(mr, x)
        BY <2>6, <2>7, <2>9, <2>10, PrefixTypes, CommittedAssumption
    <2>12. x = [range |-> x.range, rec |-> x.rec, prefix |-> x.prefix]
        BY <2>4, <2>7
    <2>13. Skips(mr, ps, x)
        BY <2>7, <2>10, <2>11, <2>12 DEF Skips
    <2>14. Skips(mr, ps, s) /\ Front(mr, s) = Front(mr, x) /\ ~AtRecord(mr, s)
           /\ s.range = x.range /\ s.rec = x.rec
        <3>1. CASE Have(mr, x)
            <4>1. /\ s = [range |-> x.range, rec |-> x.rec, prefix |-> s.prefix]
                  /\ Front(mr, s) = Front(mr, x) /\ Skips(mr, ps, s)
                  /\ AtRecord(mr, s) <=> AtRecord(mr, x)
                BY <2>3, <2>13, <3>1, UpdatedTo
            <4>2. s.range = x.range /\ s.rec = x.rec
                BY <4>1
            <4>3. QED
                BY <2>8, <4>1, <4>2
        <3>2. CASE ~Have(mr, x)
            BY <2>3, <2>8, <2>13, <3>2 DEF Updated
        <3>3. QED
            BY <3>1, <3>2
    <2>15. \A k \in DOMAIN Contents(mr) : k > Front(mr, it) - 1 => k >= Front(mr, s) \/ Under(ps, k)
        <3>1. Stands(mr, s)
            BY <2>14 DEF Skips
        <3>2. s.range = it.range + 1 /\ s.rec = 0
            BY <2>7, <2>14
        <3>3. QED
            BY <1>8, <1>10, <3>1, <3>2 DEF s
    <2>16. Front(mr, it) <= Front(mr, s)
        <3>1. Front(mr, it) <= MaxKey(r)
            BY <1>3, <2>1, <2>9
        <3>2. QED
            BY <1>1, <2>6, <2>9, <2>14, <3>1, CommittedAssumption
    <2>17. QED
        BY <2>14, <2>15, <2>16 DEF LeavesOut, s
<1>11. QED
    BY <1>9, <1>10

\* The next record or range, after what of the prefixes' is left out.
LEMMA SkippedOn ==
    ASSUME NEW mr, IsMetaRange(mr), NEW ps, ArePrefixes(ps), NEW x, Skips(mr, ps, x),
           NEW passed \in Nat, PassedTo(mr, x, passed), NEW s,
           \/ ~AtRecord(mr, x) /\ s = SkipRanges(mr, ps, Updated(mr, ps, x))
           \/ ~AtRange(mr, x) /\ s = SkipRecords(mr, ps, Updated(mr, ps, x))
    PROVE  LeavesOut(mr, ps, s, passed) /\ Front(mr, x) <= Front(mr, s)
<1> DEFINE u == Updated(mr, ps, x)
<1>1. Skips(mr, ps, u) /\ Front(mr, u) = Front(mr, x) /\ (AtRecord(mr, u) <=> AtRecord(mr, x))
    <2>1. CASE Have(mr, x)
        <3>1. /\ Front(mr, u) = Front(mr, x)
              /\ Skips(mr, ps, u)
              /\ AtRecord(mr, u) <=> AtRecord(mr, x)
            BY <2>1, UpdatedTo
        <3>2. QED
            BY <3>1
    <2>2. CASE ~Have(mr, x)
        BY <2>2 DEF Updated
    <2>3. QED
        BY <2>1, <2>2
<1> HIDE DEF u
<1>2. Stands(mr, x) /\ Front(mr, x) \in 1..(LastKey + 1)
    BY WhereItStands DEF Skips
<1>3. LeavesOut(mr, ps, s, Front(mr, u) - 1) /\ Front(mr, u) <= Front(mr, s)
    <2>1. CASE ~AtRecord(mr, x) /\ s = SkipRanges(mr, ps, u)
        BY <1>1, <2>1, SkipRangesTo
    <2>2. CASE AtRecord(mr, x) /\ s = SkipRecords(mr, ps, u)
        BY <1>1, <2>2, SkipRecordsTo
    <2>3. CASE ~AtRecord(mr, x) /\ s = SkipRecords(mr, ps, u)
        <3>1. s = u
            BY <1>1, <2>3 DEF SkipRecords
        <3>2. ~AtRecord(mr, s) /\ Skips(mr, ps, s) /\ Front(mr, s) = Front(mr, u)
            BY <1>1, <2>3, <3>1
        <3>3. \A k \in DOMAIN Contents(mr) : k > Front(mr, u) - 1 => k >= Front(mr, s)
            BY <1>1, <1>2, <3>2, HeldBy, CommittedAssumption
        <3>4. QED
            BY <1>1, <1>2, <3>2, <3>3, CommittedAssumption DEF LeavesOut
    <2>4. QED
        BY <2>1, <2>2, <2>3 DEF u
<1>4. \A k \in DOMAIN Contents(mr) : k > passed => k >= Front(mr, s) \/ Under(ps, k)
    <2> SUFFICES ASSUME NEW k \in DOMAIN Contents(mr), k > passed
                 PROVE  k >= Front(mr, s) \/ Under(ps, k)
        OBVIOUS
    <2>1. k >= Front(mr, x) /\ k \in 1..LastKey
        BY HeldBy DEF PassedTo
    <2>2. k > Front(mr, u) - 1
        BY <1>1, <1>2, <2>1, CommittedAssumption
    <2>3. QED
        BY <1>3, <2>2 DEF LeavesOut
<1>5. QED
    BY <1>1, <1>3, <1>4 DEF LeavesOut

LEMMA SkipNextOn ==
    ASSUME NEW mr, IsMetaRange(mr), NEW ps, ArePrefixes(ps), NEW it, Skips(mr, ps, Next1(mr, it)),
           NEW passed \in Nat, PassedTo(mr, Next1(mr, it), passed)
    PROVE  /\ LeavesOut(mr, ps, SkipNext(mr, ps, it), passed)
           /\ Front(mr, Next1(mr, it)) <= Front(mr, SkipNext(mr, ps, it))
<1> DEFINE x == Next1(mr, it)
           u == Updated(mr, ps, x)
           s == SkipNext(mr, ps, it)
<1>1. AtRange(mr, u) <=> AtRange(mr, x)
    <2>1. CASE Have(mr, x)
        <3>1. /\ u = [range |-> x.range, rec |-> x.rec, prefix |-> u.prefix]
            BY <2>1, UpdatedTo
        <3> HIDE DEF u, x
        <3>2. u.range = x.range /\ u.rec = x.rec
            BY <3>1
        <3>3. QED
            BY <3>2 DEF AtRange, Have
    <2>2. CASE ~Have(mr, x)
        BY <2>2 DEF Updated
    <2>3. QED
        BY <2>1, <2>2
<1>2. s = IF AtRange(mr, u) THEN SkipRanges(mr, ps, u) ELSE SkipRecords(mr, ps, u)
    BY DEF SkipNext
<1> HIDE DEF s, x
<1>3. AtRange(mr, x) => ~AtRecord(mr, x)
    BY WhereItStands DEF Skips, x
<1>4. \/ ~AtRecord(mr, x) /\ s = SkipRanges(mr, ps, Updated(mr, ps, x))
      \/ ~AtRange(mr, x) /\ s = SkipRecords(mr, ps, Updated(mr, ps, x))
    BY <1>1, <1>2, <1>3
<1>5. Skips(mr, ps, x) /\ PassedTo(mr, x, passed)
    BY DEF x
<1>6. LeavesOut(mr, ps, s, passed) /\ Front(mr, x) <= Front(mr, s)
    BY <1>4, <1>5, SkippedOn
<1>7. QED
    BY <1>6 DEF s, x

LEMMA SkipNextRangeOn ==
    ASSUME NEW mr, IsMetaRange(mr), NEW ps, ArePrefixes(ps), NEW it, Skips(mr, ps, NextRange(mr, it)),
           ~AtRecord(mr, NextRange(mr, it)),
           NEW passed \in Nat, PassedTo(mr, NextRange(mr, it), passed)
    PROVE  /\ LeavesOut(mr, ps, SkipNextRange(mr, ps, it), passed)
           /\ Front(mr, NextRange(mr, it)) <= Front(mr, SkipNextRange(mr, ps, it))
BY SkippedOn DEF SkipNextRange

\* What it steps on to has passed no prefix too many.
LEMMA StillSkips ==
    ASSUME NEW mr, IsMetaRange(mr), NEW ps, ArePrefixes(ps), NEW it, NEW nx,
           nx = [range |-> nx.range, rec |-> nx.rec, prefix |-> it.prefix],
           Stands(mr, nx), it.prefix \in 1..(Len(ps) + 1),
           \/ it.prefix = 1
           \/ Skips(mr, ps, it) /\ Front(mr, it) <= Front(mr, nx)
    PROVE  Skips(mr, ps, nx)
<1>1. nx.prefix = it.prefix
    OBVIOUS
<1>2. Front(mr, nx) \in 1..(LastKey + 1) /\ (Skips(mr, ps, it) => Front(mr, it) \in 1..(LastKey + 1))
    BY WhereItStands DEF Skips
<1>3. \A n \in DOMAIN ps : n < nx.prefix => ps[n].hi < Front(mr, nx)
    <2>1. CASE it.prefix = 1
        BY <1>1, <2>1, PrefixTypes
    <2>2. CASE Skips(mr, ps, it) /\ Front(mr, it) <= Front(mr, nx)
        <3>1. \A n \in DOMAIN ps : n < it.prefix => ps[n].hi < Front(mr, it)
            BY <2>2 DEF Skips
        <3>2. QED
            BY <1>1, <1>2, <2>2, <3>1, PrefixTypes, CommittedAssumption
    <2>3. QED
        BY <2>1, <2>2
<1>4. QED
    BY <1>1, <1>3 DEF Skips

-----------------------------------------------------------------------------
(* Both iterators of a merge, from where what is up to m is settled. *)

KeysOf(range) == {range[i].key : i \in DOMAIN range}

\* Of what is above m it has passed these keys.
Walked(mr, nx, m, keys) ==
    /\ Stands(mr, nx) /\ m < Front(mr, nx)
    /\ \A k \in DOMAIN Contents(mr) : k > m => k \in keys \/ k >= Front(mr, nx)
    /\ \A k \in keys : k < Front(mr, nx)

WalkedOut(mr, ps, nx, m, keys) ==
    /\ Skips(mr, ps, nx) /\ m < Front(mr, nx)
    /\ AtRecord(mr, nx) => ~Under(ps, Front(mr, nx))
    /\ \A k \in DOMAIN Contents(mr) : k > m => k \in keys \/ k >= Front(mr, nx) \/ Under(ps, k)
    /\ \A k \in keys : k < Front(mr, nx)

LEMMA KeysOfRange ==
    ASSUME NEW mr, IsMetaRange(mr), NEW n \in DOMAIN mr
    PROVE  /\ \A k \in KeysOf(mr[n]) : /\ MinKey(mr[n]) <= k /\ k <= MaxKey(mr[n])
                                       /\ k \in 1..LastKey /\ k \in DOMAIN Contents(mr)
           /\ \A k \in DOMAIN Contents(mr) : MinKey(mr[n]) <= k /\ k <= MaxKey(mr[n]) => k \in KeysOf(mr[n])
           /\ MinKey(mr[n]) \in KeysOf(mr[n]) /\ MaxKey(mr[n]) \in KeysOf(mr[n])
           /\ MinKey(mr[n]) \in 1..LastKey /\ MaxKey(mr[n]) \in 1..LastKey
<1>1. \A k \in KeysOf(mr[n]) : \E i \in DOMAIN mr[n] : k = mr[n][i].key
    BY DEF KeysOf
<1>2. \A i \in DOMAIN mr[n] : /\ MinKey(mr[n]) <= mr[n][i].key /\ mr[n][i].key <= MaxKey(mr[n])
                              /\ mr[n][i].key \in 1..LastKey /\ mr[n][i].key \in DOMAIN Contents(mr)
    BY WithinRange, Holds
<1>3. \A k \in DOMAIN Contents(mr) : MinKey(mr[n]) <= k /\ k <= MaxKey(mr[n]) => k \in KeysOf(mr[n])
    BY RangeAlone DEF KeysOf
<1>4. 1 \in DOMAIN mr[n] /\ Len(mr[n]) \in DOMAIN mr[n]
    BY RangeTypes
<1>5. MinKey(mr[n]) \in KeysOf(mr[n]) /\ MaxKey(mr[n]) \in KeysOf(mr[n])
    BY <1>4 DEF KeysOf, MinKey, MaxKey
<1>6. MinKey(mr[n]) \in 1..LastKey /\ MaxKey(mr[n]) \in 1..LastKey
    BY <1>4, WithinRange
<1>7. QED
    BY <1>1, <1>2, <1>3, <1>5, <1>6

LEMMA SourceWalks ==
    ASSUME NEW mr, IsMetaRange(mr), NEW it, NEW m \in Nat, PassedTo(mr, it, m), m < Front(mr, it)
    PROVE  /\ Walked(mr, it, m, {})
           /\ AtRange(mr, it) => /\ Walked(mr, Next1(mr, it), m, {})
                                 /\ Front(mr, Next1(mr, it)) = Front(mr, it)
                                 /\ Walked(mr, NextRange(mr, it), m, KeysOf(mr[it.range]))
                                 /\ MaxKey(mr[it.range]) < Front(mr, NextRange(mr, it))
           /\ AtRecord(mr, it) => /\ Walked(mr, Next1(mr, it), m, {Front(mr, it)})
                                  /\ Front(mr, it) = mr[it.range][it.rec].key
<1>1. Stands(mr, it) /\ \A k \in DOMAIN Contents(mr) : k \in 1..LastKey /\ (k > m => k >= Front(mr, it))
    BY HeldBy DEF PassedTo
<1>2. Walked(mr, it, m, {})
    BY <1>1 DEF Walked
<1>3. ASSUME AtRange(mr, it)
      PROVE  /\ Walked(mr, Next1(mr, it), m, {})
             /\ Front(mr, Next1(mr, it)) = Front(mr, it)
    <2>1. /\ PassedTo(mr, Next1(mr, it), Front(mr, it) - 1)
          /\ Front(mr, Next1(mr, it)) = Front(mr, it)
        BY <1>1, <1>3, IntoRange
    <2>2. QED
        BY <1>1, <2>1 DEF Walked, PassedTo
<1>4. ASSUME AtRange(mr, it)
      PROVE  /\ Walked(mr, NextRange(mr, it), m, KeysOf(mr[it.range]))
             /\ MaxKey(mr[it.range]) < Front(mr, NextRange(mr, it))
    <2> DEFINE nx == NextRange(mr, it)
               r == mr[it.range]
    <2>1. PassedTo(mr, nx, MaxKey(r)) /\ MaxKey(r) < Front(mr, nx) /\ it.range \in DOMAIN mr
          /\ Front(mr, it) = MinKey(r)
        BY <1>1, <1>4, OverRange, WhereItStands DEF Have
    <2>2. Stands(mr, nx)
        BY <2>1 DEF PassedTo
    <2>3. Front(mr, nx) \in 1..(LastKey + 1)
        BY <2>2, WhereItStands
    <2> HIDE DEF nx
    <2>4. MaxKey(r) \in 1..LastKey /\ \A k \in KeysOf(r) : k \in 1..LastKey /\ k <= MaxKey(r)
        BY <2>1, KeysOfRange
    <2>5. \A k \in KeysOf(r) : k < Front(mr, nx)
        BY <2>1, <2>3, <2>4, CommittedAssumption
    <2>6. ASSUME NEW k \in DOMAIN Contents(mr), k > m
          PROVE  k \in KeysOf(r) \/ k >= Front(mr, nx)
        <3>1. k \in 1..LastKey /\ k >= MinKey(r)
            BY <1>1, <2>1, <2>6
        <3>2. k > MaxKey(r) \/ k <= MaxKey(r)
            BY <2>4, <3>1
        <3>3. k > MaxKey(r) => k >= Front(mr, nx)
            BY <2>1 DEF PassedTo
        <3>4. k <= MaxKey(r) => k \in KeysOf(r)
            BY <2>1, <3>1, KeysOfRange
        <3>5. QED
            BY <3>2, <3>3, <3>4
    <2>6a. m < Front(mr, nx)
        BY <2>1, <2>3, <2>4, KeysOfRange, CommittedAssumption
    <2>7. QED
        BY <2>1, <2>2, <2>5, <2>6, <2>6a DEF Walked, nx
<1>5. ASSUME AtRecord(mr, it)
      PROVE  /\ Walked(mr, Next1(mr, it), m, {Front(mr, it)})
             /\ Front(mr, it) = mr[it.range][it.rec].key
    <2>1. Front(mr, it) = mr[it.range][it.rec].key /\ Front(mr, it) \in Nat
        BY <1>1, <1>5, WhereItStands, CommittedAssumption
    <2>2. /\ PassedTo(mr, Next1(mr, it), Front(mr, it))
          /\ Front(mr, it) < Front(mr, Next1(mr, it))
        BY <1>1, <1>5, <2>1, OverRecord
    <2>3. Stands(mr, Next1(mr, it))
        BY <2>2 DEF PassedTo
    <2>4. Front(mr, Next1(mr, it)) \in Nat
        BY <2>3, WhereItStands, CommittedAssumption
    <2>5. m < Front(mr, Next1(mr, it))
        BY <2>1, <2>2, <2>4
    <2>6. QED
        BY <1>1, <2>1, <2>2, <2>5 DEF Walked, PassedTo
<1>6. QED
    BY <1>2, <1>3, <1>4, <1>5

LEMMA DestWalks ==
    ASSUME NEW mr, IsMetaRange(mr), NEW ps, ArePrefixes(ps), NEW it, NEW m \in Nat,
           LeavesOut(mr, ps, it, m), m < Front(mr, it)
    PROVE  /\ WalkedOut(mr, ps, it, m, {})
           /\ AtRange(mr, it) =>
                /\ WalkedOut(mr, ps, SkipNext(mr, ps, it), m, {})
                /\ Front(mr, it) <= Front(mr, SkipNext(mr, ps, it))
                /\ WalkedOut(mr, ps, SkipNextRange(mr, ps, it), m, KeysOf(mr[it.range]))
                /\ MaxKey(mr[it.range]) < Front(mr, SkipNextRange(mr, ps, it))
           /\ AtRecord(mr, it) => /\ WalkedOut(mr, ps, SkipNext(mr, ps, it), m, {Front(mr, it)})
                                  /\ Front(mr, it) = mr[it.range][it.rec].key
                                  /\ ~Under(ps, Front(mr, it))
<1>1. Stands(mr, it) /\ Skips(mr, ps, it) /\ Front(mr, it) \in 1..(LastKey + 1)
      /\ it.prefix \in 1..(Len(ps) + 1)
    BY WhereItStands DEF LeavesOut, Skips
<1>2. \A k \in DOMAIN Contents(mr) : k \in 1..LastKey /\ (k > m => k >= Front(mr, it) \/ Under(ps, k))
    BY HeldBy DEF LeavesOut
<1>3. WalkedOut(mr, ps, it, m, {})
    BY DEF WalkedOut, LeavesOut
<1>4. /\ NextRange(mr, it) = [range |-> NextRange(mr, it).range, rec |-> NextRange(mr, it).rec, prefix |-> it.prefix]
      /\ Next1(mr, it) = [range |-> Next1(mr, it).range, rec |-> Next1(mr, it).rec, prefix |-> it.prefix]
    <2>1. it = [range |-> it.range, rec |-> it.rec, prefix |-> it.prefix]
        BY <1>1 DEF Skips
    <2> DEFINE x == IF it.range > Len(mr) THEN it.range ELSE it.range + 1
    <2>2. NextRange(mr, it) = [range |-> x, rec |-> 0, prefix |-> it.prefix]
        BY <2>1, SkipFields
    <2> HIDE DEF x
    <2>3. NextRange(mr, it) = [range |-> NextRange(mr, it).range, rec |-> NextRange(mr, it).rec, prefix |-> it.prefix]
        BY <2>2
    <2>4. QED
        BY <2>1, <2>3, SkipFields
<1>5. ASSUME AtRange(mr, it)
      PROVE  /\ WalkedOut(mr, ps, SkipNext(mr, ps, it), m, {})
             /\ Front(mr, it) <= Front(mr, SkipNext(mr, ps, it))
    <2> DEFINE x == Next1(mr, it)
               s == SkipNext(mr, ps, it)
    <2>1. /\ PassedTo(mr, x, Front(mr, it) - 1)
          /\ Front(mr, x) = Front(mr, it)
        BY <1>1, <1>5, IntoRange
    <2>2. Stands(mr, x)
        BY <2>1 DEF PassedTo
    <2> HIDE DEF x, s
    <2>3. Front(mr, it) <= Front(mr, x)
        BY <1>1, <2>1
    <2>4. Skips(mr, ps, x)
        BY <1>1, <1>4, <2>2, <2>3, StillSkips DEF x
    <2>5. Front(mr, it) - 1 \in Nat
        BY <1>1
    <2>6. LeavesOut(mr, ps, s, Front(mr, it) - 1) /\ Front(mr, x) <= Front(mr, s)
        BY <2>1, <2>4, <2>5, SkipNextOn DEF x, s
    <2>7. ASSUME NEW k \in DOMAIN Contents(mr), k > m
          PROVE  k >= Front(mr, s) \/ Under(ps, k)
        <3>1. k \in 1..LastKey /\ (k >= Front(mr, it) \/ Under(ps, k))
            BY <1>2, <2>7
        <3>2. k >= Front(mr, it) => k > Front(mr, it) - 1
            BY <1>1, <3>1
        <3>3. QED
            BY <2>6, <3>1, <3>2 DEF LeavesOut
    <2>7a. Front(mr, s) \in Nat
        BY <2>6, WhereItStands, CommittedAssumption DEF LeavesOut, Skips
    <2>7b. m < Front(mr, s)
        BY <1>1, <2>1, <2>6, <2>7a
    <2>8. QED
        BY <2>1, <2>6, <2>7, <2>7b DEF LeavesOut, WalkedOut, s
<1>6. ASSUME AtRange(mr, it)
      PROVE  /\ WalkedOut(mr, ps, SkipNextRange(mr, ps, it), m, KeysOf(mr[it.range]))
             /\ MaxKey(mr[it.range]) < Front(mr, SkipNextRange(mr, ps, it))
    <2> DEFINE x == NextRange(mr, it)
               s == SkipNextRange(mr, ps, it)
               r == mr[it.range]
    <2>1. /\ PassedTo(mr, x, MaxKey(r)) /\ MaxKey(r) < Front(mr, x) /\ it.range \in DOMAIN mr
          /\ Front(mr, it) = MinKey(r) /\ x.rec = 0
        BY <1>1, <1>6, OverRange, WhereItStands DEF Have
    <2>2. Stands(mr, x) /\ ~AtRecord(mr, x)
        BY <2>1 DEF PassedTo, AtRecord
    <2> HIDE DEF x, s
    <2>3. MaxKey(r) \in 1..LastKey /\ MinKey(r) \in 1..LastKey /\ MinKey(r) <= MaxKey(r)
          /\ \A k \in KeysOf(r) : k \in 1..LastKey /\ k <= MaxKey(r)
        BY <2>1, KeysOfRange
    <2>4. Front(mr, x) \in 1..(LastKey + 1)
        BY <2>2, WhereItStands
    <2>5. Front(mr, it) <= Front(mr, x) /\ MaxKey(r) \in Nat
        BY <1>1, <2>1, <2>3, <2>4, CommittedAssumption
    <2>6. Skips(mr, ps, x)
        BY <1>1, <1>4, <2>2, <2>5, StillSkips DEF x
    <2>7. LeavesOut(mr, ps, s, MaxKey(r)) /\ Front(mr, x) <= Front(mr, s)
        BY <2>1, <2>2, <2>5, <2>6, SkipNextRangeOn DEF x, s
    <2>8. Front(mr, s) \in 1..(LastKey + 1)
        BY <2>7, WhereItStands DEF LeavesOut, Skips
    <2>9. MaxKey(r) < Front(mr, s)
        BY <2>1, <2>3, <2>4, <2>7, <2>8, CommittedAssumption
    <2>10. \A k \in KeysOf(r) : k < Front(mr, s)
        BY <2>3, <2>8, <2>9, CommittedAssumption
    <2>11. ASSUME NEW k \in DOMAIN Contents(mr), k > m
          PROVE  k \in KeysOf(r) \/ k >= Front(mr, s) \/ Under(ps, k)
        <3>1. k \in 1..LastKey /\ (k >= MinKey(r) \/ Under(ps, k))
            BY <1>2, <2>1, <2>11
        <3>2. k > MaxKey(r) \/ k <= MaxKey(r)
            BY <2>3, <3>1
        <3>3. k > MaxKey(r) => k >= Front(mr, s) \/ Under(ps, k)
            BY <2>7 DEF LeavesOut
        <3>4. k <= MaxKey(r) /\ k >= MinKey(r) => k \in KeysOf(r)
            BY <2>1, <2>3, <3>1, KeysOfRange
        <3>5. QED
            BY <3>1, <3>2, <3>3, <3>4
    <2>11a. m < Front(mr, s)
        BY <1>1, <2>1, <2>3, <2>8, <2>9, CommittedAssumption
    <2>12. QED
        BY <2>7, <2>9, <2>10, <2>11, <2>11a DEF LeavesOut, WalkedOut, s
<1>7. ASSUME AtRecord(mr, it)
      PROVE  /\ WalkedOut(mr, ps, SkipNext(mr, ps, it), m, {Front(mr, it)})
             /\ Front(mr, it) = mr[it.range][it.rec].key
             /\ ~Under(ps, Front(mr, it))
    <2> DEFINE x == Next1(mr, it)
               s == SkipNext(mr, ps, it)
    <2>1. Front(mr, it) = mr[it.range][it.rec].key /\ Front(mr, it) \in Nat
        BY <1>1, <1>7, WhereItStands, CommittedAssumption
    <2>2. PassedTo(mr, x, Front(mr, it)) /\ Front(mr, it) < Front(mr, x) /\ Stands(mr, x)
        BY <1>1, <1>7, <2>1, OverRecord
    <2> HIDE DEF x, s
    <2>3. Front(mr, x) \in 1..(LastKey + 1)
        BY <2>2, WhereItStands
    <2>4. Front(mr, it) <= Front(mr, x)
        BY <1>1, <2>2, <2>3
    <2>5. Skips(mr, ps, x)
        BY <1>1, <1>4, <2>2, <2>4, StillSkips DEF x
    <2>6. LeavesOut(mr, ps, s, Front(mr, it)) /\ Front(mr, x) <= Front(mr, s)
        BY <2>1, <2>2, <2>5, SkipNextOn DEF x, s
    <2>7. Front(mr, s) \in 1..(LastKey + 1)
        BY <2>6, WhereItStands DEF LeavesOut, Skips
    <2>8. Front(mr, it) < Front(mr, s)
        BY <1>1, <2>2, <2>3, <2>6, <2>7
    <2>9. ASSUME NEW k \in DOMAIN Contents(mr), k > m
          PROVE  k = Front(mr, it) \/ k >= Front(mr, s) \/ Under(ps, k)
        <3>1. k \in 1..LastKey /\ (k >= Front(mr, it) \/ Under(ps, k))
            BY <1>2, <2>9
        <3>2. k > Front(mr, it) \/ k <= Front(mr, it)
            BY <1>1, <3>1
        <3>3. k > Front(mr, it) => k >= Front(mr, s) \/ Under(ps, k)
            BY <2>6 DEF LeavesOut
        <3>4. QED
            BY <1>1, <3>1, <3>2, <3>3
    <2>10. ~Under(ps, Front(mr, it))
        BY <1>7 DEF LeavesOut
    <2>10a. m < Front(mr, s)
        BY <1>1, <2>7, <2>8
    <2>11. QED
        BY <2>1, <2>6, <2>8, <2>9, <2>10, <2>10a DEF LeavesOut, WalkedOut, s
<1>8. QED
    BY <1>3, <1>5, <1>6, <1>7

LEMMA FirstSteps ==
    ASSUME NEW mr, IsMetaRange(mr), NEW ps, ArePrefixes(ps), NEW it, NEW dt,
           it = Start, dt = [range |-> 0, rec |-> 0, prefix |-> 1]
    PROVE  /\ PassedTo(mr, Next1(mr, it), 0)
           /\ Next1(mr, it) = [range |-> 1, rec |-> 0]
           /\ LeavesOut(mr, ps, SkipNext(mr, ps, dt), 0)
<1>1. it.range = 0 /\ it.rec = 0 /\ {"range", "rec"} \subseteq DOMAIN it
    BY DEF Start
<1>2. dt.range = 0 /\ dt.rec = 0 /\ dt.prefix = 1 /\ {"range", "rec"} \subseteq DOMAIN dt
    OBVIOUS
<1>3. PassedTo(mr, Next1(mr, it), 0) /\ Next1(mr, it) = NextRange(mr, it)
    BY <1>1, FirstMove
<1>4. PassedTo(mr, Next1(mr, dt), 0) /\ Next1(mr, dt) = NextRange(mr, dt)
    BY <1>2, FirstMove
<1>5. Len(mr) \in Nat
    BY DEF IsMetaRange
<1>6. NextRange(mr, it) = [range |-> 1, rec |-> 0]
    <2>1. PICK y : y = [it EXCEPT !.range = 1]
        OBVIOUS
    <2>0. PICK x : x = IF it.range > Len(mr) THEN it.range ELSE it.range + 1
        OBVIOUS
    <2>0a. x = 1
        BY <1>1, <1>5, <2>0
    <2>0b. NextRange(mr, it) = [it EXCEPT !.range = x, !.rec = 0]
        BY <2>0 DEF NextRange
    <2>1a. NextRange(mr, it) = [it EXCEPT !.range = 1, !.rec = 0]
        BY <2>0a, <2>0b
    <2>1b. [it EXCEPT !.range = 1, !.rec = 0] = [y EXCEPT !.rec = 0]
        BY <2>1
    <2>2. [it EXCEPT !.range = 1] = [range |-> 1, rec |-> 0]
        BY DEF Start
    <2>3. QED
        BY <2>1, <2>1a, <2>1b, <2>2
<1>7. NextRange(mr, dt) = [range |-> 1, rec |-> 0, prefix |-> 1]
    <2>1. dt = [range |-> dt.range, rec |-> dt.rec, prefix |-> dt.prefix]
        BY <1>2
    <2>2. NextRange(mr, dt) = [range |-> IF dt.range > Len(mr) THEN dt.range ELSE dt.range + 1,
                               rec |-> 0, prefix |-> dt.prefix]
        BY <2>1, SkipFields
    <2>3. QED
        BY <1>2, <1>5, <2>2
<1> DEFINE x == Next1(mr, dt)
<1>8. x = [range |-> 1, rec |-> 0, prefix |-> 1] /\ PassedTo(mr, x, 0) /\ Stands(mr, x)
    BY <1>4, <1>7 DEF PassedTo
<1> HIDE DEF x
<1>9. x = [range |-> x.range, rec |-> x.rec, prefix |-> dt.prefix] /\ dt.prefix = 1
    BY <1>2, <1>8
<1>10. Skips(mr, ps, x)
    <2>1. 1 \in 1..(Len(ps) + 1)
        BY PrefixTypes
    <2>2. QED
        BY <1>8, <1>9, <2>1, StillSkips
<1>11. LeavesOut(mr, ps, SkipNext(mr, ps, dt), 0)
    BY <1>8, <1>10, SkipNextOn DEF x
<1>12. QED
    BY <1>3, <1>6, <1>11

-----------------------------------------------------------------------------
(* The base's iterator *)

\* It is moved, and has all that is above m ahead.
Kept(mr, it, m) ==
    /\ it.range \in Nat /\ it.range >= 1 /\ it.rec \in Nat
    /\ it = [range |-> it.range, rec |-> it.rec]
    /\ Have(mr, it) => it.rec <= Len(mr[it.range])
    /\ \A n \in DOMAIN mr : \A i \in DOMAIN mr[n] :
        mr[n][i].key > m => n > it.range \/ (n = it.range /\ i >= it.rec)

LEMMA BaseFinds ==
    ASSUME IsMetaRange(job.base), NEW m \in Nat, Kept(job.base, base, m), NEW key \in 1..LastKey, key > m
    PROVE  LET it == BaseGE(key)
               rec == Record(job.base, it)
           IN /\ \A n \in Nat : n >= m /\ n + 1 >= key => Kept(job.base, it, n)
              /\ Have(job.base, it) => /\ AtRecord(job.base, it) /\ it.rec \in DOMAIN job.base[it.range]
                                       /\ rec.key >= key
              /\ Have(job.base, it) /\ rec.key = key => IdOf(job.base, key) = rec.id /\ rec.id # 0
              /\ IdOf(job.base, key) # 0 => Have(job.base, it) /\ rec.key = key
<1> DEFINE mr == job.base
           Places == UNION {{[range |-> n, rec |-> i] : i \in DOMAIN mr[n]} : n \in DOMAIN mr}
           found == {it \in BaseAhead : Record(mr, it).key >= key}
           s == BaseGE(key)
<1>1. /\ base.range \in Nat /\ base.range >= 1 /\ base.rec \in Nat
      /\ \A n \in DOMAIN mr : \A i \in DOMAIN mr[n] :
            mr[n][i].key > m => n > base.range \/ (n = base.range /\ i >= base.rec)
    BY DEF Kept
<1>2. Len(mr) \in Nat /\ DOMAIN mr = 1..Len(mr)
    BY DEF IsMetaRange
<1>3. \A n \in DOMAIN mr : \A i \in DOMAIN mr[n] :
        /\ n \in Nat /\ i \in Nat /\ n >= 1 /\ i >= 1 /\ i <= Len(mr[n]) /\ mr[n][i].key \in 1..LastKey
    BY RangeTypes
<1>4. \A it \in found : \E n \in DOMAIN mr : \E i \in DOMAIN mr[n] :
            it = [range |-> n, rec |-> i] /\ mr[n][i].key >= key
    BY DEF BaseAhead, Record
<1>5. ASSUME NEW n \in DOMAIN mr, NEW i \in DOMAIN mr[n], mr[n][i].key >= key
      PROVE  [range |-> n, rec |-> i] \in found
    <2>1. mr[n][i].key > m
        BY <1>3, <1>5, CommittedAssumption
    <2>2. n > base.range \/ (n = base.range /\ i >= base.rec)
        BY <1>1, <2>1
    <2>3. [range |-> n, rec |-> i] \in BaseAhead
        BY <2>2 DEF BaseAhead
    <2>4. Record(mr, [range |-> n, rec |-> i]) = mr[n][i]
        BY DEF Record
    <2>5. QED
        BY <1>5, <2>3, <2>4
<1>6. CASE found = {}
    <2>1. s = [range |-> Len(mr) + 1, rec |-> 0]
        BY <1>6 DEF BaseGE, End
    <2>2. s.range = Len(mr) + 1 /\ s.rec = 0 /\ s = [range |-> s.range, rec |-> s.rec]
        BY <2>1
    <2> HIDE DEF s, found
    <2>3. ~Have(mr, s)
        BY <1>2, <2>2 DEF Have
    <2>4. \A n \in DOMAIN mr : \A i \in DOMAIN mr[n] : ~(mr[n][i].key >= key)
        BY <1>5, <1>6
    <2>5. \A n \in Nat : n >= m /\ n + 1 >= key => Kept(mr, s, n)
        <3>1. \A n \in Nat : n + 1 >= key => \A p \in DOMAIN mr : \A i \in DOMAIN mr[p] : ~(mr[p][i].key > n)
            BY <1>3, <2>4, CommittedAssumption
        <3>2. QED
            BY <1>2, <2>2, <2>3, <3>1 DEF Kept
    <2>6. IdOf(mr, key) = 0
        BY <2>4, HeldBy, CommittedAssumption
    <2>7. QED
        BY <2>3, <2>5, <2>6 DEF s
<1>7. CASE found # {}
    <2> HIDE DEF s, Places
    <2>0. \E x \in found : \A y \in found : Record(mr, x).key <= Record(mr, y).key
        <3> DEFINE Numbers == {Record(mr, x).key : x \in found}
        <3>1. Numbers # {} /\ Numbers \subseteq Nat
            <4>1. \A x \in found : Record(mr, x).key \in Nat
                <5> SUFFICES ASSUME NEW x \in found PROVE Record(mr, x).key \in Nat
                    OBVIOUS
                <5> HIDE DEF found
                <5>1. PICK n \in DOMAIN mr : \E i \in DOMAIN mr[n] : x = [range |-> n, rec |-> i]
                    BY <1>4
                <5>2. PICK i \in DOMAIN mr[n] : x = [range |-> n, rec |-> i]
                    BY <5>1
                <5>3. Record(mr, x) = mr[n][i]
                    BY <5>2 DEF Record
                <5>4. QED
                    BY <1>3, <5>3, CommittedAssumption
            <4> HIDE DEF found
            <4>2. QED
                BY <1>7, <4>1
        <3> HIDE DEF found
        <3>2. PICK least \in Numbers : \A y \in Numbers : least <= y
            <4> HIDE DEF Numbers
            <4>1. QED
                BY <3>1, LeastNumber
        <3>3. QED
            BY <3>2
    <2>1. s \in found /\ \A y \in found : Record(mr, s).key <= Record(mr, y).key
        <3>1. s = CHOOSE x \in found : \A y \in found : Record(mr, x).key <= Record(mr, y).key
            BY <1>7 DEF BaseGE, s
        <3> HIDE DEF found
        <3>2. QED
            BY <2>0, <3>1
    <2> HIDE DEF found
    <2>2. PICK n \in DOMAIN mr : \E i \in DOMAIN mr[n] : s = [range |-> n, rec |-> i] /\ mr[n][i].key >= key
        BY <1>4, <2>1
    <2>3. PICK i \in DOMAIN mr[n] : s = [range |-> n, rec |-> i] /\ mr[n][i].key >= key
        BY <2>2
    <2>4. s.range = n /\ s.rec = i /\ s = [range |-> s.range, rec |-> s.rec] /\ Record(mr, s) = mr[n][i]
        BY <2>3 DEF Record
    <2>5. Have(mr, s) /\ AtRecord(mr, s) /\ s.rec \in DOMAIN mr[s.range]
        BY <1>3, <2>4 DEF Have, AtRecord
    <2>6. ASSUME NEW p \in DOMAIN mr, NEW j \in DOMAIN mr[p], mr[p][j].key >= key
          PROVE  mr[n][i].key <= mr[p][j].key
        <3>1. [range |-> p, rec |-> j] \in found
            BY <1>5, <2>6
        <3>2. Record(mr, [range |-> p, rec |-> j]) = mr[p][j]
            BY DEF Record
        <3>3. QED
            BY <2>1, <2>4, <3>1, <3>2
    <2>7. ASSUME NEW h \in Nat, h + 1 >= key
          PROVE  Kept(mr, s, h)
        <3>1. ASSUME NEW p \in DOMAIN mr, NEW j \in DOMAIN mr[p], mr[p][j].key > h
              PROVE  p > n \/ (p = n /\ j >= i)
            <4>1. mr[p][j].key >= key
                BY <1>3, <2>7, <3>1, CommittedAssumption
            <4>2. mr[n][i].key <= mr[p][j].key
                BY <2>6, <4>1
            <4>3. p < n \/ (p = n /\ j < i) => mr[p][j].key < mr[n][i].key
                BY KeysAscend
            <4>3a. mr[p][j].key \in Nat /\ mr[n][i].key \in Nat
                BY <1>3, CommittedAssumption
            <4>3b. ~(p < n \/ (p = n /\ j < i))
                BY <4>2, <4>3, <4>3a
            <4>4. QED
                BY <1>3, <4>3b
        <3>2. QED
            BY <1>3, <2>4, <3>1 DEF Kept
    <2>8. mr[n][i].key = key => IdOf(mr, key) = mr[n][i].id /\ mr[n][i].id # 0
        BY Holds
    <2>9. IdOf(mr, key) # 0 => mr[n][i].key = key
        <3> SUFFICES ASSUME IdOf(mr, key) # 0 PROVE mr[n][i].key = key
            OBVIOUS
        <3>1. PICK p \in DOMAIN mr : \E j \in DOMAIN mr[p] : key = mr[p][j].key
            BY HeldBy
        <3>2. PICK j \in DOMAIN mr[p] : key = mr[p][j].key
            BY <3>1
        <3>3. mr[n][i].key <= key
            BY <2>6, <3>2
        <3>4. QED
            BY <1>3, <2>3, <3>3, CommittedAssumption
    <2>10. Have(mr, s) => /\ AtRecord(mr, s) /\ s.rec \in DOMAIN mr[s.range]
                          /\ Record(mr, s).key >= key
        BY <2>3, <2>4, <2>5
    <2>11. QED
        BY <2>4, <2>5, <2>7, <2>8, <2>9, <2>10 DEF s
<1>8. QED
    BY <1>6, <1>7

LEMMA BaseOverlaps ==
    ASSUME IsMetaRange(job.base), NEW m \in Nat, Kept(job.base, base, m),
           NEW r, MinKey(r) \in 1..LastKey, MaxKey(r) \in 1..LastKey, MinKey(r) > m
    PROVE  /\ \A h \in Nat : h >= m /\ h + 1 >= MinKey(r) => Kept(job.base, BaseFrom(r), h)
           /\ Overlapping(r) = <<>> => \A k : MinKey(r) <= k /\ k <= MaxKey(r) => IdOf(job.base, k) = 0
           /\ Overlapping(r) # <<>> => \E n \in DOMAIN job.base : Overlapping(r) = job.base[n]
<1> DEFINE mr == job.base
           found == {n \in DOMAIN mr : n > base.range /\ MaxKey(mr[n]) >= MinKey(r)}
           s == BaseFrom(r)
<1>1. /\ base.range \in Nat /\ base.range >= 1 /\ base.rec \in Nat
      /\ base = [range |-> base.range, rec |-> base.rec]
      /\ Have(mr, base) => base.rec <= Len(mr[base.range])
      /\ \A n \in DOMAIN mr : \A i \in DOMAIN mr[n] :
            mr[n][i].key > m => n > base.range \/ (n = base.range /\ i >= base.rec)
    BY DEF Kept
<1>2. Len(mr) \in Nat /\ DOMAIN mr = 1..Len(mr)
    BY DEF IsMetaRange
<1>3. \A n \in DOMAIN mr : \A i \in DOMAIN mr[n] :
        /\ n \in Nat /\ i \in Nat /\ n >= 1 /\ i >= 1 /\ i <= Len(mr[n]) /\ mr[n][i].key \in 1..LastKey
        /\ MinKey(mr[n]) <= mr[n][i].key /\ mr[n][i].key <= MaxKey(mr[n])
        /\ MinKey(mr[n]) \in 1..LastKey /\ MaxKey(mr[n]) \in 1..LastKey
    <2> SUFFICES ASSUME NEW n \in DOMAIN mr, NEW i \in DOMAIN mr[n]
                 PROVE  /\ n \in Nat /\ i \in Nat /\ n >= 1 /\ i >= 1 /\ i <= Len(mr[n]) /\ mr[n][i].key \in 1..LastKey
                        /\ MinKey(mr[n]) <= mr[n][i].key /\ mr[n][i].key <= MaxKey(mr[n])
                        /\ MinKey(mr[n]) \in 1..LastKey /\ MaxKey(mr[n]) \in 1..LastKey
        OBVIOUS
    <2>1. DOMAIN mr[n] = 1..Len(mr[n]) /\ Len(mr[n]) \in Nat
        BY RangeTypes
    <2>2. n \in Nat /\ n >= 1
        BY <1>2
    <2>3. i \in Nat /\ i >= 1 /\ i <= Len(mr[n])
        BY <2>1
    <2>4. QED
        BY <2>2, <2>3, WithinRange
<1>4. \A n \in DOMAIN mr : 1 \in DOMAIN mr[n] /\ mr[n] # <<>> /\ Len(mr[n]) \in DOMAIN mr[n]
                           /\ MinKey(mr[n]) = mr[n][1].key /\ MaxKey(mr[n]) = mr[n][Len(mr[n])].key
    BY RangeTypes, WithinRange
<1>5. Overlapping(r) = IF Have(mr, s) /\ MinKey(mr[s.range]) <= MaxKey(r) THEN mr[s.range] ELSE <<>>
    BY DEF Overlapping, RangeAt
<1>6. s = IF Have(mr, base) /\ MaxKey(mr[base.range]) >= MinKey(r) THEN base
          ELSE IF found = {} THEN [range |-> Len(mr) + 1, rec |-> 0]
          ELSE [range |-> Seqs!Min(found), rec |-> 0]
    BY DEF BaseFrom, RangeAt, End
<1> HIDE DEF s
\* Nothing that does not end before the given range is behind it.
<1>7. /\ s.range \in Nat /\ s.range >= 1 /\ s.rec \in Nat /\ s = [range |-> s.range, rec |-> s.rec]
      /\ Have(mr, s) => s.rec <= Len(mr[s.range])
      /\ \A n \in DOMAIN mr : \A i \in DOMAIN mr[n] :
            mr[n][i].key >= MinKey(r) => n > s.range \/ (n = s.range /\ i >= s.rec)
    <2>0. \A n \in DOMAIN mr : \A i \in DOMAIN mr[n] : mr[n][i].key >= MinKey(r) =>
            (n > base.range \/ (n = base.range /\ i >= base.rec)) /\ MaxKey(mr[n]) >= MinKey(r)
        BY <1>1, <1>3, CommittedAssumption
    <2>1. CASE Have(mr, base) /\ MaxKey(mr[base.range]) >= MinKey(r)
        <3>1. s = base
            BY <1>6, <2>1
        <3>2. QED
            BY <1>1, <2>0, <3>1
    <2>2. CASE ~(Have(mr, base) /\ MaxKey(mr[base.range]) >= MinKey(r))
        <3>1. \A n \in DOMAIN mr : \A i \in DOMAIN mr[n] : mr[n][i].key >= MinKey(r) => n \in found
            <4> SUFFICES ASSUME NEW n \in DOMAIN mr, NEW i \in DOMAIN mr[n], mr[n][i].key >= MinKey(r)
                         PROVE  n \in found
                BY DEF s
            <4>1. (n > base.range \/ n = base.range) /\ MaxKey(mr[n]) >= MinKey(r)
                BY <2>0
            <4>2. n # base.range
                BY <2>2, <4>1 DEF Have
            <4>3. QED
                BY <4>1, <4>2
        <3>2. CASE found = {}
            <4> HIDE DEF found
            <4>1. s = [range |-> Len(mr) + 1, rec |-> 0]
                BY <1>6, <2>2, <3>2
            <4>2. s.range = Len(mr) + 1 /\ s.rec = 0
                BY <4>1
            <4>3. ~Have(mr, s)
                BY <1>2, <4>2 DEF Have
            <4>4. QED
                BY <1>2, <3>1, <3>2, <4>1, <4>2, <4>3
        <3>3. CASE found # {}
            <4> DEFINE l == Seqs!Min(found)
            <4>1. found \subseteq Nat
                BY <1>2
            <4>2. l \in found /\ l \in Nat /\ \A n \in found : l <= n
                <5> HIDE DEF found
                <5>1. QED
                    BY <3>3, <4>1, MinOfNumbers
            <4>3. s = [range |-> l, rec |-> 0]
                BY <1>6, <2>2, <3>3
            <4> HIDE DEF l
            <4>4. l \in DOMAIN mr /\ l >= 1
                BY <1>2, <4>2
            <4> HIDE DEF found
            <4>5. s.range = l /\ s.rec = 0
                BY <4>3
            <4>6. Len(mr[l]) \in Nat
                BY <4>4, RangeTypes
            <4>7. ASSUME NEW n \in DOMAIN mr, NEW i \in DOMAIN mr[n], mr[n][i].key >= MinKey(r)
                  PROVE  n > l \/ (n = l /\ i >= 0)
                <5>1. l <= n
                    BY <3>1, <4>2, <4>7
                <5>2. QED
                    BY <1>3, <4>2, <5>1
            <4>8. QED
                BY <4>2, <4>3, <4>4, <4>5, <4>6, <4>7
        <3>4. QED
            BY <3>2, <3>3
    <2>3. QED
        BY <2>1, <2>2
<1>8. ASSUME NEW h \in Nat, h + 1 >= MinKey(r)
      PROVE  Kept(mr, s, h)
    <2>1. \A n \in DOMAIN mr : \A i \in DOMAIN mr[n] : mr[n][i].key > h => mr[n][i].key >= MinKey(r)
        BY <1>3, <1>8, CommittedAssumption
    <2>2. QED
        BY <1>7, <2>1 DEF Kept
<1>9. ASSUME Overlapping(r) = <<>>, NEW k, MinKey(r) <= k, k <= MaxKey(r)
      PROVE  IdOf(mr, k) = 0
    <2>1. SUFFICES ASSUME k \in DOMAIN Contents(mr)
                   PROVE  FALSE
        BY HeldBy
    <2>2. PICK n \in DOMAIN mr : \E i \in DOMAIN mr[n] : k = mr[n][i].key
        BY <2>1, HeldBy
    <2>3. PICK i \in DOMAIN mr[n] : k = mr[n][i].key
        BY <2>2
    <2>4. n > s.range \/ (n = s.range /\ i >= s.rec)
        BY <1>7, <1>9, <2>3
    <2>5. s.range \in DOMAIN mr
        BY <1>2, <1>3, <1>7, <2>4
    <2>6. ~(MinKey(mr[s.range]) <= MaxKey(r))
        BY <1>4, <1>5, <1>9, <2>5 DEF Have
    <2>7. 1 \in DOMAIN mr[s.range] /\ MinKey(mr[s.range]) = mr[s.range][1].key
          /\ MinKey(mr[s.range]) \in 1..LastKey
        BY <1>3, <1>4, <2>5
    <2>8. s.range < n => mr[s.range][1].key < mr[n][i].key
        BY <2>5, <2>7, KeysAscend
    <2>9. s.range = n => MinKey(mr[s.range]) <= mr[n][i].key
        BY <1>3
    <2>10. mr[n][i].key \in 1..LastKey
        BY <1>3
    <2>11. MinKey(mr[s.range]) <= k
        BY <1>3, <1>7, <2>3, <2>4, <2>7, <2>8, <2>9, <2>10, CommittedAssumption
    <2>12. QED
        BY <1>9, <2>3, <2>6, <2>7, <2>10, <2>11, CommittedAssumption
<1>10. Overlapping(r) # <<>> => \E n \in DOMAIN mr : Overlapping(r) = mr[n]
    BY <1>5 DEF Have
<1>11. QED
    BY <1>8, <1>9, <1>10 DEF s

\* What the base has where it has the whole range, and where it has nothing.
LEMMA BaseTells ==
    ASSUME IsMetaRange(job.base), NEW m \in Nat, Kept(job.base, base, m),
           NEW mr, IsMetaRange(mr), NEW n \in DOMAIN mr, MinKey(mr[n]) > m
    PROVE  /\ \A h \in Nat : h >= m /\ h + 1 >= MinKey(mr[n]) => Kept(job.base, BaseFrom(mr[n]), h)
           /\ Overlapping(mr[n]) = <<>> => \A k \in KeysOf(mr[n]) : IdOf(job.base, k) = 0
           /\ \A p \in DOMAIN mr : Overlapping(mr[n]) = mr[p] =>
                \A k \in KeysOf(mr[p]) : IdOf(job.base, k) = IdOf(mr, k)
           /\ \A other : IsMetaRange(other) => \A p \in DOMAIN other : Overlapping(mr[n]) = other[p] =>
                \A k : MinKey(other[p]) <= k /\ k <= MaxKey(other[p]) => IdOf(job.base, k) = IdOf(other, k)
<1>1. MinKey(mr[n]) \in 1..LastKey /\ MaxKey(mr[n]) \in 1..LastKey
    BY KeysOfRange
<1>2. /\ \A h \in Nat : h >= m /\ h + 1 >= MinKey(mr[n]) => Kept(job.base, BaseFrom(mr[n]), h)
      /\ Overlapping(mr[n]) = <<>> =>
            \A k : MinKey(mr[n]) <= k /\ k <= MaxKey(mr[n]) => IdOf(job.base, k) = 0
      /\ Overlapping(mr[n]) # <<>> => \E b \in DOMAIN job.base : Overlapping(mr[n]) = job.base[b]
    BY <1>1, BaseOverlaps
<1>3. Overlapping(mr[n]) = <<>> => \A k \in KeysOf(mr[n]) : IdOf(job.base, k) = 0
    BY <1>2, KeysOfRange
<1>4. ASSUME NEW other, IsMetaRange(other), NEW p \in DOMAIN other, Overlapping(mr[n]) = other[p],
             NEW k, MinKey(other[p]) <= k, k <= MaxKey(other[p])
      PROVE  IdOf(job.base, k) = IdOf(other, k)
    <2>1. other[p] # <<>>
        BY <1>4, RangeTypes
    <2>2. PICK b \in DOMAIN job.base : other[p] = job.base[b]
        BY <1>2, <1>4, <2>1
    <2>3. MinKey(job.base[b]) <= k /\ k <= MaxKey(job.base[b])
        BY <1>4, <2>2
    <2>4. IdOf(job.base, k) = IdIn(job.base[b], k)
        BY <2>3, RangeTells
    <2>5. IdOf(other, k) = IdIn(other[p], k)
        BY <1>4, RangeTells
    <2>6. QED
        BY <2>2, <2>4, <2>5
<1>5. \A p \in DOMAIN mr : Overlapping(mr[n]) = mr[p] =>
        \A k \in KeysOf(mr[p]) : IdOf(job.base, k) = IdOf(mr, k)
    BY <1>4, KeysOfRange
<1>6. QED
    BY <1>2, <1>3, <1>4, <1>5

-----------------------------------------------------------------------------
(* The writer *)

RecordSet == [key : 1..LastKey, id : Identities]

AreRecords(r) ==
    /\ r \in Seq(RecordSet)
    /\ \A i, j \in DOMAIN r : i < j => r[i].key < r[j].key

IsRange(r) == AreRecords(r) /\ r # <<>>

Apart(r, q) == MaxKey(r) < MinKey(q) \/ MaxKey(q) < MinKey(r)

WriterInv ==
    /\ lastKey \in 0..LastKey /\ unsorted \in BOOLEAN
    /\ \A r \in closed : IsRange(r) /\ MaxKey(r) <= lastKey
    /\ IsFiniteSet(closed)
    /\ \A r, q \in closed : r # q => Apart(r, q)
    /\ AreRecords(open)
    /\ open # <<>> => MaxKey(open) <= lastKey /\ \A r \in closed : MaxKey(r) < MinKey(open)

AllOf(ranges) == UNION {Seqs!ToSet(r) : r \in ranges}

WrittenRecords == AllOf(WrittenRanges)

LEMMA RangeHas ==
    ASSUME NEW r, AreRecords(r)
    PROVE  /\ Len(r) \in Nat /\ DOMAIN r = 1..Len(r)
           /\ \A i \in DOMAIN r : r[i] \in RecordSet /\ r[i].key \in 1..LastKey
           /\ r # <<>> => /\ MinKey(r) \in 1..LastKey /\ MaxKey(r) \in 1..LastKey
                          /\ 1 \in DOMAIN r /\ Len(r) \in DOMAIN r
                          /\ \A i \in DOMAIN r : MinKey(r) <= r[i].key /\ r[i].key <= MaxKey(r)
                          /\ MinKey(r) <= MaxKey(r)
           /\ r = <<>> => Len(r) = 0 /\ DOMAIN r = {}
<1>1. \A rec \in RecordSet : rec.key \in 1..LastKey
    BY DEF RecordSet
<1>2. r \in Seq(RecordSet)
    BY DEF AreRecords
<1>3. Len(r) \in Nat /\ DOMAIN r = 1..Len(r) /\ \A i \in DOMAIN r : r[i] \in RecordSet
    BY <1>2
<1>4. r # <<>> => Len(r) >= 1
    BY <1>2
<1>4a. r = <<>> => Len(r) = 0
    OBVIOUS
<1>5. r # <<>> => 1 \in DOMAIN r /\ Len(r) \in DOMAIN r
    BY <1>3, <1>4
<1>6. ASSUME r # <<>>
      PROVE  /\ MinKey(r) \in 1..LastKey /\ MaxKey(r) \in 1..LastKey
             /\ \A i \in DOMAIN r : MinKey(r) <= r[i].key /\ r[i].key <= MaxKey(r)
             /\ MinKey(r) <= MaxKey(r)
    <2>1. MinKey(r) = r[1].key /\ MaxKey(r) = r[Len(r)].key
        BY DEF MinKey, MaxKey
    <2>2. r[1].key \in 1..LastKey /\ r[Len(r)].key \in 1..LastKey
        BY <1>1, <1>3, <1>5, <1>6
    <2>3. ASSUME NEW i \in DOMAIN r
          PROVE  r[1].key <= r[i].key /\ r[i].key <= r[Len(r)].key
        <3>1. i \in Nat /\ i >= 1 /\ i <= Len(r) /\ r[i].key \in 1..LastKey
            BY <1>1, <1>3
        <3>2. (1 < i => r[1].key < r[i].key) /\ (i < Len(r) => r[i].key < r[Len(r)].key)
            BY <1>5, <1>6 DEF AreRecords
        <3>3. QED
            BY <1>3, <2>2, <3>1, <3>2, CommittedAssumption
    <2>4. r[1].key <= r[Len(r)].key
        BY <1>5, <1>6, <2>3
    <2>5. QED
        BY <2>1, <2>2, <2>3, <2>4
<1>7. QED
    BY <1>1, <1>3, <1>4a, <1>5, <1>6

LEMMA RangesAre ==
    ASSUME NEW mr, IsMetaRange(mr), NEW n \in DOMAIN mr
    PROVE  IsRange(mr[n]) /\ \A i \in DOMAIN mr[n] : mr[n][i] \in RecordSet
<1>1. mr \in Seq(Seq(RecordSet)) /\ mr[n] # <<>>
    BY DEF IsMetaRange, RecordSet
<1>2. DOMAIN mr = 1..Len(mr)
    BY RangeTypes
<1>3. mr[n] \in Seq(RecordSet)
    <2> DEFINE S == Seq(RecordSet)
    <2>1. mr \in Seq(S)
        BY <1>1
    <2> HIDE DEF S
    <2>2. mr[n] \in S
        BY <2>1
    <2>3. QED
        BY <2>2 DEF S
<1>4. \A i, j \in DOMAIN mr[n] : i < j => mr[n][i].key < mr[n][j].key
    BY DEF IsMetaRange, Sorted
<1>5. AreRecords(mr[n])
    BY <1>3, <1>4 DEF AreRecords
<1>6. QED
    BY <1>1, <1>5, RangeHas DEF IsRange

LEMMA ARecordMore ==
    ASSUME NEW r, AreRecords(r), NEW rec \in RecordSet, r # <<>> => MaxKey(r) < rec.key
    PROVE  LET more == Append(r, rec)
           IN /\ IsRange(more)
              /\ MaxKey(more) = rec.key
              /\ MinKey(more) = IF r = <<>> THEN rec.key ELSE MinKey(r)
              /\ Seqs!ToSet(more) = Seqs!ToSet(r) \cup {rec}
<1> DEFINE more == Append(r, rec)
           l == Len(r)
<1>1. r \in Seq(RecordSet) /\ l \in Nat /\ DOMAIN r = 1..l
    BY RangeHas DEF AreRecords
<1>2. more \in Seq(RecordSet) /\ Len(more) = l + 1 /\ DOMAIN more = 1..(l + 1)
      /\ more[l + 1] = rec /\ \A i \in 1..l : more[i] = r[i]
    BY <1>1
<1> HIDE DEF more
<1>3. rec.key \in 1..LastKey
    BY DEF RecordSet
<1>4. ASSUME NEW i \in DOMAIN more, NEW j \in DOMAIN more, i < j
      PROVE  more[i].key < more[j].key
    <2>1. i \in 1..l /\ (j \in 1..l \/ j = l + 1) /\ more[i] = r[i]
        BY <1>1, <1>2, <1>4
    <2>2. CASE j \in 1..l
        BY <1>1, <1>2, <1>4, <2>1, <2>2 DEF AreRecords
    <2>3. CASE j = l + 1
        <3>1. r # <<>> /\ r[i].key <= MaxKey(r) /\ MaxKey(r) \in 1..LastKey /\ r[i].key \in 1..LastKey
            BY <1>1, <2>1, RangeHas
        <3>2. more[j] = rec
            BY <1>2, <2>3
        <3>3. QED
            BY <1>3, <2>1, <3>1, <3>2, CommittedAssumption
    <2>4. QED
        BY <2>1, <2>2, <2>3
<1>5. more # <<>>
    BY <1>1, <1>2
<1>6. MaxKey(more) = rec.key
    BY <1>2 DEF MaxKey
<1>7. MinKey(more) = IF r = <<>> THEN rec.key ELSE MinKey(r)
    <2>1. CASE r = <<>>
        BY <1>2, <2>1 DEF MinKey
    <2>2. CASE r # <<>>
        <3>1. 1 \in DOMAIN r
            BY <2>2, RangeHas
        <3>2. QED
            BY <1>1, <1>2, <2>2, <3>1 DEF MinKey
    <2>3. QED
        BY <2>1, <2>2
<1>8. Seqs!ToSet(more) = Seqs!ToSet(r) \cup {rec}
    <2>1. DOMAIN more = DOMAIN r \cup {l + 1}
        BY <1>1, <1>2
    <2>2. Seqs!ToSet(more) = {more[i] : i \in DOMAIN more} /\ Seqs!ToSet(r) = {r[i] : i \in DOMAIN r}
        BY DEF Seqs!ToSet
    <2>3. \A i \in DOMAIN r : more[i] = r[i]
        BY <1>1, <1>2
    <2>4. QED
        BY <1>2, <2>1, <2>2, <2>3
<1>9. QED
    BY <1>2, <1>4, <1>5, <1>6, <1>7, <1>8 DEF IsRange, AreRecords, more

LEMMA WrittenApart ==
    ASSUME WriterInv
    PROVE  /\ IsFiniteSet(WrittenRanges)
           /\ \A r \in WrittenRanges : /\ IsRange(r)
                                       /\ MinKey(r) \in 1..LastKey /\ MaxKey(r) \in 1..LastKey
                                       /\ MinKey(r) <= MaxKey(r) /\ MaxKey(r) <= lastKey
           /\ \A r, q \in WrittenRanges : r # q => Apart(r, q)
<1>1. WrittenRanges = IF open = <<>> THEN closed ELSE closed \cup {open}
    BY DEF WrittenRanges, Closing
<1>2. IsFiniteSet(WrittenRanges)
    <2>1. IsFiniteSet(closed)
        BY DEF WriterInv
    <2>2. IsFiniteSet(closed \cup {open})
        BY <2>1, FS_AddElement
    <2>3. QED
        BY <1>1, <2>1, <2>2
<1>3. \A r \in WrittenRanges : IsRange(r) /\ MaxKey(r) <= lastKey
    BY <1>1 DEF WriterInv, IsRange
<1>4. \A r \in WrittenRanges : MinKey(r) \in 1..LastKey /\ MaxKey(r) \in 1..LastKey /\ MinKey(r) <= MaxKey(r)
    BY <1>3, RangeHas DEF IsRange
<1>5. \A r, q \in WrittenRanges : r # q => Apart(r, q)
    BY <1>1 DEF WriterInv, Apart
<1>6. QED
    BY <1>2, <1>3, <1>4, <1>5

LEMMA AllOfMore ==
    ASSUME NEW ranges, NEW r
    PROVE  /\ AllOf(ranges \cup {r}) = AllOf(ranges) \cup Seqs!ToSet(r)
           /\ AllOf(ranges \cup Closing(r)) = AllOf(ranges) \cup Seqs!ToSet(r)
           /\ AllOf({}) = {}
           /\ Seqs!ToSet(<<>>) = {}
<1>1. AllOf(ranges \cup {r}) = AllOf(ranges) \cup Seqs!ToSet(r)
    BY DEF AllOf
<1>2. Seqs!ToSet(<<>>) = {}
    BY DEF Seqs!ToSet
<1>3. AllOf({}) = {}
    BY DEF AllOf
<1>4. AllOf(ranges \cup Closing(r)) = AllOf(ranges) \cup Seqs!ToSet(r)
    <2>1. CASE r = <<>>
        <3>1. Closing(r) = {}
            BY <2>1 DEF Closing
        <3>2. ranges \cup {} = ranges
            OBVIOUS
        <3>3. QED
            BY <1>2, <2>1, <3>1, <3>2
    <2>2. CASE r # <<>>
        BY <1>1, <2>2 DEF Closing
    <2>3. QED
        BY <2>1, <2>2
<1>5. QED
    BY <1>1, <1>2, <1>3, <1>4

LEMMA RecordWritten ==
    ASSUME WriterInv, NEW rec \in RecordSet, WriteRecord(rec)
    PROVE  /\ WriterInv'
           /\ rec.key > lastKey => /\ WrittenRecords' = WrittenRecords \cup {rec}
                                   /\ lastKey' = rec.key /\ unsorted' = unsorted
<1>1. rec.key \in 1..LastKey
    BY DEF RecordSet
<1>2. lastKey \in 0..LastKey /\ unsorted \in BOOLEAN
    BY DEF WriterInv
<1>3. CASE rec.key <= lastKey
    <2>1. unsorted' = TRUE /\ lastKey' = lastKey /\ open' = open /\ closed' = closed
        BY <1>3 DEF WriteRecord
    <2>2. WriterInv'
        BY <2>1 DEF WriterInv
    <2>3. QED
        BY <1>1, <1>2, <1>3, <2>2, CommittedAssumption
<1>4. CASE ~(rec.key <= lastKey)
    <2>1. lastKey' = rec.key /\ unsorted' = unsorted
        BY <1>4 DEF WriteRecord
    <2> DEFINE more == Append(open, rec)
    <2>2. AreRecords(open) /\ (open # <<>> => MaxKey(open) <= lastKey)
        BY DEF WriterInv
    <2>3. open # <<>> => MaxKey(open) \in 1..LastKey /\ MaxKey(open) < rec.key
        BY <1>1, <1>2, <1>4, <2>2, RangeHas, CommittedAssumption
    <2>4. /\ IsRange(more) /\ MaxKey(more) = rec.key
          /\ MinKey(more) = IF open = <<>> THEN rec.key ELSE MinKey(open)
          /\ Seqs!ToSet(more) = Seqs!ToSet(open) \cup {rec}
        BY <2>2, <2>3, ARecordMore
    <2>4a. \/ closed' = closed \cup {more} /\ open' = <<>>
           \/ closed' = closed /\ open' = more
        BY <1>4 DEF WriteRecord
    <2>5. \A r \in closed : IsRange(r) /\ MaxKey(r) \in 1..LastKey /\ MaxKey(r) <= lastKey
        BY RangeHas DEF WriterInv, IsRange
    <2>6. \A r \in closed : MaxKey(r) < rec.key
        BY <1>1, <1>2, <1>4, <2>5, CommittedAssumption
    <2>7. \A r \in closed : MaxKey(r) < MinKey(more)
        BY <2>4, <2>6 DEF WriterInv
    <2> HIDE DEF more
    <2>8. more # <<>> /\ AreRecords(more)
        BY <2>4 DEF IsRange
    <2>9. rec.key \in 0..LastKey /\ rec.key <= rec.key /\ \A r \in closed : MaxKey(r) <= rec.key
        BY <1>1, <2>5, <2>6, CommittedAssumption
    <2>10. CASE closed' = closed \cup {more} /\ open' = <<>>
        <3>1. IsFiniteSet(closed')
            BY <2>10, FS_AddElement DEF WriterInv
        <3>2. \A r \in closed' : IsRange(r) /\ MaxKey(r) <= lastKey'
            BY <2>1, <2>4, <2>5, <2>9, <2>10
        <3>3. \A r, q \in closed' : r # q => Apart(r, q)
            BY <2>7, <2>10 DEF WriterInv, Apart
        <3>4. AreRecords(open')
            <4>1. <<>> \in Seq(RecordSet) /\ DOMAIN <<>> = {}
                OBVIOUS
            <4>2. QED
                BY <2>10, <4>1 DEF AreRecords
        <3>5. WriterInv'
            BY <1>2, <2>1, <2>9, <2>10, <3>1, <3>2, <3>3, <3>4 DEF WriterInv
        <3>6. WrittenRecords' = AllOf(closed' \cup Closing(open'))
            BY DEF WrittenRecords, WrittenRanges, AllOf, Closing
        <3>7. WrittenRecords' = WrittenRecords \cup {rec}
            <4>1. WrittenRecords' = AllOf(closed') \cup Seqs!ToSet(open')
                BY <3>6, AllOfMore
            <4>2. AllOf(closed') = AllOf(closed) \cup Seqs!ToSet(more) /\ Seqs!ToSet(open') = {}
                BY <2>10, AllOfMore
            <4>3. WrittenRecords = AllOf(closed) \cup Seqs!ToSet(open)
                BY AllOfMore DEF WrittenRecords, WrittenRanges
            <4>4. QED
                BY <2>4, <4>1, <4>2, <4>3
        <3>8. QED
            BY <2>1, <3>5, <3>7
    <2>11. CASE closed' = closed /\ open' = more
        <3>1. WriterInv'
            <4>1. /\ \A r \in closed' : IsRange(r) /\ MaxKey(r) <= lastKey'
                  /\ IsFiniteSet(closed')
                  /\ \A r, q \in closed' : r # q => Apart(r, q)
                BY <2>1, <2>5, <2>9, <2>11 DEF WriterInv
            <4>2. /\ AreRecords(open')
                  /\ MaxKey(open') <= lastKey' /\ \A r \in closed' : MaxKey(r) < MinKey(open')
                BY <2>1, <2>4, <2>7, <2>8, <2>9, <2>11
            <4>3. lastKey' \in 0..LastKey /\ unsorted' \in BOOLEAN
                BY <1>2, <2>1, <2>9
            <4>4. QED
                BY <4>1, <4>2, <4>3 DEF WriterInv
        <3>2. WrittenRecords' = AllOf(closed' \cup Closing(open'))
            BY DEF WrittenRecords, WrittenRanges, AllOf, Closing
        <3>3. WrittenRecords' = WrittenRecords \cup {rec}
            <4>1. WrittenRecords' = AllOf(closed') \cup Seqs!ToSet(open')
                BY <3>2, AllOfMore
            <4>2. WrittenRecords = AllOf(closed) \cup Seqs!ToSet(open)
                BY AllOfMore DEF WrittenRecords, WrittenRanges
            <4>3. QED
                BY <2>4, <2>11, <4>1, <4>2
        <3>4. QED
            BY <2>1, <3>1, <3>3
    <2>12. QED
        BY <2>4a, <2>10, <2>11
<1>5. QED
    BY <1>3, <1>4

LEMMA RangeWritten ==
    ASSUME WriterInv, NEW range, IsRange(range), WriteRange(range)
    PROVE  /\ WriterInv'
           /\ MinKey(range) > lastKey => /\ WrittenRecords' = WrittenRecords \cup Seqs!ToSet(range)
                                         /\ lastKey' = MaxKey(range) /\ unsorted' = unsorted
<1>1. MinKey(range) \in 1..LastKey /\ MaxKey(range) \in 1..LastKey /\ MinKey(range) <= MaxKey(range)
    BY RangeHas DEF IsRange
<1>2. lastKey \in 0..LastKey /\ unsorted \in BOOLEAN
    BY DEF WriterInv
<1>3. CASE MinKey(range) <= lastKey
    <2>1. unsorted' = TRUE /\ lastKey' = lastKey /\ open' = open /\ closed' = closed
        BY <1>3 DEF WriteRange
    <2>2. WriterInv'
        BY <2>1 DEF WriterInv
    <2>3. QED
        BY <1>1, <1>2, <1>3, <2>2, CommittedAssumption
<1>4. CASE ~(MinKey(range) <= lastKey)
    <2>1. /\ lastKey' = MaxKey(range) /\ unsorted' = unsorted /\ open' = <<>>
          /\ closed' = closed \cup Closing(open) \cup {range}
        BY <1>4 DEF WriteRange
    <2>2. closed \cup Closing(open) = WrittenRanges
        BY DEF WrittenRanges
    <2>3. /\ IsFiniteSet(WrittenRanges)
          /\ \A r \in WrittenRanges : /\ IsRange(r)
                                      /\ MaxKey(r) \in 1..LastKey
                                      /\ MaxKey(r) <= lastKey
          /\ \A r, q \in WrittenRanges : r # q => Apart(r, q)
        BY WrittenApart
    <2>4. \A r \in WrittenRanges : MaxKey(r) < MinKey(range) /\ MaxKey(r) <= MaxKey(range)
        BY <1>1, <1>2, <1>4, <2>3, CommittedAssumption
    <2>5. closed' = WrittenRanges \cup {range}
        BY <2>1, <2>2
    <2>6. IsFiniteSet(closed')
        BY <2>3, <2>5, FS_AddElement
    <2>7. \A r \in closed' : IsRange(r) /\ MaxKey(r) <= lastKey'
        BY <1>1, <2>1, <2>3, <2>4, <2>5, CommittedAssumption
    <2>8. \A r, q \in closed' : r # q => Apart(r, q)
        BY <2>3, <2>4, <2>5 DEF Apart
    <2>9. AreRecords(open')
        <3>1. <<>> \in Seq(RecordSet) /\ DOMAIN <<>> = {}
            OBVIOUS
        <3>2. QED
            BY <2>1, <3>1 DEF AreRecords
    <2>10. lastKey' \in 0..LastKey
        BY <1>1, <2>1, CommittedAssumption
    <2>11. WriterInv'
        BY <1>2, <2>1, <2>6, <2>7, <2>8, <2>9, <2>10 DEF WriterInv
    <2>12. WrittenRecords' = AllOf(closed' \cup Closing(open'))
        BY DEF WrittenRecords, WrittenRanges, AllOf, Closing
    <2>13. WrittenRecords' = AllOf(closed') \cup Seqs!ToSet(open') /\ Seqs!ToSet(open') = {}
        BY <2>1, <2>12, AllOfMore
    <2>14. AllOf(closed') = AllOf(WrittenRanges) \cup Seqs!ToSet(range)
        BY <2>5, AllOfMore
    <2>15. WrittenRecords' = WrittenRecords \cup Seqs!ToSet(range)
        BY <2>13, <2>14 DEF WrittenRecords
    <2>16. QED
        BY <2>1, <2>11, <2>15
<1>5. QED
    BY <1>3, <1>4

\* Finitely many ranges that are apart can be listed by their last keys.
LEMMA Listed ==
    ASSUME NEW R, IsFiniteSet(R), \A r \in R : MaxKey(r) \in Nat,
           \A r, q \in R : MaxKey(r) = MaxKey(q) => r = q
    PROVE  /\ Cardinality(R) \in Nat
           /\ \E f \in [1..Cardinality(R) -> R] : \A n, m \in DOMAIN f : n < m => MaxKey(f[n]) < MaxKey(f[m])
<1> DEFINE N == Cardinality(R)
           Upto(r) == {q \in R : MaxKey(q) <= MaxKey(r)}
           rank == [r \in R |-> Cardinality(Upto(r))]
           f == [n \in 1..N |-> CHOOSE r \in R : rank[r] = n]
<1>1. N \in Nat
    BY FS_CardinalityType
<1>2. ASSUME NEW r \in R
      PROVE  IsFiniteSet(Upto(r)) /\ Cardinality(Upto(r)) \in 1..N /\ rank[r] = Cardinality(Upto(r))
    <2>1. IsFiniteSet(Upto(r)) /\ Cardinality(Upto(r)) <= N
        BY FS_Subset
    <2>2. Cardinality(Upto(r)) \in Nat
        BY <2>1, FS_CardinalityType
    <2>3. r \in Upto(r)
        OBVIOUS
    <2>4. Cardinality(Upto(r)) # 0
        BY <2>1, <2>3, FS_EmptySet
    <2>5. QED
        BY <1>1, <2>1, <2>2, <2>4
<1>3. ASSUME NEW r \in R, NEW q \in R, MaxKey(r) < MaxKey(q)
      PROVE  rank[r] < rank[q]
    <2>1. Upto(r) \subseteq Upto(q)
        BY <1>3
    <2>2. q \in Upto(q) /\ q \notin Upto(r)
        BY <1>3
    <2>3. Cardinality(Upto(r)) < Cardinality(Upto(q))
        <3>1. PICK A : A = Upto(r)
            OBVIOUS
        <3>2. PICK B : B = Upto(q)
            OBVIOUS
        <3>3. A \subseteq B /\ A # B
            BY <2>1, <2>2, <3>1, <3>2
        <3>4. IsFiniteSet(B) /\ Cardinality(A) \in 1..N /\ Cardinality(B) \in 1..N
            BY <1>2, <3>1, <3>2
        <3>5. Cardinality(A) <= Cardinality(B) /\ Cardinality(A) # Cardinality(B)
            BY <3>3, <3>4, FS_Subset, Zenon
        <3>6. Cardinality(A) < Cardinality(B)
            BY <1>1, <3>4, <3>5
        <3>7. QED
            BY <3>1, <3>2, <3>6
    <2>4. QED
        BY <1>2, <2>3
<1>4. rank \in [R -> 1..N]
    BY <1>2
<1> HIDE DEF rank, Upto
<1>5. \A r, q \in R : rank[r] = rank[q] => r = q
    <2> SUFFICES ASSUME NEW r \in R, NEW q \in R, rank[r] = rank[q]
                 PROVE  r = q
        OBVIOUS
    <2>1. rank[r] \in Nat /\ MaxKey(r) \in Nat /\ MaxKey(q) \in Nat
        BY <1>4
    <2>2. ~(MaxKey(r) < MaxKey(q)) /\ ~(MaxKey(q) < MaxKey(r))
        BY <1>3, <2>1
    <2>3. QED
        BY <2>1, <2>2
<1>6. \A n \in 1..N : \E r \in R : rank[r] = n
    <2>1. IsFiniteSet(1..N) /\ Cardinality(1..N) = N
        BY <1>1, FS_Interval
    <2>2. rank \in Injection(R, 1..N)
        BY <1>4, <1>5 DEF Injection, IsInjective
    <2>3. rank \in Surjection(R, 1..N)
        BY <2>1, <2>2, FS_Injection
    <2>4. QED
        BY <2>3 DEF Surjection
<1>7. \A n \in 1..N : f[n] \in R /\ rank[f[n]] = n
    BY <1>6
<1>8. f \in [1..N -> R]
    BY <1>7
<1> HIDE DEF f
<1>9. ASSUME NEW n \in 1..N, NEW m \in 1..N, n < m
      PROVE  MaxKey(f[n]) < MaxKey(f[m])
    <2>1. f[n] \in R /\ f[m] \in R /\ rank[f[n]] = n /\ rank[f[m]] = m
        BY <1>7
    <2>2. MaxKey(f[n]) \in Nat /\ MaxKey(f[m]) \in Nat /\ n \in Nat /\ m \in Nat
        BY <2>1
    <2>3. ~(MaxKey(f[m]) < MaxKey(f[n]))
        BY <1>3, <1>9, <2>1, <2>2
    <2>4. MaxKey(f[n]) # MaxKey(f[m])
        BY <1>9, <2>1, <2>2
    <2>5. QED
        BY <2>2, <2>3, <2>4
<1>10. QED
    BY <1>1, <1>8, <1>9

\* The new meta-range has all that was written, in order.
LEMMA NewOne ==
    ASSUME WriterInv
    PROVE  IsMetaRange(NewMetaRange) /\ Records(NewMetaRange) = WrittenRecords
<1> DEFINE R == WrittenRanges
           N == Cardinality(R)
           mr == NewMetaRange
<1>1. /\ IsFiniteSet(R)
      /\ \A r \in R : /\ IsRange(r)
                      /\ MinKey(r) \in 1..LastKey /\ MaxKey(r) \in 1..LastKey
                      /\ MinKey(r) <= MaxKey(r) /\ MaxKey(r) <= lastKey
      /\ \A r, q \in R : r # q => Apart(r, q)
    BY WrittenApart
<1>2. \A r \in R : MaxKey(r) \in Nat /\ MinKey(r) \in Nat /\ MinKey(r) <= MaxKey(r)
    BY <1>1, CommittedAssumption
<1>3. \A r, q \in R : MaxKey(r) = MaxKey(q) => r = q
    BY <1>1, <1>2 DEF Apart
<1> HIDE DEF R
<1>4. N \in Nat /\ \E f \in [1..N -> R] : \A n, m \in DOMAIN f : n < m => MaxKey(f[n]) < MaxKey(f[m])
    BY <1>1, <1>2, <1>3, Listed
<1>5. mr \in [1..N -> R] /\ \A n, m \in DOMAIN mr : n < m => MaxKey(mr[n]) < MaxKey(mr[m])
    BY <1>4 DEF NewMetaRange, R
<1> HIDE DEF mr
<1>6. DOMAIN mr = 1..N /\ \A n \in 1..N : mr[n] \in R
    BY <1>5
<1>7. ASSUME NEW n \in DOMAIN mr, NEW m \in DOMAIN mr, n < m
      PROVE  MaxKey(mr[n]) < MinKey(mr[m])
    <2>1. MaxKey(mr[n]) < MaxKey(mr[m]) /\ mr[n] \in R /\ mr[m] \in R
        BY <1>5, <1>6, <1>7
    <2>2. mr[n] # mr[m]
        BY <1>2, <2>1
    <2>3. Apart(mr[n], mr[m])
        BY <1>1, <2>1, <2>2
    <2>4. QED
        BY <1>2, <2>1, <2>3 DEF Apart
<1>8. \A r \in R : r \in Seq(RecordSet) /\ r # <<>> /\ \A i, j \in DOMAIN r : i < j => r[i].key < r[j].key
    BY <1>1 DEF IsRange, AreRecords
<1>9. mr \in Seq(Seq(RecordSet))
    <2> DEFINE S == Seq(RecordSet)
    <2>1. \A n \in 1..N : mr[n] \in S
        BY <1>6, <1>8
    <2> HIDE DEF S
    <2>2. mr \in [1..N -> S]
        BY <1>5, <2>1
    <2>3. mr \in Seq(S)
        BY <1>4, <2>2
    <2>4. QED
        BY <2>3 DEF S
<1>10. Sorted(mr)
    BY <1>6, <1>7, <1>8 DEF Sorted
<1>11. IsMetaRange(mr)
    BY <1>6, <1>8, <1>9, <1>10 DEF IsMetaRange, RecordSet
<1>12. {mr[n] : n \in DOMAIN mr} = R
    <2>1. IsFiniteSet(1..N) /\ Cardinality(1..N) = N
        BY <1>4, FS_Interval
    <2>2. \A n, m \in 1..N : mr[n] = mr[m] => n = m
        <3> SUFFICES ASSUME NEW n \in 1..N, NEW m \in 1..N, mr[n] = mr[m]
                     PROVE  n = m
            OBVIOUS
        <3>1. MaxKey(mr[n]) \in Nat /\ n \in Nat /\ m \in Nat
            BY <1>2, <1>6
        <3>2. ~(n < m) /\ ~(m < n)
            BY <1>5, <1>6, <3>1
        <3>3. QED
            BY <3>1, <3>2
    <2>3. mr \in Injection(1..N, R)
        BY <1>5, <1>6, <2>2 DEF Injection, IsInjective
    <2>4. mr \in Surjection(1..N, R)
        BY <1>1, <2>1, <2>3, FS_Injection
    <2>5. \A r \in R : \E n \in 1..N : mr[n] = r
        BY <2>4 DEF Surjection
    <2>6. QED
        BY <1>6, <2>5
<1>13. Records(mr) = WrittenRecords
    <2>1. Records(mr) = UNION {Seqs!ToSet(r) : r \in {mr[n] : n \in DOMAIN mr}}
        BY DEF Records
    <2>2. QED
        BY <1>12, <2>1 DEF WrittenRecords, AllOf, R
<1>14. QED
    BY <1>11, <1>13 DEF mr

-----------------------------------------------------------------------------
(* Merges and imports: what is settled *)

BaseHolds(k) == IdOf(job.base, k)
SourceHolds(k) == IdOf(job.source, k)
DestHolds(k) == IF Under(job.prefixes, k) THEN 0 ELSE IdOf(job.dest, k)
Clashes(k) ==
    /\ SourceHolds(k) # DestHolds(k) /\ SourceHolds(k) # BaseHolds(k) /\ DestHolds(k) # BaseHolds(k)
Becomes(k) ==
    IF Clashes(k) THEN (IF job.strategy = "source" THEN SourceHolds(k) ELSE DestHolds(k))
    ELSE IF SourceHolds(k) = BaseHolds(k) THEN DestHolds(k)
    ELSE SourceHolds(k)

\* What the table says nothing about: see Replaced.
Lost(k) == SourceHolds(k) = 0 /\ Under(job.prefixes, k)

Written(k, id) == [key |-> k, id |-> id] \in WrittenRecords

\* The keys up to m are settled, and no others.
SettledTo(m) ==
    /\ PassedTo(job.source, source, m) /\ m < Front(job.source, source)
    /\ LeavesOut(job.dest, job.prefixes, dest, m) /\ m < Front(job.dest, dest)
    /\ m + 1 = Front(job.source, source) \/ m + 1 = Front(job.dest, dest)
    /\ Kept(job.base, base, m)
    /\ lastKey <= m /\ unsorted = FALSE
    /\ \A rec \in WrittenRecords : rec.key <= m
    /\ \A k \in 1..m : ~Lost(k) => \A id \in Identities : Written(k, id) <=> Becomes(k) = id

MergeInputs ==
    /\ IsMetaRange(job.base) /\ IsMetaRange(job.source) /\ IsMetaRange(job.dest) /\ ArePrefixes(job.prefixes)
    /\ job.prefixes = <<>> \/ job.base = <<>>
    /\ job.strategy \in Strategies

LEMMA WrittenAre ==
    ASSUME WriterInv
    PROVE  \A rec \in WrittenRecords : rec \in RecordSet /\ rec.key \in 1..LastKey /\ rec.key <= lastKey
<1> SUFFICES ASSUME NEW rec \in WrittenRecords
             PROVE  rec \in RecordSet /\ rec.key \in 1..LastKey /\ rec.key <= lastKey
    OBVIOUS
<1>1. PICK r \in WrittenRanges : rec \in Seqs!ToSet(r)
    BY DEF WrittenRecords, AllOf
<1>2. PICK i \in DOMAIN r : rec = r[i]
    BY <1>1 DEF Seqs!ToSet
<1>3. IsRange(r) /\ MaxKey(r) \in 1..LastKey /\ MaxKey(r) <= lastKey
    BY WrittenApart
<1>4. rec \in RecordSet /\ rec.key \in 1..LastKey /\ rec.key <= MaxKey(r)
    BY <1>2, <1>3, RangeHas DEF IsRange
<1>5. lastKey \in 0..LastKey
    BY DEF WriterInv
<1>6. QED
    BY <1>3, <1>4, <1>5, CommittedAssumption

LEMMA NothingThere ==
    ASSUME NEW k, SourceHolds(k) = 0, DestHolds(k) = 0
    PROVE  ~Clashes(k) /\ Becomes(k) = 0
BY DEF Clashes, Becomes

LEMMA Advance ==
    ASSUME MergeInputs, WriterInv, job' = job, NEW m \in Nat, SettledTo(m),
           NEW Ks, NEW Kd, NEW X, X \subseteq RecordSet,
           Walked(job.source, source', m, Ks), WalkedOut(job.dest, job.prefixes, dest', m, Kd),
           WrittenRecords' = WrittenRecords \cup X, unsorted' = unsorted,
           NEW m2 \in Nat,
           m2 < Front(job.source, source'), m2 < Front(job.dest, dest'),
           m2 + 1 = Front(job.source, source') \/ m2 + 1 = Front(job.dest, dest'),
           lastKey' = lastKey \/ lastKey' <= m2,
           \A rec \in X : rec.key > m /\ rec.key \in Ks \cup Kd,
           Kept(job.base, base', m2),
           \A k \in Ks \cup Kd : k <= m2,
           \A k \in 1..LastKey : k \in Ks \cup Kd /\ k > m =>
                /\ ~Lost(k) => \A id \in Identities : [key |-> k, id |-> id] \in X <=> Becomes(k) = id
                /\ Clashes(k) => job.strategy # "none"
    PROVE  /\ SettledTo(m2)'
           /\ m <= m2
           /\ \A k \in (m + 1)..m2 : Clashes(k) => job.strategy # "none"
<1>0. IsMetaRange(job.source) /\ IsMetaRange(job.dest) /\ ArePrefixes(job.prefixes)
    BY DEF MergeInputs
<1>1. Stands(job.source, source') /\ Stands(job.dest, dest')
    BY DEF Walked, WalkedOut, Skips
<1>2. Front(job.source, source') \in 1..(LastKey + 1) /\ Front(job.dest, dest') \in 1..(LastKey + 1)
    BY <1>0, <1>1, WhereItStands
<1>3. m <= m2
    BY <1>2, CommittedAssumption DEF Walked, WalkedOut
<1>4. m2 <= LastKey
    BY <1>2, CommittedAssumption
<1>5. lastKey \in Nat /\ lastKey <= m
    BY CommittedAssumption DEF SettledTo, WriterInv
<1>6. \A rec \in WrittenRecords : rec \in RecordSet /\ rec.key \in 1..LastKey /\ rec.key <= m
    BY WrittenAre DEF SettledTo
<1>6a. \A rec \in X : rec.key \in 1..LastKey
    BY DEF RecordSet
<1>7. ASSUME NEW k \in (m + 1)..m2
      PROVE  /\ k \in 1..LastKey
             /\ SourceHolds(k) # 0 => k \in Ks
             /\ DestHolds(k) # 0 => k \in Kd
    <2>1. k \in 1..LastKey /\ k > m /\ k < Front(job.source, source') /\ k < Front(job.dest, dest')
        BY <1>2, <1>4, CommittedAssumption
    <2>2. SourceHolds(k) # 0 => k \in DOMAIN Contents(job.source)
        BY <1>0, HeldBy DEF SourceHolds
    <2>3. DestHolds(k) # 0 => k \in DOMAIN Contents(job.dest) /\ ~Under(job.prefixes, k)
        BY <1>0, HeldBy DEF DestHolds
    <2>4. SourceHolds(k) # 0 => k \in Ks
        <3>1. k \in DOMAIN Contents(job.source) => k \in Ks \/ k >= Front(job.source, source')
            BY <2>1 DEF Walked
        <3>2. QED
            BY <1>2, <2>1, <2>2, <3>1, CommittedAssumption
    <2>5. DestHolds(k) # 0 => k \in Kd
        <3>1. k \in DOMAIN Contents(job.dest) => k \in Kd \/ k >= Front(job.dest, dest') \/ Under(job.prefixes, k)
            BY <2>1 DEF WalkedOut
        <3>2. QED
            BY <1>2, <2>1, <2>3, <3>1, CommittedAssumption
    <2>6. QED
        BY <2>1, <2>4, <2>5
<1>8. ASSUME NEW k \in (m + 1)..m2
      PROVE  /\ ~Lost(k) => \A id \in Identities : [key |-> k, id |-> id] \in X <=> Becomes(k) = id
             /\ Clashes(k) => job.strategy # "none"
    <2>1. k > m /\ k <= m2 /\ k \in 1..LastKey
        BY <1>7
    <2>2. CASE k \in Ks \cup Kd
        BY <2>1, <2>2
    <2>3. CASE k \notin Ks \cup Kd
        <3>1. SourceHolds(k) = 0 /\ DestHolds(k) = 0
            BY <1>7, <2>3
        <3>2. ~Clashes(k) /\ Becomes(k) = 0
            BY <3>1, NothingThere
        <3>3. \A id : [key |-> k, id |-> id] \notin X
            <4>1. \A id : [key |-> k, id |-> id].key = k
                OBVIOUS
            <4>2. QED
                BY <2>3, <4>1
        <3>4. \A id \in Identities : id # 0
            BY DEF Identities
        <3>5. QED
            BY <3>2, <3>3, <3>4
    <2>4. QED
        BY <2>2, <2>3
<1>9. ASSUME NEW k
      PROVE  /\ SourceHolds(k)' = SourceHolds(k) /\ DestHolds(k)' = DestHolds(k)
             /\ BaseHolds(k)' = BaseHolds(k)
    <2>1. SourceHolds(k)' = SourceHolds(k)
        BY DEF SourceHolds
    <2>2. DestHolds(k)' = DestHolds(k)
        BY DEF DestHolds
    <2>3. BaseHolds(k)' = BaseHolds(k)
        BY DEF BaseHolds
    <2>4. QED
        BY <2>1, <2>2, <2>3
<1>10. ASSUME NEW k
       PROVE  Becomes(k)' = Becomes(k) /\ (Lost(k)' <=> Lost(k))
    <2>1. Clashes(k)' <=> Clashes(k)
        BY <1>9 DEF Clashes
    <2>2. Becomes(k)' = Becomes(k)
        BY <1>9, <2>1 DEF Becomes
    <2>3. Lost(k)' <=> Lost(k)
        BY <1>9 DEF Lost
    <2>4. QED
        BY <2>2, <2>3
<1>11. ASSUME NEW k \in 1..m2, ~Lost(k)', NEW id \in Identities
       PROVE  Written(k, id)' <=> Becomes(k)' = id
    <2> DEFINE rec == [key |-> k, id |-> id]
    <2>1. Written(k, id)' <=> rec \in WrittenRecords \/ rec \in X
        BY DEF Written
    <2>2. rec.key = k
        OBVIOUS
    <2>3. CASE k <= m
        <3>1. rec \notin X
            BY <1>6a, <2>2, <2>3
        <3>2. k \in 1..m
            BY <2>3
        <3>3. rec \in WrittenRecords <=> Becomes(k) = id
            BY <1>10, <1>11, <3>2 DEF SettledTo, Written
        <3>4. QED
            BY <1>10, <2>1, <3>1, <3>3
    <2>4. CASE k > m
        <3>1. rec \notin WrittenRecords
            BY <1>6, <2>2, <2>4
        <3>2. k \in (m + 1)..m2
            BY <2>4
        <3>3. rec \in X <=> Becomes(k) = id
            BY <1>8, <1>10, <1>11, <3>2
        <3>4. QED
            BY <1>10, <2>1, <3>1, <3>3
    <2>5. QED
        BY <2>3, <2>4
<1>12. /\ PassedTo(job.source, source', m2)
       /\ LeavesOut(job.dest, job.prefixes, dest', m2)
    <2>1. ASSUME NEW k \in DOMAIN Contents(job.source), k > m2
          PROVE  k >= Front(job.source, source')
        <3>1. k \in 1..LastKey /\ k > m
            BY <1>0, <1>3, <2>1, HeldBy, CommittedAssumption
        <3>2. k \in Ks \/ k >= Front(job.source, source')
            BY <3>1 DEF Walked
        <3>3. k \notin Ks
            BY <2>1, <3>1
        <3>4. QED
            BY <3>2, <3>3
    <2>2. PassedTo(job.source, source', m2)
        BY <1>1, <2>1 DEF PassedTo
    <2>3. ASSUME NEW k \in DOMAIN Contents(job.dest), k > m2
          PROVE  k >= Front(job.dest, dest') \/ Under(job.prefixes, k)
        <3>1. k \in 1..LastKey /\ k > m
            BY <1>0, <1>3, <2>3, HeldBy, CommittedAssumption
        <3>2. k \in Kd \/ k >= Front(job.dest, dest') \/ Under(job.prefixes, k)
            BY <3>1 DEF WalkedOut
        <3>3. k \notin Kd
            BY <2>3, <3>1
        <3>4. QED
            BY <3>2, <3>3
    <2>4. QED
        BY <2>2, <2>3 DEF LeavesOut, WalkedOut
<1>13. lastKey' <= m2 /\ unsorted' = FALSE
    BY <1>3, <1>5 DEF SettledTo
<1>14. \A rec \in WrittenRecords' : rec.key <= m2
    BY <1>3, <1>6, <1>6a, CommittedAssumption
<1>15. SettledTo(m2)'
    BY <1>11, <1>12, <1>13, <1>14 DEF SettledTo
<1>16. QED
    BY <1>3, <1>8, <1>15

\* A step that settles more keys, or none; without a strategy they do not clash.
Settles(m) ==
    \E m2 \in Nat :
        /\ m <= m2 /\ SettledTo(m2)'
        /\ \A k \in (m + 1)..m2 : Clashes(k) => job.strategy # "none"

\* Of what is above m, it passes these keys of the source and of the
\* destination, and writes these records.
Passes(m, Ks, Kd, X) ==
    /\ Ks \subseteq 1..LastKey /\ Kd \subseteq 1..LastKey /\ X \subseteq RecordSet
    /\ Walked(job.source, source', m, Ks)
    /\ WalkedOut(job.dest, job.prefixes, dest', m, Kd)
    /\ WrittenRecords' = WrittenRecords \cup X
    /\ unsorted' = unsorted
    /\ lastKey' = lastKey \/ lastKey' \in Ks \/ lastKey' \in Kd
    /\ \A k \in Ks : k < Front(job.dest, dest')
    /\ \A k \in Kd : k < Front(job.source, source')
    /\ \A rec \in X : rec.key > m /\ (rec.key \in Ks \/ rec.key \in Kd)
    /\ \A h \in Nat : h >= m /\ (\A k \in Ks : k <= h) /\ (\A k \in Kd : k <= h) => Kept(job.base, base', h)
    /\ \A k : (k \in Ks \/ k \in Kd) /\ k > m =>
            /\ ~Lost(k) => \A id \in Identities : [key |-> k, id |-> id] \in X <=> Becomes(k) = id
            /\ Clashes(k) => job.strategy # "none"

LEMMA Settling ==
    ASSUME MergeInputs, WriterInv, job' = job, NEW m \in Nat, SettledTo(m),
           NEW Ks, NEW Kd, NEW X, Passes(m, Ks, Kd, X)
    PROVE  Settles(m)
<1> DEFINE fs == Front(job.source, source')
           fd == Front(job.dest, dest')
<1>1. fs \in 1..(LastKey + 1) /\ fd \in 1..(LastKey + 1) /\ m < fs /\ m < fd
    BY WhereItStands DEF Walked, WalkedOut, Skips, MergeInputs, Passes
<1>1a. \A k \in Ks \cup Kd : k < fs /\ k < fd
    BY DEF Passes, Walked, WalkedOut
<1> HIDE DEF fs, fd
<1>2. PICK m2 \in Nat : m2 < fs /\ m2 < fd /\ (m2 + 1 = fs \/ m2 + 1 = fd)
    <2>1. CASE fs <= fd
        <3>1. fs - 1 \in Nat /\ fs - 1 < fs /\ fs - 1 < fd /\ fs - 1 + 1 = fs
            BY <1>1, <2>1, CommittedAssumption
        <3>2. QED
            BY <3>1
    <2>2. CASE fd <= fs
        <3>1. fd - 1 \in Nat /\ fd - 1 < fs /\ fd - 1 < fd /\ fd - 1 + 1 = fd
            BY <1>1, <2>2, CommittedAssumption
        <3>2. QED
            BY <3>1
    <2>3. QED
        BY <1>1, <2>1, <2>2, CommittedAssumption
<1>3. \A k \in Ks \cup Kd : k <= m2
    <2> SUFFICES ASSUME NEW k \in Ks \cup Kd PROVE k <= m2
        OBVIOUS
    <2>1. k \in 1..LastKey /\ k < fs /\ k < fd
        BY <1>1a DEF Passes
    <2>2. QED
        BY <1>1, <1>2, <2>1, CommittedAssumption
<1>4. m <= m2
    BY <1>1, <1>2, CommittedAssumption
<1>5. Kept(job.base, base', m2)
    BY <1>3, <1>4 DEF Passes
<1>6. lastKey' = lastKey \/ lastKey' <= m2
    BY <1>3 DEF Passes
<1>7. /\ SettledTo(m2)'
      /\ m <= m2
      /\ \A k \in (m + 1)..m2 : Clashes(k) => job.strategy # "none"
    BY <1>2, <1>3, <1>5, <1>6, Advance DEF fs, fd, Passes
<1>8. QED
    BY <1>7 DEF Settles

-----------------------------------------------------------------------------
(* Records that one side has alone *)

LEMMA KeysAhead ==
    ASSUME MergeInputs, NEW m \in Nat, SettledTo(m), NEW k \in 1..LastKey, k > m
    PROVE  /\ k < Front(job.source, source) => SourceHolds(k) = 0
           /\ k < Front(job.dest, dest) => DestHolds(k) = 0
<1>1. IsMetaRange(job.source) /\ IsMetaRange(job.dest)
    BY DEF MergeInputs
<1>2. Front(job.source, source) \in Nat /\ Front(job.dest, dest) \in Nat
    BY <1>1, WhereItStands, CommittedAssumption DEF SettledTo, PassedTo, LeavesOut, Skips
<1>3. k < Front(job.source, source) => SourceHolds(k) = 0
    <2>1. k \in DOMAIN Contents(job.source) => k >= Front(job.source, source)
        BY DEF SettledTo, PassedTo
    <2>2. k < Front(job.source, source) => k \notin DOMAIN Contents(job.source)
        BY <1>2, <2>1
    <2>3. QED
        BY <1>1, <2>2, HeldBy DEF SourceHolds
<1>4. k < Front(job.dest, dest) => DestHolds(k) = 0
    <2>1. k \in DOMAIN Contents(job.dest) => k >= Front(job.dest, dest) \/ Under(job.prefixes, k)
        BY DEF SettledTo, LeavesOut
    <2>2. k < Front(job.dest, dest) => k \notin DOMAIN Contents(job.dest) \/ Under(job.prefixes, k)
        BY <1>2, <2>1
    <2>3. QED
        BY <1>1, <2>2, HeldBy DEF DestHolds
<1>5. QED
    BY <1>3, <1>4

\* Identities of records of the base are those of their keys alone.
OwnIdentities ==
    job.op = "merge" =>
        \A old \in Records(job.base) : \A rec \in Records(job.source) \cup Records(job.dest) :
            old.id = rec.id => old.key = rec.key

\* What BaseHas and BaseSame say of a record.
LEMMA BaseSays ==
    ASSUME MergeInputs, NEW m \in Nat, Kept(job.base, base, m), NEW rec, rec.key \in 1..LastKey, rec.key > m,
           rec.id \in Identities,
           \A old \in Records(job.base) : old.id = rec.id => old.key = rec.key
    PROVE  /\ BaseHas(rec) <=> BaseHolds(rec.key) # 0
           /\ BaseSame(rec) <=> BaseHolds(rec.key) = rec.id
           /\ \A h \in Nat : h >= m /\ h + 1 >= rec.key => Kept(job.base, BaseGE(rec.key), h)
<1> DEFINE it == BaseGE(rec.key)
           b == Record(job.base, it)
<1>1. IsMetaRange(job.base)
    BY DEF MergeInputs
<1>2. /\ \A n \in Nat : n >= m /\ n + 1 >= rec.key => Kept(job.base, it, n)
      /\ Have(job.base, it) => /\ AtRecord(job.base, it) /\ it.rec \in DOMAIN job.base[it.range]
      /\ Have(job.base, it) /\ b.key = rec.key => IdOf(job.base, rec.key) = b.id /\ b.id # 0
      /\ IdOf(job.base, rec.key) # 0 => Have(job.base, it) /\ b.key = rec.key
    BY <1>1, BaseFinds
<1> HIDE DEF it
<1>3. Have(job.base, it) => b \in Records(job.base)
    BY <1>2, RecordsOf DEF Have, Record
<1> HIDE DEF b
<1>4. BaseHas(rec) <=> Have(job.base, it) /\ b.key = rec.key
    BY DEF BaseHas, it, b
<1>5. BaseSame(rec) <=> Have(job.base, it) /\ b.id = rec.id
    BY DEF BaseSame, it, b
<1>6. rec.id # 0
    BY DEF Identities
<1>7. BaseSame(rec) <=> BaseHolds(rec.key) = rec.id
    BY <1>2, <1>3, <1>5, <1>6 DEF BaseHolds
<1>8. BaseHas(rec) <=> BaseHolds(rec.key) # 0
    BY <1>2, <1>4 DEF BaseHolds
<1>9. QED
    BY <1>2, <1>7, <1>8 DEF it

LEMMA SourceIsAt ==
    ASSUME MergeInputs, NEW m \in Nat, SettledTo(m), AtRecord(job.source, source)
    PROVE  /\ SourceRecord \in RecordSet /\ SourceRecord.id \in Identities /\ SourceRecord.key \in 1..LastKey
           /\ SourceRecord.key > m /\ SourceRecord.key = Front(job.source, source)
           /\ SourceRecord = [key |-> SourceRecord.key, id |-> SourceRecord.id]
           /\ SourceRecord \in Records(job.source)
           /\ SourceHolds(SourceRecord.key) = SourceRecord.id
           /\ Walked(job.source, Next1(job.source, source), m, {SourceRecord.key})
<1>1. IsMetaRange(job.source)
    BY DEF MergeInputs
<1>2. Stands(job.source, source) /\ PassedTo(job.source, source, m) /\ m < Front(job.source, source)
    BY DEF SettledTo, PassedTo
<1>3. source.range \in DOMAIN job.source /\ source.rec \in DOMAIN job.source[source.range]
      /\ Front(job.source, source) = job.source[source.range][source.rec].key
    BY <1>1, <1>2, WhereItStands DEF Have
<1>4. SourceRecord = job.source[source.range][source.rec]
    BY DEF SourceRecord, Record
<1>5. SourceRecord \in RecordSet /\ SourceRecord \in Records(job.source)
    BY <1>1, <1>3, <1>4, RangesAre, RecordsOf
<1>6. \A rec \in RecordSet : /\ rec.id \in Identities /\ rec.key \in 1..LastKey
                           /\ rec = [key |-> rec.key, id |-> rec.id]
    BY DEF RecordSet
<1>7. SourceHolds(SourceRecord.key) = SourceRecord.id
    BY <1>1, <1>3, <1>4, Holds DEF SourceHolds
<1>8. Walked(job.source, Next1(job.source, source), m, {SourceRecord.key})
    BY <1>1, <1>2, <1>3, <1>4, SourceWalks
<1>9. SourceRecord.key > m /\ SourceRecord.key = Front(job.source, source)
    <2>1. SourceRecord.key \in Nat
        BY <1>5, <1>6, CommittedAssumption
    <2>2. QED
        BY <1>2, <1>3, <1>4, <2>1
<1>10. QED
    BY <1>5, <1>6, <1>7, <1>8, <1>9

LEMMA DestIsAt ==
    ASSUME MergeInputs, NEW m \in Nat, SettledTo(m), AtRecord(job.dest, dest)
    PROVE  /\ DestRecord \in RecordSet /\ DestRecord.id \in Identities /\ DestRecord.key \in 1..LastKey
           /\ DestRecord.key > m /\ DestRecord.key = Front(job.dest, dest)
           /\ DestRecord = [key |-> DestRecord.key, id |-> DestRecord.id]
           /\ DestRecord \in Records(job.dest)
           /\ DestHolds(DestRecord.key) = DestRecord.id /\ ~Under(job.prefixes, DestRecord.key)
           /\ WalkedOut(job.dest, job.prefixes, SkipNext(job.dest, job.prefixes, dest), m, {DestRecord.key})
<1>1. IsMetaRange(job.dest) /\ ArePrefixes(job.prefixes)
    BY DEF MergeInputs
<1>2. LeavesOut(job.dest, job.prefixes, dest, m) /\ m < Front(job.dest, dest) /\ Stands(job.dest, dest)
    BY DEF SettledTo, LeavesOut, Skips
<1>3. dest.range \in DOMAIN job.dest /\ dest.rec \in DOMAIN job.dest[dest.range]
      /\ Front(job.dest, dest) = job.dest[dest.range][dest.rec].key
    BY <1>1, <1>2, WhereItStands DEF Have
<1>4. DestRecord = job.dest[dest.range][dest.rec]
    BY DEF DestRecord, Record
<1>5. DestRecord \in RecordSet /\ DestRecord \in Records(job.dest)
    BY <1>1, <1>3, <1>4, RangesAre, RecordsOf
<1>6. \A rec \in RecordSet : /\ rec.id \in Identities /\ rec.key \in 1..LastKey
                           /\ rec = [key |-> rec.key, id |-> rec.id]
    BY DEF RecordSet
<1>7. IdOf(job.dest, DestRecord.key) = DestRecord.id
    BY <1>1, <1>3, <1>4, Holds
<1>8. /\ WalkedOut(job.dest, job.prefixes, SkipNext(job.dest, job.prefixes, dest), m, {DestRecord.key})
      /\ ~Under(job.prefixes, DestRecord.key)
    BY <1>1, <1>2, <1>3, <1>4, DestWalks
<1>9. DestRecord.key > m /\ DestRecord.key = Front(job.dest, dest)
    <2>1. DestRecord.key \in Nat
        BY <1>5, <1>6, CommittedAssumption
    <2>2. QED
        BY <1>2, <1>3, <1>4, <2>1
<1>10. QED
    BY <1>5, <1>6, <1>7, <1>8, <1>9 DEF DestHolds

LEMMA SourceAlone ==
    ASSUME MergeInputs, WriterInv, job' = job, NEW m \in Nat, SettledTo(m),
           AtRecord(job.source, source), SourceRecord.key < Front(job.dest, dest),
           \A old \in Records(job.base) : old.id = SourceRecord.id => old.key = SourceRecord.key,
           SourceNext, DestStays,
           OneSided(SourceRecord, "source") \/ RestRecord(SourceRecord, "source")
    PROVE  Settles(m)
<1> DEFINE rec == SourceRecord
           k == rec.key
           b == BaseHolds(k)
<1>1. /\ rec \in RecordSet /\ rec.id \in Identities /\ k \in 1..LastKey
      /\ k > m /\ k = Front(job.source, source)
      /\ rec = [key |-> k, id |-> rec.id]
      /\ SourceHolds(k) = rec.id
      /\ Walked(job.source, Next1(job.source, source), m, {k})
    BY SourceIsAt
<1>2. Kept(job.base, base, m) /\ lastKey <= m /\ unsorted = FALSE /\ LeavesOut(job.dest, job.prefixes, dest, m)
      /\ m < Front(job.dest, dest)
    BY DEF SettledTo
<1>3. /\ BaseHas(rec) <=> b # 0
      /\ BaseSame(rec) <=> b = rec.id
      /\ \A h \in Nat : h >= m /\ h + 1 >= k => Kept(job.base, BaseGE(k), h)
    BY <1>1, <1>2, BaseSays
<1>4. base' = BaseGE(k)
    BY DEF OneSided, RestRecord
<1>5. rec.id # 0
    BY <1>1 DEF Identities
<1>6. \/ WriteNothing /\ (b = rec.id \/ (b # 0 /\ b # rec.id /\ job.strategy \notin {"source", "none"}))
      \/ WriteRecord(rec) /\ (b = 0 \/ (b # 0 /\ b # rec.id /\ job.strategy = "source"))
    BY <1>3, <1>5 DEF OneSided, RestRecord
<1>7. DestHolds(k) = 0
    BY <1>1, KeysAhead
<1>8. ~Lost(k)
    BY <1>1, <1>5 DEF Lost
<1> HIDE DEF rec
<1>9. Clashes(k) <=> b # rec.id /\ b # 0
    BY <1>1, <1>5, <1>7 DEF Clashes
<1>10. \/ WriteNothing /\ Becomes(k) = 0 /\ (Clashes(k) => job.strategy # "none")
       \/ WriteRecord(rec) /\ Becomes(k) = rec.id /\ (Clashes(k) => job.strategy # "none")
    BY <1>1, <1>6, <1>7, <1>9 DEF Becomes
<1>11. WalkedOut(job.dest, job.prefixes, dest', m, {}) /\ source' = Next1(job.source, source) /\ dest' = dest
    <2>1. IsMetaRange(job.dest) /\ ArePrefixes(job.prefixes)
        BY DEF MergeInputs
    <2>2. WalkedOut(job.dest, job.prefixes, dest, m, {})
        BY <1>2, <2>1, DestWalks
    <2>3. QED
        BY <2>2 DEF SourceNext, DestStays
<1>12. \A h \in Nat : h >= m /\ k <= h => Kept(job.base, base', h)
    BY <1>1, <1>3, <1>4
<1>13. k < Front(job.dest, dest') /\ {k} \subseteq 1..LastKey
    BY <1>1, <1>11 DEF rec
<1>14. Walked(job.source, source', m, {k})
    BY <1>1, <1>11
<1>15. CASE WriteNothing /\ Becomes(k) = 0 /\ (Clashes(k) => job.strategy # "none")
    <2>1. WrittenRecords' = WrittenRecords /\ lastKey' = lastKey /\ unsorted' = unsorted
        BY <1>15 DEF WriteNothing, writerVars, WrittenRecords, WrittenRanges, AllOf, Closing
    <2>2. \A id \in Identities : Becomes(k) # id
        BY <1>15 DEF Identities
    <2>3. Passes(m, {k}, {}, {})
        BY <1>11, <1>12, <1>13, <1>14, <1>15, <2>1, <2>2 DEF Passes
    <2>4. QED
        BY <2>3, Settling
<1>16. CASE WriteRecord(rec) /\ Becomes(k) = rec.id /\ (Clashes(k) => job.strategy # "none")
    <2>0. rec.key > lastKey
        BY <1>1, <1>2, CommittedAssumption DEF WriterInv
    <2>1. WrittenRecords' = WrittenRecords \cup {rec} /\ lastKey' = k /\ unsorted' = unsorted
        BY <1>1, <1>16, <2>0, RecordWritten
    <2>2. \A id : [key |-> k, id |-> id] = rec <=> id = rec.id
        BY <1>1
    <2>3. Passes(m, {k}, {}, {rec})
        BY <1>1, <1>11, <1>12, <1>13, <1>14, <1>16, <2>1, <2>2 DEF Passes
    <2>4. QED
        BY <2>3, Settling
<1>17. QED
    BY <1>10, <1>15, <1>16

LEMMA DestAlone ==
    ASSUME MergeInputs, WriterInv, job' = job, NEW m \in Nat, SettledTo(m),
           AtRecord(job.dest, dest), DestRecord.key < Front(job.source, source),
           \A old \in Records(job.base) : old.id = DestRecord.id => old.key = DestRecord.key,
           DestNext, SourceStays,
           OneSided(DestRecord, "dest") \/ RestRecord(DestRecord, "dest")
    PROVE  Settles(m)
<1> DEFINE rec == DestRecord
           k == rec.key
           b == BaseHolds(k)
<1>1. /\ rec \in RecordSet /\ rec.id \in Identities /\ k \in 1..LastKey
      /\ k > m /\ k = Front(job.dest, dest)
      /\ rec = [key |-> k, id |-> rec.id]
      /\ DestHolds(k) = rec.id /\ ~Under(job.prefixes, k)
      /\ WalkedOut(job.dest, job.prefixes, SkipNext(job.dest, job.prefixes, dest), m, {k})
    BY DestIsAt
<1>2. Kept(job.base, base, m) /\ lastKey <= m /\ unsorted = FALSE /\ PassedTo(job.source, source, m)
      /\ m < Front(job.source, source)
    BY DEF SettledTo
<1>3. /\ BaseHas(rec) <=> b # 0
      /\ BaseSame(rec) <=> b = rec.id
      /\ \A h \in Nat : h >= m /\ h + 1 >= k => Kept(job.base, BaseGE(k), h)
    BY <1>1, <1>2, BaseSays
<1>4. base' = BaseGE(k)
    BY DEF OneSided, RestRecord
<1>5. rec.id # 0
    BY <1>1 DEF Identities
<1>6. \/ WriteNothing /\ (b = rec.id \/ (b # 0 /\ b # rec.id /\ job.strategy = "source"))
      \/ WriteRecord(rec) /\ (b = 0 \/ (b # 0 /\ b # rec.id /\ job.strategy = "dest"))
    BY <1>3, <1>5 DEF OneSided, RestRecord, Strategies, MergeInputs
<1>7. SourceHolds(k) = 0
    BY <1>1, KeysAhead
<1>8. ~Lost(k)
    BY <1>1 DEF Lost
<1> HIDE DEF rec
<1>9. Clashes(k) <=> b # rec.id /\ b # 0
    BY <1>1, <1>5, <1>7 DEF Clashes
<1>10. \/ WriteNothing /\ Becomes(k) = 0 /\ (Clashes(k) => job.strategy # "none")
       \/ WriteRecord(rec) /\ Becomes(k) = rec.id /\ (Clashes(k) => job.strategy # "none")
    BY <1>1, <1>6, <1>7, <1>9 DEF Becomes
<1>11. /\ Walked(job.source, source', m, {}) /\ source' = source
       /\ dest' = SkipNext(job.dest, job.prefixes, dest)
    <2>1. IsMetaRange(job.source)
        BY DEF MergeInputs
    <2>2. Walked(job.source, source, m, {})
        BY <1>2, <2>1, SourceWalks
    <2>3. QED
        BY <2>2 DEF DestNext, SourceStays
<1>12. \A h \in Nat : h >= m /\ k <= h => Kept(job.base, base', h)
    BY <1>1, <1>3, <1>4
<1>13. k < Front(job.source, source') /\ {k} \subseteq 1..LastKey
    BY <1>1, <1>11 DEF rec
<1>14. WalkedOut(job.dest, job.prefixes, dest', m, {k})
    BY <1>1, <1>11
<1>15. CASE WriteNothing /\ Becomes(k) = 0 /\ (Clashes(k) => job.strategy # "none")
    <2>1. WrittenRecords' = WrittenRecords /\ lastKey' = lastKey /\ unsorted' = unsorted
        BY <1>15 DEF WriteNothing, writerVars, WrittenRecords, WrittenRanges, AllOf, Closing
    <2>2. \A id \in Identities : Becomes(k) # id
        BY <1>15 DEF Identities
    <2>3. Passes(m, {}, {k}, {})
        BY <1>11, <1>12, <1>13, <1>14, <1>15, <2>1, <2>2 DEF Passes
    <2>4. QED
        BY <2>3, Settling
<1>16. CASE WriteRecord(rec) /\ Becomes(k) = rec.id /\ (Clashes(k) => job.strategy # "none")
    <2>0. rec.key > lastKey
        BY <1>1, <1>2, CommittedAssumption DEF WriterInv
    <2>1. WrittenRecords' = WrittenRecords \cup {rec} /\ lastKey' = k /\ unsorted' = unsorted
        BY <1>1, <1>16, <2>0, RecordWritten
    <2>2. \A id : [key |-> k, id |-> id] = rec <=> id = rec.id
        BY <1>1
    <2>3. Passes(m, {}, {k}, {rec})
        BY <1>1, <1>11, <1>12, <1>13, <1>14, <1>16, <2>1, <2>2 DEF Passes
    <2>4. QED
        BY <2>3, Settling
<1>17. QED
    BY <1>10, <1>15, <1>16

\* A record of both sides.
LEMMA OfSameKey ==
    ASSUME MergeInputs, WriterInv, job' = job, NEW m \in Nat, SettledTo(m),
           AtRecord(job.source, source), AtRecord(job.dest, dest), SourceRecord.key = DestRecord.key,
           \A old \in Records(job.base) : old.id = SourceRecord.id => old.key = SourceRecord.key,
           \A old \in Records(job.base) : old.id = DestRecord.id => old.key = DestRecord.key,
           SameKey
    PROVE  \/ Settles(m) /\ status' = status
           \/ /\ Clashes(DestRecord.key) /\ job.strategy = "none" /\ Conflict
              /\ \A h \in Nat : h >= m /\ h + 1 >= DestRecord.key => Kept(job.base, base', h)
<1> DEFINE s == SourceRecord
           d == DestRecord
           k == d.key
           b == BaseHolds(k)
<1>1. /\ d \in RecordSet /\ d.id \in Identities /\ k \in 1..LastKey
      /\ k > m /\ k = Front(job.dest, dest)
      /\ d = [key |-> k, id |-> d.id]
      /\ DestHolds(k) = d.id /\ ~Under(job.prefixes, k)
      /\ WalkedOut(job.dest, job.prefixes, SkipNext(job.dest, job.prefixes, dest), m, {k})
    BY DestIsAt
<1>2. /\ s \in RecordSet /\ s.id \in Identities /\ k = Front(job.source, source)
      /\ s = [key |-> k, id |-> s.id]
      /\ SourceHolds(k) = s.id /\ s.key = k
      /\ Walked(job.source, Next1(job.source, source), m, {k})
    BY SourceIsAt
<1>3. Kept(job.base, base, m) /\ lastKey <= m /\ unsorted = FALSE
    BY DEF SettledTo
<1>4. /\ BaseSame(d) <=> b = d.id
      /\ \A h \in Nat : h >= m /\ h + 1 >= k => Kept(job.base, BaseGE(k), h)
    BY <1>1, <1>3, BaseSays
<1>5. BaseSame(s) <=> b = s.id
    BY <1>1, <1>2, <1>3, BaseSays
<1>6. base' = BaseGE(k)
    BY DEF SameKey
<1>7. s.id # 0 /\ d.id # 0
    BY <1>1, <1>2 DEF Identities
<1>8. Clashes(k) <=> s.id # d.id /\ b # s.id /\ b # d.id
    BY <1>1, <1>2 DEF Clashes
<1>9. \/ WriteRecord(s) /\ Becomes(k) = s.id /\ (Clashes(k) => job.strategy # "none")
         /\ SourceNext /\ DestNext /\ status' = status
      \/ WriteRecord(d) /\ Becomes(k) = d.id /\ (Clashes(k) => job.strategy # "none")
         /\ SourceNext /\ DestNext /\ status' = status
      \/ Clashes(k) /\ job.strategy = "none" /\ Conflict
    <2>1. Becomes(k) = IF Clashes(k) THEN (IF job.strategy = "source" THEN s.id ELSE d.id)
                       ELSE IF s.id = b THEN d.id ELSE s.id
        BY <1>1, <1>2 DEF Becomes
    <2>2. \/ /\ \/ s.id = d.id /\ WriteRecord(s)
                \/ s.id # d.id /\ b = s.id /\ WriteRecord(d)
                \/ s.id # d.id /\ b # s.id /\ b = d.id /\ WriteRecord(s)
                \/ /\ s.id # d.id /\ b # s.id /\ b # d.id
                   /\ \/ job.strategy = "source" /\ WriteRecord(s)
                      \/ job.strategy = "dest" /\ WriteRecord(d)
             /\ SourceNext /\ DestNext /\ status' = status
          \/ s.id # d.id /\ b # s.id /\ b # d.id /\ job.strategy = "none" /\ Conflict
        BY <1>4, <1>5 DEF SameKey, Goes
    <2>3. s.id = d.id => s = d
        BY <1>1, <1>2
    <2> HIDE DEF s, d
    <2>4. QED
        BY <1>8, <2>1, <2>2, <2>3
<1>10. \A h \in Nat : h >= m /\ k <= h => Kept(job.base, base', h)
    BY <1>1, <1>4, <1>6
<1>11. ~Lost(k)
    BY <1>1 DEF Lost
<1> HIDE DEF s, d
<1>12. ASSUME NEW rec \in {s, d}, WriteRecord(rec), Becomes(k) = rec.id, Clashes(k) => job.strategy # "none",
              SourceNext, DestNext
       PROVE  Settles(m)
    <2>0. rec \in RecordSet /\ rec = [key |-> k, id |-> rec.id] /\ rec.key = k
        BY <1>1, <1>2
    <2>1. rec.key > lastKey
        BY <1>1, <1>3, <2>0, CommittedAssumption DEF WriterInv
    <2>2. WrittenRecords' = WrittenRecords \cup {rec} /\ lastKey' = k /\ unsorted' = unsorted
        BY <1>12, <2>0, <2>1, RecordWritten
    <2>3. \A id : [key |-> k, id |-> id] = rec <=> id = rec.id
        BY <2>0
    <2>4. Walked(job.source, source', m, {k}) /\ WalkedOut(job.dest, job.prefixes, dest', m, {k})
        BY <1>1, <1>2, <1>12 DEF SourceNext, DestNext
    <2>5. k < Front(job.source, source') /\ k < Front(job.dest, dest')
        BY <2>4 DEF Walked, WalkedOut
    <2>6. Passes(m, {k}, {k}, {rec})
        BY <1>1, <1>10, <1>11, <1>12, <2>0, <2>2, <2>3, <2>4, <2>5 DEF Passes
    <2>7. QED
        BY <2>6, Settling
<1>13. QED
    BY <1>4, <1>6, <1>9, <1>12 DEF d

-----------------------------------------------------------------------------
(* Whole ranges *)

LEMMA RangeIds ==
    ASSUME NEW mr, IsMetaRange(mr), NEW n \in DOMAIN mr
    PROVE  /\ \A k \in KeysOf(mr[n]) : /\ IdOf(mr, k) \in Identities /\ IdOf(mr, k) # 0
                                       /\ \A id : [key |-> k, id |-> id] \in Seqs!ToSet(mr[n]) <=> id = IdOf(mr, k)
           /\ \A rec \in Seqs!ToSet(mr[n]) : rec \in RecordSet /\ rec.key \in KeysOf(mr[n])
           /\ \A k, id : [key |-> k, id |-> id] \in Seqs!ToSet(mr[n]) => k \in KeysOf(mr[n])
<1>1. \A i \in DOMAIN mr[n] : /\ mr[n][i] \in RecordSet /\ mr[n][i] = [key |-> mr[n][i].key, id |-> mr[n][i].id]
                              /\ IdOf(mr, mr[n][i].key) = mr[n][i].id /\ mr[n][i].id \in Nat \ {0}
    BY RangeTypes, RangesAre, Holds
<1>2. \A rec \in Seqs!ToSet(mr[n]) : \E i \in DOMAIN mr[n] : rec = mr[n][i]
    BY DEF Seqs!ToSet
<1>3. \A i \in DOMAIN mr[n] : mr[n][i] \in Seqs!ToSet(mr[n])
    BY DEF Seqs!ToSet
<1>4. \A rec \in Seqs!ToSet(mr[n]) : rec \in RecordSet /\ rec.key \in KeysOf(mr[n]) /\ IdOf(mr, rec.key) = rec.id
    BY <1>1, <1>2 DEF KeysOf
<1>5. ASSUME NEW k \in KeysOf(mr[n])
      PROVE  /\ IdOf(mr, k) \in Identities /\ IdOf(mr, k) # 0
             /\ [key |-> k, id |-> IdOf(mr, k)] \in Seqs!ToSet(mr[n])
    <2>1. PICK i \in DOMAIN mr[n] : k = mr[n][i].key
        BY DEF KeysOf
    <2>2. IdOf(mr, k) = mr[n][i].id /\ mr[n][i].id \in Nat \ {0}
        BY <1>1, <2>1
    <2>3. mr[n][i] = [key |-> k, id |-> IdOf(mr, k)]
        BY <1>1, <2>1, <2>2
    <2>4. QED
        BY <1>3, <2>2, <2>3 DEF Identities
<1>6. ASSUME NEW k, NEW id, [key |-> k, id |-> id] \in Seqs!ToSet(mr[n])
      PROVE  id = IdOf(mr, k) /\ k \in KeysOf(mr[n])
    <2>1. [key |-> k, id |-> id].key = k /\ [key |-> k, id |-> id].id = id
        OBVIOUS
    <2>2. QED
        BY <1>4, <1>6, <2>1
<1>7. QED
    BY <1>4, <1>5, <1>6

LEMMA SourceRangeIsAt ==
    ASSUME MergeInputs, WriterInv, NEW m \in Nat, SettledTo(m), AtRange(job.source, source)
    PROVE  /\ IsMetaRange(job.source) /\ source.range \in DOMAIN job.source
           /\ SourceRange = job.source[source.range]
           /\ MinKey(SourceRange) = Front(job.source, source)
           /\ MinKey(SourceRange) > m /\ MinKey(SourceRange) > lastKey
           /\ MinKey(SourceRange) \in 1..LastKey /\ MaxKey(SourceRange) \in 1..LastKey
           /\ IsRange(SourceRange)
           /\ \A k \in KeysOf(SourceRange) : k \in 1..LastKey /\ k > m /\ k <= MaxKey(SourceRange)
           /\ Walked(job.source, Next1(job.source, source), m, {})
           /\ Walked(job.source, NextRange(job.source, source), m, KeysOf(SourceRange))
           /\ SourceHolds(MinKey(SourceRange)) # 0
<1>1. IsMetaRange(job.source)
    BY DEF MergeInputs
<1>2. Stands(job.source, source) /\ PassedTo(job.source, source, m) /\ m < Front(job.source, source)
    BY DEF SettledTo, PassedTo
<1>3. source.range \in DOMAIN job.source /\ Front(job.source, source) = MinKey(job.source[source.range])
    BY <1>1, <1>2, WhereItStands DEF Have
<1>4. SourceRange = job.source[source.range]
    BY DEF SourceRange, RangeAt
<1>5. MinKey(SourceRange) \in 1..LastKey /\ MaxKey(SourceRange) \in 1..LastKey
      /\ \A k \in KeysOf(SourceRange) : k \in 1..LastKey /\ k >= MinKey(SourceRange) /\ k <= MaxKey(SourceRange)
    BY <1>1, <1>3, <1>4, KeysOfRange
<1>6. IsRange(SourceRange)
    BY <1>1, <1>3, <1>4, RangesAre
<1>7. /\ Walked(job.source, Next1(job.source, source), m, {})
      /\ Walked(job.source, NextRange(job.source, source), m, KeysOf(SourceRange))
    BY <1>1, <1>2, <1>4, SourceWalks
<1>8. MinKey(SourceRange) > m /\ \A k \in KeysOf(SourceRange) : k > m
    BY <1>2, <1>3, <1>4, <1>5, CommittedAssumption
<1>9. lastKey <= m /\ lastKey \in Nat
    BY CommittedAssumption DEF SettledTo, WriterInv
<1>9a. MinKey(SourceRange) > lastKey
    BY <1>5, <1>8, <1>9, CommittedAssumption
<1>10. SourceHolds(MinKey(SourceRange)) # 0
    <2>1. MinKey(SourceRange) \in KeysOf(SourceRange)
        BY <1>1, <1>3, <1>4, KeysOfRange
    <2>2. QED
        BY <1>1, <1>3, <1>4, <2>1, RangeIds DEF SourceHolds
<1>11. QED
    BY <1>1, <1>3, <1>4, <1>5, <1>6, <1>7, <1>8, <1>9a, <1>10

LEMMA DestRangeIsAt ==
    ASSUME MergeInputs, WriterInv, NEW m \in Nat, SettledTo(m), AtRange(job.dest, dest)
    PROVE  /\ IsMetaRange(job.dest) /\ dest.range \in DOMAIN job.dest
           /\ DestRange = job.dest[dest.range]
           /\ MinKey(DestRange) = Front(job.dest, dest)
           /\ MinKey(DestRange) > m /\ MinKey(DestRange) > lastKey
           /\ MinKey(DestRange) \in 1..LastKey /\ MaxKey(DestRange) \in 1..LastKey
           /\ IsRange(DestRange)
           /\ \A k \in KeysOf(DestRange) : k \in 1..LastKey /\ k > m /\ k <= MaxKey(DestRange)
           /\ WalkedOut(job.dest, job.prefixes, SkipNext(job.dest, job.prefixes, dest), m, {})
           /\ WalkedOut(job.dest, job.prefixes, SkipNextRange(job.dest, job.prefixes, dest), m, KeysOf(DestRange))
<1>1. IsMetaRange(job.dest) /\ ArePrefixes(job.prefixes)
    BY DEF MergeInputs
<1>2. Stands(job.dest, dest) /\ LeavesOut(job.dest, job.prefixes, dest, m) /\ m < Front(job.dest, dest)
    BY DEF SettledTo, LeavesOut, Skips
<1>3. dest.range \in DOMAIN job.dest /\ Front(job.dest, dest) = MinKey(job.dest[dest.range])
    BY <1>1, <1>2, WhereItStands DEF Have
<1>4. DestRange = job.dest[dest.range]
    BY DEF DestRange, RangeAt
<1>5. MinKey(DestRange) \in 1..LastKey /\ MaxKey(DestRange) \in 1..LastKey
      /\ \A k \in KeysOf(DestRange) : k \in 1..LastKey /\ k >= MinKey(DestRange) /\ k <= MaxKey(DestRange)
    BY <1>1, <1>3, <1>4, KeysOfRange
<1>6. IsRange(DestRange)
    BY <1>1, <1>3, <1>4, RangesAre
<1>7. /\ WalkedOut(job.dest, job.prefixes, SkipNext(job.dest, job.prefixes, dest), m, {})
      /\ WalkedOut(job.dest, job.prefixes, SkipNextRange(job.dest, job.prefixes, dest), m, KeysOf(DestRange))
    BY <1>1, <1>2, <1>4, DestWalks
<1>8. MinKey(DestRange) > m /\ \A k \in KeysOf(DestRange) : k > m
    BY <1>2, <1>3, <1>4, <1>5, CommittedAssumption
<1>9. lastKey <= m /\ lastKey \in Nat
    BY CommittedAssumption DEF SettledTo, WriterInv
<1>9a. MinKey(DestRange) > lastKey
    BY <1>5, <1>8, <1>9, CommittedAssumption
<1>10. QED
    BY <1>1, <1>3, <1>4, <1>5, <1>6, <1>7, <1>8, <1>9a

LEMMA Staying ==
    ASSUME MergeInputs, NEW m \in Nat, SettledTo(m)
    PROVE  /\ SourceStays => Walked(job.source, source', m, {}) /\ Front(job.source, source') = Front(job.source, source)
           /\ DestStays => WalkedOut(job.dest, job.prefixes, dest', m, {}) /\ Front(job.dest, dest') = Front(job.dest, dest)
           /\ WriteNothing => WrittenRecords' = WrittenRecords /\ lastKey' = lastKey /\ unsorted' = unsorted
           /\ Front(job.source, source) \in Nat /\ Front(job.dest, dest) \in Nat
<1>0. IsMetaRange(job.source) /\ IsMetaRange(job.dest) /\ ArePrefixes(job.prefixes)
    BY DEF MergeInputs
<1>1. Walked(job.source, source, m, {}) /\ Front(job.source, source) \in Nat
    <2>1. PassedTo(job.source, source, m) /\ m < Front(job.source, source) /\ Stands(job.source, source)
        BY DEF SettledTo, PassedTo
    <2>2. Walked(job.source, source, m, {})
        BY <1>0, <2>1, SourceWalks
    <2>3. Front(job.source, source) \in 1..(LastKey + 1)
        BY <1>0, <2>1, WhereItStands
    <2>4. QED
        BY <2>2, <2>3, CommittedAssumption
<1>2. WalkedOut(job.dest, job.prefixes, dest, m, {}) /\ Front(job.dest, dest) \in Nat
    <2>1. LeavesOut(job.dest, job.prefixes, dest, m) /\ m < Front(job.dest, dest) /\ Stands(job.dest, dest)
        BY DEF SettledTo, LeavesOut, Skips
    <2>2. WalkedOut(job.dest, job.prefixes, dest, m, {})
        BY <1>0, <2>1, DestWalks
    <2>3. Front(job.dest, dest) \in 1..(LastKey + 1)
        BY <1>0, <2>1, WhereItStands
    <2>4. QED
        BY <2>2, <2>3, CommittedAssumption
<1>3. WriteNothing => WrittenRecords' = WrittenRecords /\ lastKey' = lastKey /\ unsorted' = unsorted
    BY DEF WriteNothing, writerVars, WrittenRecords, WrittenRanges, AllOf, Closing
<1>4. SourceStays => source' = source
    BY DEF SourceStays
<1>5. DestStays => dest' = dest
    BY DEF DestStays
<1>6. QED
    BY <1>1, <1>2, <1>3, <1>4, <1>5

\* Into ranges, from their headers.
LEMMA Entering ==
    ASSUME MergeInputs, WriterInv, job' = job, NEW m \in Nat, SettledTo(m), WriteNothing,
           SourceStays \/ (AtRange(job.source, source) /\ SourceNext),
           DestStays \/ (AtRange(job.dest, dest) /\ DestNext),
           \A h \in Nat : h >= m => Kept(job.base, base', h)
    PROVE  Settles(m)
<1>1. Walked(job.source, source', m, {})
    <2>1. CASE SourceStays
        BY <2>1, Staying
    <2>2. CASE AtRange(job.source, source) /\ SourceNext
        BY <2>2, SourceRangeIsAt DEF SourceNext
    <2>3. QED
        BY <2>1, <2>2
<1>2. WalkedOut(job.dest, job.prefixes, dest', m, {})
    <2>1. CASE DestStays
        BY <2>1, Staying
    <2>2. CASE AtRange(job.dest, dest) /\ DestNext
        BY <2>2, DestRangeIsAt DEF DestNext
    <2>3. QED
        BY <2>1, <2>2
<1>3. WrittenRecords' = WrittenRecords /\ lastKey' = lastKey /\ unsorted' = unsorted
    BY Staying
<1>4. Passes(m, {}, {}, {})
    BY <1>1, <1>2, <1>3 DEF Passes
<1>5. QED
    BY <1>4, Settling

\* A range of the source before what the destination has.
LEMMA SourceRangeAlone ==
    ASSUME MergeInputs, WriterInv, job' = job, NEW m \in Nat, SettledTo(m),
           AtRange(job.source, source), MaxKey(SourceRange) < Front(job.dest, dest),
           DropsOrTakes(SourceRange), SourceNextRange, DestStays
    PROVE  Settles(m)
<1> DEFINE r == SourceRange
           keys == KeysOf(r)
<1>1. /\ IsMetaRange(job.source) /\ source.range \in DOMAIN job.source
      /\ r = job.source[source.range]
      /\ MinKey(r) > m /\ MinKey(r) > lastKey
      /\ MinKey(r) \in 1..LastKey /\ MaxKey(r) \in 1..LastKey
      /\ IsRange(r)
      /\ \A k \in keys : k \in 1..LastKey /\ k > m /\ k <= MaxKey(r)
      /\ Walked(job.source, NextRange(job.source, source), m, keys)
    BY SourceRangeIsAt
<1>2. Kept(job.base, base, m) /\ IsMetaRange(job.base)
    BY DEF SettledTo, MergeInputs
<1>3. /\ \A h \in Nat : h >= m /\ h + 1 >= MinKey(r) => Kept(job.base, BaseFrom(r), h)
      /\ Overlapping(r) = <<>> => \A k \in keys : BaseHolds(k) = 0
      /\ Overlapping(r) = r => \A k \in keys : BaseHolds(k) = SourceHolds(k)
    BY <1>1, <1>2, BaseTells DEF BaseHolds, SourceHolds
<1>4. /\ \A k \in keys : /\ SourceHolds(k) # 0
                         /\ \A id : [key |-> k, id |-> id] \in Seqs!ToSet(r) <=> id = SourceHolds(k)
      /\ \A rec \in Seqs!ToSet(r) : rec \in RecordSet /\ rec.key \in keys
    BY <1>1, RangeIds DEF SourceHolds
<1>5. Front(job.dest, dest) \in Nat /\ Front(job.dest, dest') = Front(job.dest, dest)
      /\ WalkedOut(job.dest, job.prefixes, dest', m, {})
    BY Staying
<1>6. MinKey(r) \in keys /\ MaxKey(r) \in keys
    BY <1>1, KeysOfRange
<1> HIDE DEF r, keys
<1>7. \A k \in keys : k < Front(job.dest, dest)
    BY <1>1, <1>5, CommittedAssumption DEF r
<1>8. \A k \in keys : DestHolds(k) = 0 /\ ~Lost(k)
    BY <1>1, <1>4, <1>7, KeysAhead DEF Lost
<1>9. source' = NextRange(job.source, source) /\ base' = BaseFrom(r)
    BY DEF SourceNextRange, DropsOrTakes, r
<1>10. \A h \in Nat : h >= m /\ (\A k \in keys : k <= h) => Kept(job.base, base', h)
    BY <1>1, <1>3, <1>6, <1>9
<1>11. Walked(job.source, source', m, keys) /\ keys \subseteq 1..LastKey
    BY <1>1, <1>9
<1>12. CASE Overlapping(r) = <<>> /\ WriteRange(r)
    <2>1. WrittenRecords' = WrittenRecords \cup Seqs!ToSet(r) /\ lastKey' = MaxKey(r) /\ unsorted' = unsorted
        BY <1>1, <1>12, RangeWritten
    <2>2. \A k \in keys : ~Clashes(k) /\ Becomes(k) = SourceHolds(k)
        BY <1>3, <1>4, <1>8, <1>12 DEF Clashes, Becomes
    <2>3. Passes(m, keys, {}, Seqs!ToSet(r))
        BY <1>1, <1>4, <1>5, <1>6, <1>7, <1>10, <1>11, <2>1, <2>2 DEF Passes
    <2>4. QED
        BY <2>3, Settling
<1>13. CASE Overlapping(r) = r /\ WriteNothing
    <2>1. WrittenRecords' = WrittenRecords /\ lastKey' = lastKey /\ unsorted' = unsorted
        BY <1>13, Staying
    <2>2. \A k \in keys : ~Clashes(k) /\ Becomes(k) = 0
        BY <1>3, <1>8, <1>13 DEF Clashes, Becomes
    <2>3. \A id \in Identities : id # 0
        BY DEF Identities
    <2>4. Passes(m, keys, {}, {})
        BY <1>5, <1>7, <1>10, <1>11, <2>1, <2>2, <2>3 DEF Passes
    <2>5. QED
        BY <2>4, Settling
<1>14. QED
    BY <1>12, <1>13 DEF DropsOrTakes, r

LEMMA DestRangeAlone ==
    ASSUME MergeInputs, WriterInv, job' = job, NEW m \in Nat, SettledTo(m),
           AtRange(job.dest, dest), MaxKey(DestRange) < Front(job.source, source),
           DropsOrTakes(DestRange), DestNextRange, SourceStays
    PROVE  Settles(m)
<1> DEFINE r == DestRange
           keys == KeysOf(r)
<1>1. /\ IsMetaRange(job.dest) /\ dest.range \in DOMAIN job.dest
      /\ r = job.dest[dest.range]
      /\ MinKey(r) > m /\ MinKey(r) > lastKey
      /\ MinKey(r) \in 1..LastKey /\ MaxKey(r) \in 1..LastKey
      /\ IsRange(r)
      /\ \A k \in keys : k \in 1..LastKey /\ k > m /\ k <= MaxKey(r)
      /\ WalkedOut(job.dest, job.prefixes, SkipNextRange(job.dest, job.prefixes, dest), m, keys)
    BY DestRangeIsAt
<1>2. Kept(job.base, base, m) /\ IsMetaRange(job.base)
    BY DEF SettledTo, MergeInputs
<1>3. /\ \A h \in Nat : h >= m /\ h + 1 >= MinKey(r) => Kept(job.base, BaseFrom(r), h)
      /\ Overlapping(r) = <<>> => \A k \in keys : BaseHolds(k) = 0
      /\ Overlapping(r) = r => \A k \in keys : BaseHolds(k) = IdOf(job.dest, k)
    BY <1>1, <1>2, BaseTells DEF BaseHolds
<1>4. /\ \A k \in keys : \A id : [key |-> k, id |-> id] \in Seqs!ToSet(r) <=> id = IdOf(job.dest, k)
      /\ \A rec \in Seqs!ToSet(r) : rec \in RecordSet /\ rec.key \in keys
    BY <1>1, RangeIds
<1>5. Front(job.source, source) \in Nat /\ Front(job.source, source') = Front(job.source, source)
      /\ Walked(job.source, source', m, {})
    BY Staying
<1>6. MinKey(r) \in keys /\ MaxKey(r) \in keys
    BY <1>1, KeysOfRange
<1> HIDE DEF r, keys
<1>7. \A k \in keys : k < Front(job.source, source)
    BY <1>1, <1>5, CommittedAssumption DEF r
<1>8. \A k \in keys : SourceHolds(k) = 0
    BY <1>1, <1>7, KeysAhead
<1>8a. \A k \in keys : /\ ~Lost(k) => DestHolds(k) = IdOf(job.dest, k)
                       /\ DestHolds(k) = IdOf(job.dest, k) \/ DestHolds(k) = 0
    BY <1>8 DEF DestHolds, Lost
<1>9. dest' = SkipNextRange(job.dest, job.prefixes, dest) /\ base' = BaseFrom(r)
    BY DEF DestNextRange, DropsOrTakes, r
<1>10. \A h \in Nat : h >= m /\ (\A k \in keys : k <= h) => Kept(job.base, base', h)
    BY <1>1, <1>3, <1>6, <1>9
<1>11. WalkedOut(job.dest, job.prefixes, dest', m, keys) /\ keys \subseteq 1..LastKey
    BY <1>1, <1>9
<1>12. CASE Overlapping(r) = <<>> /\ WriteRange(r)
    <2>1. WrittenRecords' = WrittenRecords \cup Seqs!ToSet(r) /\ lastKey' = MaxKey(r) /\ unsorted' = unsorted
        BY <1>1, <1>12, RangeWritten
    <2>2. \A k \in keys : ~Clashes(k) /\ (~Lost(k) => Becomes(k) = IdOf(job.dest, k))
        BY <1>3, <1>8, <1>8a, <1>12 DEF Clashes, Becomes
    <2>3. Passes(m, {}, keys, Seqs!ToSet(r))
        BY <1>1, <1>4, <1>5, <1>6, <1>7, <1>10, <1>11, <2>1, <2>2 DEF Passes
    <2>4. QED
        BY <2>3, Settling
<1>13. CASE Overlapping(r) = r /\ WriteNothing
    <2>1. WrittenRecords' = WrittenRecords /\ lastKey' = lastKey /\ unsorted' = unsorted
        BY <1>13, Staying
    <2>2. \A k \in keys : ~Clashes(k) /\ (~Lost(k) => Becomes(k) = 0)
        BY <1>3, <1>8, <1>8a, <1>13 DEF Clashes, Becomes
    <2>3. \A id \in Identities : id # 0
        BY DEF Identities
    <2>4. Passes(m, {}, keys, {})
        BY <1>5, <1>7, <1>10, <1>11, <2>1, <2>2, <2>3 DEF Passes
    <2>5. QED
        BY <2>4, Settling
<1>14. QED
    BY <1>12, <1>13 DEF DropsOrTakes, r

\* A range of both sides, and one of the same bounds that is newer.
LEMMA BothRanges ==
    ASSUME MergeInputs, WriterInv, job' = job, NEW m \in Nat, SettledTo(m),
           AtRange(job.source, source), AtRange(job.dest, dest), EqualBounds(SourceRange, DestRange),
           NEW r \in {SourceRange, DestRange}, WriteRange(r), SourceNextRange, DestNextRange,
           \A h \in Nat : h >= m /\ h + 1 >= MinKey(SourceRange) => Kept(job.base, base', h),
           \A k \in KeysOf(SourceRange) \cup KeysOf(DestRange) :
                ~Clashes(k) /\ (~Lost(k) => Becomes(k) = IdOf(IF r = SourceRange THEN job.source ELSE job.dest, k))
    PROVE  Settles(m)
<1> DEFINE s == SourceRange
           d == DestRange
           Ks == KeysOf(s)
           Kd == KeysOf(d)
<1>1. /\ IsMetaRange(job.source) /\ source.range \in DOMAIN job.source
      /\ s = job.source[source.range]
      /\ MinKey(s) > m /\ MinKey(s) > lastKey
      /\ MinKey(s) \in 1..LastKey /\ MaxKey(s) \in 1..LastKey
      /\ IsRange(s)
      /\ \A k \in Ks : k \in 1..LastKey /\ k > m /\ k <= MaxKey(s)
      /\ Walked(job.source, NextRange(job.source, source), m, Ks)
    BY SourceRangeIsAt
<1>2. /\ IsMetaRange(job.dest) /\ dest.range \in DOMAIN job.dest
      /\ d = job.dest[dest.range]
      /\ MinKey(d) > m /\ MinKey(d) > lastKey
      /\ MinKey(d) \in 1..LastKey /\ MaxKey(d) \in 1..LastKey
      /\ IsRange(d)
      /\ \A k \in Kd : k \in 1..LastKey /\ k > m /\ k <= MaxKey(d)
      /\ WalkedOut(job.dest, job.prefixes, SkipNextRange(job.dest, job.prefixes, dest), m, Kd)
    BY DestRangeIsAt
<1>3. /\ \A k \in Ks : \A id : [key |-> k, id |-> id] \in Seqs!ToSet(s) <=> id = IdOf(job.source, k)
      /\ \A rec \in Seqs!ToSet(s) : rec \in RecordSet /\ rec.key \in Ks
      /\ MinKey(s) \in Ks /\ MaxKey(s) \in Ks
      /\ \A k, id : [key |-> k, id |-> id] \in Seqs!ToSet(s) => k \in Ks
      /\ \A k \in DOMAIN Contents(job.source) : MinKey(s) <= k /\ k <= MaxKey(s) => k \in Ks
      /\ \A k \in Ks : MinKey(s) <= k
    BY <1>1, RangeIds, KeysOfRange
<1>4. /\ \A k \in Kd : \A id : [key |-> k, id |-> id] \in Seqs!ToSet(d) <=> id = IdOf(job.dest, k)
      /\ \A rec \in Seqs!ToSet(d) : rec \in RecordSet /\ rec.key \in Kd
      /\ MinKey(d) \in Kd /\ MaxKey(d) \in Kd
      /\ \A k, id : [key |-> k, id |-> id] \in Seqs!ToSet(d) => k \in Kd
      /\ \A k \in DOMAIN Contents(job.dest) : MinKey(d) <= k /\ k <= MaxKey(d) => k \in Kd
      /\ \A k \in Kd : MinKey(d) <= k
    BY <1>2, RangeIds, KeysOfRange
<1>5. MinKey(s) = MinKey(d) /\ MaxKey(s) = MaxKey(d)
    BY DEF EqualBounds
<1> HIDE DEF s, d, Ks, Kd
<1>6. /\ Walked(job.source, source', m, Ks)
      /\ WalkedOut(job.dest, job.prefixes, dest', m, Kd)
    BY <1>1, <1>2 DEF SourceNextRange, DestNextRange
<1>7. Front(job.source, source') \in Nat /\ Front(job.dest, dest') \in Nat
    <2>1. Front(job.source, source') \in 1..(LastKey + 1)
        BY <1>1, <1>6, WhereItStands DEF Walked
    <2>2. Front(job.dest, dest') \in 1..(LastKey + 1)
        BY <1>2, <1>6, WhereItStands DEF WalkedOut, Skips
    <2>3. QED
        BY <2>1, <2>2, CommittedAssumption
<1>8. MaxKey(s) < Front(job.source, source') /\ MaxKey(s) < Front(job.dest, dest')
    BY <1>3, <1>4, <1>5, <1>6 DEF Walked, WalkedOut
<1>9. /\ \A k \in Ks : k < Front(job.dest, dest')
      /\ \A k \in Kd : k < Front(job.source, source')
    <2>1. ASSUME NEW k \in Ks PROVE k < Front(job.dest, dest')
        <3>1. k \in Nat /\ MaxKey(s) \in Nat /\ k <= MaxKey(s)
            BY <1>1, CommittedAssumption
        <3>2. QED
            BY <1>7, <1>8, <3>1
    <2>2. ASSUME NEW k \in Kd PROVE k < Front(job.source, source')
        <3>1. k \in Nat /\ MaxKey(s) \in Nat /\ k <= MaxKey(s)
            BY <1>2, <1>5, CommittedAssumption
        <3>2. QED
            BY <1>7, <1>8, <3>1
    <2>3. QED
        BY <2>1, <2>2
<1>10. \A h \in Nat : h >= m /\ (\A k \in Ks : k <= h) /\ (\A k \in Kd : k <= h) => Kept(job.base, base', h)
    <2> SUFFICES ASSUME NEW h \in Nat, h >= m, \A k \in Ks : k <= h
                 PROVE  Kept(job.base, base', h)
        OBVIOUS
    <2>1. MinKey(s) <= h /\ MinKey(s) \in Nat
        BY <1>1, <1>3, CommittedAssumption
    <2>2. h + 1 >= MinKey(SourceRange)
        BY <2>1 DEF s
    <2>3. QED
        BY <2>2
<1>11. Ks \subseteq 1..LastKey /\ Kd \subseteq 1..LastKey
    BY <1>1, <1>2
<1>12. \A k \in Ks \cup Kd :
            ~Clashes(k) /\ (~Lost(k) => Becomes(k) = IdOf(IF r = s THEN job.source ELSE job.dest, k))
    BY DEF s, d, Ks, Kd
<1>13. r = s \/ r = d
    BY DEF s, d
<1>14. CASE r = s
    <2>1. WrittenRecords' = WrittenRecords \cup Seqs!ToSet(s) /\ lastKey' = MaxKey(s) /\ unsorted' = unsorted
        BY <1>1, <1>14, RangeWritten
    <2>2. \A k : k \in Kd /\ k \notin Ks => IdOf(job.source, k) = 0
        <3> SUFFICES ASSUME NEW k \in Kd, k \notin Ks PROVE IdOf(job.source, k) = 0
            OBVIOUS
        <3>1. MinKey(s) <= k /\ k <= MaxKey(s)
            BY <1>2, <1>4, <1>5
        <3>2. k \notin DOMAIN Contents(job.source)
            BY <1>3, <3>1
        <3>3. QED
            BY <1>1, <3>2, HeldBy
    <2>3. \A id \in Identities : id # 0
        BY DEF Identities
    <2>4. \A k \in Ks \cup Kd : \A id \in Identities :
                [key |-> k, id |-> id] \in Seqs!ToSet(s) <=> IdOf(job.source, k) = id
        BY <1>3, <2>2, <2>3
    <2>5. \A k : (k \in Ks \/ k \in Kd) /\ k > m =>
            /\ ~Lost(k) => \A id \in Identities : [key |-> k, id |-> id] \in Seqs!ToSet(s) <=> Becomes(k) = id
            /\ Clashes(k) => job.strategy # "none"
        BY <1>12, <1>14, <2>4
    <2>6. Passes(m, Ks, Kd, Seqs!ToSet(s))
        BY <1>1, <1>3, <1>6, <1>9, <1>10, <1>11, <2>1, <2>5 DEF Passes
    <2>7. QED
        BY <2>6, Settling
<1>15. CASE r = d /\ r # s
    <2>1. WrittenRecords' = WrittenRecords \cup Seqs!ToSet(d) /\ lastKey' = MaxKey(d) /\ unsorted' = unsorted
        BY <1>2, <1>15, RangeWritten
    <2>2. \A k : k \in Ks /\ k \notin Kd => IdOf(job.dest, k) = 0
        <3> SUFFICES ASSUME NEW k \in Ks, k \notin Kd PROVE IdOf(job.dest, k) = 0
            OBVIOUS
        <3>1. MinKey(d) <= k /\ k <= MaxKey(d)
            BY <1>1, <1>3, <1>5
        <3>2. k \notin DOMAIN Contents(job.dest)
            BY <1>4, <3>1
        <3>3. QED
            BY <1>2, <3>2, HeldBy
    <2>3. \A id \in Identities : id # 0
        BY DEF Identities
    <2>4. \A k \in Ks \cup Kd : \A id \in Identities :
                [key |-> k, id |-> id] \in Seqs!ToSet(d) <=> IdOf(job.dest, k) = id
        BY <1>4, <2>2, <2>3
    <2>5. \A k : (k \in Ks \/ k \in Kd) /\ k > m =>
            /\ ~Lost(k) => \A id \in Identities : [key |-> k, id |-> id] \in Seqs!ToSet(d) <=> Becomes(k) = id
            /\ Clashes(k) => job.strategy # "none"
        BY <1>12, <1>15, <2>4
    <2>6. Passes(m, Ks, Kd, Seqs!ToSet(d))
        BY <1>2, <1>4, <1>6, <1>9, <1>10, <1>11, <2>1, <2>5 DEF Passes
    <2>7. QED
        BY <2>6, Settling
<1>16. QED
    BY <1>13, <1>14, <1>15

LEMMA SameRange ==
    ASSUME MergeInputs, WriterInv, job' = job, NEW m \in Nat, SettledTo(m),
           AtRange(job.source, source), AtRange(job.dest, dest), SourceRange = DestRange,
           WriteRange(SourceRange), SourceNextRange, DestNextRange, BaseStays
    PROVE  Settles(m)
<1> DEFINE s == SourceRange
<1>1. /\ IsMetaRange(job.source) /\ source.range \in DOMAIN job.source /\ s = job.source[source.range]
      /\ MinKey(s) > m /\ MinKey(s) \in 1..LastKey
    BY SourceRangeIsAt
<1>2. /\ IsMetaRange(job.dest) /\ dest.range \in DOMAIN job.dest /\ s = job.dest[dest.range]
    BY DestRangeIsAt
<1>3. \A k \in KeysOf(s) : /\ IdOf(job.source, k) # 0
                           /\ \A id : [key |-> k, id |-> id] \in Seqs!ToSet(s) <=> id = IdOf(job.source, k)
    BY <1>1, RangeIds
<1>4. \A k \in KeysOf(s) : \A id : [key |-> k, id |-> id] \in Seqs!ToSet(s) <=> id = IdOf(job.dest, k)
    BY <1>2, RangeIds
<1>5. \A k \in KeysOf(s) : IdOf(job.source, k) = IdOf(job.dest, k) /\ IdOf(job.source, k) # 0
    BY <1>3, <1>4
<1>6. \A k : Under(job.prefixes, k) => BaseHolds(k) = 0
    <2> SUFFICES ASSUME NEW k, Under(job.prefixes, k) PROVE BaseHolds(k) = 0
        OBVIOUS
    <2>1. job.base = <<>>
        BY DEF MergeInputs, Under
    <2>2. Records(job.base) = {}
        BY <2>1 DEF Records
    <2>3. k \notin DOMAIN Contents(job.base)
        BY <2>2 DEF Contents
    <2>4. QED
        BY <2>3, HeldBy DEF BaseHolds, MergeInputs
<1> HIDE DEF s
<1>7. \A k \in KeysOf(s) : ~Clashes(k) /\ Becomes(k) = IdOf(job.source, k)
    <2> SUFFICES ASSUME NEW k \in KeysOf(s) PROVE ~Clashes(k) /\ Becomes(k) = IdOf(job.source, k)
        OBVIOUS
    <2>1. SourceHolds(k) = IdOf(job.source, k)
        BY DEF SourceHolds
    <2>2. CASE Under(job.prefixes, k)
        <3>1. DestHolds(k) = 0 /\ BaseHolds(k) = 0
            BY <1>6, <2>2 DEF DestHolds
        <3>2. QED
            BY <1>5, <2>1, <3>1 DEF Clashes, Becomes
    <2>3. CASE ~Under(job.prefixes, k)
        <3>1. DestHolds(k) = SourceHolds(k)
            BY <1>5, <2>1, <2>3 DEF DestHolds
        <3>2. QED
            BY <2>1, <3>1 DEF Clashes, Becomes
    <2>4. QED
        BY <2>2, <2>3
<1>8. \A h \in Nat : h >= m => Kept(job.base, base', h)
    <2>1. Kept(job.base, base, m) /\ base' = base
        BY DEF SettledTo, BaseStays
    <2>2. IsMetaRange(job.base)
        BY DEF MergeInputs
    <2>3. \A n \in DOMAIN job.base : \A i \in DOMAIN job.base[n] : job.base[n][i].key \in 1..LastKey
        BY <2>2, WithinRange
    <2>4. QED
        BY <2>1, <2>3, CommittedAssumption DEF Kept
<1>9. EqualBounds(SourceRange, DestRange)
    BY DEF EqualBounds
<1>10. QED
    BY <1>7, <1>8, <1>9, BothRanges DEF s

LEMMA NewerRange ==
    ASSUME MergeInputs, WriterInv, job' = job, NEW m \in Nat, SettledTo(m),
           AtRange(job.source, source), AtRange(job.dest, dest), EqualBounds(SourceRange, DestRange),
           base' = BaseFrom(SourceRange), SourceRange # DestRange,
           Overlapping(SourceRange) \in {SourceRange, DestRange},
           WriteRange(IF Overlapping(SourceRange) = SourceRange THEN DestRange ELSE SourceRange),
           SourceNextRange, DestNextRange
    PROVE  Settles(m)
<1> DEFINE s == SourceRange
           d == DestRange
           keys == KeysOf(s) \cup KeysOf(d)
<1>1. /\ IsMetaRange(job.source) /\ source.range \in DOMAIN job.source /\ s = job.source[source.range]
      /\ MinKey(s) > m /\ MinKey(s) \in 1..LastKey /\ MaxKey(s) \in 1..LastKey /\ IsRange(s)
    BY SourceRangeIsAt
<1>2. /\ IsMetaRange(job.dest) /\ dest.range \in DOMAIN job.dest /\ d = job.dest[dest.range] /\ IsRange(d)
    BY DestRangeIsAt
<1>3. MinKey(s) = MinKey(d) /\ MaxKey(s) = MaxKey(d)
    BY DEF EqualBounds
<1>4. \A k \in keys : MinKey(s) <= k /\ k <= MaxKey(s)
    BY <1>1, <1>2, <1>3, KeysOfRange
<1>5. Kept(job.base, base, m) /\ IsMetaRange(job.base)
    BY DEF SettledTo, MergeInputs
<1> HIDE DEF s, d
<1>6. /\ \A h \in Nat : h >= m /\ h + 1 >= MinKey(s) => Kept(job.base, BaseFrom(s), h)
      /\ \A other : IsMetaRange(other) => \A p \in DOMAIN other : Overlapping(s) = other[p] =>
                \A k : MinKey(other[p]) <= k /\ k <= MaxKey(other[p]) => IdOf(job.base, k) = IdOf(other, k)
    BY <1>1, <1>5, BaseTells
<1>7. job.prefixes = <<>>
    <2>1. Overlapping(s) # <<>>
        BY <1>1, <1>2 DEF IsRange, s, d
    <2>2. \E n \in DOMAIN job.base : Overlapping(s) = job.base[n]
        BY <1>1, <1>5, <2>1, BaseOverlaps
    <2>3. job.base # <<>>
        BY <2>2
    <2>4. QED
        BY <2>3 DEF MergeInputs
<1>8. \A k : DestHolds(k) = IdOf(job.dest, k) /\ SourceHolds(k) = IdOf(job.source, k)
    BY <1>7 DEF DestHolds, SourceHolds, Under
<1>9. base' = BaseFrom(s)
    BY DEF s
<1>10. EqualBounds(SourceRange, DestRange) /\ s # d
    BY DEF s, d
<1>11. CASE Overlapping(s) = s /\ WriteRange(d)
    <2>1. \A k \in keys : BaseHolds(k) = IdOf(job.source, k)
        BY <1>1, <1>4, <1>6, <1>11 DEF BaseHolds
    <2>2. \A k \in keys : ~Clashes(k) /\ Becomes(k) = IdOf(job.dest, k)
        BY <1>8, <2>1 DEF Clashes, Becomes
    <2>3. QED
        BY <1>6, <1>9, <1>10, <1>11, <2>2, BothRanges DEF s, d
<1>12. CASE Overlapping(s) = d /\ WriteRange(s)
    <2>1. \A k \in keys : BaseHolds(k) = IdOf(job.dest, k)
        BY <1>2, <1>3, <1>4, <1>6, <1>12 DEF BaseHolds
    <2>2. \A k \in keys : ~Clashes(k) /\ Becomes(k) = IdOf(job.source, k)
        BY <1>8, <2>1 DEF Clashes, Becomes
    <2>3. QED
        BY <1>6, <1>9, <1>10, <1>12, <2>2, BothRanges DEF s, d
<1>13. QED
    BY <1>10, <1>11, <1>12 DEF s, d

-----------------------------------------------------------------------------
(* The actions of a merge *)

Merges ==
    /\ job.op \in {"merge", "import"}
    /\ IsRequest(job) /\ OwnIdentities

LEMMA MergesWhat ==
    ASSUME Merges
    PROVE  /\ MergeInputs
           /\ \A old \in Records(job.base) : \A rec \in Records(job.source) \cup Records(job.dest) :
                old.id = rec.id => old.key = rec.key
<1>1. /\ IsMetaRange(job.base) /\ IsMetaRange(job.source) /\ IsMetaRange(job.dest)
      /\ ArePrefixes(job.prefixes) /\ job.strategy \in Strategies
      /\ job.op = "import" => job.base = <<>>
      /\ job.op # "import" => job.prefixes = <<>>
    BY DEF Merges, IsRequest, ArePrefixes
<1>2. CASE job.op = "import"
    <2>1. Records(job.base) = {}
        BY <1>1, <1>2 DEF Records
    <2>2. QED
        BY <1>1, <1>2, <2>1 DEF MergeInputs
<1>3. CASE job.op = "merge"
    BY <1>1, <1>3 DEF MergeInputs, Merges, OwnIdentities
<1>4. QED
    BY <1>2, <1>3 DEF Merges

\* Without a strategy it stops at a key that has been changed on both sides.
Clashed(m) ==
    /\ status' = "conflict" /\ job.strategy = "none"
    /\ UNCHANGED <<source, dest, writerVars>>
    /\ Settles(m)
    /\ \E k \in (m + 1)..LastKey : Clashes(k)

LEMMA Fronts ==
    ASSUME MergeInputs, NEW m \in Nat, SettledTo(m)
    PROVE  /\ Front(job.source, source) \in 1..(LastKey + 1) /\ Front(job.dest, dest) \in 1..(LastKey + 1)
           /\ Stands(job.source, source) /\ Stands(job.dest, dest)
           /\ AtRecord(job.source, source) => /\ Front(job.source, source) = SourceRecord.key
                                              /\ SourceRecord \in Records(job.source)
           /\ AtRecord(job.dest, dest) => /\ Front(job.dest, dest) = DestRecord.key
                                          /\ DestRecord \in Records(job.dest)
           /\ AtRange(job.source, source) =>
                /\ Front(job.source, source) = MinKey(SourceRange)
                /\ MinKey(SourceRange) <= MaxKey(SourceRange)
                /\ MinKey(SourceRange) \in 1..LastKey /\ MaxKey(SourceRange) \in 1..LastKey
           /\ AtRange(job.dest, dest) =>
                /\ Front(job.dest, dest) = MinKey(DestRange)
                /\ MinKey(DestRange) <= MaxKey(DestRange)
                /\ MinKey(DestRange) \in 1..LastKey /\ MaxKey(DestRange) \in 1..LastKey
           /\ ~HaveSource => Front(job.source, source) = LastKey + 1
           /\ ~HaveDest => Front(job.dest, dest) = LastKey + 1
           /\ m < Front(job.source, source) /\ m < Front(job.dest, dest)
           /\ m + 1 = Front(job.source, source) \/ m + 1 = Front(job.dest, dest)
<1>1. IsMetaRange(job.source) /\ IsMetaRange(job.dest)
    BY DEF MergeInputs
<1>2. Stands(job.source, source) /\ Stands(job.dest, dest)
    BY DEF SettledTo, PassedTo, LeavesOut, Skips
<1>3. AtRecord(job.source, source) => /\ Front(job.source, source) = SourceRecord.key
                                      /\ SourceRecord \in Records(job.source)
    BY SourceIsAt
<1>4. AtRecord(job.dest, dest) => /\ Front(job.dest, dest) = DestRecord.key
                                  /\ DestRecord \in Records(job.dest)
    BY DestIsAt
<1>5. AtRange(job.source, source) =>
                /\ Front(job.source, source) = MinKey(SourceRange)
                /\ MinKey(SourceRange) <= MaxKey(SourceRange)
                /\ MinKey(SourceRange) \in 1..LastKey /\ MaxKey(SourceRange) \in 1..LastKey
    <2> SUFFICES ASSUME AtRange(job.source, source)
                 PROVE  /\ Front(job.source, source) = MinKey(SourceRange)
                        /\ MinKey(SourceRange) <= MaxKey(SourceRange)
                        /\ MinKey(SourceRange) \in 1..LastKey /\ MaxKey(SourceRange) \in 1..LastKey
        OBVIOUS
    <2>1. source.range \in DOMAIN job.source /\ SourceRange = job.source[source.range]
        BY DEF AtRange, Have, SourceRange, RangeAt
    <2>2. Front(job.source, source) = MinKey(SourceRange)
        BY <1>1, <1>2, <2>1, WhereItStands
    <2>3. 1 \in DOMAIN SourceRange
        BY <1>1, <2>1, RangeTypes
    <2>4. QED
        BY <1>1, <2>1, <2>2, <2>3, WithinRange
<1>6. AtRange(job.dest, dest) =>
                /\ Front(job.dest, dest) = MinKey(DestRange)
                /\ MinKey(DestRange) <= MaxKey(DestRange)
                /\ MinKey(DestRange) \in 1..LastKey /\ MaxKey(DestRange) \in 1..LastKey
    <2> SUFFICES ASSUME AtRange(job.dest, dest)
                 PROVE  /\ Front(job.dest, dest) = MinKey(DestRange)
                        /\ MinKey(DestRange) <= MaxKey(DestRange)
                        /\ MinKey(DestRange) \in 1..LastKey /\ MaxKey(DestRange) \in 1..LastKey
        OBVIOUS
    <2>1. dest.range \in DOMAIN job.dest /\ DestRange = job.dest[dest.range]
        BY DEF AtRange, Have, DestRange, RangeAt
    <2>2. Front(job.dest, dest) = MinKey(DestRange)
        BY <1>1, <1>2, <2>1, WhereItStands
    <2>3. 1 \in DOMAIN DestRange
        BY <1>1, <2>1, RangeTypes
    <2>4. QED
        BY <1>1, <2>1, <2>2, <2>3, WithinRange
<1>7. Front(job.source, source) \in 1..(LastKey + 1) /\ Front(job.dest, dest) \in 1..(LastKey + 1)
    BY <1>1, <1>2, WhereItStands
<1>8. /\ ~HaveSource => Front(job.source, source) = LastKey + 1
      /\ ~HaveDest => Front(job.dest, dest) = LastKey + 1
    BY <1>1, <1>2, WhereItStands DEF HaveSource, HaveDest
<1>9. QED
    BY <1>2, <1>3, <1>4, <1>5, <1>6, <1>7, <1>8 DEF SettledTo

\* A range that is partly changed is entered.
LEMMA SourceMixed ==
    ASSUME MergeInputs, WriterInv, job' = job, NEW m \in Nat, SettledTo(m),
           AtRange(job.source, source), MaxKey(SourceRange) < Front(job.dest, dest),
           base' = BaseFrom(SourceRange), WriteNothing, SourceNext,
           DestStays \/ (AtRange(job.dest, dest) /\ DestNext)
    PROVE  Settles(m)
<1>1. /\ IsMetaRange(job.source) /\ source.range \in DOMAIN job.source /\ SourceRange = job.source[source.range]
      /\ MinKey(SourceRange) > m
    BY SourceRangeIsAt
<1>2. m + 1 >= MinKey(SourceRange) /\ MinKey(SourceRange) \in Nat
    BY Fronts, CommittedAssumption
<1>3. Kept(job.base, base, m) /\ IsMetaRange(job.base)
    BY DEF SettledTo, MergeInputs
<1>4. \A h \in Nat : h >= m /\ h + 1 >= MinKey(SourceRange) => Kept(job.base, base', h)
    BY <1>1, <1>3, BaseTells
<1>5. \A h \in Nat : h >= m => Kept(job.base, base', h)
    BY <1>2, <1>4
<1>6. QED
    BY <1>5, Entering

LEMMA DestMixed ==
    ASSUME MergeInputs, WriterInv, job' = job, NEW m \in Nat, SettledTo(m),
           AtRange(job.dest, dest), MaxKey(DestRange) < Front(job.source, source),
           base' = BaseFrom(DestRange), WriteNothing, DestNext,
           SourceStays \/ (AtRange(job.source, source) /\ SourceNext)
    PROVE  Settles(m)
<1>1. /\ IsMetaRange(job.dest) /\ dest.range \in DOMAIN job.dest /\ DestRange = job.dest[dest.range]
      /\ MinKey(DestRange) > m
    BY DestRangeIsAt
<1>2. m + 1 >= MinKey(DestRange) /\ MinKey(DestRange) \in Nat
    BY Fronts, CommittedAssumption
<1>3. Kept(job.base, base, m) /\ IsMetaRange(job.base)
    BY DEF SettledTo, MergeInputs
<1>4. \A h \in Nat : h >= m /\ h + 1 >= MinKey(DestRange) => Kept(job.base, base', h)
    BY <1>1, <1>3, BaseTells
<1>5. \A h \in Nat : h >= m => Kept(job.base, base', h)
    BY <1>2, <1>4
<1>6. QED
    BY <1>5, Entering

\* A range that cannot be handled as a whole is entered.
LEMMA OnlyEntering ==
    ASSUME MergeInputs, WriterInv, job' = job, NEW m \in Nat, SettledTo(m), BaseStays, WriteNothing,
           SourceStays \/ (AtRange(job.source, source) /\ SourceNext),
           DestStays \/ (AtRange(job.dest, dest) /\ DestNext)
    PROVE  Settles(m)
<1>1. \A h \in Nat : h >= m => Kept(job.base, base', h)
    <2>1. Kept(job.base, base, m) /\ base' = base
        BY DEF SettledTo, BaseStays
    <2>2. \A n \in DOMAIN job.base : \A i \in DOMAIN job.base[n] : job.base[n][i].key \in 1..LastKey
        BY WithinRange DEF MergeInputs
    <2>3. QED
        BY <2>1, <2>2, CommittedAssumption DEF Kept
<1>2. QED
    BY <1>1, Entering

\* A conflict leaves everything where it is, but for the base.
LEMMA ConflictAt ==
    ASSUME MergeInputs, WriterInv, job' = job, NEW m \in Nat, SettledTo(m), Conflict, job.strategy = "none",
           NEW k \in 1..LastKey, k > m, Clashes(k), m + 1 = k,
           \A h \in Nat : h >= m /\ h + 1 >= k => Kept(job.base, base', h)
    PROVE  Clashed(m)
<1>1. WriteNothing /\ SourceStays /\ DestStays /\ status' = "conflict"
    BY DEF Conflict
<1>2. Settles(m)
    BY <1>1, Entering
<1>3. UNCHANGED <<source, dest, writerVars>>
    BY <1>1 DEF WriteNothing, SourceStays, DestStays
<1>4. k \in (m + 1)..LastKey
    BY CommittedAssumption
<1>5. QED
    BY <1>1, <1>2, <1>3, <1>4 DEF Clashed

LEMMA SourceClash ==
    ASSUME Merges, WriterInv, job' = job, NEW m \in Nat, SettledTo(m),
           AtRecord(job.source, source), SourceRecord.key < Front(job.dest, dest),
           OneSidedConflict(SourceRecord) \/ RestConflict(SourceRecord)
    PROVE  Clashed(m)
<1> DEFINE rec == SourceRecord
           k == rec.key
<1>0. MergeInputs
    BY MergesWhat
<1>1. /\ rec.id \in Identities /\ k \in 1..LastKey /\ k > m /\ k = Front(job.source, source)
      /\ SourceHolds(k) = rec.id /\ rec \in Records(job.source)
    BY <1>0, SourceIsAt
<1>2. Kept(job.base, base, m)
    BY DEF SettledTo
<1>3. /\ BaseHas(rec) <=> BaseHolds(k) # 0
      /\ BaseSame(rec) <=> BaseHolds(k) = rec.id
      /\ \A h \in Nat : h >= m /\ h + 1 >= k => Kept(job.base, BaseGE(k), h)
    BY <1>0, <1>1, <1>2, BaseSays, MergesWhat
<1>4. /\ base' = BaseGE(k) /\ BaseHas(rec) /\ ~BaseSame(rec) /\ job.strategy = "none" /\ Conflict
    BY DEF OneSidedConflict, RestConflict
<1>5. DestHolds(k) = 0
    BY <1>0, <1>1, KeysAhead
<1>6. Clashes(k)
    BY <1>1, <1>3, <1>4, <1>5 DEF Clashes, Identities
<1>7. m + 1 = k
    BY <1>0, <1>1, Fronts, CommittedAssumption
<1>8. QED
    BY <1>0, <1>1, <1>3, <1>4, <1>6, <1>7, ConflictAt

LEMMA DestClash ==
    ASSUME Merges, WriterInv, job' = job, NEW m \in Nat, SettledTo(m),
           AtRecord(job.dest, dest), DestRecord.key < Front(job.source, source),
           OneSidedConflict(DestRecord) \/ RestConflict(DestRecord)
    PROVE  Clashed(m)
<1> DEFINE rec == DestRecord
           k == rec.key
<1>0. MergeInputs
    BY MergesWhat
<1>1. /\ rec.id \in Identities /\ k \in 1..LastKey /\ k > m /\ k = Front(job.dest, dest)
      /\ DestHolds(k) = rec.id /\ rec \in Records(job.dest)
    BY <1>0, DestIsAt
<1>2. Kept(job.base, base, m)
    BY DEF SettledTo
<1>3. /\ BaseHas(rec) <=> BaseHolds(k) # 0
      /\ BaseSame(rec) <=> BaseHolds(k) = rec.id
      /\ \A h \in Nat : h >= m /\ h + 1 >= k => Kept(job.base, BaseGE(k), h)
    BY <1>0, <1>1, <1>2, BaseSays, MergesWhat
<1>4. /\ base' = BaseGE(k) /\ BaseHas(rec) /\ ~BaseSame(rec) /\ job.strategy = "none" /\ Conflict
    BY DEF OneSidedConflict, RestConflict
<1>5. SourceHolds(k) = 0
    BY <1>0, <1>1, KeysAhead
<1>6. Clashes(k)
    BY <1>1, <1>3, <1>4, <1>5 DEF Clashes, Identities
<1>7. m + 1 = k
    BY <1>0, <1>1, Fronts, CommittedAssumption
<1>8. QED
    BY <1>0, <1>1, <1>3, <1>4, <1>6, <1>7, ConflictAt

Moves(m) == (Settles(m) /\ status' = status) \/ Clashed(m)

LEMMA SourceBeforeMoves ==
    ASSUME Merges, WriterInv, job' = job, NEW m \in Nat, SettledTo(m),
           AtRecord(job.source, source), SourceRecord.key < Front(job.dest, dest), SourceBefore
    PROVE  Moves(m)
<1>0. MergeInputs /\ SourceRecord \in Records(job.source)
    BY MergesWhat, Fronts
<1>1. CASE OneSidedConflict(SourceRecord)
    BY <1>1, SourceClash DEF Moves
<1>2. CASE OneSided(SourceRecord, "source") /\ SourceNext /\ DestStays /\ Goes
    <2>1. \A old \in Records(job.base) : old.id = SourceRecord.id => old.key = SourceRecord.key
        BY <1>0, MergesWhat
    <2>2. Settles(m)
        BY <1>0, <1>2, <2>1, SourceAlone
    <2>3. QED
        BY <1>2, <2>2 DEF Moves, Goes
<1>3. QED
    BY <1>1, <1>2 DEF SourceBefore

LEMMA DestBeforeMoves ==
    ASSUME Merges, WriterInv, job' = job, NEW m \in Nat, SettledTo(m),
           AtRecord(job.dest, dest), DestRecord.key < Front(job.source, source), DestBefore
    PROVE  Moves(m)
<1>0. MergeInputs /\ DestRecord \in Records(job.dest)
    BY MergesWhat, Fronts
<1>1. CASE OneSidedConflict(DestRecord)
    BY <1>1, DestClash DEF Moves
<1>2. CASE OneSided(DestRecord, "dest") /\ DestNext /\ SourceStays /\ Goes
    <2>1. \A old \in Records(job.base) : old.id = DestRecord.id => old.key = DestRecord.key
        BY <1>0, MergesWhat
    <2>2. Settles(m)
        BY <1>0, <1>2, <2>1, DestAlone
    <2>3. QED
        BY <1>2, <2>2 DEF Moves, Goes
<1>3. QED
    BY <1>1, <1>2 DEF DestBefore

LEMMA BothKeysMove ==
    ASSUME Merges, WriterInv, job' = job, NEW m \in Nat, SettledTo(m), HandleBothKeys
    PROVE  Moves(m)
<1>0. MergeInputs
    BY MergesWhat
<1>1. AtRecord(job.source, source) /\ AtRecord(job.dest, dest)
    BY DEF HandleBothKeys
<1>2. /\ Front(job.source, source) = SourceRecord.key /\ Front(job.dest, dest) = DestRecord.key
      /\ SourceRecord \in Records(job.source) /\ DestRecord \in Records(job.dest)
      /\ SourceRecord.key \in 1..(LastKey + 1) /\ DestRecord.key \in 1..(LastKey + 1)
    BY <1>0, <1>1, Fronts
<1>3. CASE SourceRecord.key < DestRecord.key /\ SourceBefore
    BY <1>1, <1>2, <1>3, SourceBeforeMoves
<1>4. CASE SourceRecord.key > DestRecord.key /\ DestBefore
    <2>1. DestRecord.key < Front(job.source, source)
        BY <1>2, <1>4, CommittedAssumption
    <2>2. QED
        BY <1>1, <1>4, <2>1, DestBeforeMoves
<1>5. CASE SourceRecord.key = DestRecord.key /\ SameKey
    <2>1. /\ \A old \in Records(job.base) : old.id = SourceRecord.id => old.key = SourceRecord.key
          /\ \A old \in Records(job.base) : old.id = DestRecord.id => old.key = DestRecord.key
        BY <1>2, MergesWhat
    <2>2. \/ Settles(m) /\ status' = status
          \/ /\ Clashes(DestRecord.key) /\ job.strategy = "none" /\ Conflict
             /\ \A h \in Nat : h >= m /\ h + 1 >= DestRecord.key => Kept(job.base, base', h)
        BY <1>0, <1>1, <1>5, <2>1, OfSameKey
    <2>3. DestRecord.key > m /\ DestRecord.key \in 1..LastKey /\ m + 1 = DestRecord.key
        BY <1>0, <1>1, <1>2, <1>5, Fronts, DestIsAt
    <2>4. QED
        BY <1>0, <2>2, <2>3, ConflictAt DEF Moves
<1>6. QED
    BY <1>3, <1>4, <1>5 DEF HandleBothKeys

LEMMA DestRangeSourceKeyMoves ==
    ASSUME Merges, WriterInv, job' = job, NEW m \in Nat, SettledTo(m), HandleDestRangeSourceKey
    PROVE  Moves(m)
<1>0. MergeInputs
    BY MergesWhat
<1>1. AtRecord(job.source, source) /\ AtRange(job.dest, dest)
    BY DEF HandleDestRangeSourceKey
<1>2. /\ Front(job.source, source) = SourceRecord.key /\ Front(job.dest, dest) = MinKey(DestRange)
      /\ SourceRecord.key \in 1..(LastKey + 1) /\ MinKey(DestRange) \in 1..LastKey
    BY <1>0, <1>1, Fronts
<1> DEFINE before == MaxKey(DestRange) < SourceRecord.key /\ ValidWriting
<1>3. CASE MinKey(DestRange) > SourceRecord.key /\ SourceBefore
    <2>1. SourceRecord.key < Front(job.dest, dest)
        BY <1>2, <1>3, CommittedAssumption
    <2>2. QED
        BY <1>1, <1>3, <2>1, SourceBeforeMoves
<1>4. CASE before /\ DropsOrTakes(DestRange) /\ DestNextRange /\ SourceStays /\ Goes
    <2>1. Settles(m)
        BY <1>0, <1>1, <1>2, <1>4, DestRangeAlone
    <2>2. QED
        BY <1>4, <2>1 DEF Moves, Goes
<1>5. CASE before /\ Mixed(DestRange) /\ base' = BaseFrom(DestRange) /\ EnterDest
    <2>1. Settles(m)
        BY <1>0, <1>1, <1>2, <1>5, DestMixed DEF EnterDest
    <2>2. QED
        BY <1>5, <2>1 DEF Moves, EnterDest, Goes
<1>6. CASE BaseStays /\ EnterDest
    <2>1. Settles(m)
        BY <1>0, <1>1, <1>6, OnlyEntering DEF EnterDest
    <2>2. QED
        BY <1>6, <2>1 DEF Moves, EnterDest, Goes
<1>7. QED
    BY <1>3, <1>4, <1>5, <1>6 DEF HandleDestRangeSourceKey

LEMMA SourceRangeDestKeyMoves ==
    ASSUME Merges, WriterInv, job' = job, NEW m \in Nat, SettledTo(m), HandleSourceRangeDestKey
    PROVE  Moves(m)
<1>0. MergeInputs
    BY MergesWhat
<1>1. AtRange(job.source, source) /\ AtRecord(job.dest, dest)
    BY DEF HandleSourceRangeDestKey
<1>2. /\ Front(job.dest, dest) = DestRecord.key /\ Front(job.source, source) = MinKey(SourceRange)
      /\ DestRecord.key \in 1..(LastKey + 1) /\ MinKey(SourceRange) \in 1..LastKey
    BY <1>0, <1>1, Fronts
<1> DEFINE before == MaxKey(SourceRange) < DestRecord.key
<1>3. CASE MinKey(SourceRange) > DestRecord.key /\ DestBefore
    <2>1. DestRecord.key < Front(job.source, source)
        BY <1>2, <1>3, CommittedAssumption
    <2>2. QED
        BY <1>1, <1>3, <2>1, DestBeforeMoves
<1>4. CASE before /\ DropsOrTakes(SourceRange) /\ SourceNextRange /\ DestStays /\ Goes
    <2>1. Settles(m)
        BY <1>0, <1>1, <1>2, <1>4, SourceRangeAlone
    <2>2. QED
        BY <1>4, <2>1 DEF Moves, Goes
<1>5. CASE before /\ Mixed(SourceRange) /\ base' = BaseFrom(SourceRange) /\ EnterSource
    <2>1. Settles(m)
        BY <1>0, <1>1, <1>2, <1>5, SourceMixed DEF EnterSource
    <2>2. QED
        BY <1>5, <2>1 DEF Moves, EnterSource, Goes
<1>6. CASE BaseStays /\ EnterSource
    <2>1. Settles(m)
        BY <1>0, <1>1, <1>6, OnlyEntering DEF EnterSource
    <2>2. QED
        BY <1>6, <2>1 DEF Moves, EnterSource, Goes
<1>7. QED
    BY <1>3, <1>4, <1>5, <1>6 DEF HandleSourceRangeDestKey

LEMMA BothRangesMove ==
    ASSUME Merges, WriterInv, job' = job, NEW m \in Nat, SettledTo(m), HandleBothRanges
    PROVE  Moves(m)
<1>0. MergeInputs
    BY MergesWhat
<1>1. AtRange(job.source, source) /\ AtRange(job.dest, dest)
    BY DEF HandleBothRanges
<1>2. /\ Front(job.source, source) = MinKey(SourceRange) /\ Front(job.dest, dest) = MinKey(DestRange)
    BY <1>0, <1>1, Fronts
<1> DEFINE s == SourceRange
           d == DestRange
           sourceFirst == MaxKey(s) < MinKey(d)
           destFirst == MaxKey(d) < MinKey(s) /\ ValidWriting
<1>3. CASE s = d /\ WriteRange(s) /\ SourceNextRange /\ DestNextRange /\ BaseStays /\ Goes
    <2>1. Settles(m)
        BY <1>0, <1>1, <1>3, SameRange
    <2>2. QED
        BY <1>3, <2>1 DEF Moves, Goes
<1>4. CASE s # d /\ EqualBounds(s, d) /\ SameBounds
    <2>1. CASE Overlapping(s) \in {s, d}
        <3>1. /\ base' = BaseFrom(s)
              /\ WriteRange(IF Overlapping(s) = s THEN d ELSE s)
              /\ SourceNextRange /\ DestNextRange /\ Goes
            BY <1>4, <2>1 DEF SameBounds
        <3>2. Settles(m)
            BY <1>0, <1>1, <1>4, <2>1, <3>1, NewerRange
        <3>3. QED
            BY <3>1, <3>2 DEF Moves, Goes
    <2>2. CASE Overlapping(s) \notin {s, d}
        <3>1. base' = BaseFrom(s) /\ EnterBoth
            BY <1>4, <2>2 DEF SameBounds
        <3>2. /\ IsMetaRange(job.source) /\ source.range \in DOMAIN job.source /\ s = job.source[source.range]
              /\ MinKey(s) > m
            BY <1>0, <1>1, SourceRangeIsAt
        <3>3. Kept(job.base, base, m) /\ IsMetaRange(job.base)
            BY <1>0 DEF SettledTo, MergeInputs
        <3>4. \A h \in Nat : h >= m /\ h + 1 >= MinKey(s) => Kept(job.base, base', h)
            BY <3>1, <3>2, <3>3, BaseTells
        <3>5. m + 1 = MinKey(s)
            BY <1>0, <1>2, <1>4, Fronts DEF EqualBounds
        <3>6. \A h \in Nat : h >= m => Kept(job.base, base', h)
            BY <3>4, <3>5
        <3>7. Settles(m)
            BY <1>0, <1>1, <3>1, <3>6, Entering DEF EnterBoth
        <3>8. QED
            BY <3>1, <3>7 DEF Moves, EnterBoth, Goes
    <2>3. QED
        BY <2>1, <2>2
<1>5. CASE sourceFirst /\ DropsOrTakes(s) /\ SourceNextRange /\ DestStays /\ Goes
    <2>1. Settles(m)
        BY <1>0, <1>1, <1>2, <1>5, SourceRangeAlone
    <2>2. QED
        BY <1>5, <2>1 DEF Moves, Goes
<1>6. CASE sourceFirst /\ Mixed(s) /\ base' = BaseFrom(s) /\ EnterBoth
    <2>1. Settles(m)
        BY <1>0, <1>1, <1>2, <1>6, SourceMixed DEF EnterBoth
    <2>2. QED
        BY <1>6, <2>1 DEF Moves, EnterBoth, Goes
<1>7. CASE destFirst /\ DropsOrTakes(d) /\ DestNextRange /\ SourceStays /\ Goes
    <2>1. Settles(m)
        BY <1>0, <1>1, <1>2, <1>7, DestRangeAlone
    <2>2. QED
        BY <1>7, <2>1 DEF Moves, Goes
<1>8. CASE destFirst /\ Mixed(d) /\ base' = BaseFrom(d) /\ EnterBoth
    <2>1. Settles(m)
        BY <1>0, <1>1, <1>2, <1>8, DestMixed DEF EnterBoth
    <2>2. QED
        BY <1>8, <2>1 DEF Moves, EnterBoth, Goes
<1>9. CASE BaseStays /\ EnterBoth
    <2>1. Settles(m)
        BY <1>0, <1>1, <1>9, OnlyEntering DEF EnterBoth
    <2>2. QED
        BY <1>9, <2>1 DEF Moves, EnterBoth, Goes
<1>10. QED
    BY <1>3, <1>4, <1>5, <1>6, <1>7, <1>8, <1>9 DEF HandleBothRanges

LEMMA AllSourceMoves ==
    ASSUME Merges, WriterInv, job' = job, NEW m \in Nat, SettledTo(m), HandleAllSource
    PROVE  Moves(m)
<1>0. MergeInputs
    BY MergesWhat
<1>1. Front(job.dest, dest) = LastKey + 1
    BY <1>0, Fronts DEF HandleAllSource
<1>2. ASSUME AtRange(job.source, source) PROVE MaxKey(SourceRange) < Front(job.dest, dest)
    BY <1>0, <1>1, <1>2, Fronts, CommittedAssumption
<1>3. ASSUME AtRecord(job.source, source)
      PROVE  SourceRecord.key < Front(job.dest, dest) /\ SourceRecord \in Records(job.source)
    <2>1. SourceRecord.key \in 1..LastKey
        BY <1>0, <1>3, SourceIsAt
    <2>2. QED
        BY <1>0, <1>1, <1>3, <2>1, Fronts, CommittedAssumption
<1>4. CASE AtRange(job.source, source) /\ DropsOrTakes(SourceRange) /\ SourceNextRange /\ DestStays /\ Goes
    <2>1. Settles(m)
        BY <1>0, <1>2, <1>4, SourceRangeAlone
    <2>2. QED
        BY <1>4, <2>1 DEF Moves, Goes
<1>5. CASE AtRange(job.source, source) /\ Mixed(SourceRange) /\ base' = BaseFrom(SourceRange) /\ EnterSource
    <2>1. Settles(m)
        BY <1>0, <1>2, <1>5, SourceMixed DEF EnterSource
    <2>2. QED
        BY <1>5, <2>1 DEF Moves, EnterSource, Goes
<1>6. CASE AtRecord(job.source, source) /\ RestRecord(SourceRecord, "source") /\ SourceNext /\ DestStays /\ Goes
    <2>1. \A old \in Records(job.base) : old.id = SourceRecord.id => old.key = SourceRecord.key
        BY <1>3, <1>6, MergesWhat
    <2>2. Settles(m)
        BY <1>0, <1>3, <1>6, <2>1, SourceAlone
    <2>3. QED
        BY <1>6, <2>2 DEF Moves, Goes
<1>7. CASE AtRecord(job.source, source) /\ RestConflict(SourceRecord)
    BY <1>3, <1>7, SourceClash DEF Moves
<1>8. QED
    BY <1>4, <1>5, <1>6, <1>7 DEF HandleAllSource

LEMMA AllDestMoves ==
    ASSUME Merges, WriterInv, job' = job, NEW m \in Nat, SettledTo(m), HandleAllDest
    PROVE  Moves(m)
<1>0. MergeInputs
    BY MergesWhat
<1>1. Front(job.source, source) = LastKey + 1
    BY <1>0, Fronts DEF HandleAllDest
<1>2. ASSUME AtRange(job.dest, dest) PROVE MaxKey(DestRange) < Front(job.source, source)
    BY <1>0, <1>1, <1>2, Fronts, CommittedAssumption
<1>3. ASSUME AtRecord(job.dest, dest)
      PROVE  DestRecord.key < Front(job.source, source) /\ DestRecord \in Records(job.dest)
    <2>1. DestRecord.key \in 1..LastKey
        BY <1>0, <1>3, DestIsAt
    <2>2. QED
        BY <1>0, <1>1, <1>3, <2>1, Fronts, CommittedAssumption
<1>4. CASE AtRange(job.dest, dest) /\ DropsOrTakes(DestRange) /\ DestNextRange /\ SourceStays /\ Goes
    <2>1. Settles(m)
        BY <1>0, <1>2, <1>4, DestRangeAlone
    <2>2. QED
        BY <1>4, <2>1 DEF Moves, Goes
<1>5. CASE AtRange(job.dest, dest) /\ Mixed(DestRange) /\ base' = BaseFrom(DestRange) /\ EnterDest
    <2>1. Settles(m)
        BY <1>0, <1>2, <1>5, DestMixed DEF EnterDest
    <2>2. QED
        BY <1>5, <2>1 DEF Moves, EnterDest, Goes
<1>6. CASE AtRecord(job.dest, dest) /\ RestRecord(DestRecord, "dest") /\ DestNext /\ SourceStays /\ Goes
    <2>1. \A old \in Records(job.base) : old.id = DestRecord.id => old.key = DestRecord.key
        BY <1>3, <1>6, MergesWhat
    <2>2. Settles(m)
        BY <1>0, <1>3, <1>6, <2>1, DestAlone
    <2>3. QED
        BY <1>6, <2>2 DEF Moves, Goes
<1>7. CASE AtRecord(job.dest, dest) /\ RestConflict(DestRecord)
    BY <1>3, <1>7, DestClash DEF Moves
<1>8. QED
    BY <1>4, <1>5, <1>6, <1>7 DEF HandleAllDest

\* The first steps of the iterators: they are before everything, or before
\* what is not left out.
LEMMA MergeStarts ==
    ASSUME Merges, job' = job, base = Start, source = Start,
           dest = [range |-> 0, rec |-> 0, prefix |-> 1],
           WrittenRecords = {}, lastKey = 0, unsorted = FALSE, MergeStart
    PROVE  Settles(0)
<1>0. MergeInputs
    BY MergesWhat
<1>1. IsMetaRange(job.base) /\ IsMetaRange(job.source) /\ IsMetaRange(job.dest) /\ ArePrefixes(job.prefixes)
    BY <1>0 DEF MergeInputs
<1>2. /\ PassedTo(job.source, source', 0)
      /\ LeavesOut(job.dest, job.prefixes, dest', 0)
      /\ base' = [range |-> 1, rec |-> 0]
    BY <1>1, FirstSteps DEF MergeStart, SourceNext, DestNext
<1> DEFINE fs == Front(job.source, source')
           fd == Front(job.dest, dest')
<1>3. fs \in 1..(LastKey + 1) /\ fd \in 1..(LastKey + 1)
    BY <1>1, <1>2, WhereItStands DEF PassedTo, LeavesOut, Skips
<1> HIDE DEF fs, fd
<1>4. PICK m \in Nat : m < fs /\ m < fd /\ (m + 1 = fs \/ m + 1 = fd)
    <2>1. CASE fs <= fd
        <3>1. fs - 1 \in Nat /\ fs - 1 < fs /\ fs - 1 < fd /\ fs - 1 + 1 = fs
            BY <1>3, <2>1, CommittedAssumption
        <3>2. QED
            BY <3>1
    <2>2. CASE fd <= fs
        <3>1. fd - 1 \in Nat /\ fd - 1 < fs /\ fd - 1 < fd /\ fd - 1 + 1 = fd
            BY <1>3, <2>2, CommittedAssumption
        <3>2. QED
            BY <3>1
    <2>3. QED
        BY <1>3, <2>1, <2>2, CommittedAssumption
<1>5. ASSUME NEW k \in 1..m
      PROVE  SourceHolds(k) = 0 /\ DestHolds(k) = 0
    <2>0. k > 0 /\ k < fs /\ k < fd /\ k \in Nat
        BY <1>3, <1>4, CommittedAssumption
    <2>1. k \in DOMAIN Contents(job.source) => k >= fs
        BY <1>2, <2>0 DEF PassedTo, fs
    <2>2. k \in DOMAIN Contents(job.dest) => k >= fd \/ Under(job.prefixes, k)
        BY <1>2, <2>0 DEF LeavesOut, fd
    <2>3. ~(k >= fs) /\ ~(k >= fd)
        BY <1>3, <2>0, CommittedAssumption
    <2>4. SourceHolds(k) = 0
        BY <1>1, <2>1, <2>3, HeldBy DEF SourceHolds
    <2>5. DestHolds(k) = 0
        BY <1>1, <2>2, <2>3, HeldBy DEF DestHolds
    <2>6. QED
        BY <2>4, <2>5
<1>6. \A k \in 1..m : ~Clashes(k) /\ Becomes(k) = 0
    BY <1>5, NothingThere
<1>7. PassedTo(job.source, source', m) /\ LeavesOut(job.dest, job.prefixes, dest', m)
    BY <1>2, HeldBy, <1>1, CommittedAssumption DEF PassedTo, LeavesOut
<1>8. Kept(job.base, base', m)
    <2>1. \A n \in DOMAIN job.base : n \in Nat /\ n >= 1 /\ \A i \in DOMAIN job.base[n] : i \in Nat
        BY <1>1, RangeTypes
    <2>2. base'.range = 1 /\ base'.rec = 0
        BY <1>2
    <2>3. Have(job.base, base') => base'.rec <= Len(job.base[base'.range])
        BY <1>1, <2>2, RangeTypes DEF Have
    <2>4. QED
        BY <1>2, <2>1, <2>2, <2>3 DEF Kept
<1>9. WrittenRecords' = {} /\ lastKey' = 0 /\ unsorted' = FALSE
    BY DEF MergeStart, WriteNothing, writerVars, WrittenRecords, WrittenRanges, AllOf, Closing
<1>10. ASSUME NEW k \in 1..m, NEW id \in Identities
       PROVE  ~Written(k, id)' /\ Becomes(k)' # id
    <2>1. Becomes(k)' = Becomes(k)
        <3>1. SourceHolds(k)' = SourceHolds(k) /\ DestHolds(k)' = DestHolds(k) /\ BaseHolds(k)' = BaseHolds(k)
            BY DEF SourceHolds, DestHolds, BaseHolds
        <3>2. Clashes(k)' <=> Clashes(k)
            BY <3>1 DEF Clashes
        <3>3. QED
            BY <3>1, <3>2 DEF Becomes
    <2>2. id # 0
        BY DEF Identities
    <2>3. QED
        BY <1>6, <1>9, <2>1, <2>2 DEF Written
<1>11. SettledTo(m)'
    BY <1>4, <1>7, <1>8, <1>9, <1>10 DEF SettledTo, fs, fd
<1>12. QED
    BY <1>4, <1>6, <1>11 DEF Settles

-----------------------------------------------------------------------------
(* What the promise says of it *)

LEMMA TellsTheSame ==
    ASSUME Merges, NEW k
    PROVE  /\ Promise!At(SourceSide, k) = SourceHolds(k)
           /\ Promise!At(DestSide, k) = DestHolds(k)
           /\ Promise!At(Contents(job.base), k) = BaseHolds(k)
           /\ Promise!Conflicting(k) <=> Clashes(k)
           /\ Promise!Outcome(k) = Becomes(k)
<1>1. SourceSide = Contents(job.source)
    BY DEF Merges, SourceSide
<1>2. Promise!At(SourceSide, k) = SourceHolds(k)
    BY <1>1 DEF SourceHolds, IdOf
<1>3. DestSide = [j \in {i \in DOMAIN Contents(job.dest) : ~UnderPrefix(i)} |-> Contents(job.dest)[j]]
    BY DEF Merges, DestSide
<1>4. UnderPrefix(k) <=> Under(job.prefixes, k)
    BY DEF UnderPrefix, Under
<1>5. Promise!At(DestSide, k) = DestHolds(k)
    BY <1>3, <1>4 DEF DestHolds, IdOf, Promise!At, Promise!Absent
<1>6. Promise!At(Contents(job.base), k) = BaseHolds(k)
    BY DEF BaseHolds, IdOf
<1>7. Promise!Conflicting(k) <=> Clashes(k)
    BY <1>2, <1>5, <1>6 DEF Clashes, Promise!Conflicting
<1>8. Promise!Outcome(k) = Becomes(k)
    BY <1>2, <1>5, <1>6, <1>7 DEF Becomes, Promise!Outcome
<1>9. QED
    BY <1>2, <1>5, <1>6, <1>7, <1>8

\* A meta-range has a record just as its contents say.
LEMMA HasRecord ==
    ASSUME NEW mr, IsMetaRange(mr), NEW k, NEW id \in Identities
    PROVE  [key |-> k, id |-> id] \in Records(mr) <=> IdOf(mr, k) = id
<1> DEFINE rec == [key |-> k, id |-> id]
<1>0. rec.key = k /\ rec.id = id /\ id # 0
    BY DEF Identities
<1> HIDE DEF rec
<1>1. ASSUME rec \in Records(mr) PROVE IdOf(mr, k) = id
    <2>1. PICK n \in DOMAIN mr : \E i \in DOMAIN mr[n] : rec = mr[n][i]
        BY <1>1, RecordsOf
    <2>2. PICK i \in DOMAIN mr[n] : rec = mr[n][i]
        BY <2>1
    <2>3. IdOf(mr, mr[n][i].key) = mr[n][i].id
        BY Holds
    <2>4. QED
        BY <1>0, <2>2, <2>3
<1>2. ASSUME IdOf(mr, k) = id PROVE rec \in Records(mr)
    <2>1. k \in DOMAIN Contents(mr)
        BY <1>0, <1>2, HeldBy
    <2>2. PICK n \in DOMAIN mr : \E i \in DOMAIN mr[n] : k = mr[n][i].key /\ IdOf(mr, k) = mr[n][i].id
        BY <2>1, HeldBy
    <2>3. PICK i \in DOMAIN mr[n] : k = mr[n][i].key /\ IdOf(mr, k) = mr[n][i].id
        BY <2>2
    <2>4. mr[n][i] = [key |-> mr[n][i].key, id |-> mr[n][i].id] /\ mr[n][i] \in Records(mr)
        BY RangeTypes, RecordsOf
    <2>5. rec = mr[n][i]
        BY <1>2, <2>3, <2>4 DEF rec
    <2>6. QED
        BY <2>4, <2>5
<1>3. QED
    BY <1>1, <1>2 DEF rec

-----------------------------------------------------------------------------
(* Where the iterators may be *)

DestStart == [range |-> 0, rec |-> 0, prefix |-> 1]

DestPlaced(mr, ps, it) == Skips(mr, ps, it) /\ (AtRecord(mr, it) => ~Under(ps, Front(mr, it)))

LEMMA SourceMoves ==
    ASSUME NEW mr, IsMetaRange(mr), NEW it, it = Start \/ Stands(mr, it)
    PROVE  Stands(mr, Next1(mr, it)) /\ Stands(mr, NextRange(mr, it))
<1>1. CASE it = Start
    <2>1. it.range = 0 /\ it.rec = 0 /\ {"range", "rec"} \subseteq DOMAIN it
        BY <1>1 DEF Start
    <2>2. QED
        BY <2>1, FirstMove
<1>2. CASE Stands(mr, it)
    <2>0. Len(mr) \in Nat
        BY DEF IsMetaRange
    <2>1. {"range", "rec"} \subseteq DOMAIN it /\ it.range \in 0..(Len(mr) + 1)
        BY <1>2, <2>0 DEF Stands
    <2>2. Stands(mr, NextRange(mr, it))
        BY <2>1, NextRangeFields
    <2>3. CASE ~Have(mr, it)
        BY <2>2, <2>3 DEF Next1
    <2>4. CASE AtRange(mr, it)
        <3>1. PassedTo(mr, Next1(mr, it), Front(mr, it) - 1)
            BY <1>2, <2>4, IntoRange
        <3>2. QED
            BY <2>2, <3>1 DEF PassedTo
    <2>5. CASE AtRecord(mr, it)
        BY <1>2, <2>2, <2>5, OverRecord
    <2>6. QED
        BY <1>2, <2>3, <2>4, <2>5, WhereItStands
<1>3. QED
    BY <1>1, <1>2

LEMMA DestMoves ==
    ASSUME NEW mr, IsMetaRange(mr), NEW ps, ArePrefixes(ps), NEW it
    PROVE  /\ it = DestStart => DestPlaced(mr, ps, SkipNext(mr, ps, it))
           /\ DestPlaced(mr, ps, it) => DestPlaced(mr, ps, SkipNext(mr, ps, it))
           /\ DestPlaced(mr, ps, it) /\ (AtRecord(mr, it) => ps = <<>>) =>
                DestPlaced(mr, ps, SkipNextRange(mr, ps, it))
<1>1. it = DestStart => DestPlaced(mr, ps, SkipNext(mr, ps, it))
    BY FirstSteps DEF DestStart, DestPlaced, LeavesOut
<1>2. ASSUME DestPlaced(mr, ps, it)
      PROVE  /\ DestPlaced(mr, ps, SkipNext(mr, ps, it))
             /\ (AtRecord(mr, it) => ps = <<>>) => DestPlaced(mr, ps, SkipNextRange(mr, ps, it))
    <2>1. Stands(mr, it) /\ Skips(mr, ps, it)
        BY <1>2 DEF DestPlaced, Skips
    <2>2. Front(mr, it) \in 1..(LastKey + 1)
        BY <2>1, WhereItStands
    <2>3. CASE Have(mr, it)
        <3> DEFINE m == Front(mr, it) - 1
        <3>1. m \in Nat /\ m < Front(mr, it) /\ \A k \in 1..LastKey : k > m => k >= Front(mr, it)
            BY <2>2, CommittedAssumption
        <3> HIDE DEF m
        <3>2. \A k \in DOMAIN Contents(mr) : k > m => k >= Front(mr, it)
            BY <3>1, HeldBy
        <3>3. LeavesOut(mr, ps, it, m)
            BY <1>2, <3>2 DEF LeavesOut, DestPlaced
        <3>4. /\ AtRange(mr, it) => /\ WalkedOut(mr, ps, SkipNext(mr, ps, it), m, {})
                                    /\ WalkedOut(mr, ps, SkipNextRange(mr, ps, it), m, KeysOf(mr[it.range]))
              /\ AtRecord(mr, it) => WalkedOut(mr, ps, SkipNext(mr, ps, it), m, {Front(mr, it)})
            BY <3>1, <3>3, DestWalks
        <3>5. DestPlaced(mr, ps, SkipNext(mr, ps, it))
            BY <2>1, <2>3, <3>4, WhereItStands DEF WalkedOut, DestPlaced
        <3>6. AtRange(mr, it) => DestPlaced(mr, ps, SkipNextRange(mr, ps, it))
            BY <3>4 DEF WalkedOut, DestPlaced
        <3>7. ASSUME AtRecord(mr, it), ps = <<>>
              PROVE  DestPlaced(mr, ps, SkipNextRange(mr, ps, it))
            <4> DEFINE x == NextRange(mr, it)
            <4>1. PassedTo(mr, x, MaxKey(mr[it.range])) /\ MaxKey(mr[it.range]) < Front(mr, x) /\ x.rec = 0
                BY <2>1, <2>3, OverRange
            <4>2. Stands(mr, x) /\ ~AtRecord(mr, x)
                BY <4>1 DEF PassedTo, AtRecord
            <4>3. x = [range |-> x.range, rec |-> x.rec, prefix |-> it.prefix]
                <5>1. it = [range |-> it.range, rec |-> it.rec, prefix |-> it.prefix]
                    BY <2>1 DEF Skips
                <5> DEFINE y == IF it.range > Len(mr) THEN it.range ELSE it.range + 1
                <5>2. x = [range |-> y, rec |-> 0, prefix |-> it.prefix]
                    BY <5>1, SkipFields
                <5> HIDE DEF x, y
                <5>3. QED
                    BY <5>2
            <4>4. it.range \in DOMAIN mr
                BY <2>3 DEF Have
            <4>5. 1 \in DOMAIN mr[it.range]
                BY <4>4, RangeTypes
            <4>6. MaxKey(mr[it.range]) \in Nat
                BY <4>4, <4>5, WithinRange, CommittedAssumption
            <4>7. it.prefix = 1 /\ it.prefix \in 1..(Len(ps) + 1)
                BY <2>1, <3>7 DEF Skips
            <4> HIDE DEF x
            <4>8. Skips(mr, ps, x)
                BY <4>2, <4>3, <4>7, StillSkips
            <4>9. LeavesOut(mr, ps, SkipNextRange(mr, ps, it), MaxKey(mr[it.range]))
                BY <4>1, <4>2, <4>6, <4>8, SkipNextRangeOn DEF x
            <4>10. QED
                BY <4>9 DEF LeavesOut, DestPlaced
        <3>8. QED
            BY <2>1, <2>3, <3>5, <3>6, <3>7, WhereItStands
    <2>4. CASE ~Have(mr, it)
        <3> DEFINE x == NextRange(mr, it)
        <3>1. it = [range |-> it.range, rec |-> it.rec, prefix |-> it.prefix]
            BY <2>1 DEF Skips
        <3>2. it.range = Len(mr) + 1 /\ it.rec = 0 /\ Len(mr) \in Nat
            BY <2>1, <2>4, WhereItStands
        <3>3. x = [range |-> IF it.range > Len(mr) THEN it.range ELSE it.range + 1, rec |-> 0, prefix |-> it.prefix]
            BY <3>1, SkipFields
        <3>4. x = it
            BY <3>1, <3>2, <3>3
        <3>5. Next1(mr, it) = it
            BY <2>4, <3>4 DEF Next1
        <3>6. Updated(mr, ps, it) = it
            BY <2>4 DEF Updated
        <3>7. SkipNext(mr, ps, it) = it
            BY <2>4, <3>5, <3>6 DEF SkipNext, SkipRecords, AtRange, AtRecord
        <3>8. SkipNextRange(mr, ps, it) = it
            BY <2>4, <3>4, <3>6 DEF SkipNextRange, SkipRanges
        <3>9. QED
            BY <1>2, <3>7, <3>8
    <2>5. QED
        BY <2>3, <2>4
<1>3. QED
    BY <1>1, <1>2

\* Where the base's iterator is moved to.
LEMMA BaseMoves ==
    ASSUME IsMetaRange(job.base), base.range \in 0..(Len(job.base) + 1)
    PROVE  /\ \A key : BaseGE(key).range \in 0..(Len(job.base) + 1)
           /\ \A r : BaseFrom(r).range \in 0..(Len(job.base) + 1)
<1> DEFINE mr == job.base
<1>1. Len(mr) \in Nat /\ DOMAIN mr = 1..Len(mr)
    BY DEF IsMetaRange
<1>2. End.range = Len(mr) + 1
    BY DEF End
<1>3. ASSUME NEW key PROVE BaseGE(key).range \in 0..(Len(mr) + 1)
    <2> DEFINE found == {it \in BaseAhead : Record(mr, it).key >= key}
               Numbers == {Record(mr, x).key : x \in found}
    <2>1. CASE found = {}
        BY <1>1, <1>2, <2>1 DEF BaseGE
    <2>2. CASE found # {}
        <3>1. ASSUME NEW x \in found
              PROVE  Record(mr, x).key \in Nat /\ x.range \in DOMAIN mr
            <4>1. PICK n \in DOMAIN mr : \E i \in DOMAIN mr[n] : x = [range |-> n, rec |-> i]
                BY DEF BaseAhead
            <4>2. PICK i \in DOMAIN mr[n] : x = [range |-> n, rec |-> i]
                BY <4>1
            <4>3. Record(mr, x) = mr[n][i] /\ x.range = n
                BY <4>2 DEF Record
            <4>4. mr[n][i].key \in 1..LastKey
                BY RangeTypes
            <4>5. QED
                BY <4>3, <4>4, CommittedAssumption
        <3>2. BaseGE(key) = CHOOSE x \in found : \A y \in found : Record(mr, x).key <= Record(mr, y).key
            BY <2>2 DEF BaseGE
        <3> HIDE DEF found
        <3>3. Numbers # {} /\ Numbers \subseteq Nat
            BY <2>2, <3>1
        <3>4. PICK least \in Numbers : \A y \in Numbers : least <= y
            <4> HIDE DEF Numbers
            <4>1. QED
                BY <3>3, LeastNumber
        <3>5. \E x \in found : \A y \in found : Record(mr, x).key <= Record(mr, y).key
            BY <3>4
        <3>6. BaseGE(key) \in found
            BY <3>2, <3>5
        <3>7. QED
            BY <1>1, <3>1, <3>6
    <2>3. QED
        BY <2>1, <2>2
<1>4. ASSUME NEW r PROVE BaseFrom(r).range \in 0..(Len(mr) + 1)
    <2> DEFINE found == {n \in DOMAIN mr : n > base.range /\ MaxKey(mr[n]) >= MinKey(r)}
    <2>1. \/ BaseFrom(r) = base \/ BaseFrom(r) = End
          \/ found # {} /\ BaseFrom(r) = [range |-> Seqs!Min(found), rec |-> 0]
        BY DEF BaseFrom
    <2>2. found \subseteq DOMAIN mr /\ found \subseteq Nat
        BY <1>1
    <2> HIDE DEF found
    <2>3. found # {} => Seqs!Min(found) \in DOMAIN mr
        BY <2>2, MinOfNumbers
    <2>4. QED
        BY <1>1, <1>2, <2>1, <2>3
<1>5. QED
    BY <1>3, <1>4

Iterators ==
    /\ base.range \in 0..(Len(job.base) + 1)
    /\ source = Start \/ Stands(job.source, source)
    /\ dest = DestStart \/ DestPlaced(job.dest, job.prefixes, dest)

OfSides == Records(job.source) \cup Records(job.dest)

\* What a step of a merge writes, and where it moves.
WritesOne ==
    \/ WriteNothing
    \/ AtRecord(job.source, source) /\ WriteRecord(SourceRecord)
    \/ AtRecord(job.dest, dest) /\ WriteRecord(DestRecord)
    \/ AtRange(job.source, source) /\ WriteRange(SourceRange)
    \/ AtRange(job.dest, dest) /\ WriteRange(DestRange)

GoesOn ==
    /\ SourceStays \/ SourceNext \/ SourceNextRange
    /\ DestStays \/ DestNext \/ (AtRange(job.dest, dest) /\ DestNextRange)
    /\ BaseStays \/ (\E key : base' = BaseGE(key)) \/ (\E r : base' = BaseFrom(r))

Small == WritesOne /\ GoesOn /\ job' = job /\ status' \in {status, "conflict"}

LEMMA OneWritten ==
    ASSUME IsRequest(job), WriterInv, Iterators, WritesOne
    PROVE  WriterInv' /\ WrittenRecords' \subseteq WrittenRecords \cup OfSides
<1>0. IsMetaRange(job.source) /\ IsMetaRange(job.dest)
    BY DEF IsRequest
<1>a. ASSUME NEW rec \in RecordSet \cap OfSides, WriteRecord(rec)
      PROVE  WriterInv' /\ WrittenRecords' \subseteq WrittenRecords \cup OfSides
    <2>1. rec.key <= lastKey => WrittenRecords' = WrittenRecords
        BY <1>a DEF WriteRecord, WrittenRecords, WrittenRanges, AllOf, Closing
    <2>2. rec.key \in Nat /\ lastKey \in Nat
        BY CommittedAssumption DEF RecordSet, WriterInv
    <2>3. WriterInv' /\ (rec.key > lastKey => WrittenRecords' = WrittenRecords \cup {rec})
        BY <1>a, RecordWritten
    <2>4. QED
        BY <2>1, <2>2, <2>3
<1>b. ASSUME NEW r, IsRange(r), Seqs!ToSet(r) \subseteq OfSides, WriteRange(r)
      PROVE  WriterInv' /\ WrittenRecords' \subseteq WrittenRecords \cup OfSides
    <2>1. MinKey(r) <= lastKey => WrittenRecords' = WrittenRecords
        BY <1>b DEF WriteRange, WrittenRecords, WrittenRanges, AllOf, Closing
    <2>2. MinKey(r) \in Nat /\ lastKey \in Nat
        BY <1>b, RangeHas, CommittedAssumption DEF IsRange, WriterInv
    <2>3. WriterInv' /\ (MinKey(r) > lastKey => WrittenRecords' = WrittenRecords \cup Seqs!ToSet(r))
        BY <1>b, RangeWritten
    <2>4. QED
        BY <1>b, <2>1, <2>2, <2>3
<1>1. CASE WriteNothing
    <2>1. lastKey' = lastKey /\ open' = open /\ closed' = closed /\ unsorted' = unsorted
        BY <1>1 DEF WriteNothing, writerVars
    <2>2. WriterInv'
        BY <2>1 DEF WriterInv
    <2>3. WrittenRecords' = WrittenRecords
        BY <2>1 DEF WrittenRecords, WrittenRanges, AllOf, Closing
    <2>4. QED
        BY <2>2, <2>3
<1>2. CASE AtRecord(job.source, source) /\ WriteRecord(SourceRecord)
    <2>1. Stands(job.source, source)
        BY <1>0, <1>2 DEF Iterators, Start, AtRecord
    <2>2. source.range \in DOMAIN job.source /\ source.rec \in DOMAIN job.source[source.range]
        BY <1>0, <1>2, <2>1, WhereItStands DEF Have
    <2>3. SourceRecord \in RecordSet \cap OfSides
        BY <1>0, <2>2, RangesAre, RecordsOf DEF SourceRecord, Record, OfSides
    <2>4. QED
        BY <1>a, <1>2, <2>3
<1>3. CASE AtRecord(job.dest, dest) /\ WriteRecord(DestRecord)
    <2>1. Stands(job.dest, dest)
        BY <1>0, <1>3 DEF Iterators, DestStart, AtRecord, DestPlaced, Skips
    <2>2. dest.range \in DOMAIN job.dest /\ dest.rec \in DOMAIN job.dest[dest.range]
        BY <1>0, <1>3, <2>1, WhereItStands DEF Have
    <2>3. DestRecord \in RecordSet \cap OfSides
        BY <1>0, <2>2, RangesAre, RecordsOf DEF DestRecord, Record, OfSides
    <2>4. QED
        BY <1>a, <1>3, <2>3
<1>4. CASE AtRange(job.source, source) /\ WriteRange(SourceRange)
    <2>1. source.range \in DOMAIN job.source /\ SourceRange = job.source[source.range]
        BY <1>4 DEF AtRange, Have, SourceRange, RangeAt
    <2>2. IsRange(SourceRange)
        BY <1>0, <2>1, RangesAre
    <2>3. Seqs!ToSet(SourceRange) \subseteq OfSides
        BY <2>1 DEF OfSides, Records
    <2>4. QED
        BY <1>b, <1>4, <2>2, <2>3
<1>5. CASE AtRange(job.dest, dest) /\ WriteRange(DestRange)
    <2>1. dest.range \in DOMAIN job.dest /\ DestRange = job.dest[dest.range]
        BY <1>5 DEF AtRange, Have, DestRange, RangeAt
    <2>2. IsRange(DestRange)
        BY <1>0, <2>1, RangesAre
    <2>3. Seqs!ToSet(DestRange) \subseteq OfSides
        BY <2>1 DEF OfSides, Records
    <2>4. QED
        BY <1>b, <1>5, <2>2, <2>3
<1>6. QED
    BY <1>1, <1>2, <1>3, <1>4, <1>5 DEF WritesOne

LEMMA OneGone ==
    ASSUME IsRequest(job), Iterators, GoesOn, job' = job
    PROVE  Iterators'
<1>0. IsMetaRange(job.base) /\ IsMetaRange(job.source) /\ IsMetaRange(job.dest) /\ ArePrefixes(job.prefixes)
    BY DEF IsRequest, ArePrefixes
<1>1. base'.range \in 0..(Len(job.base) + 1)
    BY <1>0, BaseMoves DEF Iterators, GoesOn, BaseStays
<1>2. source' = Start \/ Stands(job.source, source')
    BY <1>0, SourceMoves DEF Iterators, GoesOn, SourceStays, SourceNext, SourceNextRange
<1>3. dest' = DestStart \/ DestPlaced(job.dest, job.prefixes, dest')
    <2>1. CASE DestStays
        BY <2>1 DEF DestStays, Iterators
    <2>2. CASE DestNext
        BY <1>0, <2>2, DestMoves DEF DestNext, Iterators
    <2>3. CASE AtRange(job.dest, dest) /\ DestNextRange
        <3>1. dest # DestStart /\ ~AtRecord(job.dest, dest)
            BY <1>0, <2>3 DEF DestStart, AtRange, AtRecord, Have, IsMetaRange
        <3>2. DestPlaced(job.dest, job.prefixes, dest)
            BY <3>1 DEF Iterators
        <3>3. QED
            BY <1>0, <2>3, <3>1, <3>2, DestMoves DEF DestNextRange
    <2>4. QED
        BY <2>1, <2>2, <2>3 DEF GoesOn
<1>4. QED
    BY <1>1, <1>2, <1>3 DEF Iterators

-----------------------------------------------------------------------------
(* The actions of a merge, whatever the identities *)

LEMMA SourceBeforeIsSmall ==
    ASSUME AtRecord(job.source, source), SourceBefore
    PROVE  Small
BY DEF SourceBefore, OneSided, OneSidedConflict, Small, WritesOne, GoesOn, Goes, Conflict, BaseStays

LEMMA DestBeforeIsSmall ==
    ASSUME AtRecord(job.dest, dest), DestBefore
    PROVE  Small
BY DEF DestBefore, OneSided, OneSidedConflict, Small, WritesOne, GoesOn, Goes, Conflict, BaseStays

LEMMA SourceRangeIsSmall ==
    ASSUME AtRange(job.source, source),
           \/ DropsOrTakes(SourceRange) /\ SourceNextRange /\ DestStays /\ Goes
           \/ base' = BaseFrom(SourceRange) /\ (EnterSource \/ EnterBoth)
    PROVE  Small
BY DEF DropsOrTakes, EnterSource, EnterBoth, Small, WritesOne, GoesOn, Goes

LEMMA DestRangeIsSmall ==
    ASSUME AtRange(job.dest, dest),
           \/ DropsOrTakes(DestRange) /\ DestNextRange /\ SourceStays /\ Goes
           \/ base' = BaseFrom(DestRange) /\ (EnterDest \/ EnterBoth)
    PROVE  Small
BY DEF DropsOrTakes, EnterDest, EnterBoth, Small, WritesOne, GoesOn, Goes

LEMMA EnteringIsSmall ==
    ASSUME BaseStays, EnterSource \/ EnterDest \/ EnterBoth
    PROVE  Small
BY DEF EnterSource, EnterDest, EnterBoth, Small, WritesOne, GoesOn, Goes

LEMMA HandlingIsSmall ==
    ASSUME \/ HandleBothRanges \/ HandleDestRangeSourceKey \/ HandleSourceRangeDestKey \/ HandleBothKeys
           \/ HandleAllSource \/ HandleAllDest
    PROVE  Small
<1>1. CASE HandleBothRanges
    <2> DEFINE s == SourceRange
               d == DestRange
    <2>0. AtRange(job.source, source) /\ AtRange(job.dest, dest)
        BY <1>1 DEF HandleBothRanges
    <2>1. CASE WriteRange(s) /\ SourceNextRange /\ DestNextRange /\ BaseStays /\ Goes
        BY <2>0, <2>1 DEF Small, WritesOne, GoesOn, Goes
    <2>2. CASE SameBounds
        <3>0. base' = BaseFrom(s)
            BY <2>2 DEF SameBounds
        <3>1. CASE EnterBoth
            BY <2>0, <3>0, <3>1, SourceRangeIsSmall
        <3>2. CASE (WriteRange(s) \/ WriteRange(d)) /\ SourceNextRange /\ DestNextRange /\ Goes
            BY <2>0, <3>0, <3>2 DEF Small, WritesOne, GoesOn, Goes
        <3>3. QED
            BY <2>2, <3>1, <3>2 DEF SameBounds
    <2>3. CASE DropsOrTakes(s) /\ SourceNextRange /\ DestStays /\ Goes
        BY <2>0, <2>3, SourceRangeIsSmall
    <2>4. CASE base' = BaseFrom(s) /\ EnterBoth
        BY <2>0, <2>4, SourceRangeIsSmall
    <2>5. CASE DropsOrTakes(d) /\ DestNextRange /\ SourceStays /\ Goes
        BY <2>0, <2>5, DestRangeIsSmall
    <2>6. CASE base' = BaseFrom(d) /\ EnterBoth
        BY <2>0, <2>6, DestRangeIsSmall
    <2>7. CASE BaseStays /\ EnterBoth
        BY <2>7, EnteringIsSmall
    <2>8. QED
        BY <1>1, <2>1, <2>2, <2>3, <2>4, <2>5, <2>6, <2>7 DEF HandleBothRanges
<1>2. CASE HandleDestRangeSourceKey
    BY <1>2, SourceBeforeIsSmall, DestRangeIsSmall, EnteringIsSmall DEF HandleDestRangeSourceKey
<1>3. CASE HandleSourceRangeDestKey
    BY <1>3, DestBeforeIsSmall, SourceRangeIsSmall, EnteringIsSmall DEF HandleSourceRangeDestKey
<1>4. CASE HandleBothKeys
    <2>0. AtRecord(job.source, source) /\ AtRecord(job.dest, dest)
        BY <1>4 DEF HandleBothKeys
    <2>1. CASE SameKey
        BY <2>0, <2>1 DEF SameKey, Small, WritesOne, GoesOn, Goes, Conflict
    <2>2. QED
        BY <1>4, <2>0, <2>1, SourceBeforeIsSmall, DestBeforeIsSmall DEF HandleBothKeys
<1>5. CASE HandleAllSource
    <2>1. CASE AtRecord(job.source, source) /\ RestRecord(SourceRecord, "source") /\ SourceNext /\ DestStays /\ Goes
        BY <2>1 DEF RestRecord, Small, WritesOne, GoesOn, Goes
    <2>2. CASE RestConflict(SourceRecord)
        BY <2>2 DEF RestConflict, Small, WritesOne, GoesOn, Conflict
    <2>3. QED
        BY <1>5, <2>1, <2>2, SourceRangeIsSmall DEF HandleAllSource
<1>6. CASE HandleAllDest
    <2>1. CASE AtRecord(job.dest, dest) /\ RestRecord(DestRecord, "dest") /\ DestNext /\ SourceStays /\ Goes
        BY <2>1 DEF RestRecord, Small, WritesOne, GoesOn, Goes
    <2>2. CASE RestConflict(DestRecord)
        BY <2>2 DEF RestConflict, Small, WritesOne, GoesOn, Conflict
    <2>3. QED
        BY <1>6, <2>1, <2>2, DestRangeIsSmall DEF HandleAllDest
<1>7. QED
    BY <1>1, <1>2, <1>3, <1>4, <1>5, <1>6

Untouched ==
    /\ base = Start
    /\ lastKey = 0 /\ open = <<>> /\ closed = {} /\ unsorted = FALSE

IsMerge == job.op \in {"merge", "import"}

MergeInv ==
    /\ status \in {"begin", "merging", "done", "taken", "unchanged", "conflict"}
    /\ Iterators /\ WriterInv /\ WrittenRecords \subseteq OfSides
    /\ status \in {"begin", "taken", "unchanged"} => Untouched
    /\ status = "begin" => source = Start /\ dest = DestStart
    /\ change = 0 /\ summary = NoSummary /\ inside = "none"

LEMMA NothingWritten ==
    ASSUME lastKey = 0, open = <<>>, closed = {}, unsorted = FALSE
    PROVE  WriterInv /\ WrittenRecords = {} /\ WrittenRanges = {}
<1>1. AreRecords(<<>>)
    BY DEF AreRecords
<1>1a. IsFiniteSet(closed)
    BY FS_EmptySet
<1>1b. lastKey \in 0..LastKey
    BY CommittedAssumption
<1>2. WriterInv
    BY <1>1, <1>1a, <1>1b DEF WriterInv
<1>3. WrittenRanges = {}
    BY DEF WrittenRanges, Closing
<1>4. WrittenRecords = {}
    BY <1>3 DEF WrittenRecords, AllOf
<1>5. QED
    BY <1>2, <1>3, <1>4

\* The only steps there are.
LEMMA MergeStepsAre ==
    ASSUME IsMerge, MergeInv, [Next]_vars
    PROVE  \/ UNCHANGED vars
           \/ /\ UNCHANGED <<change, summary, diffVars>>
              /\ \/ NothingToMerge \/ TakeSource \/ StartMerge
                 \/ HandleBothRanges \/ HandleDestRangeSourceKey \/ HandleSourceRangeDestKey \/ HandleBothKeys
                 \/ HandleAllSource \/ HandleAllDest
                 \/ MergeEnd
<1>1. status \in {"begin", "merging", "done", "taken", "unchanged", "conflict"}
      /\ job.op \notin {"commit", "diff", "compare"}
    BY DEF MergeInv, IsMerge
<1>2. ~Commit
    BY <1>1 DEF Commit, CommitStart, ApplyBaseRange, ApplyNextKey, ApplyAllBase, ApplyAllChanges, CommitEnd, Committing
<1>3. ~DiffNext
    BY <1>1 DEF DiffNext, CallNextFresh, CallNext, CallNextInside, CallNextRange, CallSeekGE, Turn, Reading
<1>4. Answered => UNCHANGED vars
    BY DEF Answered
<1>5. MergeOrImport =>
              /\ UNCHANGED <<change, summary>>
              /\ \/ NothingToMerge \/ TakeSource \/ StartMerge
                 \/ HandleBothRanges \/ HandleDestRangeSourceKey \/ HandleSourceRangeDestKey \/ HandleBothKeys
                 \/ HandleAllSource \/ HandleAllDest
                 \/ MergeEnd
    BY DEF MergeOrImport, MergeNext
<1>6. QED
    BY <1>2, <1>3, <1>4, <1>5 DEF Next

LEMMA MergeStep ==
    ASSUME IsRequest(job), IsMerge, MergeInv, [Next]_vars
    PROVE  job' = job /\ MergeInv'
<1>1. CASE UNCHANGED vars
    <2>1. /\ job' = job /\ base' = base /\ source' = source /\ dest' = dest /\ status' = status
          /\ lastKey' = lastKey /\ open' = open /\ closed' = closed /\ unsorted' = unsorted
          /\ change' = change /\ summary' = summary /\ inside' = inside
        BY <1>1 DEF vars, mergeVars, writerVars, diffVars
    <2>2. Iterators' /\ WriterInv' /\ WrittenRecords' = WrittenRecords /\ OfSides' = OfSides
        BY <2>1 DEF MergeInv, Iterators, WriterInv, WrittenRecords, WrittenRanges, AllOf, Closing, OfSides
    <2>3. Untouched => Untouched'
        BY <2>1 DEF Untouched
    <2>4. QED
        BY <2>1, <2>2, <2>3 DEF MergeInv
<1>2. ASSUME UNCHANGED <<job, base, source, dest, writerVars>>, UNCHANGED <<change, summary, diffVars>>,
             status' \in {"done", "taken", "unchanged", "conflict"},
             status' \in {"taken", "unchanged"} => Untouched
      PROVE  job' = job /\ MergeInv'
    <2>1. /\ job' = job /\ base' = base /\ source' = source /\ dest' = dest
          /\ lastKey' = lastKey /\ open' = open /\ closed' = closed /\ unsorted' = unsorted
          /\ change' = change /\ summary' = summary /\ inside' = inside
        BY <1>2 DEF writerVars, diffVars
    <2>2. Iterators' /\ WriterInv' /\ WrittenRecords' = WrittenRecords /\ OfSides' = OfSides
        BY <2>1 DEF MergeInv, Iterators, WriterInv, WrittenRecords, WrittenRanges, AllOf, Closing, OfSides
    <2>3. Untouched => Untouched'
        BY <2>1 DEF Untouched
    <2>4. QED
        BY <1>2, <2>1, <2>2, <2>3 DEF MergeInv
<1>3. ASSUME Small, UNCHANGED <<change, summary, diffVars>>, status = "merging"
      PROVE  job' = job /\ MergeInv'
    <2>1. job' = job /\ WritesOne /\ GoesOn /\ status' \in {"merging", "conflict"}
        BY <1>3 DEF Small
    <2>2. WriterInv' /\ WrittenRecords' \subseteq WrittenRecords \cup OfSides
        BY <2>1, OneWritten DEF MergeInv
    <2>3. Iterators'
        BY <2>1, OneGone DEF MergeInv
    <2>4. OfSides' = OfSides
        BY <2>1 DEF OfSides
    <2>5. change' = change /\ summary' = summary /\ inside' = inside
        BY <1>3 DEF diffVars
    <2>6. QED
        BY <2>1, <2>2, <2>3, <2>4, <2>5 DEF MergeInv
<1>4. CASE /\ UNCHANGED <<change, summary, diffVars>>
           /\ NothingToMerge \/ TakeSource \/ MergeEnd
    BY <1>2, <1>4 DEF NothingToMerge, TakeSource, MergeEnd, MergeInv
<1>5. CASE UNCHANGED <<change, summary, diffVars>> /\ StartMerge
    <2>1. /\ job' = job /\ status = "begin" /\ status' = "merging" /\ base' = Next1(job.base, base)
          /\ SourceNext /\ DestNext /\ WriteNothing
        BY <1>5 DEF StartMerge, MergeStart
    <2>2. base = Start
        BY <2>1 DEF MergeInv, Untouched
    <2>3. Stands(job.base, base') /\ IsMetaRange(job.base)
        BY <2>1, <2>2, SourceMoves DEF IsRequest
    <2>4. base'.range \in 0..(Len(job.base) + 1)
        BY <2>3 DEF Stands, IsMetaRange
    <2>5. WriterInv' /\ WrittenRecords' \subseteq WrittenRecords \cup OfSides
        BY <2>1, OneWritten DEF MergeInv, WritesOne
    <2>6. source' = Start \/ Stands(job.source, source')
        BY <2>1, SourceMoves DEF MergeInv, Iterators, IsRequest, SourceNext
    <2>7. IsMetaRange(job.dest) /\ ArePrefixes(job.prefixes)
        BY DEF IsRequest, ArePrefixes
    <2>8. dest' = DestStart \/ DestPlaced(job.dest, job.prefixes, dest')
        BY <2>1, <2>7, DestMoves DEF MergeInv, DestNext
    <2>9. Iterators'
        BY <2>1, <2>4, <2>6, <2>8 DEF Iterators
    <2>10. change' = change /\ summary' = summary /\ inside' = inside
        BY <1>5 DEF diffVars
    <2>11. OfSides' = OfSides
        BY <2>1 DEF OfSides
    <2>12. QED
        BY <2>1, <2>5, <2>9, <2>10, <2>11 DEF MergeInv
<1>6. CASE /\ UNCHANGED <<change, summary, diffVars>>
           /\ \/ HandleBothRanges \/ HandleDestRangeSourceKey \/ HandleSourceRangeDestKey \/ HandleBothKeys
              \/ HandleAllSource \/ HandleAllDest
    <2>1. status = "merging"
        BY <1>6 DEF HandleBothRanges, HandleDestRangeSourceKey, HandleSourceRangeDestKey, HandleBothKeys,
                    HandleAllSource, HandleAllDest, Merging
    <2>2. Small
        BY <1>6, HandlingIsSmall
    <2>3. QED
        BY <1>3, <1>6, <2>1, <2>2
<1>7. QED
    BY <1>1, <1>4, <1>5, <1>6, MergeStepsAre

-----------------------------------------------------------------------------
(* What a merge has, by the promise's words *)

Merged == [k \in DOMAIN NewContents \ Replaced |-> NewContents[k]]

\* What is settled, and what of it is merged.
Tells(m) == Settled = m /\ Merged = Promise!Result(m)

LEMMA NewHas ==
    ASSUME WriterInv, status # "taken", NEW k
    PROVE  /\ IsMetaRange(NewMetaRange) /\ NewContents = Contents(NewMetaRange)
           /\ k \in DOMAIN NewContents => NewContents[k] \in Identities /\ k \in 1..LastKey
           /\ \A id \in Identities : Written(k, id) <=> k \in DOMAIN NewContents /\ NewContents[k] = id
<1>1. IsMetaRange(NewMetaRange) /\ Records(NewMetaRange) = WrittenRecords
    BY NewOne
<1>2. NewContents = Contents(NewMetaRange)
    BY DEF NewContents
<1> DEFINE mr == NewMetaRange
<1>3. k \in DOMAIN Contents(mr) => IdOf(mr, k) = Contents(mr)[k]
    BY DEF IdOf, Promise!At
<1>3a. k \in DOMAIN Contents(mr) <=> IdOf(mr, k) # 0
    BY <1>1, HeldBy
<1>3b. k \in DOMAIN Contents(mr) => k \in 1..LastKey /\ IdOf(mr, k) \in Nat
    BY <1>1, HeldBy
<1>4. k \in DOMAIN NewContents => NewContents[k] \in Identities /\ k \in 1..LastKey
    BY <1>2, <1>3, <1>3a, <1>3b DEF Identities
<1>5. \A id \in Identities : Written(k, id) <=> IdOf(mr, k) = id
    BY <1>1, HasRecord DEF Written
<1>6. \A id \in Identities : id # 0
    BY DEF Identities
<1> HIDE DEF mr
<1>7. \A id \in Identities : Written(k, id) <=> k \in DOMAIN Contents(mr) /\ Contents(mr)[k] = id
    BY <1>3, <1>3a, <1>5, <1>6
<1>8. QED
    BY <1>1, <1>2, <1>4, <1>7 DEF mr

LEMMA LostMeans ==
    ASSUME IsRequest(job), IsMerge, NEW k
    PROVE  /\ k \in Replaced <=> k \in DOMAIN Contents(job.dest) /\ Lost(k)
           /\ Lost(k) => DestHolds(k) = 0 /\ BaseHolds(k) = 0 /\ Becomes(k) = 0
<1>1. IsMetaRange(job.base) /\ IsMetaRange(job.source) /\ (job.prefixes = <<>> \/ job.base = <<>>)
    BY DEF IsRequest, IsMerge
<1>2. k \in DOMAIN Contents(job.source) <=> SourceHolds(k) # 0
    BY <1>1, HeldBy DEF SourceHolds
<1>3. UnderPrefix(k) <=> Under(job.prefixes, k)
    BY DEF UnderPrefix, Under
<1>4. k \in Replaced <=> k \in DOMAIN Contents(job.dest) /\ Lost(k)
    BY <1>2, <1>3 DEF Replaced, Lost
<1>5. ASSUME Lost(k)
      PROVE  DestHolds(k) = 0 /\ BaseHolds(k) = 0 /\ Becomes(k) = 0
    <2>1. Under(job.prefixes, k) /\ SourceHolds(k) = 0
        BY <1>5 DEF Lost
    <2>2. DestHolds(k) = 0
        BY <2>1 DEF DestHolds
    <2>3. job.base = <<>>
        BY <1>1, <2>1 DEF Under
    <2>4. Records(job.base) = {}
        BY <2>3 DEF Records
    <2>5. k \notin DOMAIN Contents(job.base)
        BY <2>4 DEF Contents
    <2>6. BaseHolds(k) = 0
        BY <1>1, <2>5, HeldBy DEF BaseHolds
    <2>7. QED
        BY <2>1, <2>2, <2>6 DEF Becomes, Clashes
<1>6. QED
    BY <1>4, <1>5

LEMMA ToldBySettled ==
    ASSUME IsRequest(job), IsMerge, OwnIdentities, MergeInv, NEW m \in Nat, SettledTo(m), status # "taken"
    PROVE  Tells(m)
<1>0. Merges /\ MergeInputs
    BY MergesWhat DEF Merges, IsMerge
<1>1. WriterInv /\ WrittenRecords \subseteq OfSides
    BY DEF MergeInv
<1> DEFINE fs == Front(job.source, source)
           fd == Front(job.dest, dest)
<1>2. fs \in 1..(LastKey + 1) /\ fd \in 1..(LastKey + 1) /\ m < fs /\ m < fd /\ (m + 1 = fs \/ m + 1 = fd)
    BY <1>0, Fronts
<1>3. Settled = m
    <2>1. base # Start
        BY DEF SettledTo, Kept, Start
    <2>2. Ahead = {fs, fd}
        BY <1>0 DEF Ahead, Front, Merges
    <2> HIDE DEF fs, fd
    <2>3. {fs, fd} \subseteq Nat /\ {fs, fd} # {}
        BY <1>2, CommittedAssumption
    <2>4. Seqs!Min({fs, fd}) \in {fs, fd} /\ Seqs!Min({fs, fd}) <= fs /\ Seqs!Min({fs, fd}) <= fd
        BY <2>3, MinOfNumbers
    <2>5. Seqs!Min({fs, fd}) = m + 1
        BY <1>2, <2>3, <2>4
    <2>6. Settled = Seqs!Min(Ahead) - 1
        BY <2>1 DEF Settled
    <2>7. QED
        BY <2>2, <2>5, <2>6
<1>4. \A k : Promise!Outcome(k) = Becomes(k)
    BY <1>0, TellsTheSame
<1>5. \A k : /\ k \in DOMAIN NewContents => NewContents[k] \in Identities /\ k \in 1..LastKey
             /\ \A id \in Identities : Written(k, id) <=> k \in DOMAIN NewContents /\ NewContents[k] = id
    BY <1>1, NewHas
<1>6. \A k : /\ k \in Replaced <=> k \in DOMAIN Contents(job.dest) /\ Lost(k)
             /\ Lost(k) => Becomes(k) = 0
    BY LostMeans
<1>7. \A k : Becomes(k) = 0 \/ Becomes(k) \in Identities
    <2> SUFFICES ASSUME NEW k PROVE Becomes(k) = 0 \/ Becomes(k) \in Identities
        OBVIOUS
    <2>1. SourceHolds(k) \in Nat
        BY <1>0, HeldBy DEF SourceHolds, MergeInputs
    <2>2. DestHolds(k) \in Nat
        BY <1>0, HeldBy DEF DestHolds, MergeInputs
    <2>3. QED
        BY <2>1, <2>2 DEF Becomes, Identities
<1>8. \A id \in Identities : id # 0
    BY DEF Identities
\* Of what the sides have, the new one has what it is to become.
<1>9. ASSUME NEW k \in DOMAIN NewContents \ Replaced
      PROVE  k \in 1..m /\ Becomes(k) = NewContents[k] /\ Becomes(k) # 0
    <2>1. NewContents[k] \in Identities /\ Written(k, NewContents[k]) /\ k \in 1..LastKey
        BY <1>5
    <2>2. [key |-> k, id |-> NewContents[k]] \in WrittenRecords
        BY <2>1 DEF Written
    <2>3. k <= m
        <3>1. [key |-> k, id |-> NewContents[k]].key = k
            OBVIOUS
        <3>2. QED
            BY <2>2, <3>1 DEF SettledTo
    <2>4. k \in 1..m
        BY <2>1, <2>3, CommittedAssumption
    <2>5. ~Lost(k)
        <3>1. SUFFICES ASSUME Lost(k) PROVE FALSE
            OBVIOUS
        <3>2. k \notin DOMAIN Contents(job.source)
            BY <1>0, <3>1, HeldBy DEF Lost, SourceHolds, MergeInputs
        <3>3. [key |-> k, id |-> NewContents[k]] \notin Records(job.source)
            <4>1. SourceHolds(k) = 0
                BY <3>1 DEF Lost
            <4>2. QED
                BY <1>0, <1>8, <2>1, <4>1, HasRecord DEF SourceHolds, MergeInputs
        <3>4. [key |-> k, id |-> NewContents[k]] \in Records(job.dest)
            BY <1>1, <2>2, <3>3 DEF OfSides
        <3>5. IdOf(job.dest, k) = NewContents[k]
            BY <1>0, <2>1, <3>4, HasRecord DEF MergeInputs
        <3>6. k \in DOMAIN Contents(job.dest)
            BY <1>0, <1>8, <2>1, <3>5, HeldBy DEF MergeInputs
        <3>7. QED
            BY <1>6, <3>1, <3>6
    <2>6. Becomes(k) = NewContents[k]
        BY <2>1, <2>4, <2>5 DEF SettledTo
    <2>7. QED
        BY <1>8, <2>1, <2>4, <2>6
<1>10. ASSUME NEW k \in 1..m, Becomes(k) # 0
       PROVE  k \in DOMAIN NewContents \ Replaced
    <2>1. ~Lost(k) /\ Becomes(k) \in Identities
        BY <1>6, <1>7, <1>10
    <2>2. Written(k, Becomes(k))
        BY <2>1 DEF SettledTo
    <2>3. QED
        BY <1>5, <1>6, <2>1, <2>2
<1>11. Merged = Promise!Result(m)
    <2>1. Promise!Result(m) = [k \in {j \in 1..m : Becomes(j) # 0} |-> Becomes(k)]
        BY <1>4 DEF Promise!Result, Promise!Absent
    <2>2. DOMAIN NewContents \ Replaced = {j \in 1..m : Becomes(j) # 0}
        BY <1>9, <1>10
    <2>3. \A k \in DOMAIN NewContents \ Replaced : NewContents[k] = Becomes(k)
        BY <1>9
    <2>4. QED
        BY <2>1, <2>2, <2>3 DEF Merged
<1>12. QED
    BY <1>3, <1>11 DEF Tells

LEMMA EmptyResult ==
    ASSUME NEW f, DOMAIN f = {}, f = [x \in {} |-> f[x]]
    PROVE  f = Promise!Result(0)
<1>1. Promise!Result(0) = [k \in {j \in 1..0 : Promise!Outcome(j) # Promise!Absent} |-> Promise!Outcome(k)]
    BY DEF Promise!Result
<1>2. {j \in 1..0 : Promise!Outcome(j) # Promise!Absent} = {}
    OBVIOUS
<1>3. QED
    BY <1>1, <1>2

\* Before anything is written, nothing is merged.
LEMMA ToldOfNothing ==
    ASSUME Untouched, status # "taken"
    PROVE  Tells(0)
<1>1. Settled = 0
    BY DEF Settled, Untouched
<1>2. WriterInv /\ WrittenRecords = {}
    BY NothingWritten DEF Untouched
<1>3. DOMAIN NewContents = {}
    <2>1. SUFFICES ASSUME NEW k \in DOMAIN NewContents PROVE FALSE
        OBVIOUS
    <2>2. Written(k, NewContents[k])
        BY <1>2, NewHas
    <2>3. QED
        BY <1>2, <2>2 DEF Written
<1>4. Merged = [x \in {} |-> NewContents[x]]
    BY <1>3 DEF Merged
<1>5. DOMAIN Merged = {} /\ Merged = [x \in {} |-> Merged[x]]
    BY <1>4
<1>6. QED
    BY <1>1, <1>5, EmptyResult DEF Tells

-----------------------------------------------------------------------------
(* The steps of the promise *)

Verdict == CASE status \in {"done", "taken"} -> "done"
             [] status \in {"unchanged", "conflict"} -> status
             [] OTHER -> "running"

\* The sides as what a request says they are.
DestSideOf(j) ==
    LET contents == Contents(IF j.op = "commit" THEN j.base ELSE j.dest)
    IN [k \in {i \in DOMAIN contents : ~(\E n \in DOMAIN j.prefixes : HasPrefix(i, j.prefixes[n]))} |-> contents[k]]
AppliedOf(j) ==
    LET changed == {j.changes[n] : n \in DOMAIN j.changes}
        kept == {rec \in Records(j.base) : \A c \in changed : c.key # rec.key}
        now == {rec \in kept \cup changed : rec.id # Tombstone}
    IN [k \in {rec.key : rec \in now} |-> (CHOOSE rec \in now : rec.key = k).id]

LEMMA SidesStay ==
    ASSUME job' = job
    PROVE  /\ Applied' = Applied /\ DestSide' = DestSide /\ SourceSide' = SourceSide
           /\ \A n : Promise!Result(n)' = Promise!Result(n)
           /\ \A k : Promise!Conflicting(k)' <=> Promise!Conflicting(k)
<1>1. Applied = AppliedOf(job) /\ Applied' = AppliedOf(job')
    BY DEF Applied, AppliedOf, Changed
<1>2. DestSide = DestSideOf(job) /\ DestSide' = DestSideOf(job')
    BY DEF DestSide, DestSideOf, UnderPrefix
<1>3. Applied' = Applied /\ DestSide' = DestSide
    BY <1>1, <1>2
<1>4. SourceSide' = SourceSide
    BY <1>3 DEF SourceSide
<1>5. \A k : Promise!Conflicting(k)' <=> Promise!Conflicting(k)
    BY <1>3, <1>4 DEF Promise!Conflicting
<1>6. \A k : Promise!Outcome(k)' = Promise!Outcome(k)
    BY <1>3, <1>4, <1>5 DEF Promise!Outcome
<1>7. \A n : Promise!Result(n)' = Promise!Result(n)
    BY <1>6 DEF Promise!Result
<1>8. QED
    BY <1>3, <1>4, <1>5, <1>7

LEMMA InputsStay ==
    ASSUME job' = job
    PROVE  UNCHANGED Promise!inputs
BY SidesStay DEF Promise!inputs

LEMMA VerdictMeans ==
    /\ status \in {"begin", "merging", "committing", "diffing", "reading", "told"} => Verdict = "running"
    /\ status \in {"done", "taken"} => Verdict = "done"
    /\ status \in {"unchanged", "conflict"} => Verdict = status
BY DEF Verdict

LEMMA PromiseSettles ==
    ASSUME job' = job, NEW m \in Nat, NEW n \in Nat, Tells(m), Tells(n)', m <= n, n <= LastKey,
           Verdict = "running", Verdict' = "running",
           job.strategy = "none" => \A k \in (m + 1)..n : ~Promise!Conflicting(k)
    PROVE  [Promise!Next]_(Promise!vars)
<1>1. UNCHANGED Promise!inputs
    BY InputsStay
<1>2. Settled = m /\ Settled' = n /\ Merged = Promise!Result(m) /\ Merged' = Promise!Result(n)
    BY SidesStay DEF Tells
<1>3. CASE m = n
    <2>1. Settled' = Settled /\ Merged' = Merged /\ Verdict' = Verdict
        BY <1>2, <1>3
    <2>2. UNCHANGED Promise!vars
        BY <1>1, <2>1 DEF Promise!vars, Promise!inputs, Merged, Verdict
    <2>3. QED
        BY <2>2
<1>4. CASE m # n
    <2>1. n \in (m + 1)..LastKey
        BY <1>4, CommittedAssumption
    <2>2. Promise!SettleTo(n)
        BY <1>2 DEF Promise!SettleTo, Merged
    <2>3. \E i \in (Settled + 1)..LastKey : Promise!SettleTo(i)
        BY <1>2, <2>1, <2>2
    <2>4. Promise!Settle
        BY <1>1, <2>3 DEF Promise!Settle, Verdict, Promise!inputs
    <2>5. QED
        BY <2>4 DEF Promise!Next
<1>5. QED
    BY <1>3, <1>4

LEMMA PromiseFinishes ==
    ASSUME job' = job, NEW m \in Nat, Tells(m), Tells(LastKey)', Verdict = "running", Verdict' = "done",
           job.strategy = "none" => \A k \in (m + 1)..LastKey : ~Promise!Conflicting(k)
    PROVE  [Promise!Next]_(Promise!vars)
<1>1. UNCHANGED Promise!inputs
    BY InputsStay
<1>2. Settled = m /\ Settled' = LastKey /\ Merged' = Promise!Result(LastKey)
    BY SidesStay DEF Tells
<1>3. Promise!SettleTo(LastKey)
    BY <1>2 DEF Promise!SettleTo, Merged
<1>4. Promise!Finish
    BY <1>1, <1>3 DEF Promise!Finish, Verdict, Promise!inputs
<1>5. QED
    BY <1>4 DEF Promise!Next

LEMMA PromiseDeclines ==
    ASSUME job' = job, NEW m, Tells(m), Tells(m)', Verdict = "running", Verdict' = "unchanged",
           SourceSide = Contents(job.base)
    PROVE  [Promise!Next]_(Promise!vars)
<1>1. UNCHANGED Promise!inputs
    BY InputsStay
<1>2. Settled' = Settled /\ Merged' = Merged
    BY SidesStay DEF Tells
<1>3. Promise!Decline
    BY <1>1, <1>2 DEF Promise!Decline, Verdict, Merged, Promise!inputs
<1>4. QED
    BY <1>3 DEF Promise!Next

LEMMA PromiseRefuses ==
    ASSUME job' = job, NEW m, Tells(m), Tells(m)', Verdict = "running", Verdict' = "conflict",
           job.strategy = "none", \E k \in (m + 1)..LastKey : Promise!Conflicting(k)
    PROVE  [Promise!Next]_(Promise!vars)
<1>1. UNCHANGED Promise!inputs
    BY InputsStay
<1>2. Settled = m /\ Settled' = Settled /\ Merged' = Merged
    BY SidesStay DEF Tells
<1>3. Promise!Refuse
    BY <1>1, <1>2 DEF Promise!Refuse, Verdict, Merged, Promise!inputs
<1>4. QED
    BY <1>3 DEF Promise!Next

LEMMA PromiseStutters ==
    ASSUME job' = job, status' = status, base' = base, source' = source, dest' = dest, change' = change,
           lastKey' = lastKey, open' = open, closed' = closed
    PROVE  [Promise!Next]_(Promise!vars)
<1>1. UNCHANGED Promise!inputs
    BY InputsStay
<1>2. Settled' = Settled
    <2>1. Ahead' = Ahead
        BY DEF Ahead, HaveChanges, Change
    <2>2. QED
        BY <2>1 DEF Settled
<1>3. NewMetaRange' = NewMetaRange
    <2> DEFINE MetaRangeOf(R) ==
            CHOOSE mr \in [1..Cardinality(R) -> R] :
                \A n, m \in DOMAIN mr : n < m => MaxKey(mr[n]) < MaxKey(mr[m])
    <2>1. NewMetaRange = MetaRangeOf(WrittenRanges) /\ NewMetaRange' = MetaRangeOf(WrittenRanges')
        BY DEF NewMetaRange
    <2>2. WrittenRanges' = WrittenRanges
        BY DEF WrittenRanges, Closing
    <2> HIDE DEF MetaRangeOf
    <2>3. QED
        BY <2>1, <2>2
<1>4. NewContents' = NewContents
    BY <1>3 DEF NewContents
<1>5. Replaced' = Replaced
    <2> DEFINE ReplacedOf(j) ==
            {k \in DOMAIN Contents(j.dest) \ DOMAIN Contents(j.source) :
                \E n \in DOMAIN j.prefixes : HasPrefix(k, j.prefixes[n])}
    <2>1. Replaced = ReplacedOf(job) /\ Replaced' = ReplacedOf(job')
        BY DEF Replaced, UnderPrefix
    <2> HIDE DEF ReplacedOf
    <2>2. QED
        BY <2>1
<1>6. Merged' = Merged
    BY <1>4, <1>5 DEF Merged
<1>7. Verdict' = Verdict
    BY DEF Verdict
<1>8. UNCHANGED Promise!vars
    BY <1>1, <1>2, <1>6, <1>7 DEF Promise!vars, Promise!inputs, Merged, Verdict
<1>9. QED
    BY <1>8

LEMMA ToldWhenTaken ==
    ASSUME IsRequest(job), job.op = "merge", job.dest = job.base, status = "taken"
    PROVE  Tells(LastKey)
<1>1. Settled = LastKey /\ NewContents = Contents(job.source)
    BY DEF Settled, NewContents
<1>2. IsMetaRange(job.base) /\ IsMetaRange(job.source) /\ job.prefixes = <<>>
    BY DEF IsRequest
<1>3. Replaced = {}
    BY <1>2 DEF Replaced, UnderPrefix
<1>4. \A k : Promise!Outcome(k) = IdOf(job.source, k)
    <2> SUFFICES ASSUME NEW k PROVE Promise!Outcome(k) = IdOf(job.source, k)
        OBVIOUS
    <2>1. SourceSide = Contents(job.source)
        BY DEF SourceSide
    <2>2. DestSide = [j \in {i \in DOMAIN Contents(job.dest) : ~UnderPrefix(i)} |-> Contents(job.dest)[j]]
        BY DEF DestSide
    <2>3. ~UnderPrefix(k)
        BY <1>2 DEF UnderPrefix
    <2>4. Promise!At(DestSide, k) = Promise!At(Contents(job.base), k)
        BY <2>2, <2>3 DEF Promise!At
    <2>5. ~Promise!Conflicting(k)
        BY <2>4 DEF Promise!Conflicting
    <2>6. QED
        BY <2>1, <2>4, <2>5 DEF Promise!Outcome, IdOf
<1>5. \A k : /\ k \in DOMAIN Contents(job.source) <=> IdOf(job.source, k) # 0
             /\ k \in DOMAIN Contents(job.source) => k \in 1..LastKey /\ Contents(job.source)[k] = IdOf(job.source, k)
    BY <1>2, HeldBy DEF IdOf, Promise!At
<1>6. Merged = [k \in DOMAIN Contents(job.source) |-> Contents(job.source)[k]]
    BY <1>1, <1>3 DEF Merged
<1>7. Promise!Result(LastKey) =
        [k \in {j \in 1..LastKey : IdOf(job.source, j) # 0} |-> IdOf(job.source, k)]
    BY <1>4 DEF Promise!Result, Promise!Absent
<1>8. DOMAIN Contents(job.source) = {j \in 1..LastKey : IdOf(job.source, j) # 0}
    BY <1>5
<1>9. QED
    BY <1>1, <1>5, <1>6, <1>7, <1>8 DEF Tells

MergeTells ==
    /\ status # "taken" => \A m \in Nat : SettledTo(m) => Tells(m) /\ m <= LastKey
    /\ status # "taken" /\ Untouched => Tells(0)
    /\ status = "taken" /\ job.op = "merge" /\ job.dest = job.base => Tells(LastKey)

LEMMA MergeSaysSo == IsRequest(job) /\ IsMerge /\ OwnIdentities /\ MergeInv => MergeTells
<1> SUFFICES ASSUME IsRequest(job), IsMerge, OwnIdentities, MergeInv PROVE MergeTells
    OBVIOUS
<1>1. ASSUME status # "taken", NEW m \in Nat, SettledTo(m) PROVE Tells(m) /\ m <= LastKey
    <2>1. Tells(m)
        BY <1>1, ToldBySettled
    <2>2. MergeInputs
        BY MergesWhat DEF Merges, IsMerge
    <2>3. m <= LastKey
        BY <1>1, <2>2, Fronts, CommittedAssumption
    <2>4. QED
        BY <2>1, <2>3
<1>2. QED
    BY <1>1, ToldOfNothing, ToldWhenTaken DEF MergeTells

SettledInv == status \in {"merging", "done", "conflict"} => \E m \in Nat : SettledTo(m)

LEMMA SettledStays ==
    ASSUME job' = job, source' = source, dest' = dest, base' = base,
           lastKey' = lastKey, open' = open, closed' = closed, unsorted' = unsorted, NEW m, SettledTo(m)
    PROVE  SettledTo(m)'
<1>1. WrittenRecords' = WrittenRecords
    BY DEF WrittenRecords, WrittenRanges, AllOf, Closing
<1>2. \A k : SourceHolds(k)' = SourceHolds(k) /\ DestHolds(k)' = DestHolds(k) /\ BaseHolds(k)' = BaseHolds(k)
    BY DEF SourceHolds, DestHolds, BaseHolds
<1>3. \A k : Clashes(k)' <=> Clashes(k)
    BY <1>2 DEF Clashes
<1>4. \A k : Becomes(k)' = Becomes(k) /\ (Lost(k)' <=> Lost(k))
    BY <1>2, <1>3 DEF Becomes, Lost
<1>5. \A k, id : Written(k, id)' <=> Written(k, id)
    BY <1>1 DEF Written
<1>6. QED
    BY <1>1, <1>4, <1>5 DEF SettledTo

\* A step that settles more.
LEMMA SettlingFollows ==
    ASSUME Merges, IsMerge, job' = job, NEW m \in Nat, Tells(m), Settles(m), MergeTells',
           status \in {"begin", "merging"}, status' = "merging"
    PROVE  SettledInv' /\ [Promise!Next]_(Promise!vars)
<1>1. PICK n \in Nat : /\ m <= n /\ SettledTo(n)'
                       /\ \A k \in (m + 1)..n : Clashes(k) => job.strategy # "none"
    BY DEF Settles
<1>2. Tells(n)' /\ n <= LastKey
    BY <1>1 DEF MergeTells
<1>3. job.strategy = "none" => \A k \in (m + 1)..n : ~Promise!Conflicting(k)
    BY <1>1, TellsTheSame
<1>4. Verdict = "running" /\ Verdict' = "running"
    BY DEF Verdict
<1>5. QED
    BY <1>1, <1>2, <1>3, <1>4, PromiseSettles DEF SettledInv

LEMMA ClashFollows ==
    ASSUME Merges, IsMerge, job' = job, NEW m \in Nat, SettledTo(m), Tells(m), Clashed(m), MergeTells',
           status = "merging"
    PROVE  SettledInv' /\ [Promise!Next]_(Promise!vars)
<1>0. MergeInputs
    BY MergesWhat
<1>1. PICK n \in Nat : m <= n /\ SettledTo(n)'
    BY DEF Clashed, Settles
<1>2. source' = source /\ dest' = dest /\ status' = "conflict" /\ job.strategy = "none"
      /\ \E k \in (m + 1)..LastKey : Clashes(k)
    BY DEF Clashed
<1>3. m = n
    <2>1. /\ n < Front(job.source, source) /\ n < Front(job.dest, dest)
          /\ n + 1 = Front(job.source, source) \/ n + 1 = Front(job.dest, dest)
        BY <1>1, <1>2 DEF SettledTo
    <2>2. /\ Front(job.source, source) \in 1..(LastKey + 1) /\ Front(job.dest, dest) \in 1..(LastKey + 1)
          /\ m < Front(job.source, source) /\ m < Front(job.dest, dest)
          /\ m + 1 = Front(job.source, source) \/ m + 1 = Front(job.dest, dest)
        BY <1>0, Fronts
    <2>3. QED
        BY <2>1, <2>2, CommittedAssumption
<1>4. Tells(m)'
    BY <1>1, <1>2, <1>3 DEF MergeTells
<1>5. \E k \in (m + 1)..LastKey : Promise!Conflicting(k)
    BY <1>2, TellsTheSame
<1>6. Verdict = "running" /\ Verdict' = "conflict"
    BY <1>2 DEF Verdict
<1>7. QED
    BY <1>1, <1>2, <1>4, <1>5, <1>6, PromiseRefuses DEF SettledInv

LEMMA MergeFollows ==
    ASSUME IsRequest(job), IsMerge, OwnIdentities, MergeInv, SettledInv, MergeTells, MergeTells', [Next]_vars
    PROVE  SettledInv' /\ [Promise!Next]_(Promise!vars)
<1>0. job' = job /\ Merges /\ MergeInputs
    BY MergeStep, MergesWhat DEF Merges, IsMerge
<1>1. CASE UNCHANGED vars
    <2>1. /\ job' = job /\ base' = base /\ source' = source /\ dest' = dest /\ status' = status
          /\ lastKey' = lastKey /\ open' = open /\ closed' = closed /\ unsorted' = unsorted
          /\ change' = change
        BY <1>1 DEF vars, mergeVars, writerVars
    <2>2. SettledInv'
        BY <2>1, SettledStays DEF SettledInv
    <2>3. QED
        BY <2>1, <2>2, PromiseStutters
<1>2. CASE NothingToMerge
    <2>1. /\ job.source = job.base /\ job.op = "merge" /\ status = "begin" /\ status' = "unchanged" /\ base' = base
          /\ lastKey' = lastKey /\ open' = open /\ closed' = closed /\ unsorted' = unsorted
        BY <1>2 DEF NothingToMerge, writerVars
    <2>2. Untouched /\ Untouched'
        BY <2>1 DEF MergeInv, Untouched
    <2>3. Tells(0) /\ Tells(0)'
        BY <2>1, <2>2 DEF MergeTells
    <2>4. SourceSide = Contents(job.base)
        BY <2>1 DEF SourceSide
    <2>5. Verdict = "running" /\ Verdict' = "unchanged"
        BY <2>1 DEF Verdict
    <2>6. QED
        BY <1>0, <2>1, <2>3, <2>4, <2>5, PromiseDeclines DEF SettledInv
<1>3. CASE TakeSource
    <2>1. job.op = "merge" /\ job.dest = job.base /\ status = "begin" /\ status' = "taken"
        BY <1>3 DEF TakeSource
    <2>2. Tells(0)
        BY <2>1 DEF MergeTells, MergeInv
    <2>3. Tells(LastKey)'
        BY <1>0, <2>1 DEF MergeTells
    <2>4. \A k : ~Promise!Conflicting(k)
        <3> SUFFICES ASSUME NEW k PROVE ~Promise!Conflicting(k)
            OBVIOUS
        <3>1. job.prefixes = <<>>
            BY <2>1 DEF IsRequest
        <3>2. DestHolds(k) = BaseHolds(k)
            BY <2>1, <3>1 DEF DestHolds, BaseHolds, Under
        <3>3. QED
            BY <1>0, <3>2, TellsTheSame DEF Clashes
    <2>5. Verdict = "running" /\ Verdict' = "done"
        BY <2>1 DEF Verdict
    <2>6. QED
        BY <1>0, <2>1, <2>2, <2>3, <2>4, <2>5, PromiseFinishes DEF SettledInv
<1>4. CASE StartMerge
    <2>1. status = "begin" /\ status' = "merging" /\ MergeStart
        BY <1>4 DEF StartMerge, MergeStart
    <2>2. Untouched /\ source = Start /\ dest = [range |-> 0, rec |-> 0, prefix |-> 1]
        BY <2>1 DEF MergeInv, DestStart
    <2>3. WrittenRecords = {} /\ lastKey = 0 /\ unsorted = FALSE /\ base = Start
        BY <2>2, NothingWritten DEF Untouched
    <2>4. Settles(0)
        BY <1>0, <2>1, <2>2, <2>3, MergeStarts
    <2>5. Tells(0)
        BY <2>1, <2>2 DEF MergeTells
    <2>6. QED
        BY <1>0, <2>1, <2>4, <2>5, SettlingFollows
<1>5. CASE \/ HandleBothRanges \/ HandleDestRangeSourceKey \/ HandleSourceRangeDestKey \/ HandleBothKeys
           \/ HandleAllSource \/ HandleAllDest
    <2>1. status = "merging"
        BY <1>5 DEF HandleBothRanges, HandleDestRangeSourceKey, HandleSourceRangeDestKey, HandleBothKeys,
                    HandleAllSource, HandleAllDest, Merging
    <2>2. PICK m \in Nat : SettledTo(m)
        BY <2>1 DEF SettledInv
    <2>3. Tells(m) /\ WriterInv
        BY <2>1, <2>2 DEF MergeTells, MergeInv
    <2>4. Moves(m)
        BY <1>0, <1>5, <2>2, <2>3, BothRangesMove, DestRangeSourceKeyMoves, SourceRangeDestKeyMoves,
           BothKeysMove, AllSourceMoves, AllDestMoves
    <2>5. CASE Settles(m) /\ status' = status
        BY <1>0, <2>1, <2>3, <2>5, SettlingFollows
    <2>6. CASE Clashed(m)
        BY <1>0, <2>1, <2>2, <2>3, <2>6, ClashFollows
    <2>7. QED
        BY <2>4, <2>5, <2>6 DEF Moves
<1>6. CASE MergeEnd
    <2>1. /\ status = "merging" /\ status' = "done" /\ ~HaveSource /\ ~HaveDest
          /\ base' = base /\ source' = source /\ dest' = dest
          /\ lastKey' = lastKey /\ open' = open /\ closed' = closed /\ unsorted' = unsorted
        BY <1>6 DEF MergeEnd, Merging, writerVars
    <2>2. PICK m \in Nat : SettledTo(m)
        BY <2>1 DEF SettledInv
    <2>3. m = LastKey
        BY <1>0, <2>1, <2>2, Fronts, CommittedAssumption
    <2>4. SettledTo(m)'
        BY <1>0, <2>1, <2>2, SettledStays
    <2>5. Tells(m) /\ Tells(LastKey)'
        BY <2>1, <2>2, <2>3, <2>4 DEF MergeTells
    <2>6. Verdict = "running" /\ Verdict' = "done"
        BY <2>1 DEF Verdict
    <2>7. \A k \in (m + 1)..LastKey : ~Promise!Conflicting(k)
        BY <2>3, CommittedAssumption
    <2>8. QED
        BY <1>0, <2>2, <2>4, <2>5, <2>6, <2>7, PromiseFinishes DEF SettledInv
<1>7. QED
    BY <1>1, <1>2, <1>3, <1>4, <1>5, <1>6, MergeStepsAre

-----------------------------------------------------------------------------
(* A reader's calls *)

IsDiff == job.op \in {"diff", "compare"}

DiffInv ==
    /\ status \in {"begin", "diffing", "reading", "told"}
    /\ Iterators /\ Untouched
    /\ change = 0 /\ summary = NoSummary /\ inside \in {"none", "left", "right", "both"}

\* The number of a range's records before a key.
LEMMA Smaller ==
    ASSUME NEW mr, IsMetaRange(mr), NEW n \in DOMAIN mr, NEW key
    PROVE  /\ Cardinality({i \in DOMAIN mr[n] : mr[n][i].key < key}) \in Nat
           /\ Cardinality({i \in DOMAIN mr[n] : mr[n][i].key < key}) <= Len(mr[n])
<1>1. DOMAIN mr[n] = 1..Len(mr[n]) /\ Len(mr[n]) \in Nat
    BY RangeTypes
<1>2. PICK all : all = DOMAIN mr[n]
    OBVIOUS
<1>3. PICK few : few = {i \in DOMAIN mr[n] : mr[n][i].key < key}
    OBVIOUS
<1>4. IsFiniteSet(all) /\ Cardinality(all) = Len(mr[n])
    <2>1. PICK len : len = Len(mr[n])
        OBVIOUS
    <2>1a. len \in Int /\ 1 \in Int /\ len \in Nat
        BY <1>1, <2>1
    <2>2. IsFiniteSet(1..len) /\ Cardinality(1..len) = IF 1 > len THEN 0 ELSE len - 1 + 1
        BY <2>1a, FS_Interval
    <2>3. QED
        BY <1>1, <1>2, <2>1, <2>1a, <2>2
<1>5. few \subseteq all
    BY <1>2, <1>3
<1>6. IsFiniteSet(few) /\ Cardinality(few) <= Cardinality(all)
    BY <1>4, <1>5, FS_Subset
<1>7. Cardinality(few) \in Nat
    BY <1>6, FS_CardinalityType
<1>8. QED
    BY <1>3, <1>4, <1>6, <1>7

\* Where SeekGE leaves an iterator.
LEMMA SeekLands ==
    ASSUME NEW mr, IsMetaRange(mr), NEW it, NEW key
    PROVE  LET x == SeekGE(mr, it, key)
           IN x = Start \/ (Stands(mr, x) /\ x = [range |-> x.range, rec |-> x.rec])
<1> DEFINE found == {p \in DOMAIN mr : MaxKey(mr[p]) >= key}
           n == IF found = {} THEN Len(mr) + 1 ELSE Seqs!Min(found)
           Few(p) == [range |-> p, rec |-> Cardinality({i \in DOMAIN mr[p] : mr[p][i].key < key})]
           before == IF n = 1 THEN Start ELSE [range |-> n - 1, rec |-> Len(mr[n - 1])]
<1>1. Len(mr) \in Nat /\ DOMAIN mr = 1..Len(mr)
    BY DEF IsMetaRange
<1>2. n \in 1..(Len(mr) + 1)
    <2>1. found \subseteq DOMAIN mr /\ found \subseteq Nat
        BY <1>1
    <2> HIDE DEF found
    <2>2. found # {} => Seqs!Min(found) \in DOMAIN mr
        BY <2>1, MinOfNumbers
    <2>3. QED
        BY <1>1, <2>2
<1> HIDE DEF found
<1>3. \/ AtRecord(mr, it) /\ SeekGE(mr, it, key) = Few(it.range)
      \/ SeekGE(mr, it, key) = before
      \/ ~(n > Len(mr)) /\ SeekGE(mr, it, key) = Few(n)
    <2>1. CASE AtRecord(mr, it) /\ MinKey(RangeAt(mr, it)) <= key /\ key <= MaxKey(RangeAt(mr, it))
        BY <2>1 DEF SeekGE, RangeAt
    <2>2. CASE ~(AtRecord(mr, it) /\ MinKey(RangeAt(mr, it)) <= key /\ key <= MaxKey(RangeAt(mr, it)))
        BY <2>2 DEF SeekGE, found
    <2>3. QED
        BY <2>1, <2>2
<1>4. ASSUME NEW p \in DOMAIN mr
      PROVE  Stands(mr, Few(p)) /\ Few(p) = [range |-> Few(p).range, rec |-> Few(p).rec]
    <2>1. PICK c : c = Cardinality({i \in DOMAIN mr[p] : mr[p][i].key < key})
        OBVIOUS
    <2>2. c \in Nat /\ c <= Len(mr[p])
        BY <2>1, Smaller
    <2>3. Few(p) = [range |-> p, rec |-> c]
        BY <2>1
    <2>4. p \in 1..(Len(mr) + 1)
        BY <1>1
    <2> HIDE DEF Few
    <2>5. QED
        BY <2>2, <2>3, <2>4 DEF Stands, Have
<1>5. before = Start \/ (Stands(mr, before) /\ before = [range |-> before.range, rec |-> before.rec])
    <2>1. CASE n = 1
        BY <2>1
    <2>2. CASE n # 1
        <3>1. n - 1 \in DOMAIN mr /\ n - 1 \in 1..(Len(mr) + 1)
            BY <1>1, <1>2, <2>2
        <3>2. Len(mr[n - 1]) \in Nat
            BY <3>1, RangeTypes
        <3>3. before = [range |-> n - 1, rec |-> Len(mr[n - 1])]
            BY <2>2
        <3> HIDE DEF before, n
        <3>4. QED
            BY <3>1, <3>2, <3>3 DEF Stands, Have
    <2>3. QED
        BY <2>1, <2>2
<1>6. ~(n > Len(mr)) => n \in DOMAIN mr
    BY <1>1, <1>2
<1>7. AtRecord(mr, it) => it.range \in DOMAIN mr
    BY DEF AtRecord, Have
<1> HIDE DEF Few, before, n
<1>8. QED
    BY <1>3, <1>4, <1>5, <1>6, <1>7

\* With no prefixes, to be at a place is all there is to it.
LEMMA PlainlyPlaced ==
    ASSUME NEW mr, NEW it, it = [range |-> it.range, rec |-> it.rec, prefix |-> 1], Stands(mr, it)
    PROVE  DestPlaced(mr, <<>>, it)
BY DEF DestPlaced, Skips, Under

LEMMA PlainDest ==
    ASSUME NEW mr, IsMetaRange(mr), NEW it, it = DestStart \/ DestPlaced(mr, <<>>, it)
    PROVE  /\ DestPlaced(mr, <<>>, SkipNext(mr, <<>>, it))
           /\ DestPlaced(mr, <<>>, SkipNextRange(mr, <<>>, it))
           /\ it = [range |-> it.range, rec |-> it.rec, prefix |-> 1]
<1>1. ArePrefixes(<<>>)
    BY DEF ArePrefixes
<1>2. CASE it = DestStart
    <2> DEFINE x == NextRange(mr, it)
    <2>1. it.range = 0 /\ it.rec = 0 /\ it.prefix = 1 /\ {"range", "rec"} \subseteq DOMAIN it
        BY <1>2 DEF DestStart
    <2>2. PassedTo(mr, x, 0) /\ ~AtRecord(mr, x) /\ Stands(mr, x)
        BY <2>1, FirstMove
    <2>3. it = [range |-> it.range, rec |-> it.rec, prefix |-> it.prefix]
        BY <1>2 DEF DestStart
    <2>4. x = [range |-> x.range, rec |-> x.rec, prefix |-> it.prefix]
        <3> DEFINE y == IF it.range > Len(mr) THEN it.range ELSE it.range + 1
        <3>1. x = [range |-> y, rec |-> 0, prefix |-> it.prefix]
            BY <2>3, SkipFields
        <3> HIDE DEF x, y
        <3>2. QED
            BY <3>1
    <2>5. it.prefix \in 1..(Len(<<>>) + 1)
        BY <2>1
    <2> HIDE DEF x
    <2>6. Skips(mr, <<>>, x)
        BY <1>1, <2>1, <2>2, <2>4, <2>5, StillSkips
    <2>7. LeavesOut(mr, <<>>, SkipNextRange(mr, <<>>, it), 0)
        BY <1>1, <2>2, <2>6, SkipNextRangeOn DEF x
    <2>8. DestPlaced(mr, <<>>, SkipNextRange(mr, <<>>, it))
        BY <2>7 DEF LeavesOut, DestPlaced
    <2>9. DestPlaced(mr, <<>>, SkipNext(mr, <<>>, it))
        BY <1>1, <1>2, DestMoves
    <2>10. QED
        BY <2>1, <2>3, <2>8, <2>9
<1>3. CASE DestPlaced(mr, <<>>, it)
    <2>1. it = [range |-> it.range, rec |-> it.rec, prefix |-> it.prefix] /\ it.prefix \in 1..(Len(<<>>) + 1)
        BY <1>3 DEF DestPlaced, Skips
    <2>2. it.prefix = 1
        BY <2>1
    <2>3. QED
        BY <1>1, <1>3, <2>1, <2>2, DestMoves
<1>4. QED
    BY <1>2, <1>3

LEMMA DestSeeks ==
    ASSUME NEW mr, IsMetaRange(mr), NEW it, it = [range |-> it.range, rec |-> it.rec, prefix |-> 1],
           NEW x, x = Start \/ (Stands(mr, x) /\ x = [range |-> x.range, rec |-> x.rec]),
           NEW y, y = [it EXCEPT !.range = x.range, !.rec = x.rec]
    PROVE  y = DestStart \/ DestPlaced(mr, <<>>, y)
<1>1. y = [range |-> x.range, rec |-> x.rec, prefix |-> 1]
    <2>1. PICK a : a = x.range
        OBVIOUS
    <2>2. PICK b : b = x.rec
        OBVIOUS
    <2>3. PICK c : c = it.range
        OBVIOUS
    <2>4. PICK d : d = it.rec
        OBVIOUS
    <2>5. it = [range |-> c, rec |-> d, prefix |-> 1]
        BY <2>3, <2>4
    <2>6. [it EXCEPT !.range = a] = [range |-> a, rec |-> d, prefix |-> 1]
        BY <2>5
    <2>7. PICK z : z = [it EXCEPT !.range = a]
        OBVIOUS
    <2>8. z = [range |-> a, rec |-> d, prefix |-> 1]
        BY <2>6, <2>7
    <2>9. [z EXCEPT !.rec = b] = [range |-> a, rec |-> b, prefix |-> 1]
        BY <2>8
    <2>10. y = [z EXCEPT !.rec = b]
        BY <2>1, <2>2, <2>7
    <2>11. QED
        BY <2>1, <2>2, <2>9, <2>10
<1>2. CASE x = Start
    BY <1>1, <1>2 DEF Start, DestStart
<1>3. CASE Stands(mr, x)
    <2>1. y.range = x.range /\ y.rec = x.rec /\ {"range", "rec"} \subseteq DOMAIN y
        BY <1>1
    <2>2. Stands(mr, y)
        BY <1>3, <2>1 DEF Stands, Have
    <2>3. y = [range |-> y.range, rec |-> y.rec, prefix |-> 1]
        BY <1>1, <2>1
    <2>4. QED
        BY <2>2, <2>3, PlainlyPlaced
<1>4. QED
    BY <1>2, <1>3

LEMMA DiffStepsAre ==
    ASSUME IsDiff, DiffInv, [Next]_vars
    PROVE  UNCHANGED vars \/ (DiffNext /\ UNCHANGED <<change, summary>>)
<1>1. status \in {"begin", "diffing", "reading", "told"} /\ job.op \notin {"commit", "merge", "import"}
    BY DEF DiffInv, IsDiff
<1>2. ~Commit
    BY <1>1 DEF Commit, CommitStart, ApplyBaseRange, ApplyNextKey, ApplyAllBase, ApplyAllChanges, CommitEnd, Committing
<1>3. ~MergeOrImport
    <2>1. ~NothingToMerge /\ ~TakeSource /\ ~StartMerge
        BY <1>1 DEF NothingToMerge, TakeSource, StartMerge
    <2>2. ~MergeNext
        BY <1>1 DEF MergeNext, HandleBothRanges, HandleDestRangeSourceKey, HandleSourceRangeDestKey, HandleBothKeys,
                    HandleAllSource, HandleAllDest, MergeEnd, Merging
    <2>3. QED
        BY <2>1, <2>2 DEF MergeOrImport
<1>4. Answered => UNCHANGED vars
    BY DEF Answered
<1>5. QED
    BY <1>2, <1>3, <1>4 DEF Next

SourceSought == \E key : source' = SeekGE(job.source, source, key)
DestSought == \E key : DestSeekGE(key)
Reads ==
    /\ SourceStays \/ SourceNext \/ SourceNextRange \/ SourceSought
    /\ DestStays \/ DestNext \/ DestNextRange \/ DestSought
    /\ status' \in {"begin", "diffing", "reading", "told"}
    /\ inside' \in {"none", "left", "right", "both"}

LEMMA CallsRead ==
    ASSUME DiffInv, DiffNext
    PROVE  Reads
<1>0. status \in {"begin", "diffing", "reading", "told"} /\ inside \in {"none", "left", "right", "both"}
    BY DEF DiffInv
<1>1. CASE CallNextFresh
    BY <1>1 DEF CallNextFresh, Reads
<1>2. CASE CallNext
    BY <1>0, <1>2 DEF CallNext, Reads, diffVars, SourceStays, DestStays
<1>3. CASE CallNextInside
    BY <1>0, <1>3 DEF CallNextInside, Tell, Reads
<1>4. CASE CallNextRange
    BY <1>0, <1>4 DEF CallNextRange, Reads
<1>5. ASSUME NEW key \in 1..LastKey, CallSeekGE(key) PROVE Reads
    BY <1>5 DEF CallSeekGE, Reads, SourceSought, DestSought
<1>6. CASE Turn
    <2>1. CASE TurnOnRanges
        BY <1>0, <2>1 DEF TurnOnRanges, GiveRange, Reads
    <2>2. CASE TurnIntoRange
        BY <1>0, <2>2 DEF TurnIntoRange, Reads
    <2>3. CASE TurnOnRecords
        <3>1. status' \in {status, "reading"} /\ inside' = inside
            BY <2>3 DEF TurnOnRecords, Tell
        <3>2. (SourceStays \/ SourceNext) /\ (DestStays \/ DestNext)
            BY <2>3 DEF TurnOnRecords
        <3>3. QED
            BY <1>0, <3>1, <3>2 DEF Reads
    <2>4. QED
        BY <1>6, <2>1, <2>2, <2>3 DEF Turn
<1>7. QED
    BY <1>1, <1>2, <1>3, <1>4, <1>5, <1>6 DEF DiffNext

LEMMA DiffStep ==
    ASSUME IsRequest(job), IsDiff, DiffInv, [Next]_vars
    PROVE  job' = job /\ DiffInv'
<1>0. IsMetaRange(job.source) /\ IsMetaRange(job.dest) /\ IsMetaRange(job.base) /\ job.prefixes = <<>>
    BY DEF IsRequest, IsDiff
<1>1. CASE UNCHANGED vars
    <2>1. /\ job' = job /\ base' = base /\ source' = source /\ dest' = dest /\ status' = status
          /\ lastKey' = lastKey /\ open' = open /\ closed' = closed /\ unsorted' = unsorted
          /\ change' = change /\ summary' = summary /\ inside' = inside
        BY <1>1 DEF vars, mergeVars, writerVars, diffVars
    <2>2. Iterators' /\ Untouched'
        BY <2>1 DEF DiffInv, Iterators, Untouched
    <2>3. QED
        BY <2>1, <2>2 DEF DiffInv
<1>2. CASE DiffNext /\ UNCHANGED <<change, summary>>
    <2>1. /\ job' = job /\ base' = base /\ change' = change /\ summary' = summary
          /\ lastKey' = lastKey /\ open' = open /\ closed' = closed /\ unsorted' = unsorted
        BY <1>2 DEF DiffNext, writerVars
    <2>2. Reads
        BY <1>2, CallsRead
    <2>3. source = Start \/ Stands(job.source, source)
        BY DEF DiffInv, Iterators
    <2>4. source' = Start \/ Stands(job.source, source')
        <3>1. CASE SourceStays
            BY <2>3, <3>1 DEF SourceStays
        <3>2. CASE SourceNext \/ SourceNextRange
            BY <1>0, <2>3, <3>2, SourceMoves DEF SourceNext, SourceNextRange
        <3>3. CASE SourceSought
            BY <1>0, <3>3, SeekLands DEF SourceSought
        <3>4. QED
            BY <2>2, <3>1, <3>2, <3>3 DEF Reads
    <2>5. dest = DestStart \/ DestPlaced(job.dest, <<>>, dest)
        BY <1>0 DEF DiffInv, Iterators
    <2>6. dest' = DestStart \/ DestPlaced(job.dest, <<>>, dest')
        <3>1. CASE DestStays
            BY <2>5, <3>1 DEF DestStays
        <3>2. CASE DestNext \/ DestNextRange
            BY <1>0, <2>5, <3>2, PlainDest DEF DestNext, DestNextRange
        <3>3. CASE DestSought
            <4>1. PICK key : DestSeekGE(key)
                BY <3>3 DEF DestSought
            <4>2. PICK it : it = [range |-> dest.range, rec |-> dest.rec]
                OBVIOUS
            <4>3. PICK x : x = SeekGE(job.dest, it, key)
                OBVIOUS
            <4>4. dest' = [dest EXCEPT !.range = x.range, !.rec = x.rec]
                BY <4>1, <4>2, <4>3 DEF DestSeekGE
            <4>5. x = Start \/ (Stands(job.dest, x) /\ x = [range |-> x.range, rec |-> x.rec])
                BY <1>0, <4>3, SeekLands
            <4>6. dest = [range |-> dest.range, rec |-> dest.rec, prefix |-> 1]
                BY <1>0, <2>5, PlainDest
            <4>7. QED
                BY <1>0, <4>4, <4>5, <4>6, DestSeeks
        <3>4. QED
            BY <2>2, <3>1, <3>2, <3>3 DEF Reads
    <2>7. Iterators' /\ Untouched'
        BY <1>0, <2>1, <2>4, <2>6 DEF DiffInv, Iterators, Untouched
    <2>8. QED
        BY <2>1, <2>2, <2>7 DEF DiffInv, Reads
<1>3. QED
    BY <1>1, <1>2, DiffStepsAre

LEMMA DiffSaysSo == DiffInv => Tells(0) /\ Verdict = "running"
<1>1. ASSUME DiffInv PROVE Tells(0) /\ Verdict = "running"
    <2>1. Untouched /\ status \in {"begin", "diffing", "reading", "told"}
        BY <1>1 DEF DiffInv
    <2>2. QED
        BY <2>1, ToldOfNothing, VerdictMeans
<1>2. QED
    BY <1>1

\* To read is to settle nothing.
LEMMA DiffFollows ==
    ASSUME job' = job, Tells(0), Verdict = "running", Tells(0)', Verdict' = "running"
    PROVE  [Promise!Next]_(Promise!vars)
<1>1. \A k \in (0 + 1)..0 : ~Promise!Conflicting(k)
    OBVIOUS
<1>2. 0 \in Nat /\ 0 <= 0 /\ 0 <= LastKey
    BY CommittedAssumption
<1>3. QED
    BY <1>1, <1>2, PromiseSettles

-----------------------------------------------------------------------------
(* What a commit is to have *)

After(k) == Promise!At(Applied, k)

LEMMA ChangesAre ==
    ASSUME IsRequest(job)
    PROVE  /\ Len(job.changes) \in Nat /\ DOMAIN job.changes = 1..Len(job.changes)
           /\ \A n \in DOMAIN job.changes :
                /\ n \in Nat
                /\ job.changes[n].key \in 1..LastKey /\ job.changes[n].id \in Identities \cup {Tombstone}
                /\ job.changes[n] = [key |-> job.changes[n].key, id |-> job.changes[n].id]
           /\ \A n, m \in DOMAIN job.changes : n < m => job.changes[n].key < job.changes[m].key
           /\ \A n, m \in DOMAIN job.changes : job.changes[n].key = job.changes[m].key => n = m
           /\ IsMetaRange(job.base)
<1> DEFINE R == [key : 1..LastKey, id : Identities \cup {Tombstone}]
           cs == job.changes
<1>1. cs \in Seq(R) /\ IsMetaRange(job.base) /\ \A n, m \in DOMAIN cs : n < m => cs[n].key < cs[m].key
    BY DEF IsRequest
<1>2. \A r \in R : r.key \in 1..LastKey /\ r.id \in Identities \cup {Tombstone} /\ r = [key |-> r.key, id |-> r.id]
    OBVIOUS
<1> HIDE DEF R, cs
<1>3. Len(cs) \in Nat /\ DOMAIN cs = 1..Len(cs) /\ \A n \in DOMAIN cs : cs[n] \in R
    BY <1>1
<1>4. \A n \in DOMAIN cs : cs[n].key \in 1..LastKey
    BY <1>2, <1>3
<1>5. ASSUME NEW n \in DOMAIN cs, NEW m \in DOMAIN cs, cs[n].key = cs[m].key PROVE n = m
    <2>1. n \in Nat /\ m \in Nat /\ cs[n].key \in Nat /\ cs[m].key \in Nat
        BY <1>3, <1>4, CommittedAssumption
    <2>2. ~(n < m) /\ ~(m < n)
        BY <1>1, <1>5, <2>1
    <2>3. QED
        BY <2>1, <2>2
<1>6. QED
    BY <1>1, <1>2, <1>3, <1>5 DEF cs

KeptOfBase == {rec \in Records(job.base) : \A c \in Changed : c.key # rec.key}
OfChangedBase == {rec \in KeptOfBase \cup Changed : rec.id # Tombstone}

LEMMA NowIs ==
    ASSUME IsRequest(job)
    PROVE  /\ \A rec \in OfChangedBase : rec.key \in 1..LastKey /\ rec.id \in Identities
           /\ \A r, q \in OfChangedBase : r.key = q.key => r = q
<1>1. ASSUME NEW r \in KeptOfBase
      PROVE  /\ r.key \in 1..LastKey /\ r.id \in Identities /\ IdOf(job.base, r.key) = r.id
             /\ r = [key |-> r.key, id |-> r.id]
    <2>1. r \in Records(job.base) /\ IsMetaRange(job.base)
        BY ChangesAre DEF KeptOfBase
    <2>2. PICK n \in DOMAIN job.base : \E i \in DOMAIN job.base[n] : r = job.base[n][i]
        BY <2>1, RecordsOf
    <2>3. PICK i \in DOMAIN job.base[n] : r = job.base[n][i]
        BY <2>2
    <2>4. r = [key |-> r.key, id |-> r.id]
        BY <2>1, <2>3, RangeTypes
    <2>5. QED
        BY <2>1, <2>3, <2>4, Holds DEF Identities
<1>2. ASSUME NEW c \in Changed
      PROVE  c.key \in 1..LastKey /\ c.id \in Identities \cup {Tombstone}
    BY ChangesAre DEF Changed
<1>3. ASSUME NEW r \in Changed, NEW q \in Changed, r.key = q.key PROVE r = q
    <2>1. PICK n \in DOMAIN job.changes : r = job.changes[n]
        BY DEF Changed
    <2>2. PICK m \in DOMAIN job.changes : q = job.changes[m]
        BY DEF Changed
    <2>3. QED
        BY <1>3, <2>1, <2>2, ChangesAre
<1>4. ASSUME NEW r \in KeptOfBase, NEW q \in KeptOfBase, r.key = q.key PROVE r = q
    BY <1>1, <1>4
<1>5. ASSUME NEW r \in KeptOfBase, NEW q \in Changed PROVE r.key # q.key
    BY DEF KeptOfBase
<1>6. \A rec \in OfChangedBase : rec.key \in 1..LastKey /\ rec.id \in Identities
    BY <1>1, <1>2 DEF OfChangedBase
<1>7. \A r, q \in OfChangedBase : r.key = q.key => r = q
    BY <1>3, <1>4, <1>5 DEF OfChangedBase
<1>8. QED
    BY <1>6, <1>7

LEMMA AppliedHas ==
    ASSUME IsRequest(job)
    PROVE  /\ DOMAIN Applied = {rec.key : rec \in OfChangedBase}
           /\ Applied = [k \in DOMAIN Applied |-> Applied[k]]
           /\ \A rec \in OfChangedBase : rec.key \in DOMAIN Applied /\ Applied[rec.key] = rec.id /\ After(rec.key) = rec.id
           /\ \A k : k \notin DOMAIN Applied => After(k) = 0
<1>1. Applied = [k \in {rec.key : rec \in OfChangedBase} |-> (CHOOSE rec \in OfChangedBase : rec.key = k).id]
    BY DEF Applied, OfChangedBase, KeptOfBase
<1>2. DOMAIN Applied = {rec.key : rec \in OfChangedBase}
    BY <1>1
<1>3. Applied = [k \in DOMAIN Applied |-> Applied[k]]
    BY <1>1
<1>4. ASSUME NEW rec \in OfChangedBase
      PROVE  rec.key \in DOMAIN Applied /\ Applied[rec.key] = rec.id /\ After(rec.key) = rec.id
    <2>1. rec.key \in DOMAIN Applied
        BY <1>2
    <2>2. (CHOOSE r \in OfChangedBase : r.key = rec.key) = rec
        <3>1. PICK c : c = (CHOOSE r \in OfChangedBase : r.key = rec.key)
            OBVIOUS
        <3>2. c \in OfChangedBase /\ c.key = rec.key
            BY <3>1
        <3>3. c = rec
            BY <3>2, NowIs
        <3>4. QED
            BY <3>1, <3>3
    <2>3. Applied[rec.key] = (CHOOSE r \in OfChangedBase : r.key = rec.key).id
        BY <1>1, <1>2, <2>1
    <2>4. QED
        BY <2>1, <2>2, <2>3 DEF After, Promise!At
<1>5. \A k : k \notin DOMAIN Applied => After(k) = 0
    BY DEF After, Promise!At, Promise!Absent
<1>6. QED
    BY <1>2, <1>3, <1>4, <1>5

LEMMA AppliedIs ==
    ASSUME IsRequest(job)
    PROVE  /\ \A n \in DOMAIN job.changes :
                /\ job.changes[n].id = Tombstone => After(job.changes[n].key) = 0
                /\ job.changes[n].id # Tombstone => /\ After(job.changes[n].key) = job.changes[n].id
                                                    /\ job.changes[n].id \in Identities
           /\ \A k : (\A n \in DOMAIN job.changes : job.changes[n].key # k) => After(k) = BaseHolds(k)
           /\ \A k \in DOMAIN Applied : k \in 1..LastKey /\ Applied[k] = After(k) /\ After(k) \in Identities
           /\ \A k : k \in DOMAIN Applied <=> After(k) # 0
<1>1. \A k \in DOMAIN Applied : \E rec \in OfChangedBase : rec.key = k
    BY AppliedHas
<1>2. \A k \in DOMAIN Applied : k \in 1..LastKey /\ Applied[k] = After(k) /\ After(k) \in Identities
    BY <1>1, AppliedHas, NowIs
<1>3. \A k : k \in DOMAIN Applied <=> After(k) # 0
    BY <1>2, AppliedHas DEF Identities
<1>4. ASSUME NEW n \in DOMAIN job.changes
      PROVE  /\ job.changes[n].id = Tombstone => After(job.changes[n].key) = 0
             /\ job.changes[n].id # Tombstone => /\ After(job.changes[n].key) = job.changes[n].id
                                                 /\ job.changes[n].id \in Identities
    <2>1. job.changes[n] \in Changed /\ job.changes[n].id \in Identities \cup {Tombstone}
        BY ChangesAre DEF Changed
    <2>2. job.changes[n].id # Tombstone => job.changes[n] \in OfChangedBase
        BY <2>1 DEF OfChangedBase
    <2>3. ASSUME job.changes[n].id = Tombstone, NEW rec \in OfChangedBase, rec.key = job.changes[n].key
          PROVE  FALSE
        <3>1. rec \notin KeptOfBase
            BY <2>1, <2>3 DEF KeptOfBase
        <3>2. rec \in Changed /\ rec.id # Tombstone
            BY <3>1 DEF OfChangedBase
        <3>3. PICK p \in DOMAIN job.changes : rec = job.changes[p]
            BY <3>2 DEF Changed
        <3>4. p = n
            BY <2>3, <3>3, ChangesAre
        <3>5. QED
            BY <2>3, <3>2, <3>3, <3>4
    <2>4. job.changes[n].id = Tombstone => job.changes[n].key \notin DOMAIN Applied
        BY <1>1, <2>3
    <2>5. QED
        BY <2>1, <2>2, <2>4, AppliedHas
<1>5. ASSUME NEW k, \A n \in DOMAIN job.changes : job.changes[n].key # k
      PROVE  After(k) = BaseHolds(k)
    <2>1. IsMetaRange(job.base) /\ \A c \in Changed : c.key # k
        BY <1>5, ChangesAre DEF Changed
    <2>2. CASE BaseHolds(k) # 0
        <3>1. k \in DOMAIN Contents(job.base)
            BY <2>1, <2>2, HeldBy DEF BaseHolds
        <3>2. PICK n \in DOMAIN job.base : \E i \in DOMAIN job.base[n] :
                    k = job.base[n][i].key /\ IdOf(job.base, k) = job.base[n][i].id
            BY <2>1, <3>1, HeldBy
        <3>3. PICK i \in DOMAIN job.base[n] : k = job.base[n][i].key /\ IdOf(job.base, k) = job.base[n][i].id
            BY <3>2
        <3>4. PICK rec : rec = job.base[n][i]
            OBVIOUS
        <3>5. rec \in Records(job.base) /\ rec.id \in Identities /\ rec.key = k /\ BaseHolds(k) = rec.id
            BY <2>1, <3>3, <3>4, RecordsOf, Holds DEF BaseHolds, Identities
        <3>6. rec \in OfChangedBase
            BY <2>1, <3>5, CommittedAssumption DEF OfChangedBase, KeptOfBase
        <3>7. QED
            BY <3>5, <3>6, AppliedHas
    <2>3. CASE BaseHolds(k) = 0
        <3>1. k \notin DOMAIN Contents(job.base)
            BY <2>1, <2>3, HeldBy DEF BaseHolds
        <3>2. ASSUME NEW rec \in OfChangedBase, rec.key = k PROVE FALSE
            <4>1. rec \in Records(job.base)
                BY <2>1, <3>2 DEF OfChangedBase, KeptOfBase
            <4>2. k \in DOMAIN Contents(job.base)
                BY <3>2, <4>1 DEF Contents
            <4>3. QED
                BY <3>1, <4>2
        <3>3. k \notin DOMAIN Applied
            BY <1>1, <3>2
        <3>4. QED
            BY <2>3, <3>3, AppliedHas
    <2>4. QED
        BY <2>2, <2>3
<1>6. QED
    BY <1>2, <1>3, <1>4, <1>5

-----------------------------------------------------------------------------
(* How far a commit is *)

IsCommit == job.op = "commit"

Types == {"added", "changed", "removed"}
Kind(k) ==
    IF BaseHolds(k) = After(k) THEN "same"
    ELSE IF BaseHolds(k) = 0 THEN "added"
    ELSE IF After(k) = 0 THEN "removed" ELSE "changed"
Differing(type, m) == {k \in 1..m : Kind(k) = type}

NextKey(n) == IF n \in DOMAIN job.changes THEN job.changes[n].key ELSE LastKey + 1

\* What is written and counted is what the keys up to m are to become.
AppliedTo(m) ==
    /\ lastKey <= m /\ unsorted = FALSE
    /\ \A rec \in WrittenRecords : rec.key <= m
    /\ \A k \in 1..m : \A id \in Identities : Written(k, id) <=> After(k) = id
    /\ summary \in [Types -> Nat]
    /\ \A type \in Types : summary[type] = Cardinality(Differing(type, m))

\* The base's iterator and the next change are behind them.
StandsAfter(m) ==
    /\ PassedTo(job.base, base, m) /\ m < Front(job.base, base)
    /\ change \in 1..(Len(job.changes) + 1)
    /\ \A n \in DOMAIN job.changes : n < change => job.changes[n].key <= m
    /\ m < NextKey(change)
    /\ m + 1 = Front(job.base, base) \/ m + 1 = NextKey(change)

CommittedTo(m) == AppliedTo(m) /\ StandsAfter(m)

\* One step on: the keys it handles, the records it writes.
Turns(m, K, X) ==
    /\ K \subseteq 1..LastKey /\ X \subseteq RecordSet
    /\ Walked(job.base, base', m, K)
    /\ change' \in 1..(Len(job.changes) + 1)
    /\ \A n \in DOMAIN job.changes : n < change' => job.changes[n].key <= m \/ job.changes[n].key \in K
    /\ \A k \in K : k > m /\ k < NextKey(change')
    /\ m < NextKey(change')
    /\ WrittenRecords' = WrittenRecords \cup X
    /\ unsorted' = unsorted
    /\ lastKey' = lastKey \/ lastKey' \in K
    /\ \A rec \in X : rec.key \in K
    /\ \A k \in K : \A id \in Identities : [key |-> k, id |-> id] \in X <=> After(k) = id
    /\ \A j, k \in K : Kind(j) # "same" /\ Kind(k) # "same" => j = k
    /\ summary' \in [Types -> Nat]
    /\ \A type \in Types : summary'[type] = IF \E k \in K : Kind(k) = type THEN summary[type] + 1 ELSE summary[type]

LEMMA NextKeyIs ==
    ASSUME IsRequest(job), NEW c \in 1..(Len(job.changes) + 1)
    PROVE  /\ NextKey(c) \in 1..(LastKey + 1)
           /\ c \in DOMAIN job.changes => NextKey(c) = job.changes[c].key /\ NextKey(c) \in 1..LastKey
           /\ c \notin DOMAIN job.changes => NextKey(c) = LastKey + 1 /\ c = Len(job.changes) + 1
           /\ \A n \in DOMAIN job.changes : n >= c => job.changes[n].key >= NextKey(c)
<1>1. Len(job.changes) \in Nat /\ DOMAIN job.changes = 1..Len(job.changes)
    BY ChangesAre
<1>2. c \in DOMAIN job.changes => NextKey(c) = job.changes[c].key /\ NextKey(c) \in 1..LastKey
    BY ChangesAre DEF NextKey
<1>3. c \notin DOMAIN job.changes => NextKey(c) = LastKey + 1 /\ c = Len(job.changes) + 1
    BY <1>1 DEF NextKey
<1>4. ASSUME NEW n \in DOMAIN job.changes, n >= c PROVE job.changes[n].key >= NextKey(c)
    <2>1. n \in Nat /\ c \in Nat /\ c <= Len(job.changes) /\ c \in DOMAIN job.changes
        BY <1>1, <1>4
    <2>2. job.changes[n].key \in 1..LastKey
        BY ChangesAre
    <2>3. job.changes[n].key \in Nat /\ NextKey(c) \in Nat
        BY <1>2, <2>1, <2>2, CommittedAssumption
    <2>4. CASE n = c
        BY <1>2, <2>1, <2>3, <2>4
    <2>5. CASE c < n
        <3>1. job.changes[c].key < job.changes[n].key
            BY <2>1, <2>5, ChangesAre
        <3>2. QED
            BY <1>2, <2>1, <2>3, <3>1
    <2>6. QED
        BY <1>4, <2>1, <2>4, <2>5
<1>5. NextKey(c) \in 1..(LastKey + 1)
    BY <1>2, <1>3, CommittedAssumption
<1>6. QED
    BY <1>2, <1>3, <1>4, <1>5

\* What does not change in a step.
LEMMA TheSame ==
    ASSUME job' = job
    PROVE  /\ \A k : After(k)' = After(k) /\ BaseHolds(k)' = BaseHolds(k) /\ Kind(k)' = Kind(k)
           /\ \A type, n : Differing(type, n)' = Differing(type, n)
<1>1. Applied' = Applied
    BY SidesStay
<1>2. \A k : After(k)' = After(k)
    BY <1>1 DEF After
<1>3. \A k : BaseHolds(k)' = BaseHolds(k)
    BY DEF BaseHolds
<1>4. \A k : Kind(k)' = Kind(k)
    BY <1>2, <1>3 DEF Kind
<1>5. \A type, n : Differing(type, n)' = Differing(type, n)
    BY <1>4 DEF Differing
<1>6. QED
    BY <1>2, <1>3, <1>4, <1>5

\* Of the keys that a step settles, one at most is not what it was.
OneDiffers(m, h, K) ==
    /\ m <= h /\ K \subseteq (m + 1)..h
    /\ \A k \in (m + 1)..h : k \notin K => Kind(k) = "same"
    /\ \A j, k \in K : Kind(j) # "same" /\ Kind(k) # "same" => j = k

LEMMA Counting ==
    ASSUME NEW m \in Nat, NEW h \in Nat, NEW K, OneDiffers(m, h, K), NEW type \in Types
    PROVE  Cardinality(Differing(type, h)) =
             IF \E k \in K : Kind(k) = type THEN Cardinality(Differing(type, m)) + 1
             ELSE Cardinality(Differing(type, m))
<1>0. type # "same"
    BY DEF Types
<1>0a. /\ m <= h /\ K \subseteq (m + 1)..h
       /\ \A k \in (m + 1)..h : k \notin K => Kind(k) = "same"
       /\ \A j, k \in K : Kind(j) # "same" /\ Kind(k) # "same" => j = k
    BY DEF OneDiffers
<1>1. PICK old : old = Differing(type, m)
    OBVIOUS
<1>2. PICK new : new = Differing(type, h)
    OBVIOUS
<1>3. IsFiniteSet(old)
    <2>1. 1 \in Int /\ m \in Int
        OBVIOUS
    <2>2. IsFiniteSet(1..m)
        BY <2>1, FS_Interval
    <2>3. old \subseteq 1..m
        BY <1>1 DEF Differing
    <2>4. QED
        BY <2>2, <2>3, FS_Subset
<1>4. \A k : k \in new <=> k \in old \/ (k \in K /\ Kind(k) = type)
    <2> SUFFICES ASSUME NEW k PROVE k \in new <=> k \in old \/ (k \in K /\ Kind(k) = type)
        OBVIOUS
    <2>1. k \in 1..h <=> k \in 1..m \/ k \in (m + 1)..h
        BY <1>0a
    <2>2. k \in (m + 1)..h /\ Kind(k) = type => k \in K
        BY <1>0, <1>0a
    <2>3. QED
        BY <1>0a, <1>1, <1>2, <2>1, <2>2 DEF Differing
<1>5. CASE \E k \in K : Kind(k) = type
    <2>1. PICK k \in K : Kind(k) = type
        BY <1>5
    <2>2. \A j \in K : Kind(j) = type => j = k
        BY <1>0, <1>0a, <2>1
    <2>3. new = old \cup {k}
        BY <1>4, <2>1, <2>2
    <2>4. k \notin old
        <3>1. k \in (m + 1)..h
            BY <1>0a, <2>1
        <3>2. k \notin 1..m
            BY <3>1
        <3>3. QED
            BY <1>1, <3>2 DEF Differing
    <2>5. Cardinality(new) = Cardinality(old) + 1
        BY <1>3, <2>3, <2>4, FS_AddElement
    <2>6. QED
        BY <1>1, <1>2, <1>5, <2>5
<1>6. CASE ~(\E k \in K : Kind(k) = type)
    <2>1. new = old
        BY <1>4, <1>6
    <2>2. QED
        BY <1>1, <1>2, <1>6, <2>1
<1>7. QED
    BY <1>5, <1>6

LEMMA CommitAdvances ==
    ASSUME IsRequest(job), WriterInv, job' = job, NEW m \in Nat, AppliedTo(m), NEW K, NEW X, Turns(m, K, X)
    PROVE  \E h \in Nat : m <= h /\ CommittedTo(h)'
<1> DEFINE fb == Front(job.base, base')
           fc == NextKey(change')
<1>0. IsMetaRange(job.base)
    BY ChangesAre
<1>1. fb \in 1..(LastKey + 1) /\ fc \in 1..(LastKey + 1) /\ m < fb /\ m < fc
    <2>1. fb \in 1..(LastKey + 1) /\ m < fb
        BY <1>0, WhereItStands DEF Turns, Walked
    <2>2. fc \in 1..(LastKey + 1) /\ m < fc
        BY NextKeyIs DEF Turns
    <2>3. QED
        BY <2>1, <2>2
<1>2. \A k \in K : k \in Nat /\ k > m /\ k < fb /\ k < fc
    BY CommittedAssumption DEF Turns, Walked
<1>3. \A k \in DOMAIN Contents(job.base) : k > m => k \in K \/ k >= fb
    BY DEF Turns, Walked
<1>4. \A n \in DOMAIN job.changes : n >= change' => job.changes[n].key >= fc
    BY NextKeyIs DEF Turns
<1>5. Stands(job.base, base')
    BY DEF Turns, Walked
<1> HIDE DEF fb, fc
<1>6. PICK h \in Nat : m <= h /\ h < fb /\ h < fc /\ (h + 1 = fb \/ h + 1 = fc)
    <2>1. CASE fb <= fc
        <3>1. fb - 1 \in Nat /\ m <= fb - 1 /\ fb - 1 < fb /\ fb - 1 < fc /\ fb - 1 + 1 = fb
            BY <1>1, <2>1, CommittedAssumption
        <3>2. QED
            BY <3>1
    <2>2. CASE fc <= fb
        <3>1. fc - 1 \in Nat /\ m <= fc - 1 /\ fc - 1 < fc /\ fc - 1 < fb /\ fc - 1 + 1 = fc
            BY <1>1, <2>2, CommittedAssumption
        <3>2. QED
            BY <3>1
    <2>3. QED
        BY <1>1, <2>1, <2>2, CommittedAssumption
<1>7. \A k \in K : k \in (m + 1)..h
    <2> SUFFICES ASSUME NEW k \in K PROVE k \in (m + 1)..h
        OBVIOUS
    <2>1. k \in Nat /\ k > m /\ k < fb /\ k < fc
        BY <1>2
    <2>2. QED
        BY <1>6, <1>1, <2>1, CommittedAssumption
\* Between the keys that the step handles there is nothing.
<1>8. ASSUME NEW k \in (m + 1)..h, k \notin K PROVE After(k) = 0 /\ BaseHolds(k) = 0 /\ Kind(k) = "same"
    <2>1. k \in Nat /\ k > m /\ ~(k >= fb) /\ ~(k >= fc) /\ ~(k <= m)
        BY <1>1, <1>6, CommittedAssumption
    <2>2. k \notin DOMAIN Contents(job.base)
        BY <1>3, <1>8, <2>1
    <2>3. BaseHolds(k) = 0
        BY <1>0, <2>2, HeldBy DEF BaseHolds
    <2>4. ASSUME NEW n \in DOMAIN job.changes, job.changes[n].key = k PROVE FALSE
        <3>1. n \in Nat /\ change' \in Nat
            BY ChangesAre DEF Turns
        <3>2. CASE n < change'
            BY <1>8, <2>1, <2>4, <3>2 DEF Turns
        <3>3. CASE n >= change'
            BY <1>4, <2>1, <2>4, <3>3
        <3>4. QED
            BY <3>1, <3>2, <3>3
    <2>5. After(k) = BaseHolds(k)
        BY <2>4, AppliedIs
    <2>6. QED
        BY <2>3, <2>5 DEF Kind
<1>9. ASSUME NEW k \in 1..h, NEW id \in Identities
      PROVE  Written(k, id)' <=> After(k)' = id
    <2>0. After(k)' = After(k)
        BY TheSame
    <2>1. Written(k, id)' <=> Written(k, id) \/ [key |-> k, id |-> id] \in X
        BY DEF Written, Turns
    <2>2. [key |-> k, id |-> id].key = k
        OBVIOUS
    <2>3. CASE k \in 1..m
        <3>1. Written(k, id) <=> After(k) = id
            BY <2>3 DEF AppliedTo
        <3>2. k \notin K
            BY <1>7, <2>3
        <3>3. [key |-> k, id |-> id] \notin X
            BY <2>2, <3>2 DEF Turns
        <3>4. QED
            BY <2>0, <2>1, <3>1, <3>3
    <2>4. CASE k \in (m + 1)..h
        <3>1. ~Written(k, id)
            <4>1. ~(k <= m)
                BY <2>4
            <4>2. QED
                BY <2>2, <4>1 DEF Written, AppliedTo
        <3>2. CASE k \in K
            BY <2>0, <2>1, <3>1, <3>2 DEF Turns
        <3>3. CASE k \notin K
            <4>1. [key |-> k, id |-> id] \notin X
                BY <2>2, <3>3 DEF Turns
            <4>2. After(k) # id
                BY <1>8, <2>4, <3>3 DEF Identities
            <4>3. QED
                BY <2>0, <2>1, <3>1, <4>1, <4>2
        <3>4. QED
            BY <3>2, <3>3
    <2>5. k \in 1..m \/ k \in (m + 1)..h
        BY <1>6
    <2>6. QED
        BY <2>3, <2>4, <2>5
<1>10. ASSUME NEW rec \in WrittenRecords' PROVE rec.key <= h
    <2>1. rec \in WrittenRecords \/ rec \in X
        BY DEF Turns
    <2>2. CASE rec \in X
        <3>1. rec.key \in (m + 1)..h
            BY <1>7, <2>2 DEF Turns
        <3>2. QED
            BY <3>1
    <2>3. CASE rec \in WrittenRecords
        <3>1. rec.key <= m /\ rec.key \in 1..LastKey
            BY <2>3, WrittenAre DEF AppliedTo
        <3>2. PICK k : k = rec.key
            OBVIOUS
        <3>3. k \in Nat /\ k <= m
            BY <3>1, <3>2, CommittedAssumption
        <3>4. QED
            BY <1>6, <3>2, <3>3
    <2>4. QED
        BY <2>1, <2>2, <2>3
<1>11. lastKey' <= h /\ unsorted' = FALSE
    <2>1. lastKey' = lastKey \/ lastKey' \in (m + 1)..h
        BY <1>7 DEF Turns
    <2>1a. lastKey \in 0..LastKey
        BY DEF WriterInv
    <2>1b. lastKey <= m /\ unsorted = FALSE
        BY DEF AppliedTo
    <2>2. lastKey <= m /\ lastKey \in Nat /\ unsorted = FALSE
        BY <2>1a, <2>1b, CommittedAssumption
    <2>3. unsorted' = FALSE
        BY <2>2 DEF Turns
    <2>4. QED
        BY <1>6, <2>1, <2>2, <2>3
<1>12. summary' \in [Types -> Nat]
    BY DEF Turns
<1>13. ASSUME NEW type \in Types
       PROVE  summary'[type] = Cardinality(Differing(type, h))
    <2>1. K \subseteq (m + 1)..h
        BY <1>7
    <2>2. \A k \in (m + 1)..h : k \notin K => Kind(k) = "same"
        BY <1>8
    <2>3. \A j, k \in K : Kind(j) # "same" /\ Kind(k) # "same" => j = k
        BY DEF Turns
    <2>4. Cardinality(Differing(type, h)) =
             IF \E k \in K : Kind(k) = type THEN Cardinality(Differing(type, m)) + 1
             ELSE Cardinality(Differing(type, m))
        <3>1. m <= h
            BY <1>6
        <3>2. OneDiffers(m, h, K)
            BY <2>1, <2>2, <2>3, <3>1 DEF OneDiffers
        <3>3. QED
            BY <3>2, Counting
    <2>5. summary'[type] = IF \E k \in K : Kind(k) = type THEN summary[type] + 1 ELSE summary[type]
        BY DEF Turns
    <2>6. summary[type] = Cardinality(Differing(type, m))
        BY DEF AppliedTo
    <2>7. QED
        BY <2>4, <2>5, <2>6
<1>14. AppliedTo(h)'
    <2>1. \A type \in Types : Differing(type, h)' = Differing(type, h)
        BY TheSame
    <2>2. Types' = Types
        BY DEF Types
    <2>3. \A type \in Types : summary'[type] = Cardinality(Differing(type, h)')
        BY <1>13, <2>1
    <2>4. QED
        BY <1>9, <1>10, <1>11, <1>12, <2>2, <2>3 DEF AppliedTo
<1>15. PassedTo(job.base, base', h)
    <2>1. ASSUME NEW k \in DOMAIN Contents(job.base), k > h PROVE k >= fb
        <3>1. k \in Nat
            BY <1>0, HeldBy, CommittedAssumption
        <3>2. k > m /\ ~(k \in (m + 1)..h)
            BY <1>6, <2>1, <3>1
        <3>3. QED
            BY <1>3, <1>7, <3>2
    <2>2. QED
        BY <1>5, <2>1 DEF PassedTo, fb
<1>16. ASSUME NEW n \in DOMAIN job.changes, n < change' PROVE job.changes[n].key <= h
    <2>1. PICK k : k = job.changes[n].key
        OBVIOUS
    <2>2. k <= m \/ k \in K
        BY <1>16, <2>1 DEF Turns
    <2>3. k \in 1..LastKey
        BY <2>1, ChangesAre
    <2>4. k \in Nat
        BY <2>3, CommittedAssumption
    <2>5. k \in K => k <= h
        BY <1>7
    <2>6. k <= h
        BY <1>6, <2>2, <2>4, <2>5
    <2>7. QED
        BY <2>1, <2>6
<1>17. StandsAfter(h)'
    <2>1. NextKey(change)' = fc
        BY DEF NextKey, fc
    <2>2. Front(job.base, base)' = fb
        BY DEF fb
    <2>3. PassedTo(job.base, base, h)'
        BY <1>15
    <2>4. change' \in 1..(Len(job.changes) + 1)
        BY DEF Turns
    <2>5. QED
        BY <1>6, <1>16, <2>1, <2>2, <2>3, <2>4 DEF StandsAfter
<1>18. QED
    BY <1>6, <1>14, <1>17 DEF CommittedTo

LEMMA Behind ==
    ASSUME IsRequest(job), NEW m \in Nat, CommittedTo(m)
    PROVE  /\ IsMetaRange(job.base) /\ PassedTo(job.base, base, m) /\ m < Front(job.base, base)
           /\ Stands(job.base, base) /\ Front(job.base, base) \in 1..(LastKey + 1)
           /\ NextKey(change) \in 1..(LastKey + 1) /\ m < NextKey(change)
           /\ change \in 1..(Len(job.changes) + 1) /\ change \in Nat
           /\ \A n \in DOMAIN job.changes : n < change => job.changes[n].key <= m
           /\ summary \in [Types -> Nat]
           /\ \A k \in 1..LastKey : k > m /\ k < NextKey(change) => After(k) = BaseHolds(k) /\ Kind(k) = "same"
<1>1. /\ PassedTo(job.base, base, m) /\ m < Front(job.base, base)
      /\ change \in 1..(Len(job.changes) + 1)
      /\ \A n \in DOMAIN job.changes : n < change => job.changes[n].key <= m
      /\ m < NextKey(change) /\ summary \in [Types -> Nat]
    BY DEF CommittedTo, StandsAfter, AppliedTo
<1>2. IsMetaRange(job.base) /\ Stands(job.base, base) /\ Front(job.base, base) \in 1..(LastKey + 1)
    BY <1>1, ChangesAre, WhereItStands DEF PassedTo
<1>3. NextKey(change) \in 1..(LastKey + 1)
    BY <1>1, NextKeyIs
<1>4. change \in Nat
    BY <1>1, ChangesAre
<1>5. ASSUME NEW k \in 1..LastKey, k > m, k < NextKey(change) PROVE After(k) = BaseHolds(k) /\ Kind(k) = "same"
    <2>1. ASSUME NEW n \in DOMAIN job.changes, job.changes[n].key = k PROVE FALSE
        <3>1. n \in Nat
            BY ChangesAre
        <3>2. CASE n < change
            <4>1. k <= m
                BY <1>1, <2>1, <3>2
            <4>2. QED
                BY <1>5, <4>1, CommittedAssumption
        <3>3. CASE n >= change
            <4>1. k >= NextKey(change)
                BY <1>1, <2>1, <3>3, NextKeyIs
            <4>2. QED
                BY <1>3, <1>5, <4>1, CommittedAssumption
        <3>4. QED
            BY <1>4, <3>1, <3>2, <3>3
    <2>2. After(k) = BaseHolds(k)
        BY <2>1, AppliedIs
    <2>3. QED
        BY <2>2 DEF Kind
<1>6. QED
    BY <1>1, <1>2, <1>3, <1>4, <1>5

LEMMA BaseRangeKept ==
    ASSUME IsRequest(job), WriterInv, NEW m \in Nat, CommittedTo(m),
           AtRange(job.base, base), MaxKey(BaseRange) < NextKey(change),
           WriteRange(BaseRange), base' = NextRange(job.base, base), change' = change, summary' = summary
    PROVE  Turns(m, KeysOf(BaseRange), Seqs!ToSet(BaseRange))
<1> DEFINE r == BaseRange
<1>1. base.range \in DOMAIN job.base /\ r = job.base[base.range] /\ IsMetaRange(job.base)
    BY Behind DEF AtRange, Have, BaseRange, RangeAt
<1>2. Walked(job.base, base', m, KeysOf(r)) /\ Front(job.base, base) = MinKey(r)
    <2>1. Walked(job.base, base', m, KeysOf(job.base[base.range]))
        BY <1>1, Behind, SourceWalks
    <2>2. QED
        BY <1>1, <2>1, Behind, WhereItStands
<1>3. IsRange(r) /\ KeysOf(r) \subseteq 1..LastKey /\ MinKey(r) \in 1..LastKey /\ MaxKey(r) \in KeysOf(r)
      /\ MaxKey(r) \in 1..LastKey
    BY <1>1, KeysOfRange, RangesAre
<1>4. \A k \in KeysOf(r) : /\ MinKey(r) <= k /\ k <= MaxKey(r) /\ IdOf(job.base, k) \in Identities
                           /\ \A id : [key |-> k, id |-> id] \in Seqs!ToSet(r) <=> id = IdOf(job.base, k)
    BY <1>1, KeysOfRange, RangeIds
<1>5. \A rec \in Seqs!ToSet(r) : rec \in RecordSet /\ rec.key \in KeysOf(r)
    BY <1>1, RangeIds
<1> HIDE DEF r
<1>6. MinKey(r) > m /\ MinKey(r) > lastKey
    <2>1. lastKey <= m /\ lastKey \in 0..LastKey
        BY DEF CommittedTo, AppliedTo, WriterInv
    <2>2. MinKey(r) > m
        BY <1>2, <1>3, Behind, CommittedAssumption
    <2>3. QED
        BY <1>3, <2>1, <2>2, CommittedAssumption
<1>7. WrittenRecords' = WrittenRecords \cup Seqs!ToSet(r) /\ lastKey' = MaxKey(r) /\ unsorted' = unsorted
    BY <1>3, <1>6, RangeWritten DEF r
<1>8. ASSUME NEW k \in KeysOf(r)
      PROVE  k > m /\ k < NextKey(change) /\ After(k) = BaseHolds(k) /\ Kind(k) = "same" /\ k \in 1..LastKey
    <2>1. k \in 1..LastKey
        BY <1>3
    <2>2. NextKey(change) \in 1..(LastKey + 1) /\ MaxKey(r) < NextKey(change)
        BY Behind DEF r
    <2>3. MinKey(r) <= k /\ k <= MaxKey(r)
        BY <1>4
    <2>4. k > m /\ k < NextKey(change)
        BY <1>3, <1>6, <2>1, <2>2, <2>3, CommittedAssumption
    <2>5. QED
        BY <2>1, <2>4, Behind
<1>9. \A k \in KeysOf(r) : \A id \in Identities : [key |-> k, id |-> id] \in Seqs!ToSet(r) <=> After(k) = id
    BY <1>4, <1>8 DEF BaseHolds
<1>10. ASSUME NEW type \in Types
       PROVE  summary'[type] = IF \E k \in KeysOf(r) : Kind(k) = type THEN summary[type] + 1 ELSE summary[type]
    BY <1>8 DEF Types
<1>11. /\ change' \in 1..(Len(job.changes) + 1) /\ m < NextKey(change') /\ summary' \in [Types -> Nat]
       /\ \A n \in DOMAIN job.changes : n < change' => job.changes[n].key <= m
    BY Behind
<1>12. \A k \in KeysOf(r) : k > m /\ k < NextKey(change')
    BY <1>8
<1>13. Turns(m, KeysOf(r), Seqs!ToSet(r))
    BY <1>2, <1>3, <1>5, <1>7, <1>8, <1>9, <1>10, <1>11, <1>12 DEF Turns
<1>14. QED
    BY <1>13 DEF r

LEMMA BaseEntered ==
    ASSUME IsRequest(job), NEW m \in Nat, CommittedTo(m),
           AtRange(job.base, base), WriteNothing, base' = Next1(job.base, base), change' = change, summary' = summary
    PROVE  Turns(m, {}, {})
<1>1. Walked(job.base, base', m, {})
    BY Behind, SourceWalks
<1>2. WrittenRecords' = WrittenRecords /\ lastKey' = lastKey /\ unsorted' = unsorted
    BY DEF WriteNothing, writerVars, WrittenRecords, WrittenRanges, AllOf, Closing
<1>3. /\ change' \in 1..(Len(job.changes) + 1) /\ m < NextKey(change') /\ summary' \in [Types -> Nat]
      /\ \A n \in DOMAIN job.changes : n < change' => job.changes[n].key <= m
    BY Behind
<1>4. QED
    BY <1>1, <1>2, <1>3 DEF Turns

LEMMA BaseRecordIs ==
    ASSUME IsRequest(job), NEW m \in Nat, CommittedTo(m), AtRecord(job.base, base)
    PROVE  /\ BaseRecord \in RecordSet /\ BaseRecord.id \in Identities /\ BaseRecord.key \in 1..LastKey
           /\ BaseRecord.key > m /\ BaseRecord.key = Front(job.base, base)
           /\ BaseRecord = [key |-> BaseRecord.key, id |-> BaseRecord.id]
           /\ BaseHolds(BaseRecord.key) = BaseRecord.id
           /\ Walked(job.base, Next1(job.base, base), m, {BaseRecord.key})
<1>1. /\ IsMetaRange(job.base) /\ base.range \in DOMAIN job.base /\ base.rec \in DOMAIN job.base[base.range]
      /\ Front(job.base, base) = job.base[base.range][base.rec].key
    BY Behind, WhereItStands DEF Have
<1>2. BaseRecord = job.base[base.range][base.rec]
    BY DEF BaseRecord, Record
<1>3. BaseRecord.id \in Identities /\ BaseRecord.key \in 1..LastKey
      /\ BaseRecord = [key |-> BaseRecord.key, id |-> BaseRecord.id]
    BY <1>1, <1>2, RangeTypes DEF Identities
<1>4. BaseHolds(BaseRecord.key) = BaseRecord.id
    BY <1>1, <1>2, Holds DEF BaseHolds
<1>5. BaseRecord.key > m /\ BaseRecord.key = Front(job.base, base)
    BY <1>1, <1>2, <1>3, Behind, CommittedAssumption
<1>6. Walked(job.base, Next1(job.base, base), m, {BaseRecord.key})
    BY <1>5, Behind, SourceWalks
<1>7. BaseRecord \in RecordSet
    BY <1>3 DEF RecordSet
<1>8. QED
    BY <1>3, <1>4, <1>5, <1>6, <1>7

LEMMA BaseRecordKept ==
    ASSUME IsRequest(job), WriterInv, NEW m \in Nat, CommittedTo(m),
           AtRecord(job.base, base), BaseRecord.key < NextKey(change),
           WriteRecord(BaseRecord), base' = Next1(job.base, base), change' = change, summary' = summary
    PROVE  Turns(m, {BaseRecord.key}, {BaseRecord})
<1>1. PICK rec : rec = BaseRecord
    OBVIOUS
<1>2. PICK k : k = rec.key
    OBVIOUS
<1>3. /\ rec \in RecordSet /\ rec.id \in Identities /\ k \in 1..LastKey /\ k > m
      /\ rec = [key |-> k, id |-> rec.id] /\ BaseHolds(k) = rec.id
      /\ Walked(job.base, base', m, {k})
    BY <1>1, <1>2, BaseRecordIs
<1>4. After(k) = rec.id /\ Kind(k) = "same"
    BY <1>1, <1>2, <1>3, Behind
<1>5. k > lastKey
    <2>1. lastKey <= m /\ lastKey \in 0..LastKey
        BY DEF CommittedTo, AppliedTo, WriterInv
    <2>2. QED
        BY <1>3, <2>1, CommittedAssumption
<1>6. WrittenRecords' = WrittenRecords \cup {rec} /\ lastKey' = k /\ unsorted' = unsorted
    BY <1>1, <1>2, <1>3, <1>5, RecordWritten
<1>7. \A id \in Identities : [key |-> k, id |-> id] \in {rec} <=> After(k) = id
    BY <1>3, <1>4
<1>8. /\ change' \in 1..(Len(job.changes) + 1) /\ m < NextKey(change') /\ summary' \in [Types -> Nat]
      /\ \A n \in DOMAIN job.changes : n < change' => job.changes[n].key <= m
    BY Behind
<1>9. k < NextKey(change')
    BY <1>1, <1>2
<1>10. \A type \in Types : Kind(k) # type
    BY <1>4 DEF Types
<1>11. Turns(m, {k}, {rec})
    BY <1>2, <1>3, <1>6, <1>7, <1>8, <1>9, <1>10 DEF Turns
<1>12. QED
    BY <1>1, <1>2, <1>11

LEMMA ChangeIs ==
    ASSUME IsRequest(job), NEW m \in Nat, CommittedTo(m), HaveChanges
    PROVE  /\ Change.key \in 1..LastKey /\ Change.key = NextKey(change) /\ Change.key > m
           /\ Change = [key |-> Change.key, id |-> Change.id]
           /\ Change.id = Tombstone => After(Change.key) = 0
           /\ Change.id # Tombstone => /\ After(Change.key) = Change.id /\ Change.id \in Identities
                                       /\ Change \in RecordSet
           /\ change + 1 \in 1..(Len(job.changes) + 1)
           /\ Change.key < NextKey(change + 1) /\ m < NextKey(change + 1)
           /\ \A n \in DOMAIN job.changes : n < change + 1 => job.changes[n].key <= m \/ job.changes[n].key = Change.key
<1>1. change \in DOMAIN job.changes /\ Change = job.changes[change] /\ change \in 1..(Len(job.changes) + 1)
    BY Behind DEF HaveChanges, Change
<1>2. /\ Change.key \in 1..LastKey /\ Change.key = NextKey(change)
      /\ Change = [key |-> Change.key, id |-> Change.id]
    BY <1>1, ChangesAre, NextKeyIs
<1>3. Change.key > m
    BY <1>2, Behind, CommittedAssumption
<1>4. /\ Change.id = Tombstone => After(Change.key) = 0
      /\ Change.id # Tombstone => After(Change.key) = Change.id /\ Change.id \in Identities
    BY <1>1, AppliedIs
<1>5. Change.id # Tombstone => Change \in RecordSet
    BY <1>2, <1>4 DEF RecordSet
<1>6. Len(job.changes) \in Nat /\ DOMAIN job.changes = 1..Len(job.changes) /\ change \in Nat
    BY <1>1, ChangesAre
<1>7. change + 1 \in 1..(Len(job.changes) + 1)
    BY <1>1, <1>6
<1>8. Change.key < NextKey(change + 1)
    <2>1. CASE change + 1 \in DOMAIN job.changes
        <3>1. NextKey(change + 1) = job.changes[change + 1].key
            BY <1>7, <2>1, NextKeyIs
        <3>2. change < change + 1
            BY <1>6
        <3>3. job.changes[change].key < job.changes[change + 1].key
            BY <1>1, <2>1, <3>2, ChangesAre
        <3>4. QED
            BY <1>1, <3>1, <3>3
    <2>2. CASE change + 1 \notin DOMAIN job.changes
        <3>1. NextKey(change + 1) = LastKey + 1
            BY <1>7, <2>2, NextKeyIs
        <3>2. QED
            BY <1>2, <3>1, CommittedAssumption
    <2>3. QED
        BY <2>1, <2>2
<1>9. m < NextKey(change + 1)
    <2>1. NextKey(change + 1) \in 1..(LastKey + 1)
        BY <1>7, NextKeyIs
    <2>2. QED
        BY <1>2, <1>3, <1>8, <2>1, CommittedAssumption
<1>10. ASSUME NEW n \in DOMAIN job.changes, n < change + 1
       PROVE  job.changes[n].key <= m \/ job.changes[n].key = Change.key
    <2>1. n < change \/ n = change
        BY <1>6, <1>10
    <2>2. QED
        BY <1>1, <2>1, Behind
<1>11. QED
    BY <1>2, <1>3, <1>4, <1>5, <1>7, <1>8, <1>9, <1>10

\* What a change to a key counts for.
Counts(k) ==
    \/ Kind(k) = "same" /\ summary' = summary
    \/ Kind(k) # "same" /\ summary' = [summary EXCEPT ![Kind(k)] = @ + 1]

LEMMA CountsOne ==
    ASSUME summary \in [Types -> Nat], NEW k, Counts(k)
    PROVE  /\ summary' \in [Types -> Nat]
           /\ \A type \in Types : summary'[type] = IF Kind(k) = type THEN summary[type] + 1 ELSE summary[type]
<1>1. CASE Kind(k) = "same"
    <2>1. \A type \in Types : type # "same"
        BY DEF Types
    <2>2. summary' = summary
        BY <1>1 DEF Counts
    <2>3. QED
        BY <1>1, <2>1, <2>2
<1>2. CASE Kind(k) # "same"
    <2>1. PICK t : t = Kind(k)
        OBVIOUS
    <2>2. t \in Types
        BY <1>2, <2>1 DEF Kind, Types
    <2>3. summary' = [summary EXCEPT ![t] = summary[t] + 1]
        BY <1>2, <2>1 DEF Counts
    <2>4. summary[t] + 1 \in Nat
        BY <2>2
    <2>5. summary' \in [Types -> Nat]
        BY <2>3, <2>4
    <2>6. \A type \in Types : summary'[type] = IF t = type THEN summary[type] + 1 ELSE summary[type]
        BY <2>2, <2>3
    <2>7. QED
        BY <2>1, <2>5, <2>6
<1>3. QED
    BY <1>1, <1>2

LEMMA ChangeDone ==
    ASSUME IsRequest(job), WriterInv, NEW m \in Nat, CommittedTo(m), HaveChanges,
           \/ Change.key < Front(job.base, base) /\ base' = base
           \/ AtRecord(job.base, base) /\ Change.key = BaseRecord.key /\ base' = Next1(job.base, base),
           NEW X, \/ X = {} /\ Change.id = Tombstone /\ WriteNothing
                  \/ X = {Change} /\ Change.id # Tombstone /\ WriteRecord(Change),
           change' = change + 1, Counts(Change.key)
    PROVE  Turns(m, {Change.key}, X)
<1>1. PICK c : c = Change
    OBVIOUS
<1>2. PICK k : k = c.key
    OBVIOUS
<1>3. /\ k \in 1..LastKey /\ k > m /\ c = [key |-> k, id |-> c.id]
      /\ c.id = Tombstone => After(k) = 0
      /\ c.id # Tombstone => After(k) = c.id /\ c.id \in Identities /\ c \in RecordSet
      /\ change' \in 1..(Len(job.changes) + 1)
      /\ k < NextKey(change') /\ m < NextKey(change')
      /\ \A n \in DOMAIN job.changes : n < change' => job.changes[n].key <= m \/ job.changes[n].key \in {k}
    BY <1>1, <1>2, ChangeIs
<1>4. Walked(job.base, base', m, {k})
    <2>1. CASE k < Front(job.base, base) /\ base' = base
        <3>1. Walked(job.base, base, m, {})
            BY Behind, SourceWalks
        <3>2. QED
            BY <2>1, <3>1 DEF Walked
    <2>2. CASE AtRecord(job.base, base) /\ k = BaseRecord.key /\ base' = Next1(job.base, base)
        BY <2>2, BaseRecordIs
    <2>3. QED
        BY <1>1, <1>2, <2>1, <2>2
<1>5. k > lastKey
    <2>1. lastKey <= m /\ lastKey \in 0..LastKey
        BY DEF CommittedTo, AppliedTo, WriterInv
    <2>2. QED
        BY <1>3, <2>1, CommittedAssumption
<1>6. /\ WrittenRecords' = WrittenRecords \cup X /\ unsorted' = unsorted
      /\ lastKey' = lastKey \/ lastKey' = k
      /\ X \subseteq RecordSet /\ \A rec \in X : rec.key = k
      /\ \A id \in Identities : [key |-> k, id |-> id] \in X <=> After(k) = id
    <2>1. CASE X = {} /\ c.id = Tombstone /\ WriteNothing
        <3>1. WrittenRecords' = WrittenRecords /\ lastKey' = lastKey /\ unsorted' = unsorted
            BY <2>1 DEF WriteNothing, writerVars, WrittenRecords, WrittenRanges, AllOf, Closing
        <3>2. After(k) = 0 /\ \A id \in Identities : id # 0
            BY <1>3, <2>1 DEF Identities
        <3>3. QED
            BY <2>1, <3>1, <3>2
    <2>2. CASE X = {c} /\ c.id # Tombstone /\ WriteRecord(c)
        <3>1. c \in RecordSet /\ After(k) = c.id
            BY <1>3, <2>2
        <3>2. WrittenRecords' = WrittenRecords \cup {c} /\ lastKey' = k /\ unsorted' = unsorted
            BY <1>2, <1>5, <2>2, <3>1, RecordWritten
        <3>3. \A id \in Identities : [key |-> k, id |-> id] \in {c} <=> After(k) = id
            BY <1>3, <3>1
        <3>4. QED
            BY <1>2, <2>2, <3>1, <3>2, <3>3
    <2>3. QED
        BY <1>1, <2>1, <2>2
<1>7. /\ summary' \in [Types -> Nat]
      /\ \A type \in Types : summary'[type] = IF Kind(k) = type THEN summary[type] + 1 ELSE summary[type]
    BY <1>1, <1>2, Behind, CountsOne
<1>8. Turns(m, {k}, X)
    BY <1>3, <1>4, <1>6, <1>7 DEF Turns
<1>9. QED
    BY <1>1, <1>2, <1>8

\* An action of a commit between its start and its end.
Applying == ApplyBaseRange \/ ApplyNextKey \/ ApplyAllBase \/ ApplyAllChanges

LEMMA BaseFront ==
    ASSUME IsRequest(job), NEW m \in Nat, CommittedTo(m)
    PROVE  /\ HaveBase <=> AtRange(job.base, base) \/ AtRecord(job.base, base)
           /\ ~HaveBase => Front(job.base, base) = LastKey + 1
           /\ AtRange(job.base, base) => /\ Front(job.base, base) = MinKey(BaseRange)
                                         /\ MaxKey(BaseRange) \in 1..LastKey /\ MinKey(BaseRange) \in 1..LastKey
           /\ AtRecord(job.base, base) => BaseRecord.key = Front(job.base, base) /\ BaseRecord.key \in 1..LastKey
           /\ ~HaveChanges => NextKey(change) = LastKey + 1
           /\ HaveChanges => NextKey(change) = Change.key /\ Change.key \in 1..LastKey
<1>1. /\ HaveBase <=> AtRange(job.base, base) \/ AtRecord(job.base, base)
      /\ ~HaveBase => Front(job.base, base) = LastKey + 1
      /\ AtRange(job.base, base) => Front(job.base, base) = MinKey(job.base[base.range])
    BY Behind, WhereItStands DEF HaveBase
<1>2. AtRange(job.base, base) => /\ base.range \in DOMAIN job.base /\ BaseRange = job.base[base.range]
    BY DEF AtRange, Have, BaseRange, RangeAt
<1>3. AtRange(job.base, base) => MaxKey(BaseRange) \in 1..LastKey /\ MinKey(BaseRange) \in 1..LastKey
    BY <1>2, Behind, KeysOfRange
<1>4. AtRecord(job.base, base) => BaseRecord.key = Front(job.base, base) /\ BaseRecord.key \in 1..LastKey
    BY BaseRecordIs
<1>5. ~HaveChanges => NextKey(change) = LastKey + 1
    BY DEF HaveChanges, NextKey
<1>6. HaveChanges => NextKey(change) = Change.key /\ Change.key \in 1..LastKey
    BY ChangeIs
<1>7. QED
    BY <1>1, <1>2, <1>3, <1>4, <1>5, <1>6

LEMMA ApplyingTurns ==
    ASSUME IsRequest(job), WriterInv, NEW m \in Nat, CommittedTo(m), Applying
    PROVE  job' = job /\ \E K, X : Turns(m, K, X)
<1>0. job' = job
    BY DEF Applying, ApplyBaseRange, ApplyNextKey, ApplyAllBase, ApplyAllChanges, CommitGoes
<1>1. CASE ApplyBaseRange
    <2>1. AtRange(job.base, base) /\ HaveChanges /\ change' = change /\ summary' = summary
        BY <1>1 DEF ApplyBaseRange
    <2>2. CASE MaxKey(BaseRange) < Change.key /\ WriteRange(BaseRange) /\ base' = NextRange(job.base, base)
        <3>1. MaxKey(BaseRange) < NextKey(change)
            BY <2>1, <2>2, BaseFront
        <3>2. Turns(m, KeysOf(BaseRange), Seqs!ToSet(BaseRange))
            BY <2>1, <2>2, <3>1, BaseRangeKept
        <3>3. QED
            BY <1>0, <3>2
    <2>3. CASE WriteNothing /\ base' = Next1(job.base, base)
        <3>1. Turns(m, {}, {})
            BY <2>1, <2>3, BaseEntered
        <3>2. QED
            BY <1>0, <3>1
    <2>4. QED
        BY <1>0, <1>1, <2>2, <2>3 DEF ApplyBaseRange
<1>2. CASE ApplyNextKey
    <2>1. AtRecord(job.base, base) /\ HaveChanges /\ NextKey(change) = Change.key
          /\ BaseRecord.key \in 1..LastKey /\ Change.key \in 1..LastKey /\ BaseRecord.key = Front(job.base, base)
        BY <1>2, BaseFront DEF ApplyNextKey
    <2>2. /\ change' = IF BaseRecord.key >= Change.key THEN change + 1 ELSE change
          /\ base' = IF BaseRecord.key <= Change.key THEN Next1(job.base, base) ELSE base
        BY <1>2 DEF ApplyNextKey
    <2>3. CASE BaseRecord.key < Change.key
        <3>1. WriteRecord(BaseRecord) /\ summary' = summary
            BY <1>2, <2>3 DEF ApplyNextKey
        <3>2. ~(BaseRecord.key >= Change.key) /\ BaseRecord.key <= Change.key
            BY <2>1, <2>3, CommittedAssumption
        <3>3. Turns(m, {BaseRecord.key}, {BaseRecord})
            BY <2>1, <2>2, <2>3, <3>1, <3>2, BaseRecordKept
        <3>4. QED
            BY <1>0, <3>3
    <2>4. CASE BaseRecord.key >= Change.key
        <3>1. ApplyTombstone \/ ApplyValue
            <4>1. ~(BaseRecord.key < Change.key)
                BY <2>1, <2>4, CommittedAssumption
            <4>2. QED
                BY <1>2, <4>1 DEF ApplyNextKey
        <3>2. change' = change + 1
            BY <2>2, <2>4
        <3>3. \/ Change.key < Front(job.base, base) /\ base' = base
              \/ Change.key = BaseRecord.key /\ base' = Next1(job.base, base)
            <4>1. CASE BaseRecord.key = Change.key
                <5>1. BaseRecord.key <= Change.key
                    BY <2>1, <4>1, CommittedAssumption
                <5>2. QED
                    BY <2>2, <4>1, <5>1
            <4>2. CASE BaseRecord.key # Change.key
                <5>1. ~(BaseRecord.key <= Change.key) /\ Change.key < BaseRecord.key
                    BY <2>1, <2>4, <4>2, CommittedAssumption
                <5>2. QED
                    BY <2>1, <2>2, <5>1
            <4>3. QED
                BY <4>1, <4>2
        <3>4. /\ BaseRecord.key = Change.key => BaseHolds(Change.key) = BaseRecord.id /\ BaseRecord.id # 0
              /\ BaseRecord.key # Change.key => BaseHolds(Change.key) = 0
              /\ BaseRecord = [key |-> BaseRecord.key, id |-> BaseRecord.id]
            <4>1. BaseHolds(BaseRecord.key) = BaseRecord.id /\ BaseRecord.id # 0
                  /\ BaseRecord = [key |-> BaseRecord.key, id |-> BaseRecord.id]
                BY <2>1, BaseRecordIs DEF Identities
            <4>2. ASSUME BaseRecord.key # Change.key PROVE BaseHolds(Change.key) = 0
                <5>1. Change.key < Front(job.base, base) /\ Change.key > m
                    BY <2>1, <2>4, <4>2, ChangeIs, CommittedAssumption
                <5>2. ~(Change.key >= Front(job.base, base))
                    BY <2>1, <5>1, CommittedAssumption
                <5>3. Change.key \notin DOMAIN Contents(job.base)
                    BY <5>1, <5>2, Behind DEF PassedTo
                <5>4. QED
                    BY <5>3, Behind, HeldBy DEF BaseHolds
            <4>3. QED
                BY <4>1, <4>2
        <3>5. CASE ApplyTombstone
            <4>1. Change.id = Tombstone /\ WriteNothing /\ After(Change.key) = 0
                BY <2>1, <3>5, ChangeIs DEF ApplyTombstone
            <4>2. Counts(Change.key)
                <5>1. CASE BaseRecord.key = Change.key
                    <6>1. Kind(Change.key) = "removed"
                        BY <3>4, <4>1, <5>1 DEF Kind
                    <6>2. summary' = [summary EXCEPT !["removed"] = @ + 1]
                        BY <3>5, <5>1 DEF ApplyTombstone, Reported
                    <6>3. QED
                        BY <6>1, <6>2 DEF Counts
                <5>2. CASE BaseRecord.key # Change.key
                    <6>1. Kind(Change.key) = "same"
                        BY <3>4, <4>1, <5>2 DEF Kind
                    <6>2. summary' = summary
                        BY <3>5, <5>2 DEF ApplyTombstone
                    <6>3. QED
                        BY <6>1, <6>2 DEF Counts
                <5>3. QED
                    BY <5>1, <5>2
            <4>3. Turns(m, {Change.key}, {})
                BY <2>1, <3>2, <3>3, <4>1, <4>2, ChangeDone
            <4>4. QED
                BY <1>0, <4>3
        <3>6. CASE ApplyValue
            <4>1. Change.id # Tombstone /\ After(Change.key) = Change.id /\ Change.id # 0
                  /\ Change = [key |-> Change.key, id |-> Change.id]
                BY <2>1, <3>6, ChangeIs DEF ApplyValue, Identities
            <4>2. WriteRecord(Change) /\ Counts(Change.key)
                <5>1. CASE BaseRecord = Change
                    <6>1. Kind(Change.key) = "same"
                        BY <3>4, <4>1, <5>1 DEF Kind
                    <6>2. summary' = summary /\ WriteRecord(Change)
                        BY <3>6, <5>1 DEF ApplyValue
                    <6>3. QED
                        BY <6>1, <6>2 DEF Counts
                <5>2. CASE BaseRecord # Change
                    <6>1. WriteRecord(Change) /\ Reported(IF BaseRecord.key = Change.key THEN "changed" ELSE "added", 1)
                        BY <3>6, <5>2 DEF ApplyValue
                    <6>2. CASE BaseRecord.key = Change.key
                        <7>1. BaseRecord.id # Change.id
                            BY <3>4, <4>1, <5>2, <6>2
                        <7>2. Kind(Change.key) = "changed"
                            BY <3>4, <4>1, <6>2, <7>1 DEF Kind
                        <7>3. summary' = [summary EXCEPT !["changed"] = @ + 1]
                            BY <6>1, <6>2 DEF Reported
                        <7>4. QED
                            BY <6>1, <7>2, <7>3 DEF Counts
                    <6>3. CASE BaseRecord.key # Change.key
                        <7>1. Kind(Change.key) = "added"
                            BY <3>4, <4>1, <6>3 DEF Kind
                        <7>2. summary' = [summary EXCEPT !["added"] = @ + 1]
                            BY <6>1, <6>3 DEF Reported
                        <7>3. QED
                            BY <6>1, <7>1, <7>2 DEF Counts
                    <6>4. QED
                        BY <6>2, <6>3
                <5>3. QED
                    BY <5>1, <5>2
            <4>3. Turns(m, {Change.key}, {Change})
                BY <2>1, <3>2, <3>3, <4>1, <4>2, ChangeDone
            <4>4. QED
                BY <1>0, <4>3
        <3>7. QED
            BY <3>1, <3>5, <3>6
    <2>5. BaseRecord.key < Change.key \/ BaseRecord.key >= Change.key
        BY <2>1, CommittedAssumption
    <2>6. QED
        BY <2>3, <2>4, <2>5
<1>3. CASE ApplyAllBase
    <2>1. change' = change /\ summary' = summary /\ NextKey(change) = LastKey + 1
        BY <1>3, BaseFront DEF ApplyAllBase
    <2>2. CASE AtRange(job.base, base) /\ WriteRange(BaseRange) /\ base' = NextRange(job.base, base)
        <3>1. MaxKey(BaseRange) < NextKey(change)
            BY <2>1, <2>2, BaseFront, CommittedAssumption
        <3>2. Turns(m, KeysOf(BaseRange), Seqs!ToSet(BaseRange))
            BY <2>1, <2>2, <3>1, BaseRangeKept
        <3>3. QED
            BY <1>0, <3>2
    <2>3. CASE AtRecord(job.base, base) /\ WriteRecord(BaseRecord) /\ base' = Next1(job.base, base)
        <3>1. BaseRecord.key < NextKey(change)
            BY <2>1, <2>3, BaseFront, CommittedAssumption
        <3>2. Turns(m, {BaseRecord.key}, {BaseRecord})
            BY <2>1, <2>3, <3>1, BaseRecordKept
        <3>3. QED
            BY <1>0, <3>2
    <2>4. QED
        BY <1>3, <2>2, <2>3 DEF ApplyAllBase
<1>4. CASE ApplyAllChanges
    <2>1. HaveChanges /\ ~HaveBase /\ change' = change + 1 /\ base' = base
        BY <1>4 DEF ApplyAllChanges
    <2>2. Change.key < Front(job.base, base) /\ Change.key > m
        BY <2>1, BaseFront, ChangeIs, CommittedAssumption
    <2>3. BaseHolds(Change.key) = 0
        <3>1. ~(Change.key >= Front(job.base, base))
            BY <2>1, BaseFront, CommittedAssumption
        <3>2. Change.key \notin DOMAIN Contents(job.base)
            BY <2>2, <3>1, Behind DEF PassedTo
        <3>3. QED
            BY <3>2, Behind, HeldBy DEF BaseHolds
    <2>4. CASE Change.id = Tombstone /\ WriteNothing /\ UNCHANGED summary
        <3>1. Kind(Change.key) = "same"
            BY <2>1, <2>3, <2>4, ChangeIs DEF Kind
        <3>2. Counts(Change.key)
            BY <2>4, <3>1 DEF Counts
        <3>3. Turns(m, {Change.key}, {})
            BY <2>1, <2>2, <2>4, <3>2, ChangeDone
        <3>4. QED
            BY <1>0, <3>3
    <2>5. CASE Change.id # Tombstone /\ WriteRecord(Change) /\ Reported("added", 1)
        <3>1. After(Change.key) = Change.id /\ Change.id # 0
            BY <2>1, <2>5, ChangeIs DEF Identities
        <3>2. Kind(Change.key) = "added"
            BY <2>3, <3>1 DEF Kind
        <3>3. Counts(Change.key)
            BY <2>5, <3>2 DEF Counts, Reported
        <3>4. Turns(m, {Change.key}, {Change})
            BY <2>1, <2>2, <2>5, <3>3, ChangeDone
        <3>5. QED
            BY <1>0, <3>4
    <2>6. QED
        BY <1>4, <2>4, <2>5 DEF ApplyAllChanges
<1>5. QED
    BY <1>1, <1>2, <1>3, <1>4 DEF Applying

CommitInv ==
    /\ status \in {"begin", "committing", "done", "unchanged"}
    /\ WriterInv /\ source = Start /\ dest = DestStart /\ inside = "none"
    /\ status = "begin" => Untouched /\ change = 0 /\ summary = NoSummary
    /\ status # "begin" => \E m \in Nat : CommittedTo(m)
    /\ status \in {"done", "unchanged"} => ~HaveBase /\ ~HaveChanges
    /\ status = "unchanged" => summary = NoSummary

LEMMA CommitStepsAre ==
    ASSUME IsCommit, CommitInv, [Next]_vars
    PROVE  UNCHANGED vars \/ (UNCHANGED diffVars /\ (CommitStart \/ Applying \/ CommitEnd))
<1>1. status \in {"begin", "committing", "done", "unchanged"} /\ job.op \notin {"merge", "import", "diff", "compare"}
    BY DEF CommitInv, IsCommit
<1>2. ~MergeOrImport
    <2>1. ~NothingToMerge /\ ~TakeSource /\ ~StartMerge
        BY <1>1 DEF NothingToMerge, TakeSource, StartMerge
    <2>2. ~MergeNext
        BY <1>1 DEF MergeNext, HandleBothRanges, HandleDestRangeSourceKey, HandleSourceRangeDestKey, HandleBothKeys,
                    HandleAllSource, HandleAllDest, MergeEnd, Merging
    <2>3. QED
        BY <2>1, <2>2 DEF MergeOrImport
<1>3. ~DiffNext
    BY <1>1 DEF DiffNext, CallNextFresh, CallNext, CallNextInside, CallNextRange, CallSeekGE, Turn, Reading
<1>4. Answered => UNCHANGED vars
    BY DEF Answered
<1>5. Commit => CommitStart \/ Applying \/ CommitEnd
    BY DEF Commit, Applying
<1>6. QED
    BY <1>2, <1>3, <1>4, <1>5 DEF Next

LEMMA CommittedStays ==
    ASSUME job' = job, base' = base, change' = change, summary' = summary,
           lastKey' = lastKey, open' = open, closed' = closed, unsorted' = unsorted, NEW m, CommittedTo(m)
    PROVE  CommittedTo(m)'
<1>1. WrittenRecords' = WrittenRecords
    BY DEF WrittenRecords, WrittenRanges, AllOf, Closing
<1>2. /\ \A k : After(k)' = After(k)
      /\ \A type : Differing(type, m)' = Differing(type, m)
    BY TheSame
<1>3. \A k, id : Written(k, id)' <=> Written(k, id)
    BY <1>1 DEF Written
<1>4. AppliedTo(m)'
    <2>1. Types' = Types
        BY DEF Types
    <2>2. \A type \in Types : summary'[type] = Cardinality(Differing(type, m)')
        BY <1>2 DEF CommittedTo, AppliedTo
    <2>3. \A k \in 1..m : \A id \in Identities : Written(k, id)' <=> After(k)' = id
        BY <1>2, <1>3 DEF CommittedTo, AppliedTo
    <2>4. summary' \in [Types -> Nat] /\ lastKey' <= m /\ unsorted' = FALSE /\ \A rec \in WrittenRecords' : rec.key <= m
        BY <1>1 DEF CommittedTo, AppliedTo
    <2>5. QED
        BY <2>1, <2>2, <2>3, <2>4 DEF AppliedTo
<1>5. StandsAfter(m)'
    <2>1. NextKey(change)' = NextKey(change)
        BY DEF NextKey
    <2>2. Front(job.base, base)' = Front(job.base, base)
        OBVIOUS
    <2>3. PassedTo(job.base, base, m)' <=> PassedTo(job.base, base, m)
        OBVIOUS
    <2>4. QED
        BY <2>1, <2>2, <2>3 DEF CommittedTo, StandsAfter
<1>6. QED
    BY <1>4, <1>5 DEF CommittedTo

LEMMA AppliedToNothing ==
    ASSUME Untouched, summary = NoSummary
    PROVE  AppliedTo(0)
<1>1. WrittenRecords = {} /\ lastKey = 0 /\ unsorted = FALSE
    BY NothingWritten DEF Untouched
<1>2. ASSUME NEW type \in Types PROVE Cardinality(Differing(type, 0)) = 0
    <2>1. Differing(type, 0) = {}
        BY DEF Differing
    <2>2. QED
        BY <2>1, FS_EmptySet
<1>3. summary \in [Types -> Nat] /\ \A type \in Types : summary[type] = 0
    BY DEF NoSummary, Types
<1>4. QED
    BY <1>1, <1>2, <1>3 DEF AppliedTo

LEMMA CommitStarts ==
    ASSUME IsRequest(job), CommitInv, CommitStart
    PROVE  /\ job' = job /\ AppliedTo(0) /\ Turns(0, {}, {}) /\ WriterInv'
           /\ source' = source /\ dest' = dest /\ status = "begin" /\ status' = "committing" /\ Untouched
<1>1. /\ job' = job /\ status = "begin" /\ status' = "committing" /\ base' = Next1(job.base, base) /\ change' = 1
      /\ WriteNothing /\ source' = source /\ dest' = dest /\ summary' = summary
    BY DEF CommitStart
<1>2. Untouched /\ summary = NoSummary /\ base = Start
    BY <1>1 DEF CommitInv, Untouched
<1>3. AppliedTo(0)
    BY <1>2, AppliedToNothing
<1>4. IsMetaRange(job.base) /\ base.range = 0 /\ base.rec = 0 /\ {"range", "rec"} \subseteq DOMAIN base
    BY <1>2, ChangesAre DEF Start
<1>5. PassedTo(job.base, base', 0)
    BY <1>1, <1>4, FirstMove
<1>6. Stands(job.base, base') /\ Front(job.base, base') \in 1..(LastKey + 1)
    BY <1>4, <1>5, WhereItStands DEF PassedTo
<1>7. Walked(job.base, base', 0, {})
    <2>1. 0 < Front(job.base, base')
        BY <1>6, CommittedAssumption
    <2>2. QED
        BY <1>5, <1>6, <2>1 DEF Walked, PassedTo
<1>8. WrittenRecords' = WrittenRecords /\ lastKey' = lastKey /\ open' = open /\ closed' = closed /\ unsorted' = unsorted
    BY <1>1 DEF WriteNothing, writerVars, WrittenRecords, WrittenRanges, AllOf, Closing
<1>9. WriterInv'
    BY <1>8 DEF CommitInv, WriterInv
<1>10. 1 \in 1..(Len(job.changes) + 1)
    BY ChangesAre
<1>11. change' \in 1..(Len(job.changes) + 1) /\ 0 < NextKey(change')
    <2>1. NextKey(1) \in 1..(LastKey + 1)
        BY <1>10, NextKeyIs
    <2>2. QED
        BY <1>1, <1>10, <2>1, CommittedAssumption
<1>12. \A n \in DOMAIN job.changes : ~(n < change')
    BY <1>1, ChangesAre
<1>13. summary' \in [Types -> Nat]
    BY <1>1, <1>3 DEF AppliedTo
<1>14. Turns(0, {}, {})
    BY <1>1, <1>7, <1>8, <1>11, <1>12, <1>13 DEF Turns
<1>15. QED
    BY <1>1, <1>2, <1>3, <1>9, <1>14

LEMMA ApplyingWrites ==
    ASSUME IsRequest(job), WriterInv, NEW m \in Nat, CommittedTo(m), Applying
    PROVE  WriterInv'
<1>1. CASE WriteNothing
    <2>1. lastKey' = lastKey /\ open' = open /\ closed' = closed /\ unsorted' = unsorted
        BY <1>1 DEF WriteNothing, writerVars
    <2>2. QED
        BY <2>1 DEF WriterInv
<1>2. CASE AtRange(job.base, base) /\ WriteRange(BaseRange)
    <2>1. base.range \in DOMAIN job.base /\ BaseRange = job.base[base.range] /\ IsMetaRange(job.base)
        BY <1>2, ChangesAre DEF AtRange, Have, BaseRange, RangeAt
    <2>2. IsRange(BaseRange)
        BY <2>1, RangesAre
    <2>3. QED
        BY <1>2, <2>2, RangeWritten
<1>3. CASE AtRecord(job.base, base) /\ WriteRecord(BaseRecord)
    <2>1. BaseRecord \in RecordSet
        BY <1>3, BaseRecordIs
    <2>2. QED
        BY <1>3, <2>1, RecordWritten
<1>4. CASE HaveChanges /\ Change.id # Tombstone /\ WriteRecord(Change)
    <2>1. Change \in RecordSet
        BY <1>4, ChangeIs
    <2>2. QED
        BY <1>4, <2>1, RecordWritten
<1>5. \/ WriteNothing
      \/ AtRange(job.base, base) /\ WriteRange(BaseRange)
      \/ AtRecord(job.base, base) /\ WriteRecord(BaseRecord)
      \/ HaveChanges /\ Change.id # Tombstone /\ WriteRecord(Change)
    BY DEF Applying, ApplyBaseRange, ApplyNextKey, ApplyAllBase, ApplyAllChanges, ApplyTombstone, ApplyValue
<1>6. QED
    BY <1>1, <1>2, <1>3, <1>4, <1>5

LEMMA CommitStep ==
    ASSUME IsRequest(job), IsCommit, CommitInv, [Next]_vars
    PROVE  job' = job /\ CommitInv'
<1>1. ASSUME /\ job' = job /\ base' = base /\ source' = source /\ dest' = dest /\ inside' = inside
             /\ lastKey' = lastKey /\ open' = open /\ closed' = closed /\ unsorted' = unsorted
             /\ change' = change /\ summary' = summary
      PROVE  /\ WriterInv' /\ source' = Start /\ dest' = DestStart /\ inside' = "none"
             /\ (\E m \in Nat : CommittedTo(m)) => (\E m \in Nat : CommittedTo(m)')
             /\ Untouched => Untouched'
             /\ HaveBase' = HaveBase /\ HaveChanges' = HaveChanges
    <2>1. WriterInv'
        BY <1>1 DEF CommitInv, WriterInv
    <2>2. Untouched => Untouched'
        BY <1>1 DEF Untouched
    <2>3. HaveBase' = HaveBase /\ HaveChanges' = HaveChanges
        BY <1>1 DEF HaveBase, HaveChanges
    <2>4. (\E m \in Nat : CommittedTo(m)) => (\E m \in Nat : CommittedTo(m)')
        BY <1>1, CommittedStays
    <2>5. QED
        BY <1>1, <2>1, <2>2, <2>3, <2>4 DEF CommitInv
<1>2. CASE UNCHANGED vars
    <2>1. /\ job' = job /\ base' = base /\ source' = source /\ dest' = dest /\ status' = status
          /\ lastKey' = lastKey /\ open' = open /\ closed' = closed /\ unsorted' = unsorted
          /\ change' = change /\ summary' = summary /\ inside' = inside
        BY <1>2 DEF vars, mergeVars, writerVars, diffVars
    <2>2. QED
        BY <1>1, <2>1 DEF CommitInv
<1>3. CASE UNCHANGED diffVars /\ CommitStart
    <2>1. /\ job' = job /\ AppliedTo(0) /\ Turns(0, {}, {}) /\ WriterInv' /\ WriterInv
          /\ source' = source /\ dest' = dest /\ status' = "committing"
        BY <1>3, CommitStarts DEF CommitInv
    <2>2. \E h \in Nat : CommittedTo(h)'
        BY <2>1, CommitAdvances
    <2>3. inside' = inside
        BY <1>3 DEF diffVars
    <2>4. QED
        BY <2>1, <2>2, <2>3 DEF CommitInv
<1>4. CASE UNCHANGED diffVars /\ Applying
    <2>1. status = "committing" /\ status' = status /\ source' = source /\ dest' = dest
        BY <1>4 DEF Applying, ApplyBaseRange, ApplyNextKey, ApplyAllBase, ApplyAllChanges, Committing, CommitGoes
    <2>2. PICK m \in Nat : CommittedTo(m)
        BY <2>1 DEF CommitInv
    <2>3. WriterInv /\ AppliedTo(m)
        BY <2>2 DEF CommitInv, CommittedTo
    <2>4. job' = job /\ \E K, X : Turns(m, K, X)
        BY <1>4, <2>2, <2>3, ApplyingTurns
    <2>5. PICK K : \E X : Turns(m, K, X)
        BY <2>4
    <2>6. PICK X : Turns(m, K, X)
        BY <2>5
    <2>7. \E h \in Nat : CommittedTo(h)'
        BY <2>3, <2>4, <2>6, CommitAdvances
    <2>8. WriterInv'
        BY <1>4, <2>2, <2>3, ApplyingWrites
    <2>9. inside' = inside
        BY <1>4 DEF diffVars
    <2>10. QED
        BY <2>1, <2>4, <2>7, <2>8, <2>9 DEF CommitInv
<1>5. CASE UNCHANGED diffVars /\ CommitEnd
    <2>1. /\ job' = job /\ base' = base /\ source' = source /\ dest' = dest /\ inside' = inside
          /\ lastKey' = lastKey /\ open' = open /\ closed' = closed /\ unsorted' = unsorted
          /\ change' = change /\ summary' = summary
        BY <1>5 DEF CommitEnd, writerVars, diffVars
    <2>2. /\ status = "committing" /\ ~HaveBase /\ ~HaveChanges /\ status' \in {"done", "unchanged"}
          /\ status' = "unchanged" => summary = NoSummary
        BY <1>5 DEF CommitEnd, Committing
    <2>3. QED
        BY <1>1, <2>1, <2>2 DEF CommitInv
<1>6. QED
    BY <1>2, <1>3, <1>4, <1>5, CommitStepsAre

-----------------------------------------------------------------------------
(* What a commit has, by the promise's words *)

LEMMA CommitSides ==
    ASSUME IsRequest(job), IsCommit, NEW k
    PROVE  /\ Promise!At(SourceSide, k) = After(k)
           /\ Promise!At(DestSide, k) = BaseHolds(k) /\ Promise!At(Contents(job.base), k) = BaseHolds(k)
           /\ ~Promise!Conflicting(k) /\ Promise!Outcome(k) = After(k)
           /\ Replaced = {}
<1>1. job.op = "commit" /\ job.prefixes = <<>>
    BY DEF IsRequest, IsCommit
<1>2. Promise!At(SourceSide, k) = After(k)
    BY <1>1 DEF SourceSide, After
<1>3. \A j : ~UnderPrefix(j)
    BY <1>1 DEF UnderPrefix
<1>4. DestSide = [j \in {i \in DOMAIN Contents(job.base) : ~UnderPrefix(i)} |-> Contents(job.base)[j]]
    BY <1>1 DEF DestSide
<1>5. Promise!At(Contents(job.base), k) = BaseHolds(k)
    BY DEF BaseHolds, IdOf
<1>6. Promise!At(DestSide, k) = BaseHolds(k)
    BY <1>3, <1>4 DEF BaseHolds, IdOf, Promise!At, Promise!Absent
<1>7. ~Promise!Conflicting(k)
    BY <1>5, <1>6 DEF Promise!Conflicting
<1>8. Promise!Outcome(k) = After(k)
    BY <1>2, <1>5, <1>6, <1>7 DEF Promise!Outcome
<1>9. Replaced = {}
    BY <1>3 DEF Replaced
<1>10. QED
    BY <1>2, <1>5, <1>6, <1>7, <1>8, <1>9

LEMMA ToldByCommitted ==
    ASSUME IsRequest(job), IsCommit, WriterInv, NEW m \in Nat, CommittedTo(m), status # "taken"
    PROVE  Tells(m) /\ m <= LastKey
<1> DEFINE fb == Front(job.base, base)
           fc == NextKey(change)
<1>1. /\ fb \in 1..(LastKey + 1) /\ fc \in 1..(LastKey + 1) /\ m < fb /\ m < fc
      /\ m + 1 = fb \/ m + 1 = fc
    BY Behind DEF CommittedTo, StandsAfter
<1>2. Settled = m
    <2>1. base # Start
        BY Behind DEF Stands, Start
    <2>2. Ahead = {fb, fc}
        <3>1. (IF HaveChanges THEN Change.key ELSE LastKey + 1) = fc
            BY DEF NextKey, HaveChanges, Change
        <3>2. KeyAhead(job.base, base, LastKey + 1) = fb
            BY DEF Front
        <3> HIDE DEF fb, fc
        <3>3. QED
            BY <3>1, <3>2 DEF Ahead, IsCommit
    <2> HIDE DEF fb, fc
    <2>3. {fb, fc} \subseteq Nat /\ {fb, fc} # {}
        BY <1>1, CommittedAssumption
    <2>4. Seqs!Min({fb, fc}) \in {fb, fc} /\ Seqs!Min({fb, fc}) <= fb /\ Seqs!Min({fb, fc}) <= fc
        BY <2>3, MinOfNumbers
    <2>5. Seqs!Min({fb, fc}) = m + 1
        BY <1>1, <2>3, <2>4
    <2>6. Settled = Seqs!Min(Ahead) - 1
        BY <2>1 DEF Settled
    <2>7. QED
        BY <2>2, <2>5, <2>6
<1>3. m <= LastKey
    BY <1>1, CommittedAssumption
<1>4. \A k : Promise!Outcome(k) = After(k)
    BY CommitSides
<1>5. Replaced = {}
    BY CommitSides
<1>6. \A k : /\ k \in DOMAIN NewContents => NewContents[k] \in Identities /\ k \in 1..LastKey
             /\ \A id \in Identities : Written(k, id) <=> k \in DOMAIN NewContents /\ NewContents[k] = id
    BY NewHas
<1>7. \A id \in Identities : id # 0
    BY DEF Identities
<1>8. ASSUME NEW k \in DOMAIN NewContents
      PROVE  k \in 1..m /\ After(k) = NewContents[k] /\ After(k) # 0
    <2>1. NewContents[k] \in Identities /\ Written(k, NewContents[k]) /\ k \in 1..LastKey
        BY <1>6
    <2>2. [key |-> k, id |-> NewContents[k]] \in WrittenRecords /\ [key |-> k, id |-> NewContents[k]].key = k
        BY <2>1 DEF Written
    <2>3. k <= m
        BY <2>2 DEF CommittedTo, AppliedTo
    <2>4. k \in 1..m
        BY <2>1, <2>3, CommittedAssumption
    <2>5. After(k) = NewContents[k]
        BY <2>1, <2>4 DEF CommittedTo, AppliedTo
    <2>6. QED
        BY <1>7, <2>1, <2>4, <2>5
<1>9. ASSUME NEW k \in 1..m, After(k) # 0
      PROVE  k \in DOMAIN NewContents
    <2>1. k \in DOMAIN Applied
        BY <1>9, AppliedIs
    <2>2. After(k) \in Identities
        BY <2>1, AppliedIs
    <2>3. Written(k, After(k))
        BY <2>2 DEF CommittedTo, AppliedTo
    <2>4. QED
        BY <1>6, <2>2, <2>3
<1>10. Merged = Promise!Result(m)
    <2>1. Promise!Result(m) = [k \in {j \in 1..m : After(j) # 0} |-> After(k)]
        BY <1>4 DEF Promise!Result, Promise!Absent
    <2>2. DOMAIN NewContents = {j \in 1..m : After(j) # 0}
        BY <1>8, <1>9
    <2>3. \A k \in DOMAIN NewContents : NewContents[k] = After(k)
        BY <1>8
    <2>4. Merged = [k \in DOMAIN NewContents |-> NewContents[k]]
        BY <1>5 DEF Merged
    <2>5. QED
        BY <2>1, <2>2, <2>3, <2>4
<1>11. QED
    BY <1>2, <1>3, <1>10 DEF Tells

CommitTells ==
    /\ \A m \in Nat : CommittedTo(m) => Tells(m) /\ m <= LastKey
    /\ Untouched => Tells(0)

LEMMA CommitSaysSo == IsRequest(job) /\ IsCommit /\ CommitInv => CommitTells
<1> SUFFICES ASSUME IsRequest(job), IsCommit, CommitInv PROVE CommitTells
    OBVIOUS
<1>1. status # "taken" /\ WriterInv
    BY DEF CommitInv
<1>2. QED
    BY <1>1, ToldByCommitted, ToldOfNothing DEF CommitTells

\* In the end all of it is settled.
LEMMA CommitEnds ==
    ASSUME IsRequest(job), NEW m \in Nat, CommittedTo(m), ~HaveBase, ~HaveChanges
    PROVE  m = LastKey
<1>1. Front(job.base, base) = LastKey + 1 /\ NextKey(change) = LastKey + 1
    BY BaseFront
<1>2. m + 1 = LastKey + 1
    BY <1>1 DEF CommittedTo, StandsAfter
<1>3. QED
    BY <1>2, CommittedAssumption

\* No count means that no key differs.
LEMMA NothingApplied ==
    ASSUME IsRequest(job), IsCommit, AppliedTo(LastKey), summary = NoSummary
    PROVE  SourceSide = Contents(job.base)
<1>1. ASSUME NEW type \in Types, NEW k \in Differing(type, LastKey) PROVE FALSE
    <2>1. summary[type] = 0
        BY DEF NoSummary, Types
    <2>2. PICK S : S = Differing(type, LastKey)
        OBVIOUS
    <2>3. IsFiniteSet(S)
        <3>1. 1 \in Int /\ LastKey \in Int
            BY CommittedAssumption
        <3>2. IsFiniteSet(1..LastKey)
            BY <3>1, FS_Interval
        <3>3. S \subseteq 1..LastKey
            BY <2>2 DEF Differing
        <3>4. QED
            BY <3>2, <3>3, FS_Subset
    <2>4. Cardinality(S) = 0
        BY <2>1, <2>2 DEF AppliedTo
    <2>5. S = {}
        BY <2>3, <2>4, FS_EmptySet
    <2>6. QED
        BY <1>1, <2>2, <2>5
<1>2. ASSUME NEW k \in 1..LastKey PROVE After(k) = BaseHolds(k)
    <2>1. Kind(k) = "same" \/ Kind(k) \in Types
        BY DEF Kind, Types
    <2>2. Kind(k) \notin Types
        BY <1>1 DEF Differing
    <2>3. QED
        BY <2>1, <2>2 DEF Kind, Types
<1>3. SourceSide = Applied
    BY DEF SourceSide, IsCommit
<1>4. IsMetaRange(job.base)
    BY ChangesAre
<1>5. \A k : /\ k \in DOMAIN Contents(job.base) <=> BaseHolds(k) # 0
             /\ k \in DOMAIN Contents(job.base) => k \in 1..LastKey /\ Contents(job.base)[k] = BaseHolds(k)
    BY <1>4, HeldBy DEF BaseHolds, IdOf, Promise!At
<1>6. \A k : /\ k \in DOMAIN Applied <=> After(k) # 0
             /\ k \in DOMAIN Applied => k \in 1..LastKey /\ Applied[k] = After(k)
    BY AppliedIs
<1>7. DOMAIN Applied = DOMAIN Contents(job.base)
    BY <1>2, <1>5, <1>6
<1>8. Applied = [k \in DOMAIN Applied |-> Applied[k]]
    BY AppliedHas
<1>9. Contents(job.base) = [k \in DOMAIN Contents(job.base) |-> Contents(job.base)[k]]
    BY DEF Contents
<1>10. \A k \in DOMAIN Applied : Applied[k] = Contents(job.base)[k]
    BY <1>2, <1>5, <1>6, <1>7
<1>11. Applied = Contents(job.base)
    BY <1>7, <1>8, <1>9, <1>10
<1>12. QED
    BY <1>3, <1>11

LEMMA CommitFollows ==
    ASSUME IsRequest(job), IsCommit, CommitInv, CommitTells, CommitTells', [Next]_vars
    PROVE  [Promise!Next]_(Promise!vars)
<1>1. \A k : ~Promise!Conflicting(k)
    BY CommitSides
<1>2. WriterInv
    BY DEF CommitInv
<1>3. CASE UNCHANGED vars
    <2>1. /\ job' = job /\ base' = base /\ source' = source /\ dest' = dest /\ status' = status
          /\ lastKey' = lastKey /\ open' = open /\ closed' = closed /\ change' = change
        BY <1>3 DEF vars, mergeVars, writerVars
    <2>2. QED
        BY <2>1, PromiseStutters
<1>4. ASSUME NEW m \in Nat, Tells(m), job' = job, NEW h \in Nat, m <= h, CommittedTo(h)',
             status \in {"begin", "committing"}, status' = "committing"
      PROVE  [Promise!Next]_(Promise!vars)
    <2>1. Tells(h)' /\ h <= LastKey
        BY <1>4 DEF CommitTells
    <2>2. Verdict = "running" /\ Verdict' = "running"
        BY <1>4 DEF Verdict
    <2>3. job.strategy = "none" => \A k \in (m + 1)..h : ~Promise!Conflicting(k)
        BY <1>1
    <2>4. QED
        BY <1>4, <2>1, <2>2, <2>3, PromiseSettles
<1>5. CASE CommitStart
    <2>1. /\ job' = job /\ AppliedTo(0) /\ Turns(0, {}, {}) /\ Untouched
          /\ status = "begin" /\ status' = "committing"
        BY <1>5, CommitStarts
    <2>2. \E h \in Nat : 0 <= h /\ CommittedTo(h)'
        BY <1>2, <2>1, CommitAdvances
    <2>3. Tells(0)
        BY <2>1 DEF CommitTells
    <2>4. QED
        BY <1>4, <2>1, <2>2, <2>3
<1>6. CASE Applying
    <2>1. status = "committing" /\ status' = status
        BY <1>6 DEF Applying, ApplyBaseRange, ApplyNextKey, ApplyAllBase, ApplyAllChanges, Committing, CommitGoes
    <2>2. PICK m \in Nat : CommittedTo(m)
        BY <2>1 DEF CommitInv
    <2>3. Tells(m) /\ AppliedTo(m)
        BY <2>2 DEF CommitTells, CommittedTo
    <2>4. job' = job /\ \E K, X : Turns(m, K, X)
        BY <1>2, <1>6, <2>2, ApplyingTurns
    <2>5. PICK K : \E X : Turns(m, K, X)
        BY <2>4
    <2>6. PICK X : Turns(m, K, X)
        BY <2>5
    <2>7. \E h \in Nat : m <= h /\ CommittedTo(h)'
        BY <1>2, <2>3, <2>4, <2>6, CommitAdvances
    <2>8. QED
        BY <1>4, <2>1, <2>3, <2>4, <2>7
<1>7. CASE CommitEnd
    <2>1. /\ job' = job /\ base' = base /\ status = "committing" /\ ~HaveBase /\ ~HaveChanges
          /\ lastKey' = lastKey /\ open' = open /\ closed' = closed /\ unsorted' = unsorted
          /\ change' = change /\ summary' = summary
          /\ status' = IF summary = NoSummary /\ ~job.allowEmpty THEN "unchanged" ELSE "done"
        BY <1>7 DEF CommitEnd, Committing, writerVars
    <2>2. PICK m \in Nat : CommittedTo(m)
        BY <2>1 DEF CommitInv
    <2>3. m = LastKey
        BY <2>1, <2>2, CommitEnds
    <2>4. CommittedTo(m)'
        BY <2>1, <2>2, CommittedStays
    <2>5. Tells(LastKey) /\ Tells(LastKey)'
        BY <2>2, <2>3, <2>4 DEF CommitTells
    <2>6. Verdict = "running"
        BY <2>1 DEF Verdict
    <2>7. LastKey \in Nat
        BY CommittedAssumption
    <2>8. CASE status' = "done"
        <3>1. Verdict' = "done"
            BY <2>8 DEF Verdict
        <3>2. QED
            BY <1>1, <2>1, <2>5, <2>6, <2>7, <3>1, PromiseFinishes
    <2>9. CASE status' = "unchanged"
        <3>1. Verdict' = "unchanged" /\ summary = NoSummary
            BY <2>1, <2>9 DEF Verdict
        <3>2. SourceSide = Contents(job.base)
            BY <2>2, <2>3, <3>1, NothingApplied DEF CommittedTo
        <3>3. QED
            BY <2>1, <2>5, <2>6, <3>1, <3>2, PromiseDeclines
    <2>10. QED
        BY <2>1, <2>8, <2>9
<1>8. QED
    BY <1>3, <1>5, <1>6, <1>7, CommitStepsAre

-----------------------------------------------------------------------------
(* The theorems *)

\* The inductive invariant: of each operation, its own.
CommittedInv ==
    /\ IsRequest(job)
    /\ IsMerge => MergeInv
    /\ IsDiff => DiffInv
    /\ IsCommit => CommitInv

\* A request asks for one operation.
LEMMA Operations ==
    ASSUME IsRequest(job)
    PROVE  /\ IsMerge \/ IsDiff \/ IsCommit
           /\ IsMerge => ~IsDiff /\ ~IsCommit
           /\ IsDiff => ~IsCommit
<1>1. job.op \in {"merge", "import", "commit", "diff", "compare"}
    BY DEF IsRequest
<1>2. QED
    BY <1>1 DEF IsMerge, IsDiff, IsCommit

LEMMA CommittedInit == Init => CommittedInv
<1> SUFFICES ASSUME Init PROVE CommittedInv
    OBVIOUS
<1>1. /\ IsRequest(job) /\ change = 0 /\ summary = NoSummary /\ inside = "none"
      /\ base = Start /\ source = Start /\ dest = DestStart /\ status = "begin"
      /\ lastKey = 0 /\ open = <<>> /\ closed = {} /\ unsorted = FALSE
    BY DEF Init, MergeInit, DiffInit, WriterInit, DestStart
<1>2. Untouched /\ WriterInv /\ WrittenRecords = {}
    BY <1>1, NothingWritten DEF Untouched
<1>3. Iterators
    <2>1. Len(job.base) \in Nat
        BY <1>1 DEF IsRequest, IsMetaRange
    <2>2. base.range \in 0..(Len(job.base) + 1)
        BY <1>1, <2>1 DEF Start
    <2>3. QED
        BY <1>1, <2>2 DEF Iterators
<1>4. MergeInv
    BY <1>1, <1>2, <1>3 DEF MergeInv
<1>5. DiffInv
    BY <1>1, <1>2, <1>3 DEF DiffInv
<1>6. CommitInv
    BY <1>1, <1>2 DEF CommitInv
<1>7. QED
    BY <1>1, <1>4, <1>5, <1>6 DEF CommittedInv

LEMMA CommittedStep == CommittedInv /\ [Next]_vars => CommittedInv' /\ job' = job
<1> SUFFICES ASSUME CommittedInv, [Next]_vars PROVE CommittedInv' /\ job' = job
    OBVIOUS
<1>1. IsRequest(job)
    BY DEF CommittedInv
<1>2. job' = job =>
        /\ IsRequest(job)'
        /\ IsMerge' <=> IsMerge
        /\ IsDiff' <=> IsDiff
        /\ IsCommit' <=> IsCommit
    BY <1>1 DEF IsMerge, IsDiff, IsCommit
<1>3. CASE IsMerge
    <2>1. job' = job /\ MergeInv'
        BY <1>1, <1>3, MergeStep DEF CommittedInv
    <2>2. QED
        BY <1>1, <1>2, <1>3, <2>1, Operations DEF CommittedInv
<1>4. CASE IsDiff
    <2>1. job' = job /\ DiffInv'
        BY <1>1, <1>4, DiffStep DEF CommittedInv
    <2>2. QED
        BY <1>1, <1>2, <1>4, <2>1, Operations DEF CommittedInv
<1>5. CASE IsCommit
    <2>1. job' = job /\ CommitInv'
        BY <1>1, <1>5, CommitStep DEF CommittedInv
    <2>2. QED
        BY <1>1, <1>2, <1>5, <2>1, Operations DEF CommittedInv
<1>6. QED
    BY <1>1, <1>3, <1>4, <1>5, Operations

LEMMA CommittedAlways == Spec => []CommittedInv
<1>1. CommittedInv /\ [Next]_vars => CommittedInv'
    BY CommittedStep
<1>2. QED
    BY <1>1, CommittedInit, PTL DEF Spec

-----------------------------------------------------------------------------

LEMMA DestTyped ==
    ASSUME IsRequest(job), dest = DestStart \/ DestPlaced(job.dest, job.prefixes, dest)
    PROVE  dest.range \in 0..(Len(job.dest) + 1) /\ dest.prefix \in 1..(Len(job.prefixes) + 1)
<1>1. Len(job.dest) \in Nat /\ Len(job.prefixes) \in Nat
    BY DEF IsRequest, IsMetaRange
<1>2. CASE dest = DestStart
    BY <1>1, <1>2 DEF DestStart
<1>3. CASE DestPlaced(job.dest, job.prefixes, dest)
    BY <1>1, <1>3 DEF DestPlaced, Skips, Stands
<1>4. QED
    BY <1>2, <1>3

LEMMA SourceTyped ==
    ASSUME IsRequest(job), source = Start \/ Stands(job.source, source)
    PROVE  source.range \in 0..(Len(job.source) + 1)
<1>1. Len(job.source) \in Nat
    BY DEF IsRequest, IsMetaRange
<1>2. QED
    BY <1>1 DEF Start, Stands

LEMMA CountsTyped ==
    ASSUME IsRequest(job), NEW m \in 0..LastKey, AppliedTo(m)
    PROVE  summary \in [{"added", "changed", "removed"} -> 0..LastKey]
<1>1. ASSUME NEW type \in Types PROVE summary[type] \in 0..LastKey
    <2>1. PICK S : S = Differing(type, m)
        OBVIOUS
    <2>2. PICK all : all = 1..LastKey
        OBVIOUS
    <2>3. 1 \in Int /\ LastKey \in Int /\ LastKey \in Nat
        BY CommittedAssumption
    <2>4. IsFiniteSet(all) /\ Cardinality(all) = LastKey
        <3>1. IsFiniteSet(1..LastKey) /\ Cardinality(1..LastKey) = IF 1 > LastKey THEN 0 ELSE LastKey - 1 + 1
            BY <2>3, FS_Interval
        <3>2. QED
            BY <2>2, <2>3, <3>1
    <2>5. S \subseteq all
        BY <2>1, <2>2, <2>3 DEF Differing
    <2>6. Cardinality(S) <= Cardinality(all)
        BY <2>4, <2>5, FS_Subset
    <2>7. summary[type] = Cardinality(S) /\ summary[type] \in Nat
        BY <2>1 DEF AppliedTo
    <2>8. QED
        BY <2>3, <2>4, <2>6, <2>7
<1>2. summary = [type \in Types |-> summary[type]]
    BY DEF AppliedTo
<1>3. summary \in [Types -> 0..LastKey]
    BY <1>1, <1>2
<1>4. QED
    BY <1>3 DEF Types

LEMMA SettlesWithin ==
    ASSUME IsRequest(job), NEW m \in Nat, CommittedTo(m)
    PROVE  m \in 0..LastKey
<1>1. m < Front(job.base, base) /\ Stands(job.base, base)
    BY DEF CommittedTo, StandsAfter, PassedTo
<1>2. Front(job.base, base) \in 1..(LastKey + 1)
    <2>1. IsMetaRange(job.base)
        BY DEF IsRequest
    <2>2. QED
        BY <1>1, <2>1, WhereItStands
<1>3. QED
    BY <1>1, <1>2, CommittedAssumption

\* Whatever is asked of the manager, the variables are of their types: the
\* iterators stay within their meta-ranges (or one past them), and no count
\* of a summary exceeds the number of keys.
THEOREM CommittedTypeCorrect == Spec => []TypeOK
<1>1. CommittedInv => TypeOK
    <2> SUFFICES ASSUME CommittedInv PROVE TypeOK
        OBVIOUS
    <2>1. /\ IsRequest(job)
          /\ Len(job.base) \in Nat /\ Len(job.changes) \in Nat
        BY DEF CommittedInv, IsRequest, IsMetaRange
    <2>2. summary = NoSummary => summary \in [{"added", "changed", "removed"} -> 0..LastKey]
        BY CommittedAssumption DEF NoSummary
    <2>3. CASE IsMerge
        <3>1. MergeInv
            BY <2>3 DEF CommittedInv
        <3>2. change \in 0..(Len(job.changes) + 1)
            BY <2>1, <3>1 DEF MergeInv
        <3>3. QED
            BY <2>1, <2>2, <3>1, <3>2, SourceTyped, DestTyped DEF TypeOK, MergeInv, Iterators, WriterInv
    <2>4. CASE IsDiff
        <3>1. DiffInv
            BY <2>4 DEF CommittedInv
        <3>2. change \in 0..(Len(job.changes) + 1)
            BY <2>1, <3>1 DEF DiffInv
        <3>3. WriterInv
            BY <3>1, NothingWritten DEF DiffInv, Untouched
        <3>4. QED
            BY <2>1, <2>2, <3>1, <3>2, <3>3, SourceTyped, DestTyped DEF TypeOK, DiffInv, Iterators, WriterInv
    <2>5. CASE IsCommit
        <3>1. CommitInv
            BY <2>5 DEF CommittedInv
        <3>2. /\ base.range \in 0..(Len(job.base) + 1)
              /\ change \in 0..(Len(job.changes) + 1)
              /\ summary \in [{"added", "changed", "removed"} -> 0..LastKey]
            <4>1. CASE status = "begin"
                BY <2>1, <2>2, <3>1, <4>1 DEF CommitInv, Untouched, Start
            <4>2. CASE status # "begin"
                <5>1. PICK m \in Nat : CommittedTo(m)
                    BY <3>1, <4>2 DEF CommitInv
                <5>2. summary \in [{"added", "changed", "removed"} -> 0..LastKey]
                    BY <2>1, <5>1, SettlesWithin, CountsTyped DEF CommittedTo
                <5>3. Stands(job.base, base) /\ change \in 1..(Len(job.changes) + 1)
                    BY <5>1 DEF CommittedTo, StandsAfter, PassedTo
                <5>4. QED
                    BY <2>1, <5>2, <5>3 DEF Stands
            <4>3. QED
                BY <4>1, <4>2
        <3>3. QED
            BY <2>1, <3>1, <3>2, SourceTyped, DestTyped DEF TypeOK, CommitInv, WriterInv
    <2>6. QED
        BY <2>1, <2>3, <2>4, <2>5, Operations
<1>2. QED
    BY <1>1, CommittedAlways, PTL

\* The ranges of what a merge, an import or a commit wrote are sorted and do
\* not overlap, whatever of it was copied whole (meta_range_writer.go).
THEOREM NewRangesAreApart == Spec => []RangesApart
<1>1. CommittedInv => RangesApart
    <2> SUFFICES ASSUME CommittedInv, status = "done" PROVE Sorted(NewMetaRange)
        BY DEF RangesApart
    <2>1. ~IsDiff
        BY DEF CommittedInv, DiffInv
    <2>2. WriterInv
        BY <2>1, Operations DEF CommittedInv, MergeInv, CommitInv
    <2>3. QED
        BY <2>2, NewOne DEF IsMetaRange
<1>2. QED
    BY <1>1, CommittedAlways, PTL

\* When a commit ends, its summary counts the keys that are added, removed and
\* changed from the base to what the changes make of it (commit.go).
THEOREM SummariesAreTrue == Spec => []SummaryCounts
<1>1. CommittedInv => SummaryCounts
    <2> DEFINE old == Contents(job.base)
    <2> SUFFICES ASSUME CommittedInv, job.op = "commit", status \in {"done", "unchanged"}
                 PROVE  /\ summary.added = Cardinality(DOMAIN Applied \ DOMAIN old)
                        /\ summary.removed = Cardinality(DOMAIN old \ DOMAIN Applied)
                        /\ summary.changed = Cardinality({k \in DOMAIN Applied \cap DOMAIN old : Applied[k] # old[k]})
        BY DEF SummaryCounts
    <2>1. IsRequest(job) /\ CommitInv
        BY DEF CommittedInv, IsCommit
    <2>2. PICK m \in Nat : CommittedTo(m)
        BY <2>1 DEF CommitInv
    <2>3. m = LastKey
        BY <2>1, <2>2, CommitEnds DEF CommitInv
    <2>4. \A type \in Types : summary[type] = Cardinality(Differing(type, LastKey))
        BY <2>2, <2>3 DEF CommittedTo, AppliedTo
    <2>5. IsMetaRange(job.base)
        BY <2>1 DEF IsRequest
    <2>6. \A k : /\ k \in DOMAIN old <=> BaseHolds(k) # 0
                 /\ k \in DOMAIN old => k \in 1..LastKey /\ old[k] = BaseHolds(k)
        BY <2>5, HeldBy DEF BaseHolds, IdOf, Promise!At
    <2>7. \A k : /\ k \in DOMAIN Applied <=> After(k) # 0
                 /\ k \in DOMAIN Applied => k \in 1..LastKey /\ Applied[k] = After(k)
        BY <2>1, AppliedIs
    <2> HIDE DEF old
    <2>8. Differing("added", LastKey) = DOMAIN Applied \ DOMAIN old
        BY <2>6, <2>7 DEF Differing, Kind
    <2>9. Differing("removed", LastKey) = DOMAIN old \ DOMAIN Applied
        BY <2>6, <2>7 DEF Differing, Kind
    <2>10. Differing("changed", LastKey) = {k \in DOMAIN Applied \cap DOMAIN old : Applied[k] # old[k]}
        BY <2>6, <2>7 DEF Differing, Kind
    <2>11. "added" \in Types /\ "removed" \in Types /\ "changed" \in Types
        BY DEF Types
    <2>12. /\ summary["added"] = Cardinality(DOMAIN Applied \ DOMAIN old)
           /\ summary["removed"] = Cardinality(DOMAIN old \ DOMAIN Applied)
           /\ summary["changed"] = Cardinality({k \in DOMAIN Applied \cap DOMAIN old : Applied[k] # old[k]})
        BY <2>4, <2>8, <2>9, <2>10, <2>11
    <2>13. QED
        BY <2>12
<1>2. QED
    BY <1>1, CommittedAlways, PTL

\* A request that the promise holds for, and where its merge stands.
Promised == CommittedInv /\ OwnIdentities
Standing == IsMerge => SettledInv

Said ==
    /\ IsMerge => MergeTells
    /\ IsDiff => Tells(0) /\ Verdict = "running"
    /\ IsCommit => CommitTells

\* What is merged is what the promise has for what is settled.
LEMMA PromisedSays == Promised => Said
<1> SUFFICES ASSUME Promised PROVE Said
    OBVIOUS
<1>1. IsRequest(job) /\ OwnIdentities
    BY DEF Promised, CommittedInv
<1>2. IsMerge => MergeTells
    BY <1>1, MergeSaysSo DEF Promised, CommittedInv
<1>3. IsDiff => Tells(0) /\ Verdict = "running"
    BY DiffSaysSo DEF Promised, CommittedInv
<1>4. IsCommit => CommitTells
    BY <1>1, CommitSaysSo DEF Promised, CommittedInv
<1>5. QED
    BY <1>2, <1>3, <1>4 DEF Said

LEMMA PromisedStarts ==
    ASSUME Init, OwnIdentities
    PROVE  Promised /\ Standing /\ Promise!Init
<1>1. status = "begin" /\ Untouched
    BY DEF Init, MergeInit, WriterInit, Untouched
<1>2. Tells(0) /\ Verdict = "running"
    BY <1>1, ToldOfNothing, VerdictMeans
<1>3. Promise!Init
    BY <1>2 DEF Promise!Init, Tells, Merged, Verdict
<1>4. QED
    BY <1>1, <1>3, CommittedInit DEF Promised, Standing, SettledInv

\* The request does not change.
LEMMA PromisedStays ==
    ASSUME Promised, [Next]_vars
    PROVE  /\ Promised'
           /\ job' = job
           /\ (IsMerge' <=> IsMerge) /\ (IsDiff' <=> IsDiff) /\ (IsCommit' <=> IsCommit)
<1>1. CommittedInv' /\ job' = job
    BY CommittedStep DEF Promised
<1>2. OwnIdentities'
    BY <1>1 DEF Promised, OwnIdentities
<1>3. QED
    BY <1>1, <1>2 DEF Promised, IsMerge, IsDiff, IsCommit

\* A step of an operation is one of the promise, or none, and a merge still
\* stands where all before is settled.
LEMMA PromisedStep ==
    ASSUME Promised, Standing, Said, Said', [Next]_vars
    PROVE  [Promise!Next]_(Promise!vars) /\ Standing'
<1>1. IsRequest(job) /\ job' = job /\ OwnIdentities
    BY PromisedStays DEF Promised, CommittedInv
<1>2. (IsMerge' <=> IsMerge) /\ (IsDiff' <=> IsDiff) /\ (IsCommit' <=> IsCommit)
    BY PromisedStays
<1>3. CASE IsMerge
    <2>1. MergeTells /\ MergeTells' /\ MergeInv /\ SettledInv
        BY <1>2, <1>3 DEF Said, Promised, CommittedInv, Standing
    <2>2. SettledInv' /\ [Promise!Next]_(Promise!vars)
        BY <1>1, <1>3, <2>1, MergeFollows
    <2>3. QED
        BY <2>2 DEF Standing
<1>4. CASE IsDiff
    <2>1. Tells(0) /\ Verdict = "running" /\ Tells(0)' /\ Verdict' = "running"
        BY <1>2, <1>4 DEF Said
    <2>2. QED
        BY <1>1, <1>2, <1>4, <2>1, DiffFollows, Operations DEF Standing
<1>5. CASE IsCommit
    <2>1. CommitTells /\ CommitTells' /\ CommitInv
        BY <1>2, <1>5 DEF Said, Promised, CommittedInv
    <2>2. QED
        BY <1>1, <1>2, <1>5, <2>1, CommitFollows, Operations DEF Standing
<1>6. QED
    BY <1>1, <1>3, <1>4, <1>5, Operations

\* Every step of a merge, an import or a commit is a step of the three-way
\* merge, or none, and so they end as its table says (merge.go, commit.go).
\* Of a merge, no identity of the base may be one of another key on a side:
\* merge.go tells who changed a record by identities of any key.
THEOREM MergesKeepPromise == Spec /\ OwnIdentities => MergeKeepsPromise
<1>1. Init /\ OwnIdentities => Promised /\ Standing /\ Promise!Init
    BY PromisedStarts
<1>2. Promised /\ [Next]_vars => Promised'
    BY PromisedStays
<1>3. Promised => Said
    BY PromisedSays
<1>4. Promised /\ Standing /\ Said /\ Said' /\ [Next]_vars => [Promise!Next]_(Promise!vars) /\ Standing'
    BY PromisedStep
<1>5. Spec /\ OwnIdentities => []Promised
    BY <1>1, <1>2, PTL DEF Spec
<1>6. Spec /\ OwnIdentities => []Said
    BY <1>3, <1>5, PTL
<1>7. Spec /\ OwnIdentities => []Standing
    BY <1>1, <1>4, <1>5, <1>6, PTL DEF Spec
<1>8. Spec /\ OwnIdentities => Promise!Init /\ [][Promise!Next]_(Promise!vars)
    BY <1>1, <1>4, <1>5, <1>6, <1>7, PTL DEF Spec
<1>9. QED
    BY <1>8 DEF MergeKeepsPromise, Promise!Spec
=============================================================================
