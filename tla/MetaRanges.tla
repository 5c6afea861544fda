----------------------------- MODULE MetaRanges -----------------------------
(***************************************************************************)
(* Meta-ranges (pkg/graveler/committed): the objects of a commit as a list *)
(* of ranges, each a sorted list of records, and the iterator that walks   *)
(* over them (iterator.go).  The iterator stops at the header of a range   *)
(* before it enters it, so that whoever walks may skip the whole range.    *)
(*                                                                         *)
(* A range's ID is a hash of what is in it; here it is its contents.  Keys *)
(* are numbers.                                                            *)
(***************************************************************************)
EXTENDS Integers, FiniteSets, Sequences

Seqs == INSTANCE SequencesExt

\* A record: [key |-> a key, id |-> the identity of its value].
MinKey(range) == range[1].key
MaxKey(range) == range[Len(range)].key

\* What a meta-range holds: a function of the keys it has.
Records(mr) == UNION {Seqs!ToSet(mr[n]) : n \in DOMAIN mr}
Contents(mr) ==
    LET keys == {rec.key : rec \in Records(mr)}
    IN [k \in keys |-> (CHOOSE rec \in Records(mr) : rec.key = k).id]

\* What has to be true of a list of ranges that is read as a meta-range.
Sorted(mr) ==
    /\ \A n \in DOMAIN mr : \A i, j \in DOMAIN mr[n] : i < j => mr[n][i].key < mr[n][j].key
    /\ \A n, m \in DOMAIN mr : n < m => MaxKey(mr[n]) < MinKey(mr[m])

-----------------------------------------------------------------------------
(* The iterator: the range it is at, and the record; 0 before the first    *)
(* range, and at a range's header.                                         *)

Start == [range |-> 0, rec |-> 0]

Have(mr, it) == it.range \in DOMAIN mr
AtRange(mr, it) == Have(mr, it) /\ it.rec = 0
AtRecord(mr, it) == Have(mr, it) /\ it.rec > 0

RangeAt(mr, it) == mr[it.range]
Record(mr, it) == mr[it.range][it.rec]

NextRange(mr, it) ==
    [it EXCEPT !.range = IF @ > Len(mr) THEN @ ELSE @ + 1, !.rec = 0]

\* The next record of the range, from its header on; after the last one, the
\* next range's header.
Next1(mr, it) ==
    IF Have(mr, it) /\ it.rec < Len(RangeAt(mr, it)) THEN [it EXCEPT !.rec = @ + 1]
    ELSE NextRange(mr, it)

\* The smallest key that is still ahead, or the one given if there is none.
KeyAhead(mr, it, otherwise) ==
    IF AtRecord(mr, it) THEN Record(mr, it).key
    ELSE IF AtRange(mr, it) THEN MinKey(RangeAt(mr, it))
    ELSE otherwise
=============================================================================
