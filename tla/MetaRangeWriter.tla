-------------------------- MODULE MetaRangeWriter --------------------------
(***************************************************************************)
(* GeneralMetaRangeWriter (pkg/graveler/committed/meta_range_writer.go):   *)
(* records are collected in a range that is closed when it is large        *)
(* enough, whole ranges are taken over as they are, and in the end all     *)
(* ranges are sorted and written as the new meta-range.  Whether a range   *)
(* is large enough depends on its size and a hash of the key; here, on the *)
(* key.                                                                    *)
(***************************************************************************)
EXTENDS MetaRanges

CONSTANT BreakKeys \* keys after which a range is closed

VARIABLES lastKey,  \* the last key written; 0 at first
          open,     \* records of the range that is being written
          closed,   \* ranges that were closed or taken over
          unsorted  \* ErrUnsortedKeys was returned

writerVars == <<lastKey, open, closed, unsorted>>

WriterInit ==
    /\ lastKey = 0
    /\ open = <<>>
    /\ closed = {}
    /\ unsorted = FALSE

\* closeCurrentRange
Closing(range) == IF range = <<>> THEN {} ELSE {range}

WriteRecord(rec) ==
    IF rec.key <= lastKey
    THEN /\ unsorted' = TRUE
         /\ UNCHANGED <<lastKey, open, closed>>
    ELSE /\ lastKey' = rec.key
         /\ IF rec.key \in BreakKeys
            THEN /\ closed' = closed \cup {Append(open, rec)}
                 /\ open' = <<>>
            ELSE /\ open' = Append(open, rec)
                 /\ UNCHANGED closed
         /\ UNCHANGED unsorted

\* A bug: the range that is being written stays open, and its records end up
\* in one range with those that come after the whole range.
WriteRangeBetween(range) ==
    IF MinKey(range) <= lastKey
    THEN /\ unsorted' = TRUE
         /\ UNCHANGED <<lastKey, open, closed>>
    ELSE /\ lastKey' = MaxKey(range)
         /\ closed' = closed \cup {range}
         /\ UNCHANGED <<open, unsorted>>

WriteRange(range) ==
    IF MinKey(range) <= lastKey
    THEN /\ unsorted' = TRUE
         /\ UNCHANGED <<lastKey, open, closed>>
    ELSE /\ lastKey' = MaxKey(range)
         /\ closed' = closed \cup Closing(open) \cup {range}
         /\ open' = <<>>
         /\ UNCHANGED unsorted

WriteNothing == UNCHANGED writerVars

\* Close: the ranges of the new meta-range, sorted by their last keys.
WrittenRanges == closed \cup Closing(open)
NewMetaRange ==
    CHOOSE mr \in [1..Cardinality(WrittenRanges) -> WrittenRanges] :
        \A n, m \in DOMAIN mr : n < m => MaxKey(mr[n]) < MaxKey(mr[m])
=============================================================================
