-------------------------------- MODULE Merge --------------------------------
(***************************************************************************)
(* Merge (pkg/graveler/committed/merge.go) walks over three meta-ranges    *)
(* at once: where whole ranges decide the outcome it takes or drops them   *)
(* unread, and elsewhere it goes from record to record.  An import is a    *)
(* merge with no base, whose destination is read through an iterator that  *)
(* leaves out what is under the imported prefixes (skip_prefix_iterator).  *)
(*                                                                         *)
(* The loops that move iterators forward are given by where they end.      *)
(***************************************************************************)
EXTENDS MetaRangeWriter

VARIABLES
    job,     \* what is merged: three meta-ranges, a strategy, and prefixes
    base,    \* the iterators
    source,
    dest,    \* ... with the index of the next prefix
    status   \* "begin", "merging", "conflict", "done" or the manager's

mergeVars == <<job, base, source, dest, status, writerVars>>

Strategies == {"none", "source", "dest"}

MergeInit ==
    /\ base = Start
    /\ source = Start
    /\ dest = [range |-> 0, rec |-> 0, prefix |-> 1]
    /\ status = "begin"
    /\ WriterInit

-----------------------------------------------------------------------------
(* SkipPrefixIterator.  A prefix is the interval of keys it begins.        *)

HasPrefix(key, prefix) == prefix.lo <= key /\ key <= prefix.hi

\* Prefixes that end before the key are passed, as long as the next one is
\* not behind the range.
UpdatePrefix(prefixes, range, it) ==
    LET key == IF it.rec = 0 THEN MinKey(range) ELSE range[it.rec].key
        Stays(p) ==
            \/ p > Len(prefixes)
            \/ key <= prefixes[p].hi
            \/ p < Len(prefixes) /\ prefixes[p + 1].lo > MaxKey(range)
    IN [it EXCEPT !.prefix = Seqs!Min({p \in it.prefix..(Len(prefixes) + 1) : Stays(p)})]

Updated(mr, prefixes, it) ==
    IF Have(mr, it) THEN UpdatePrefix(prefixes, RangeAt(mr, it), it) ELSE it

\* IsCurrentRangeBoundedByPrefix
Bounded(mr, prefixes, it) ==
    /\ Have(mr, it) /\ it.prefix <= Len(prefixes)
    /\ HasPrefix(MinKey(RangeAt(mr, it)), prefixes[it.prefix])
    /\ HasPrefix(MaxKey(RangeAt(mr, it)), prefixes[it.prefix])

\* The prefix depends on where the iterator is, and not on where it stopped
\* before: what is passed for one range or record is passed for the next.
SkipRanges(mr, prefixes, it) ==
    LET At(n) == Updated(mr, prefixes, [it EXCEPT !.range = n])
        stops == {n \in it.range..Len(mr) : ~Bounded(mr, prefixes, At(n))}
    IN IF ~Have(mr, it) THEN it
       ELSE IF stops # {} THEN At(Seqs!Min(stops))
       ELSE NextRange(mr, At(Len(mr)))

UnderItsPrefix(mr, prefixes, it) ==
    it.prefix <= Len(prefixes) /\ HasPrefix(Record(mr, it).key, prefixes[it.prefix])

SkipRecords(mr, prefixes, it) ==
    LET At(i) == Updated(mr, prefixes, [it EXCEPT !.rec = i])
        last == Len(RangeAt(mr, it))
        stops == {i \in it.rec..last : ~UnderItsPrefix(mr, prefixes, At(i))}
    IN IF ~AtRecord(mr, it) THEN it
       ELSE IF stops # {} THEN At(Seqs!Min(stops))
       ELSE Updated(mr, prefixes, NextRange(mr, At(last)))

SkipNextRange(mr, prefixes, it) ==
    SkipRanges(mr, prefixes, Updated(mr, prefixes, NextRange(mr, it)))

\* A header that is come upon behind skipped records is not looked at.
SkipNext(mr, prefixes, it) ==
    LET next == Updated(mr, prefixes, Next1(mr, it))
    IN IF AtRange(mr, next) THEN SkipRanges(mr, prefixes, next)
       ELSE SkipRecords(mr, prefixes, next)

\* IsCurrentPrefixIncludedInRange
PrefixIncluded(mr, prefixes, it) ==
    /\ it.prefix <= Len(prefixes)
    /\ LET p == prefixes[it.prefix]
           r == RangeAt(mr, it)
       IN HasPrefix(MinKey(r), p) \/ (MinKey(r) < p.lo /\ p.lo <= MaxKey(r))

-----------------------------------------------------------------------------
(* Where the iterators are and where they may go.                          *)

HaveSource == Have(job.source, source)
HaveDest == Have(job.dest, dest)
SourceRange == RangeAt(job.source, source)
DestRange == RangeAt(job.dest, dest)
SourceRecord == Record(job.source, source)
DestRecord == Record(job.dest, dest)

SourceNext == source' = Next1(job.source, source)
DestNext == dest' = SkipNext(job.dest, job.prefixes, dest)
SourceNextRange == source' = NextRange(job.source, source)
DestNextRange == dest' = SkipNextRange(job.dest, job.prefixes, dest)
SourceStays == UNCHANGED source
DestStays == UNCHANGED dest

\* validWritingRange of the destination
ValidWriting == ~PrefixIncluded(job.dest, job.prefixes, dest)

End == [range |-> Len(job.base) + 1, rec |-> 0]

\* The base's records from where its iterator is.
BaseAhead ==
    {it \in UNION {{[range |-> n, rec |-> i] : i \in DOMAIN job.base[n]} : n \in DOMAIN job.base} :
        it.range > base.range \/ (it.range = base.range /\ it.rec >= base.rec)}

\* getNextGEKey: the first record from there on whose key is not smaller.
BaseGE(key) ==
    LET found == {it \in BaseAhead : Record(job.base, it).key >= key}
    IN IF found = {} THEN End
       ELSE CHOOSE it \in found :
                \A other \in found : Record(job.base, it).key <= Record(job.base, other).key

\* getNextOverlappingFromBase: the range it is in, or the first one after it
\* that does not end before the given range; it has to begin in time, too.
BaseFrom(range) ==
    IF Have(job.base, base) /\ MaxKey(RangeAt(job.base, base)) >= MinKey(range) THEN base
    ELSE LET found == {n \in DOMAIN job.base : n > base.range /\ MaxKey(job.base[n]) >= MinKey(range)}
         IN IF found = {} THEN End
            ELSE [range |-> Seqs!Min(found), rec |-> 0]

Overlapping(range) ==
    LET it == BaseFrom(range)
    IN IF Have(job.base, it) /\ MinKey(RangeAt(job.base, it)) <= MaxKey(range)
       THEN RangeAt(job.base, it) ELSE <<>>

\* A bug: the key of the base's next record is not looked at.
BaseHasNext(rec) == Have(job.base, BaseGE(rec.key))

\* What the base has for a record, if its next record is of that key.
BaseHas(rec) == Have(job.base, BaseGE(rec.key)) /\ Record(job.base, BaseGE(rec.key)).key = rec.key

BaseSame(rec) == Have(job.base, BaseGE(rec.key)) /\ Record(job.base, BaseGE(rec.key)).id = rec.id

Conflict == status' = "conflict" /\ WriteNothing /\ SourceStays /\ DestStays
Goes == UNCHANGED <<job, status>>

Merging == status = "merging" /\ ~unsorted

-----------------------------------------------------------------------------
(* Both at records, or one before the other's range.                       *)

\* destBeforeSource, sourceBeforeDest: a record that only one of them has.
\* favours is the strategy by which it is kept in a conflict.
OneSided(rec, favours) ==
    /\ base' = BaseGE(rec.key)
    /\ \/ BaseHas(rec) /\ BaseSame(rec) /\ WriteNothing \* the other deleted it
       \/ ~BaseHas(rec) /\ WriteRecord(rec)             \* it is new
       \/ /\ BaseHas(rec) /\ ~BaseSame(rec)
          /\ \/ job.strategy = favours /\ WriteRecord(rec)
             \/ job.strategy \notin {favours, "none"} /\ WriteNothing

OneSidedConflict(rec) ==
    /\ BaseHas(rec) /\ ~BaseSame(rec) /\ job.strategy = "none"
    /\ base' = BaseGE(rec.key)
    /\ Conflict /\ UNCHANGED job

SourceBefore ==
    \/ OneSided(SourceRecord, "source") /\ SourceNext /\ DestStays /\ Goes
    \/ OneSidedConflict(SourceRecord)

DestBefore ==
    \/ OneSided(DestRecord, "dest") /\ DestNext /\ SourceStays /\ Goes
    \/ OneSidedConflict(DestRecord)

\* A record of one key on both sides: who changed it is told by the identity
\* of the base's next record, of whatever key.
SameKey ==
    LET s == SourceRecord
        d == DestRecord
    IN /\ base' = BaseGE(d.key)
       /\ \/ /\ \/ s.id = d.id /\ WriteRecord(s)
                \/ s.id # d.id /\ BaseSame(s) /\ WriteRecord(d)
                \/ s.id # d.id /\ ~BaseSame(s) /\ BaseSame(d) /\ WriteRecord(s)
                \/ /\ s.id # d.id /\ ~BaseSame(s) /\ ~BaseSame(d)
                   /\ \/ job.strategy = "source" /\ WriteRecord(s)
                      \/ job.strategy = "dest" /\ WriteRecord(d)
             /\ SourceNext /\ DestNext /\ Goes
          \/ /\ s.id # d.id /\ ~BaseSame(s) /\ ~BaseSame(d)
             /\ job.strategy = "none"
             /\ Conflict /\ UNCHANGED job

HandleBothKeys ==
    /\ Merging
    /\ AtRecord(job.source, source) /\ AtRecord(job.dest, dest)
    /\ \/ SourceRecord.key < DestRecord.key /\ SourceBefore
       \/ SourceRecord.key > DestRecord.key /\ DestBefore
       \/ SourceRecord.key = DestRecord.key /\ SameKey

-----------------------------------------------------------------------------
(* One or both at the header of a range.                                   *)

\* A range that is wholly before what the other has: taken if the base has
\* nothing there, dropped if the base has it as it is.
DropsOrTakes(range) ==
    /\ base' = BaseFrom(range)
    /\ \/ Overlapping(range) = <<>> /\ WriteRange(range)
       \/ Overlapping(range) = range /\ WriteNothing

Mixed(range) == Overlapping(range) \notin {<<>>, range}

BaseStays == UNCHANGED base
EnterSource == SourceNext /\ DestStays /\ WriteNothing /\ Goes
EnterDest == DestNext /\ SourceStays /\ WriteNothing /\ Goes
EnterBoth == SourceNext /\ DestNext /\ WriteNothing /\ Goes

HandleDestRangeSourceKey ==
    /\ Merging
    /\ AtRecord(job.source, source) /\ AtRange(job.dest, dest)
    /\ LET before == MaxKey(DestRange) < SourceRecord.key /\ ValidWriting
       IN \/ MinKey(DestRange) > SourceRecord.key /\ SourceBefore
          \/ /\ MinKey(DestRange) <= SourceRecord.key
             /\ \/ before /\ DropsOrTakes(DestRange) /\ DestNextRange /\ SourceStays /\ Goes
                \/ before /\ Mixed(DestRange) /\ base' = BaseFrom(DestRange) /\ EnterDest
                \/ ~before /\ BaseStays /\ EnterDest

HandleSourceRangeDestKey ==
    /\ Merging
    /\ AtRange(job.source, source) /\ AtRecord(job.dest, dest)
    /\ LET before == MaxKey(SourceRange) < DestRecord.key
       IN \/ MinKey(SourceRange) > DestRecord.key /\ DestBefore
          \/ /\ MinKey(SourceRange) <= DestRecord.key
             /\ \/ before /\ DropsOrTakes(SourceRange) /\ SourceNextRange /\ DestStays /\ Goes
                \/ before /\ Mixed(SourceRange) /\ base' = BaseFrom(SourceRange) /\ EnterSource
                \/ ~before /\ BaseStays /\ EnterSource

EqualBounds(r, q) == MinKey(r) = MinKey(q) /\ MaxKey(r) = MaxKey(q)

\* One of two ranges with the same bounds is the base's: the other is newer.
SameBounds ==
    LET overlap == Overlapping(SourceRange)
    IN /\ base' = BaseFrom(SourceRange)
       /\ \/ /\ overlap \in {SourceRange, DestRange}
             /\ WriteRange(IF overlap = SourceRange THEN DestRange ELSE SourceRange)
             /\ SourceNextRange /\ DestNextRange /\ Goes
          \/ overlap \notin {SourceRange, DestRange} /\ EnterBoth

HandleBothRanges ==
    /\ Merging
    /\ AtRange(job.source, source) /\ AtRange(job.dest, dest)
    /\ LET s == SourceRange
           d == DestRange
           sourceFirst == MaxKey(s) < MinKey(d)
           destFirst == MaxKey(d) < MinKey(s) /\ ValidWriting
       IN \/ s = d /\ WriteRange(s) /\ SourceNextRange /\ DestNextRange /\ BaseStays /\ Goes
          \/ s # d /\ EqualBounds(s, d) /\ SameBounds
          \/ sourceFirst /\ DropsOrTakes(s) /\ SourceNextRange /\ DestStays /\ Goes
          \/ sourceFirst /\ Mixed(s) /\ base' = BaseFrom(s) /\ EnterBoth
          \/ destFirst /\ DropsOrTakes(d) /\ DestNextRange /\ SourceStays /\ Goes
          \/ destFirst /\ Mixed(d) /\ base' = BaseFrom(d) /\ EnterBoth
          \/ s # d /\ ~EqualBounds(s, d) /\ ~sourceFirst /\ ~destFirst /\ BaseStays /\ EnterBoth

-----------------------------------------------------------------------------
(* handleAll: only one of them has anything left.                          *)

\* A record is left out if the base's next record has its identity.
RestRecord(rec, favours) ==
    /\ base' = BaseGE(rec.key)
    /\ \/ BaseSame(rec) /\ WriteNothing
       \/ ~BaseSame(rec) /\ ~BaseHas(rec) /\ WriteRecord(rec)
       \/ /\ ~BaseSame(rec) /\ BaseHas(rec)
          /\ \/ job.strategy = favours /\ WriteRecord(rec)
             \/ job.strategy \notin {favours, "none"} /\ WriteNothing

RestConflict(rec) ==
    /\ ~BaseSame(rec) /\ BaseHas(rec) /\ job.strategy = "none"
    /\ base' = BaseGE(rec.key)
    /\ Conflict /\ UNCHANGED job

HandleAllSource ==
    /\ Merging
    /\ HaveSource /\ ~HaveDest
    /\ \/ AtRange(job.source, source) /\ DropsOrTakes(SourceRange) /\ SourceNextRange /\ DestStays /\ Goes
       \/ AtRange(job.source, source) /\ Mixed(SourceRange) /\ base' = BaseFrom(SourceRange) /\ EnterSource
       \/ AtRecord(job.source, source) /\ RestRecord(SourceRecord, "source") /\ SourceNext /\ DestStays /\ Goes
       \/ AtRecord(job.source, source) /\ RestConflict(SourceRecord)

HandleAllDest ==
    /\ Merging
    /\ HaveDest /\ ~HaveSource
    /\ \/ AtRange(job.dest, dest) /\ DropsOrTakes(DestRange) /\ DestNextRange /\ SourceStays /\ Goes
       \/ AtRange(job.dest, dest) /\ Mixed(DestRange) /\ base' = BaseFrom(DestRange) /\ EnterDest
       \/ AtRecord(job.dest, dest) /\ RestRecord(DestRecord, "dest") /\ DestNext /\ SourceStays /\ Goes
       \/ AtRecord(job.dest, dest) /\ RestConflict(DestRecord)

-----------------------------------------------------------------------------

MergeStart ==
    /\ status = "begin"
    /\ status' = "merging"
    /\ base' = Next1(job.base, base)
    /\ SourceNext /\ DestNext
    /\ WriteNothing /\ UNCHANGED job

MergeEnd ==
    /\ Merging
    /\ ~HaveSource /\ ~HaveDest
    /\ status' = "done"
    /\ UNCHANGED <<job, base, source, dest, writerVars>>

MergeNext ==
    \/ HandleBothRanges \/ HandleDestRangeSourceKey \/ HandleSourceRangeDestKey \/ HandleBothKeys
    \/ HandleAllSource \/ HandleAllDest
    \/ MergeEnd
=============================================================================
