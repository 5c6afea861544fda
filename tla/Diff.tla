-------------------------------- MODULE Diff --------------------------------
(***************************************************************************)
(* Differences between two meta-ranges (pkg/graveler/committed/diff.go)    *)
(* and, on top of them, what a merge would change (compare_iterator.go).   *)
(* The iterators are those of a merge: the left side is the destination,   *)
(* the right side the source.                                              *)
(*                                                                         *)
(* A reader calls Next until there is no more.  It may skip a range whose  *)
(* header it was given with NextRange, as long as it is in it, and start   *)
(* anew from a key with SeekGE.  A call of Next is a step that begins it   *)
(* and one step for each turn of its loop.                                 *)
(***************************************************************************)
EXTENDS Merge

CONSTANT LastKey \* keys are 1..LastKey

Beyond == LastKey + 1

VARIABLES
    inside,  \* the range that was given: "none", "left", "right", "both"
    fresh,   \* the next call reads both sides first
    told,    \* the differences, in the order in which they were given
    skipped, \* ranges that were skipped
    seeked,  \* the key of SeekGE, 0 before
    foretold \* what compareIterator gave

diffVars == <<inside, fresh, told, skipped, seeked, foretold>>

DiffInit ==
    /\ inside = "none"
    /\ fresh = TRUE
    /\ told = <<>>
    /\ skipped = {}
    /\ seeked = 0
    /\ foretold = <<>>

\* iterator.go, SeekGE: the next step of the iterator is to the first record
\* that is not smaller, or first to the header of its range if the range has
\* no smaller record and the iterator is not within it already.
SeekGE(mr, it, key) ==
    LET in == AtRecord(mr, it) /\ MinKey(RangeAt(mr, it)) <= key /\ key <= MaxKey(RangeAt(mr, it))
        found == {n \in DOMAIN mr : MaxKey(mr[n]) >= key}
        n == IF found = {} THEN Len(mr) + 1 ELSE Seqs!Min(found)
        Smaller(range) == Cardinality({i \in DOMAIN range : range[i].key < key})
        before == IF n = 1 THEN Start
                  ELSE [range |-> n - 1, rec |-> Len(mr[n - 1])]
    IN IF in THEN [range |-> it.range, rec |-> Smaller(RangeAt(mr, it))]
       ELSE IF n > Len(mr) \/ key <= MinKey(mr[n]) THEN before
       ELSE [range |-> n, rec |-> Smaller(mr[n])]

DestSeekGE(key) ==
    LET it == SeekGE(job.dest, [range |-> dest.range, rec |-> dest.rec], key)
    IN dest' = [dest EXCEPT !.range = it.range, !.rec = it.rec]

-----------------------------------------------------------------------------
(* compareIterator *)

BaseId(key) == LET contents == Contents(job.base) IN IF key \in DOMAIN contents THEN contents[key] ELSE 0

\* A bug: what both sides added, each in its own way, passes for a change.
MeaningOfBoth(diff) == diff.type

\* stepValue: what a difference between the destination and the source means
\* for a merge.
Meaning(diff) ==
    LET b == BaseId(diff.key)
    IN CASE diff.type = "added" /\ b = 0 -> "added"
         [] diff.type = "added" /\ b # 0 -> IF b = diff.id THEN "nothing" ELSE "conflict"
         [] diff.type = "changed" /\ b = 0 -> "conflict"
         [] diff.type = "changed" /\ b # 0 ->
                IF b = diff.id THEN "nothing" ELSE IF b = diff.left THEN "changed" ELSE "conflict"
         [] diff.type = "removed" /\ b = 0 -> "nothing"
         [] diff.type = "removed" /\ b # 0 -> IF b = diff.left THEN "removed" ELSE "conflict"

Tell(type, rec, left) ==
    LET diff == [type |-> type, key |-> rec.key, id |-> rec.id, left |-> left]
    IN /\ told' = Append(told, diff)
       /\ foretold' = IF job.op = "compare" /\ Meaning(diff) # "nothing"
                      THEN Append(foretold, [type |-> Meaning(diff), key |-> rec.key])
                      ELSE foretold
       /\ status' = "reading"

TellNothing == UNCHANGED <<told, foretold>>

-----------------------------------------------------------------------------
(* The reader's calls *)

Reading == job.op \in {"diff", "compare"} /\ status \in {"begin", "reading"}

\* Next, the first time or after SeekGE or the header of a changed range.
CallNextFresh ==
    /\ Reading /\ fresh
    /\ status' = "diffing"
    /\ SourceNext /\ DestNext
    /\ inside' = "none" /\ fresh' = FALSE
    /\ TellNothing
    /\ UNCHANGED <<skipped, seeked>>

CallNext ==
    /\ Reading /\ ~fresh /\ inside = "none"
    /\ status' = "diffing"
    /\ UNCHANGED <<source, dest, diffVars>>

\* Next within a range of one side: its next record, or on after its end.
CallNextInside ==
    /\ Reading /\ ~fresh /\ inside \in {"left", "right"}
    /\ \/ inside = "left" /\ DestNext /\ SourceStays
          /\ \/ AtRecord(job.dest, dest') /\ Tell("removed", Record(job.dest, dest'), Record(job.dest, dest').id)
                /\ UNCHANGED inside
             \/ ~AtRecord(job.dest, dest') /\ status' = "diffing" /\ inside' = "none" /\ TellNothing
       \/ inside = "right" /\ SourceNext /\ DestStays
          /\ \/ AtRecord(job.source, source') /\ Tell("added", Record(job.source, source'), 0)
                /\ UNCHANGED inside
             \/ ~AtRecord(job.source, source') /\ status' = "diffing" /\ inside' = "none" /\ TellNothing
    /\ UNCHANGED <<fresh, skipped, seeked>>

CallNextRange ==
    /\ Reading /\ job.op = "diff" /\ inside # "none"
    /\ IF inside = "right" THEN DestStays ELSE DestNextRange
    /\ IF inside = "left" THEN SourceStays ELSE SourceNextRange
    /\ skipped' = skipped \cup {[type |-> inside, range |-> IF inside = "left" THEN DestRange ELSE SourceRange]}
    /\ inside' = "none"
    /\ fresh' = IF inside = "both" THEN FALSE ELSE fresh
    /\ status' = "diffing"
    /\ TellNothing
    /\ UNCHANGED seeked

\* A bound: readers seek once.
CallSeekGE(key) ==
    /\ Reading /\ seeked = 0
    /\ source' = SeekGE(job.source, source, key)
    /\ DestSeekGE(key)
    /\ inside' = "none" /\ fresh' = TRUE
    /\ status' = "reading"
    /\ seeked' = key
    /\ told' = <<>> /\ foretold' = <<>> /\ skipped' = {} \* they concern what follows

-----------------------------------------------------------------------------
(* One turn of the loop of Next, by the outcome of compareDiffIterators.   *)

LeftKey == KeyAhead(job.dest, dest, Beyond)
RightKey == KeyAhead(job.source, source, Beyond)
LeftStart == AtRange(job.dest, dest)
RightStart == AtRange(job.source, source)

SameRanges == HaveDest /\ HaveSource /\ DestRange = SourceRange

\* A bug: a range that begins first is taken for one that ends first.
LeftRangeBegins ==
    LeftStart /\ (~HaveSource \/ (RightStart /\ MinKey(DestRange) < MinKey(SourceRange)))

LeftRangeBefore ==
    LeftStart /\ (~HaveSource \/ (RightStart /\ MaxKey(DestRange) < MinKey(SourceRange)))

RightRangeBefore ==
    RightStart /\ (~HaveDest \/ (LeftStart /\ MaxKey(SourceRange) < MinKey(DestRange)))
SameBoundsBoth == LeftStart /\ RightStart /\ EqualBounds(DestRange, SourceRange)
Whole == SameRanges \/ LeftRangeBefore \/ RightRangeBefore \/ SameBoundsBoth

GiveRange(side) == inside' = side /\ status' = "reading" /\ SourceStays /\ DestStays

TurnOnRanges ==
    /\ \/ /\ ~HaveSource /\ ~HaveDest
          /\ status' = "told" /\ SourceStays /\ DestStays /\ UNCHANGED <<inside, fresh>>
       \/ SameRanges /\ SourceNextRange /\ DestNextRange /\ UNCHANGED <<inside, fresh, status>>
       \/ ~SameRanges /\ LeftRangeBefore /\ GiveRange("left") /\ UNCHANGED fresh
       \/ ~SameRanges /\ RightRangeBefore /\ GiveRange("right") /\ UNCHANGED fresh
       \/ ~SameRanges /\ SameBoundsBoth /\ GiveRange("both") /\ fresh' = TRUE
    /\ TellNothing

\* Into the range with the smaller key, or into both.
TurnIntoRange ==
    /\ ~Whole
    /\ \/ LeftStart /\ LeftKey <= RightKey
       \/ RightStart /\ RightKey <= LeftKey
    /\ IF LeftStart /\ LeftKey <= RightKey THEN DestNext ELSE DestStays
    /\ IF RightStart /\ RightKey <= LeftKey THEN SourceNext ELSE SourceStays
    /\ TellNothing
    /\ UNCHANGED <<inside, fresh, status>>

TurnOnRecords ==
    /\ ~Whole
    /\ LeftKey <= RightKey => AtRecord(job.dest, dest)
    /\ RightKey <= LeftKey => AtRecord(job.source, source)
    /\ IF LeftKey <= RightKey THEN DestNext ELSE DestStays
    /\ IF RightKey <= LeftKey THEN SourceNext ELSE SourceStays
    /\ \/ LeftKey < RightKey /\ Tell("removed", DestRecord, DestRecord.id)
       \/ RightKey < LeftKey /\ Tell("added", SourceRecord, 0)
       \/ LeftKey = RightKey /\ DestRecord # SourceRecord /\ Tell("changed", SourceRecord, DestRecord.id)
       \/ LeftKey = RightKey /\ DestRecord = SourceRecord /\ TellNothing /\ UNCHANGED status
    /\ UNCHANGED <<inside, fresh>>

Turn ==
    /\ job.op \in {"diff", "compare"} /\ status = "diffing"
    /\ TurnOnRanges \/ TurnIntoRange \/ TurnOnRecords
    /\ UNCHANGED <<skipped, seeked>>

DiffNext ==
    /\ \/ CallNextFresh \/ CallNext \/ CallNextInside \/ CallNextRange
       \/ \E key \in 1..LastKey : CallSeekGE(key)
       \/ Turn
    /\ UNCHANGED <<job, base, writerVars>>
=============================================================================
