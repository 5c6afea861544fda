------------------------------ MODULE Committed ------------------------------
(***************************************************************************)
(* The committed manager (pkg/graveler/committed/manager.go): one request  *)
(* to merge, to import or to commit, from its meta-ranges to the new one.  *)
(* The walk of a merge or an import is in Merge; that of a commit          *)
(* (commit.go), which applies a sorted list of changes to a meta-range, is *)
(* here.                                                                   *)
(***************************************************************************)
EXTENDS Diff

CONSTANTS
    Request(_), \* whether this is one of the requests
    Tombstone   \* the identity of a change that deletes

VARIABLES
    change,  \* the index of the next change
    summary  \* how many objects the commit added, changed and removed

Identities == Nat \ {0}

vars == <<mergeVars, diffVars, change, summary>>

NoSummary == [added |-> 0, changed |-> 0, removed |-> 0]

ASSUME CommittedAssumption ==
    /\ LastKey \in Nat
    /\ Tombstone \notin Identities

\* What a caller hands over.  Meta-ranges were written by the manager; the
\* iterator over an import's destination sorts the prefixes, and what is
\* imported lies under them.
IsMetaRange(mr) ==
    /\ mr \in Seq(Seq([key : 1..LastKey, id : Identities]))
    /\ \A n \in DOMAIN mr : mr[n] # <<>>
    /\ Sorted(mr)

IsRequest(j) ==
    /\ j.op \in {"merge", "import", "commit", "diff", "compare"}
    /\ IsMetaRange(j.base) /\ IsMetaRange(j.source) /\ IsMetaRange(j.dest)
    /\ j.prefixes \in Seq([lo : 1..LastKey, hi : 1..LastKey])
    /\ \A n, m \in DOMAIN j.prefixes : n < m => j.prefixes[n].lo <= j.prefixes[m].lo
    /\ j.changes \in Seq([key : 1..LastKey, id : Identities \cup {Tombstone}])
    /\ \A n, m \in DOMAIN j.changes : n < m => j.changes[n].key < j.changes[m].key
    /\ j.strategy \in Strategies
    /\ j.allowEmpty \in BOOLEAN
    /\ IF j.op = "import"
       THEN /\ j.base = <<>>
            /\ \A rec \in Records(j.source) : \E n \in DOMAIN j.prefixes : HasPrefix(rec.key, j.prefixes[n])
       ELSE j.prefixes = <<>>

Init ==
    /\ Request(job)
    /\ IsRequest(job)
    /\ change = 0
    /\ summary = NoSummary
    /\ MergeInit
    /\ DiffInit

-----------------------------------------------------------------------------
(* Merge and Import *)

\* Merge answers at once if one side is the base.  allowEmpty stands for the
\* option of that name and for force.
NothingToMerge ==
    /\ job.op = "merge" /\ status = "begin"
    /\ job.source = job.base /\ ~job.allowEmpty
    /\ status' = "unchanged"
    /\ UNCHANGED <<job, base, source, dest, writerVars>>

TakeSource ==
    /\ job.op = "merge" /\ status = "begin"
    /\ job.source # job.base \/ job.allowEmpty
    /\ job.dest = job.base
    /\ status' = "taken"
    /\ UNCHANGED <<job, base, source, dest, writerVars>>

StartMerge ==
    /\ \/ job.op = "import"
       \/ /\ job.op = "merge"
          /\ job.source # job.base \/ job.allowEmpty
          /\ job.dest # job.base
    /\ MergeStart

MergeOrImport ==
    /\ NothingToMerge \/ TakeSource \/ StartMerge \/ MergeNext
    /\ UNCHANGED <<change, summary>>

-----------------------------------------------------------------------------
(* Commit *)

Committing == status = "committing" /\ ~unsorted
HaveBase == Have(job.base, base)
HaveChanges == change \in DOMAIN job.changes
Change == job.changes[change]
BaseRange == RangeAt(job.base, base)
BaseRecord == Record(job.base, base)

\* A bug: a change is counted where it is found and where it is written.
ReportedTwice(type, n) == summary' = [summary EXCEPT ![type] = @ + 2 * n]

Reported(type, n) == summary' = [summary EXCEPT ![type] = @ + n]

CommitGoes == UNCHANGED <<job, source, dest, status>>

CommitStart ==
    /\ job.op = "commit" /\ status = "begin"
    /\ status' = "committing"
    /\ base' = Next1(job.base, base)
    /\ change' = 1
    /\ WriteNothing
    /\ UNCHANGED <<job, source, dest, summary>>

\* A range before the change is written as it is, another one is entered.
ApplyBaseRange ==
    /\ Committing /\ HaveChanges /\ AtRange(job.base, base)
    /\ \/ MaxKey(BaseRange) < Change.key /\ WriteRange(BaseRange) /\ base' = NextRange(job.base, base)
       \/ MaxKey(BaseRange) >= Change.key /\ WriteNothing /\ base' = Next1(job.base, base)
    /\ UNCHANGED <<change, summary>> /\ CommitGoes

\* A bug: a deletion counts whether or not there was something to delete.
TombstoneCounted ==
    /\ Change.id = Tombstone
    /\ WriteNothing
    /\ Reported("removed", 1)

\* A deletion drops the base's record if that is of its key.
ApplyTombstone ==
    /\ Change.id = Tombstone
    /\ WriteNothing
    /\ IF BaseRecord.key = Change.key THEN Reported("removed", 1) ELSE UNCHANGED summary

ApplyValue ==
    /\ Change.id # Tombstone
    /\ \/ BaseRecord = Change /\ WriteRecord(BaseRecord) /\ UNCHANGED summary
       \/ BaseRecord # Change /\ WriteRecord(Change)
          /\ Reported(IF BaseRecord.key = Change.key THEN "changed" ELSE "added", 1)

ApplyNextKey ==
    /\ Committing /\ HaveChanges /\ AtRecord(job.base, base)
    /\ IF BaseRecord.key < Change.key THEN WriteRecord(BaseRecord) /\ UNCHANGED summary
       ELSE ApplyTombstone \/ ApplyValue
    /\ change' = IF BaseRecord.key >= Change.key THEN change + 1 ELSE change
    /\ base' = IF BaseRecord.key <= Change.key THEN Next1(job.base, base) ELSE base
    /\ CommitGoes

ApplyAllBase ==
    /\ Committing /\ ~HaveChanges
    /\ \/ AtRange(job.base, base) /\ WriteRange(BaseRange) /\ base' = NextRange(job.base, base)
       \/ AtRecord(job.base, base) /\ WriteRecord(BaseRecord) /\ base' = Next1(job.base, base)
    /\ UNCHANGED <<change, summary>> /\ CommitGoes

ApplyAllChanges ==
    /\ Committing /\ HaveChanges /\ ~HaveBase
    /\ \/ Change.id = Tombstone /\ WriteNothing /\ UNCHANGED summary
       \/ Change.id # Tombstone /\ WriteRecord(Change) /\ Reported("added", 1)
    /\ change' = change + 1
    /\ UNCHANGED base /\ CommitGoes

CommitEnd ==
    /\ Committing /\ ~HaveBase /\ ~HaveChanges
    /\ status' = IF summary = NoSummary /\ ~job.allowEmpty THEN "unchanged" ELSE "done"
    /\ UNCHANGED <<job, base, source, dest, change, summary, writerVars>>

Commit ==
    \/ CommitStart
    \/ ApplyBaseRange \/ ApplyNextKey
    \/ ApplyAllBase \/ ApplyAllChanges
    \/ CommitEnd

-----------------------------------------------------------------------------

Answered ==
    /\ status \in {"done", "taken", "unchanged", "conflict", "told"} \/ unsorted
    /\ UNCHANGED vars

Next ==
    \/ (MergeOrImport \/ Commit) /\ UNCHANGED diffVars
    \/ DiffNext /\ UNCHANGED <<change, summary>>
    \/ Answered

Spec == Init /\ [][Next]_vars

NewContents == IF status = "taken" THEN Contents(job.source) ELSE Contents(NewMetaRange)

-----------------------------------------------------------------------------
(* Properties *)

TypeOK ==
    /\ status \in {"begin", "merging", "committing", "diffing", "reading",
                  "done", "taken", "unchanged", "conflict", "told"}
    /\ inside \in {"none", "left", "right", "both"}
    /\ base.range \in 0..(Len(job.base) + 1)
    /\ source.range \in 0..(Len(job.source) + 1)
    /\ dest.range \in 0..(Len(job.dest) + 1)
    /\ dest.prefix \in 1..(Len(job.prefixes) + 1)
    /\ change \in 0..(Len(job.changes) + 1)
    /\ summary \in [{"added", "changed", "removed"} -> 0..LastKey]
    /\ lastKey \in 0..LastKey
    /\ unsorted \in BOOLEAN

\* The ranges of a new meta-range are sorted and do not overlap, whatever was
\* copied whole and whatever was written record by record: readers find a key
\* by the last key of its range alone (iterator.go, loadRange).
RangesApart == status = "done" => Sorted(NewMetaRange)

\* What a commit is to have: the changes, and what the base has of other keys.
Changed == {job.changes[n] : n \in DOMAIN job.changes}
Applied ==
    LET kept == {rec \in Records(job.base) : \A c \in Changed : c.key # rec.key}
        now == {rec \in kept \cup Changed : rec.id # Tombstone}
    IN [k \in {rec.key : rec \in now} |-> (CHOOSE rec \in now : rec.key = k).id]

\* The summary of a commit counts what differs between the base and the new
\* meta-range (commit.go): a deletion of what is not there and a change to
\* what is there already count for nothing.
SummaryCounts ==
    job.op = "commit" /\ status \in {"done", "unchanged"} =>
        LET old == Contents(job.base)
        IN /\ summary.added = Cardinality(DOMAIN Applied \ DOMAIN old)
           /\ summary.removed = Cardinality(DOMAIN old \ DOMAIN Applied)
           /\ summary.changed = Cardinality({k \in DOMAIN Applied \cap DOMAIN old : Applied[k] # old[k]})

\* What an import is to delete: what the destination has under the prefixes
\* and the source has not.
UnderPrefix(k) == \E n \in DOMAIN job.prefixes : HasPrefix(k, job.prefixes[n])
Replaced == {k \in DOMAIN Contents(job.dest) \ DOMAIN Contents(job.source) : UnderPrefix(k)}

\* An import is a merge with what is left of the destination, a commit one of
\* the changed base with the base.
DestSide ==
    LET contents == Contents(IF job.op = "commit" THEN job.base ELSE job.dest)
    IN [k \in {j \in DOMAIN contents : ~UnderPrefix(j)} |-> contents[k]]

SourceSide == IF job.op = "commit" THEN Applied ELSE Contents(job.source)

\* Every key before what the iterators have ahead is settled.
Ahead ==
    IF job.op = "commit"
    THEN {KeyAhead(job.base, base, LastKey + 1), IF HaveChanges THEN Change.key ELSE LastKey + 1}
    ELSE {KeyAhead(job.source, source, LastKey + 1), KeyAhead(job.dest, dest, LastKey + 1)}
Settled ==
    CASE status = "taken" -> LastKey
      [] status # "taken" /\ base = Start -> 0 \* no walk, or not yet
      [] OTHER -> Seqs!Min(Ahead) - 1

Promise == INSTANCE ThreeWayMerge WITH
    base <- Contents(job.base),
    source <- SourceSide,
    dest <- DestSide,
    strategy <- job.strategy,
    upTo <- Settled,
    merged <- [k \in DOMAIN NewContents \ Replaced |-> NewContents[k]],
    verdict <- CASE status \in {"done", "taken"} -> "done"
                 [] status \in {"unchanged", "conflict"} -> status
                 [] OTHER -> "running"

\* A merge settles key after key as the table of merge.md says, whether it
\* looks at the records or takes and drops whole ranges (merge.go), and so
\* do a commit (commit.go) and an import, whose destination has lost what is
\* under the prefixes (and what of that is not lost is not looked at).
MergeKeepsPromise == Promise!Spec

\* Whatever ranges were entered, given and skipped, a reader was told each
\* difference between the two sides once, in the order of keys, and nothing
\* else; or it skipped a range with it.
Covers(skip, k) ==
    IF skip.type = "both" THEN MinKey(skip.range) <= k /\ k <= MaxKey(skip.range)
    ELSE \E i \in DOMAIN skip.range : skip.range[i].key = k
DiffTells ==
    /\ \A n \in 1..(Len(told) - 1) : told[n].key < told[n + 1].key
    /\ \A n \in DOMAIN told :
        LET k == told[n].key
            l == Promise!At(DestSide, k)
            r == Promise!At(SourceSide, k)
        IN /\ k >= seeked /\ l # r
           /\ told[n].type = IF l = 0 THEN "added" ELSE IF r = 0 THEN "removed" ELSE "changed"
    /\ status = "told" =>
        \A k \in (IF seeked = 0 THEN 1 ELSE seeked)..LastKey :
            Promise!At(DestSide, k) # Promise!At(SourceSide, k) =>
                \/ \E n \in DOMAIN told : told[n].key = k
                \/ \E skip \in skipped : Covers(skip, k)

\* What is shown as the changes of a merge before it (compare_iterator.go) is
\* what the merge does (merge.go): the same conflicts, and the same objects
\* of the destination added, changed and removed.
Foretold(k) ==
    LET d == Promise!At(DestSide, k)
        new == Promise!Outcome(k)
    IN IF Promise!Conflicting(k) THEN "conflict"
       ELSE IF new = d THEN "nothing"
       ELSE IF d = 0 THEN "added"
       ELSE IF new = 0 THEN "removed" ELSE "changed"
CompareForetells ==
    job.op = "compare" /\ status = "told" =>
        \A k \in 1..LastKey :
            LET about == {foretold[n].type : n \in {m \in DOMAIN foretold : foretold[m].key = k}}
            IN about = IF k < seeked \/ Foretold(k) = "nothing" THEN {} ELSE {Foretold(k)}
=============================================================================
