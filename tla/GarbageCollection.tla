-------------------------- MODULE GarbageCollection --------------------------
(***************************************************************************)
(* Garbage collection beside requests that write: a job (clients/spark)    *)
(* lists the objects in storage, has the server list the addresses of all  *)
(* uncommitted entries (PrepareGCUncommitted), page by page, and then the  *)
(* active commits (SaveGarbageCollectionCommits), and removes the objects  *)
(* that are old enough and in neither list.  Meanwhile objects are         *)
(* uploaded, linked, cloned, deleted and committed, and branches come and  *)
(* go; what keeps them safe is that new objects are not touched and that   *)
(* the address of an old one is not given to a new entry.                  *)
(*                                                                         *)
(* A branch is what Graveler makes of it: staged entries over a head, and  *)
(* every request one step.  Branches and paths are numbers, in the order   *)
(* in which they are listed.  The clock ticks in the unit of the periods,  *)
(* and a request takes less than a tick.                                   *)
(***************************************************************************)
EXTENDS ActiveCommits

CONSTANTS Paths, Addresses,
          Nothing,      \* no entry, no object, no mark
          Deleted,      \* a tombstone; an object that was removed
          Identity,     \* what each object's content is hashed to
          Clients,      \* requests at a time
          MinAge,           \* age of objects the job may remove
          LinkAddressTime,  \* for how long an address can be linked
          CloneGracePeriod, \* for how long an entry can be cloned
          Worlds,       \* initial states
          MaxClock, MaxChanges, MaxPages \* bounds

VARIABLES
    objects,  \* when the object at each address was last modified, if it is there
    issued,   \* addresses given out to be linked
    branches, \* each branch's head, staged entries and the number of its staging token
    pending,  \* entries that requests are about to create
    clock,
    changes,  \* changes made by requests
    astray,   \* history: commits at which branches were put where the job had been
    job,      \* how far the job is
    candidates, \* objects it found that are old enough
    mark,     \* where the next page of uncommitted entries begins
    page,     \* the page that is being written
    pages,    \* pages written
    uploaded, \* addresses in files of the run
    located,  \* the last answer told where they are
    overlooked, \* addresses of entries it came across and left out
    heads,    \* of the branches, as far as they were read
    doomed    \* addresses to remove

storeVars == <<commits, objects, issued, branches, pending, clock, changes, astray>>
listVars == <<candidates, mark, page, pages, uploaded, located, overlooked>>
jobVars == <<job, listVars, heads, doomed>>
vars == <<storeVars, jobVars, walkVars>>

ASSUME GarbageCollectionAssumption ==
    /\ Branches \subseteq Nat /\ Paths \subseteq Nat \ {0}
    /\ MinAge \in Nat /\ LinkAddressTime \in Nat /\ CloneGracePeriod \in Nat
    /\ LinkAddressTime <= MinAge /\ CloneGracePeriod <= MinAge

Times == 0..MaxClock
Entries == [address : Addresses, date : Times]
Trees == [Paths -> Entries \cup {Nothing}]
Marks == [branch : Branches, path : Paths \cup {0}]

Page == [left : SUBSET Branches,    \* branches still to come
         branch : Branches \cup {Nothing}, \* the one being listed
         token : Nat,               \* its staging token as it was opened
         view : [Paths -> Entries \cup {Nothing, Deleted}], \* as it was opened
         tree : Trees,              \* of the commit it was opened at
         paths : SUBSET Paths,      \* paths still to come
         rows : SUBSET Addresses, count : Nat,
         missing : BOOLEAN,         \* the last branch was not found
         next : Marks \cup {Nothing}]

TypeOK ==
    /\ ActiveTypeOK
    /\ objects \in [Addresses -> Times \cup {Nothing, Deleted}]
    /\ issued \in [Addresses -> [branch : Branches, path : Paths, at : Times] \cup {Nothing}]
    /\ DOMAIN branches \subseteq Branches
    /\ branches \in [DOMAIN branches -> [head : DOMAIN commits, token : Nat, staged : [Paths -> Entries \cup {Nothing, Deleted}]]]
    /\ pending \in [Clients -> [branch : Branches, path : Paths, entry : Entries] \cup {Nothing}]
    /\ clock \in Times /\ changes \in 0..MaxChanges
    /\ DOMAIN astray \subseteq Branches /\ astray \in [DOMAIN astray -> DOMAIN commits]
    /\ job \in {"idle", "page", "heads", "leaves", "walk", "sweep", "done", "failed"}
    /\ candidates \subseteq Addresses /\ uploaded \subseteq Addresses
    /\ overlooked \subseteq Addresses /\ doomed \subseteq Addresses
    /\ mark \in Marks \cup {Nothing}
    /\ page \in Page \cup {Nothing}
    /\ pages \in 0..MaxPages /\ located \in BOOLEAN
    /\ DOMAIN heads \subseteq Branches /\ heads \in [DOMAIN heads -> DOMAIN commits]

\* What is not there is told from what is; and a commit may hold any tree.
ASSUME ValuesAssumption ==
    /\ MaxClock \in Nat /\ MaxChanges \in Nat /\ MaxPages \in Nat
    /\ MetaRanges = Trees
    /\ Nothing # Deleted
    /\ Nothing \notin Entries /\ Deleted \notin Entries
    /\ Nothing \notin Times /\ Deleted \notin Times
    /\ Nothing \notin Branches /\ Nothing \notin Marks /\ Nothing \notin Page
    /\ Nothing \notin [branch : Branches, path : Paths, at : Times]
    /\ Nothing \notin [branch : Branches, path : Paths, entry : Entries]

\* The first states: any history, branches and objects, before a job or, when
\* only its walk is looked at, with nothing listed.
ASSUME WorldsAssumption ==
    \A w \in Worlds :
        /\ DOMAIN w.commits \subseteq CommitIDs
        /\ w.commits \in [DOMAIN w.commits -> Commit]
        /\ WellFormed(w.commits)
        /\ w.changes \in 0..MaxChanges
        /\ DOMAIN w.branches \subseteq Branches
        /\ w.branches \in [DOMAIN w.branches ->
               [head : DOMAIN w.commits, token : 0..w.changes,
                staged : [Paths -> Entries \cup {Nothing, Deleted}]]]
        /\ w.objects \in [Addresses -> Times \cup {Nothing, Deleted}]
        /\ w.clock \in Times
        /\ w.job \in {"idle", "heads"}

Init ==
    /\ \E w \in Worlds :
          /\ commits = w.commits
          /\ branches = w.branches
          /\ objects = w.objects
          /\ clock = w.clock
          /\ changes = w.changes
          /\ job = w.job
    /\ issued = [a \in Addresses |-> Nothing]
    /\ pending = [r \in Clients |-> Nothing]
    /\ astray = [b \in {} |-> NoCommit]
    /\ candidates = {} /\ uploaded = {} /\ overlooked = {} /\ doomed = {}
    /\ mark = Nothing /\ page = Nothing
    /\ pages = 0 /\ located = FALSE
    /\ heads = [b \in {} |-> NoCommit]
    /\ starts = {} /\ points = {} /\ node = Nowhere /\ threshold = 0
    /\ processed = [c \in {} |-> 0] /\ active = {}

-----------------------------------------------------------------------------
(* Requests.  What they do to a branch takes effect at once.               *)

Exists(a) == objects[a] \in Times
Age(time) == clock - time

IsEntry(v) == v \notin {Nothing, Deleted}
Tree(b) == commits[branches[b].head].metaRange
Staged(b) == branches[b].staged

\* What a branch shows under a path, and the state a commit of it gets: an
\* entry that is staged with the content it has in the commit is not a change.
Shown(b, p) == CASE Staged(b)[p] = Nothing -> Tree(b)[p]
                 [] Staged(b)[p] = Deleted -> Nothing
                 [] OTHER -> Staged(b)[p]
Same(v, w) == IsEntry(v) /\ IsEntry(w) /\ Identity[v.address] = Identity[w.address]
NextTree(b) == [p \in Paths |-> IF Same(Staged(b)[p], Tree(b)[p]) THEN Tree(b)[p] ELSE Shown(b, p)]

\* A request begins; the walk of the job has read all that could change.
Change ==
    /\ job # "walk"
    /\ changes < MaxChanges
    /\ changes' = changes + 1
    /\ UNCHANGED <<clock, jobVars, walkVars>>

Begin(r, b, p, a, date) ==
    /\ pending[r] = Nothing
    /\ b \in DOMAIN branches
    /\ pending' = [pending EXCEPT ![r] = [branch |-> b, path |-> p, entry |-> [address |-> a, date |-> date]]]
    /\ UNCHANGED astray

New(a) == objects[a] = Nothing /\ issued[a] = Nothing

\* UploadObject, and CopyEntry when it copies the data: an object at a new
\* address, then an entry.
Upload(r, b, p, a) ==
    /\ Change
    /\ New(a)
    /\ objects' = [objects EXCEPT ![a] = clock]
    /\ Begin(r, b, p, a, clock)
    /\ UNCHANGED <<commits, issued, branches>>

\* GetPhysicalAddress signs a new address for a path.
GetPhysicalAddress(b, p, a) ==
    /\ Change
    /\ New(a)
    /\ issued' = [issued EXCEPT ![a] = [branch |-> b, path |-> p, at |-> clock]]
    /\ UNCHANGED <<commits, objects, branches, pending, astray>>

\* The user puts the object there.
PutObject(a) ==
    /\ Change
    /\ issued[a] # Nothing /\ objects[a] = Nothing
    /\ objects' = [objects EXCEPT ![a] = clock]
    /\ UNCHANGED <<commits, issued, branches, pending, astray>>

\* A bug: signatures do not expire.
LinkAnyTime(r, a, date) ==
    /\ Change
    /\ issued[a] # Nothing
    /\ Begin(r, issued[a].branch, issued[a].path, a, date)
    /\ UNCHANGED <<commits, objects, issued, branches>>

\* LinkPhysicalAddress: VerifyLinkAddress, then an entry with any date the
\* request gives.
LinkPhysicalAddress(r, a, date) ==
    /\ Change
    /\ issued[a] # Nothing
    /\ Age(issued[a].at) <= LinkAddressTime
    /\ Begin(r, issued[a].branch, issued[a].path, a, date)
    /\ UNCHANGED <<commits, objects, issued, branches>>

\* What may be read by a reference: what branches show, and commits have.
Readable ==
    {Shown(b, p) : b \in DOMAIN branches, p \in Paths}
    \cup {commits[c].metaRange[p] : c \in DOMAIN commits, p \in Paths}

\* A bug: only the date of the entry is looked at, which cloning renews.
CloneByDate(r, e, b, p) ==
    /\ Change
    /\ e \in Readable /\ IsEntry(e)
    /\ Exists(e.address)
    /\ Age(e.date) <= CloneGracePeriod
    /\ Begin(r, b, p, e.address, clock)
    /\ UNCHANGED <<commits, objects, issued, branches>>

\* CopyEntry clones what any reference shows: neither the entry nor the object
\* may be too old.
CloneEntry(r, e, b, p) ==
    /\ Change
    /\ e \in Readable /\ IsEntry(e)
    /\ Exists(e.address)
    /\ Age(e.date) <= CloneGracePeriod
    /\ Age(objects[e.address]) <= CloneGracePeriod
    /\ Begin(r, b, p, e.address, clock)
    /\ UNCHANGED <<commits, objects, issued, branches>>

\* The entry of an upload, a link or a clone; an error if the branch is gone.
CreateEntry(r) ==
    /\ pending[r] # Nothing
    /\ job # "walk"
    /\ LET n == pending[r]
       IN branches' = IF n.branch \in DOMAIN branches
                      THEN [branches EXCEPT ![n.branch].staged[n.path] = n.entry]
                      ELSE branches
    /\ pending' = [pending EXCEPT ![r] = Nothing]
    /\ UNCHANGED <<commits, objects, issued, clock, changes, astray, jobVars, walkVars>>

ChangeBranch(b) ==
    /\ Change
    /\ b \in DOMAIN branches
    /\ UNCHANGED <<objects, issued, pending>>

DeleteEntry(b, p) ==
    /\ ChangeBranch(b)
    /\ IsEntry(Shown(b, p))
    /\ branches' = [branches EXCEPT ![b].staged[p] = IF Tree(b)[p] = Nothing THEN Nothing ELSE Deleted]
    /\ UNCHANGED <<commits, astray>>

Unstaged == [p \in Paths |-> Nothing]

Reset(b) ==
    /\ ChangeBranch(b)
    /\ Staged(b) # Unstaged
    /\ branches' = [branches EXCEPT ![b].staged = Unstaged, ![b].token = changes']
    /\ UNCHANGED <<commits, astray>>

\* A bug: the generation is the parent's.
SameGeneration(h) == commits[h].generation

NextGeneration(h) == commits[h].generation + 1

CommitBranch(b, id) ==
    /\ ChangeBranch(b)
    /\ id \in CommitIDs \ DOMAIN commits
    /\ NextTree(b) # Tree(b)
    /\ LET h == branches[b].head
           new == [parent |-> h, generation |-> NextGeneration(h),
                   created |-> Today, metaRange |-> NextTree(b)]
       IN commits' = [c \in DOMAIN commits \cup {id} |-> IF c = id THEN new ELSE commits[c]]
    /\ branches' = [branches EXCEPT ![b] = [head |-> id, token |-> changes', staged |-> Unstaged]]
    /\ UNCHANGED astray

\* Has the listing of heads come to the branch's place?
Behind(b) ==
    \/ job = "heads" /\ \E c \in DOMAIN heads : b <= c
    \/ job \in {"leaves", "walk", "sweep", "done"}

\* Does a branch show this commit that was read there, or since needs no more?
Settled(h) == \E b \in DOMAIN branches : branches[b].head = h /\ Behind(b) /\ b \notin DOMAIN astray

\* A branch is put at a commit, or taken away.
Put(b, h) ==
    astray' = [c \in (DOMAIN astray \ {b}) \cup (IF Behind(b) /\ ~Settled(h) THEN {b} ELSE {}) |->
                   IF c = b THEN h ELSE astray[c]]
Forget(b) == astray' = [c \in DOMAIN astray \ {b} |-> astray[c]]

\* From any commit a reference names.
CreateBranch(b, h) ==
    /\ Change
    /\ b \in Branches \ DOMAIN branches /\ h \in DOMAIN commits
    /\ branches' = [c \in DOMAIN branches \cup {b} |->
                        IF c = b THEN [head |-> h, token |-> changes', staged |-> Unstaged] ELSE branches[c]]
    /\ Put(b, h)
    /\ UNCHANGED <<commits, objects, issued, pending>>

DeleteBranch(b) ==
    /\ ChangeBranch(b)
    /\ branches' = [c \in DOMAIN branches \ {b} |-> branches[c]]
    /\ Forget(b)
    /\ UNCHANGED commits

\* The head is moved to any commit, if nothing is staged.
UpdateBranch(b, h) ==
    /\ ChangeBranch(b)
    /\ Staged(b) = Unstaged /\ h \in DOMAIN commits
    /\ branches' = [branches EXCEPT ![b].head = h, ![b].token = changes']
    /\ Put(b, h)
    /\ UNCHANGED commits

\* The head is moved under what is staged.
ResetHard(b, h) ==
    /\ ChangeBranch(b)
    /\ h \in DOMAIN commits
    /\ branches' = [branches EXCEPT ![b].head = h]
    /\ Put(b, h)
    /\ UNCHANGED commits

Tick ==
    /\ clock < MaxClock
    /\ job # "walk"
    /\ \A r \in Clients : pending[r] = Nothing
    /\ clock' = clock + 1
    /\ UNCHANGED <<commits, objects, issued, branches, pending, changes, astray, jobVars, walkVars>>

Request ==
    \/ \E r \in Clients, b \in Branches, p \in Paths, a \in Addresses : Upload(r, b, p, a)
    \/ \E b \in Branches, p \in Paths, a \in Addresses : GetPhysicalAddress(b, p, a)
    \/ \E a \in Addresses : PutObject(a)
    \/ \E r \in Clients, a \in Addresses, date \in Times : LinkPhysicalAddress(r, a, date)
    \/ \E r \in Clients, e \in Readable, b \in Branches, p \in Paths : CloneEntry(r, e, b, p)
    \/ \E r \in Clients : CreateEntry(r)
    \/ \E b \in Branches, p \in Paths : DeleteEntry(b, p)
    \/ \E b \in Branches : Reset(b) \/ DeleteBranch(b)
    \/ \E b \in Branches, id \in CommitIDs : CommitBranch(b, id)
    \/ \E b \in Branches, h \in DOMAIN commits : CreateBranch(b, h) \/ UpdateBranch(b, h) \/ ResetHard(b, h)

-----------------------------------------------------------------------------
(* The job: objects.                                                       *)

JobStep == UNCHANGED storeVars

\* Those that were last modified before the cutoff.
ListObjects ==
    /\ job = "idle"
    /\ candidates' = {a \in Addresses : Exists(a) /\ Age(objects[a]) > MinAge}
    /\ job' = "page"
    /\ JobStep /\ UNCHANGED <<mark, page, pages, uploaded, located, overlooked, heads, doomed, walkVars>>

-----------------------------------------------------------------------------
(* The job: pages of uncommitted entries (gcWriteUncommitted).             *)

PageStep == JobStep /\ UNCHANGED <<candidates, mark, pages, uploaded, located, heads, doomed, walkVars>>

\* A call of PrepareGCUncommitted lists the branches, from the mark's on.
OpenPage ==
    /\ job = "page" /\ page = Nothing
    /\ page' = [left |-> {b \in DOMAIN branches : mark = Nothing \/ mark.branch <= b},
                branch |-> Nothing, token |-> 0, view |-> Unstaged, tree |-> Unstaged, paths |-> {},
                rows |-> {}, count |-> 0, missing |-> FALSE, next |-> Nothing]
    /\ PageStep /\ UNCHANGED <<job, overlooked>>

Reading == page # Nothing /\ job = "page"

First(ns) == CHOOSE n \in ns : \A m \in ns : n <= m

\* A bug: the entry that is noted in the mark is not listed again.
PathsAfter(b) == {p \in Paths : mark = Nothing \/ mark.branch # b \/ mark.path < p}

\* The paths of a branch that come after the mark.
PathsFrom(b) == {p \in Paths : mark = Nothing \/ mark.branch # b \/ mark.path <= p}

\* After a branch the page goes on, or is out of time, if that was not the last.
Continued(p) ==
    {p} \cup IF p.left # {} /\ pages < MaxPages
             THEN {[p EXCEPT !.next = [branch |-> First(p.left), path |-> 0], !.left = {}]} ELSE {}

\* The branches after this one, as they were listed or are listed now: the
\* store lists some at a time.
ToList(b) == {page.left \ {b}, {c \in DOMAIN branches : b < c}}

\* The next branch is read, or is not found, and the count is lost.
OpenBranch ==
    /\ Reading /\ page.branch = Nothing /\ page.left # {}
    /\ LET b == First(page.left)
       IN IF b \in DOMAIN branches
          THEN page' = [page EXCEPT !.left = @ \ {b}, !.branch = b, !.missing = FALSE,
                                    !.token = branches[b].token, !.view = Staged(b), !.tree = Tree(b),
                                    !.paths = PathsFrom(b)]
          ELSE \E left \in ToList(b) :
                   page' \in Continued([page EXCEPT !.left = left, !.missing = TRUE, !.count = 0])
    /\ PageStep /\ UNCHANGED <<job, overlooked>>

\* What is read under a path: what was staged when the branch was opened, or
\* what is staged on that token now; it may have been dropped.
Read(p) ==
    LET b == page.branch
    IN {page.view[p], IF b \in DOMAIN branches /\ branches[b].token = page.token
                      THEN Staged(b)[p] ELSE Nothing}

\* An entry is written to the page, unless the page is full or out of time,
\* or it has the content the commit has.
ReadEntry ==
    /\ Reading /\ page.branch # Nothing /\ page.paths # {}
    /\ LET p == First(page.paths)
           rest == [page EXCEPT !.paths = @ \ {p}]
       IN \E v \in Read(p) :
              \/ /\ ~IsEntry(v)
                 /\ page' = rest
                 /\ UNCHANGED overlooked
              \/ /\ Same(v, page.tree[p])
                 /\ page' = rest
                 /\ overlooked' = overlooked \cup {v.address}
              \/ /\ IsEntry(v) /\ ~Same(v, page.tree[p])
                 /\ page' = [rest EXCEPT !.rows = @ \cup {v.address}, !.count = @ + 1]
                 /\ UNCHANGED overlooked
              \/ /\ IsEntry(v) /\ ~Same(v, page.tree[p])
                 /\ pages < MaxPages
                 /\ page' = [rest EXCEPT !.paths = {}, !.left = {}, !.branch = Nothing, !.count = @ + 1,
                                         !.next = [branch |-> page.branch, path |-> p]]
                 /\ UNCHANGED overlooked
    /\ PageStep /\ UNCHANGED job

CloseBranch ==
    /\ Reading /\ page.branch # Nothing /\ page.paths = {}
    /\ \E left \in ToList(page.branch) : page' \in Continued([page EXCEPT !.left = left, !.branch = Nothing])
    /\ PageStep /\ UNCHANGED <<job, overlooked>>

PageEnds == Reading /\ page.branch = Nothing /\ page.left = {}

\* The rows become a file of the run if any were counted; the answer tells
\* where the files are only then.  Without a next mark it is the last page.
EndPage ==
    /\ PageEnds /\ ~page.missing
    /\ IF page.count > 0
       THEN uploaded' = uploaded \cup page.rows /\ UNCHANGED overlooked
       ELSE overlooked' = overlooked \cup page.rows /\ UNCHANGED uploaded
    /\ located' = (page.count > 0)
    /\ mark' = page.next
    /\ page' = Nothing
    /\ IF page.next = Nothing
       THEN job' = "heads" /\ UNCHANGED pages
       ELSE pages' = pages + 1 /\ UNCHANGED job
    /\ JobStep /\ UNCHANGED <<candidates, heads, doomed, walkVars>>

\* The last branch was not found: the error is returned, and the job fails.
PageFails ==
    /\ PageEnds /\ page.missing
    /\ page' = Nothing
    /\ job' = "failed"
    /\ PageStep /\ UNCHANGED overlooked

-----------------------------------------------------------------------------
(* The job: active commits, and removal.                                   *)

\* The branches are listed by name, some at a time, while others come and go.
Unread == {b \in DOMAIN branches : ~Behind(b)}

ReadHead ==
    /\ job = "heads" /\ Unread # {}
    /\ LET b == First(Unread)
       IN heads' = [c \in DOMAIN heads \cup {b} |-> IF c = b THEN branches[b].head ELSE heads[c]]
    /\ JobStep /\ UNCHANGED <<job, listVars, doomed, walkVars>>

HeadsRead ==
    /\ job = "heads" /\ Unread = {}
    /\ job' = "leaves"
    /\ JobStep /\ UNCHANGED <<listVars, heads, doomed, walkVars>>

ReadLeaves ==
    /\ job = "leaves"
    /\ BeginWalk(heads)
    /\ job' = "walk"
    /\ JobStep /\ UNCHANGED <<listVars, heads, doomed>>

WalkOn ==
    /\ job = "walk"
    /\ Walk
    /\ UNCHANGED <<objects, issued, branches, pending, clock, changes, astray, jobVars>>

InTree(t) == {t[p].address : p \in {q \in Paths : IsEntry(t[q])}}
Committed == UNION {InTree(commits[c].metaRange) : c \in active}
Uncommitted == IF located THEN uploaded ELSE {}

Mark ==
    /\ job = "walk" /\ Walked
    /\ doomed' = (candidates \ Committed) \ Uncommitted
    /\ job' = "sweep"
    /\ JobStep /\ UNCHANGED <<listVars, heads, walkVars>>

Sweep ==
    /\ job = "sweep"
    /\ objects' = [a \in Addresses |-> IF a \in doomed THEN Deleted ELSE objects[a]]
    /\ job' = "done"
    /\ UNCHANGED <<commits, issued, branches, pending, clock, changes, astray, listVars, heads, doomed, walkVars>>

Job ==
    \/ ListObjects
    \/ OpenPage \/ OpenBranch \/ ReadEntry \/ CloseBranch \/ EndPage \/ PageFails
    \/ ReadHead \/ HeadsRead \/ ReadLeaves \/ WalkOn \/ Mark \/ Sweep

Next == Request \/ Tick \/ Job

Spec == Init /\ [][Next]_vars

-----------------------------------------------------------------------------
(* Properties.                                                             *)

\* Addresses a branch needs: those of its staged entries and of its head.
Needed(b) == InTree(Tree(b)) \cup {Staged(b)[p].address : p \in {q \in Paths : IsEntry(Staged(b)[q])}}
InUse == UNION {Needed(b) : b \in DOMAIN branches}

\* What the job could not see: the tree of a commit that no branch had when it
\* was read, and that a branch was put at where the heads had been read.
Unseen(b) == IF b \in DOMAIN astray /\ astray[b] \notin {heads[c] : c \in DOMAIN heads}
             THEN InTree(commits[astray[b]].metaRange) ELSE {}

\* No object is removed that a branch needs, however uploads, links, clones,
\* commits, new and moved branches come between the listings and among the
\* heads that are read; except for what it could not see, and for objects of
\* entries that were listed but left out, for the content they have or because
\* a count was lost, or that were written where the last answer did not tell
\* (PrepareGCUncommitted, CopyEntry, VerifyLinkAddress, GarbageCollection).
NothingMissed ==
    \A b \in DOMAIN branches : doomed \cap Needed(b) \subseteq overlooked \cup uploaded \cup Unseen(b)

\* "Objects that are found in 1 and are not in 2 or 3 can be safely deleted":
\* the same without exception (gcWriteUncommitted, PrepareGCUncommitted).
SafelyDeleted == doomed \cap InUse = {}
=============================================================================
