--------------------------- MODULE StagingManager ---------------------------
(***************************************************************************)
(* The staging area of a lakeFS repository (pkg/graveler/staging): one key *)
(* value partition per staging token, the cleanup partition that lists the *)
(* tokens whose entries may be deleted, and the background loop every      *)
(* server runs to delete them.                                             *)
(*                                                                         *)
(* An entry is [by, live]: the request that wrote it, and whether it is a  *)
(* value or a tombstone.  Every request writes a value of its own, so "by" *)
(* stands for the value's identity.  NoEntry is the absent key.            *)
(***************************************************************************)
EXTENDS Naturals, FiniteSets

CONSTANTS
    Requests,       \* API requests; each names the staging token it generates
    Origin,         \* writer of what exists before the first request
    NoOne,          \* marks an absent key, and the deleted branch
    Keys,           \* object paths
    Servers,        \* lakeFS processes, each with one cleanup loop
    WakeupCapacity, \* capacity of a server's wakeup channel
    MaxFetch        \* tokens one cleanup round reads (maxTokensToFetch)

ASSUME StagingAssumption ==
    /\ Origin \notin Requests
    /\ NoOne \notin Requests \cup {Origin}
    /\ WakeupCapacity \in Nat \ {0}
    /\ MaxFetch \in Nat \ {0}

Tokens  == Requests \cup {Origin}
Writers == Requests \cup {Origin}
Entries == [by : Writers \cup {NoOne}, live : BOOLEAN]

NoEntry      == [by |-> NoOne, live |-> FALSE]
Value(p)     == [by |-> p, live |-> TRUE]
Tombstone(p) == [by |-> p, live |-> FALSE]
Exists(e)    == e.by # NoOne

\* Equality of two stored entries as the key value store sees it: all
\* tombstones have the same bytes, whoever wrote them.
SameEntry(d, e) ==
    /\ Exists(d) <=> Exists(e)
    /\ d.live = e.live
    /\ d.live => d.by = e.by

VARIABLES
    staged,    \* [Tokens -> [Keys -> Entries]], the staging partitions
    cleanup,   \* tokens listed in the cleanup partition
    wakeup,    \* pending wakeup events of each server
    fetched,   \* tokens the current cleanup round of each server has left
    doomed     \* keys the server is deleting, of which token

stagingVars == <<staged, cleanup, wakeup, fetched, doomed>>
cleanerVars == <<fetched, doomed>>

NoDrop == [token |-> NoOne, keys |-> {}]

StagingTypeOK ==
    /\ staged \in [Tokens -> [Keys -> Entries]]
    /\ cleanup \in SUBSET Tokens
    /\ wakeup \in [Servers -> 0..WakeupCapacity]
    /\ fetched \in [Servers -> SUBSET Tokens]
    /\ doomed \in [Servers -> [token : Tokens \cup {NoOne}, keys : SUBSET Keys]]

StagingInit ==
    /\ staged = [t \in Tokens |-> [k \in Keys |-> NoEntry]]
    /\ cleanup = {}
    /\ wakeup = [s \in Servers |-> 0]
    /\ fetched = [s \in Servers |-> {}]
    /\ doomed = [s \in Servers |-> NoDrop]

-----------------------------------------------------------------------------
(* The operations the branch operations call, each one store access.       *)

\* Manager.Set without requireExists: an unconditional write of one entry.
Put(t, k, e) ==
    /\ staged' = [staged EXCEPT ![t][k] = e]
    /\ UNCHANGED <<cleanup, wakeup, cleanerVars>>

\* Manager.DropKey
DropKey(t, k) == Put(t, k, NoEntry)

\* A bug: the token is listed and nobody told.
DropSilently(s, t) ==
    /\ cleanup' = cleanup \cup {t}
    /\ UNCHANGED <<staged, wakeup, cleanerVars>>

\* Manager.DropAsync: list the token, then wake the loop unless its channel is full.
DropAsync(s, t) ==
    /\ cleanup' = cleanup \cup {t}
    /\ wakeup' = [wakeup EXCEPT ![s] = IF @ < WakeupCapacity THEN @ + 1 ELSE @]
    /\ UNCHANGED <<staged, cleanerVars>>

-----------------------------------------------------------------------------
(* The cleanup loop: asyncLoop, findAndDrop and dropByPrefix.              *)

Idle(s) == fetched[s] = {} /\ doomed[s] = NoDrop

\* A wakeup event starts a round over at most MaxFetch of the listed tokens.
FindTokens(s) ==
    /\ Idle(s)
    /\ wakeup[s] > 0
    /\ wakeup' = [wakeup EXCEPT ![s] = @ - 1]
    /\ \E T \in SUBSET cleanup :
          /\ Cardinality(T) = MaxFetch \/ (T = cleanup /\ Cardinality(T) < MaxFetch)
          /\ fetched' = [fetched EXCEPT ![s] = T]
    /\ UNCHANGED <<staged, cleanup, doomed>>

\* The round takes its tokens in random order; the scan fixes the keys to delete.
ScanToken(s) ==
    /\ doomed[s] = NoDrop
    /\ \E t \in fetched[s] :
          doomed' = [doomed EXCEPT ![s] =
              [token |-> t, keys |-> {k \in Keys : Exists(staged[t][k])}]]
    /\ UNCHANGED <<staged, cleanup, wakeup, fetched>>

\* Keys are deleted one by one.
DropEntry(s) ==
    /\ \E k \in doomed[s].keys :
          /\ staged' = [staged EXCEPT ![doomed[s].token][k] = NoEntry]
          /\ doomed' = [doomed EXCEPT ![s].keys = @ \ {k}]
    /\ UNCHANGED <<cleanup, wakeup, fetched>>

\* With its keys gone the token is taken off the cleanup partition.
UnlistToken(s) ==
    /\ doomed[s].token # NoOne
    /\ doomed[s].keys = {}
    /\ cleanup' = cleanup \ {doomed[s].token}
    /\ fetched' = [fetched EXCEPT ![s] = @ \ {doomed[s].token}]
    /\ doomed' = [doomed EXCEPT ![s] = NoDrop]
    /\ UNCHANGED <<staged, wakeup>>

Clean(s) == FindTokens(s) \/ ScanToken(s) \/ DropEntry(s) \/ UnlistToken(s)

\* Tokens whose entries are being, or will be, deleted.
Condemned == cleanup \cup UNION {fetched[s] : s \in Servers}
=============================================================================
