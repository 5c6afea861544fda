------------------------------- MODULE OnlyOne -------------------------------
(***************************************************************************)
(* ChanOnlyOne (pkg/cache/only_one.go): concurrent calls of Compute with   *)
(* one key run its function once.  The first caller stores a record with a *)
(* fresh channel in a concurrent map, calls the function, writes its       *)
(* answer to the record, closes the channel, and removes the record from   *)
(* the map.  A caller that finds a record waits for its channel and takes  *)
(* its answer.  A goroutine computes at most once, so the record is named  *)
(* by the goroutine that made it.                                          *)
(***************************************************************************)
CONSTANTS Goroutines, \* the callers
          LockKeys,   \* keys of Compute
          NoOne       \* no goroutine

ASSUME OnlyOneAssumption == NoOne \notin Goroutines

VARIABLES inflight, \* the map: whose record is stored under each key
          answer,   \* the answer of each goroutine's record; "none" until its
                    \* channel is closed
          awaits    \* whose record a goroutine waits for

onlyOneVars == <<inflight, answer, awaits>>

Answers == {"none", "ok", "failed"}

OnlyOneTypeOK ==
    /\ inflight \in [LockKeys -> Goroutines \cup {NoOne}]
    /\ answer \in [Goroutines -> Answers]
    /\ awaits \in [Goroutines -> Goroutines \cup {NoOne}]

OnlyOneInit ==
    /\ inflight = [k \in LockKeys |-> NoOne]
    /\ answer = [g \in Goroutines |-> "none"]
    /\ awaits = [g \in Goroutines |-> NoOne]

\* LoadOrStore finds no record of the key: g is to call the function.
Lead(g, k) ==
    /\ inflight[k] = NoOne
    /\ inflight' = [inflight EXCEPT ![k] = g]
    /\ UNCHANGED <<answer, awaits>>

\* LoadOrStore finds a record of the key.
Follow(g, k) ==
    /\ inflight[k] # NoOne
    /\ awaits' = [awaits EXCEPT ![g] = inflight[k]]
    /\ UNCHANGED <<inflight, answer>>

\* A bug: only a success is told to those who wait.
CloseOnSuccess(g, a) ==
    /\ answer' = [answer EXCEPT ![g] = IF a = "ok" THEN a ELSE "none"]
    /\ UNCHANGED <<inflight, awaits>>

\* The leader writes its answer and closes the channel.
Close(g, a) ==
    /\ answer' = [answer EXCEPT ![g] = a]
    /\ UNCHANGED <<inflight, awaits>>

\* A bug: the record stays in the map.
ForgetNothing(k) == UNCHANGED onlyOneVars

\* The leader removes its record from the map.
Forget(k) ==
    /\ inflight' = [inflight EXCEPT ![k] = NoOne]
    /\ UNCHANGED <<answer, awaits>>

\* The answer a goroutine that found a record gets; "none" while it has to wait.
Awaited(g) == answer[awaits[g]]
=============================================================================
