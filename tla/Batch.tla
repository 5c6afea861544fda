-------------------------------- MODULE Batch --------------------------------
(***************************************************************************)
(* Executor (pkg/batch/executor.go): requests with one key that come in    *)
(* within a delay are answered by one execution.  BatchFor puts a request  *)
(* on a channel and waits for its answer, without looking at its context.  *)
(* The loop of Run collects the requests of each key; a timer goroutine of *)
(* the first one hands the key back to the loop, which then lets a         *)
(* goroutine execute the first request's function and answer them all.     *)
(*                                                                         *)
(* What is executed is up to the module that uses this one.  A client has  *)
(* one call at a time, so a request bears its client's name, and a batch   *)
(* that of its first request.                                              *)
(***************************************************************************)
EXTENDS Naturals, Sequences, SequencesExt

CONSTANTS Clients,   \* goroutines that call BatchFor
          BatchKeys, \* keys of the requests
          NoReply,   \* no answer yet
          Failed     \* an error: the executor stops, or the execution fails

ASSUME BatchAssumption == Failed # NoReply

VARIABLES
    requests,     \* the channel of requests
    waitingOnKey, \* requests collected for each key, in order
    timers,       \* keys whose timer goroutine still sleeps
    execs,        \* the channel of keys to execute
    batch,        \* the requests of the batch each client leads; <<>> if none
    result,       \* what the execution of that batch returned
    reply,        \* the answer that has come for each client
    executor      \* the loop: "runs", "drains" or "stopped"

batchVars == <<requests, waitingOnKey, timers, execs, batch, result, reply, executor>>

BatchInit ==
    /\ requests = <<>>
    /\ waitingOnKey = [k \in BatchKeys |-> <<>>]
    /\ timers = {}
    /\ execs = <<>>
    /\ batch = [c \in Clients |-> <<>>]
    /\ result = [c \in Clients |-> NoReply]
    /\ reply = [c \in Clients |-> NoReply]
    /\ executor = "runs"

BatchTypeOK ==
    /\ requests \in Seq([client : Clients, key : BatchKeys])
    /\ waitingOnKey \in [BatchKeys -> Seq(Clients)]
    /\ timers \subseteq BatchKeys
    /\ execs \in Seq(BatchKeys)
    /\ batch \in [Clients -> Seq(Clients)]
    /\ executor \in {"runs", "drains", "stopped"}

\* The answer v reaches every client in cs.
Answer(cs, v) == reply' = [c \in Clients |-> IF c \in cs THEN v ELSE reply[c]]

-----------------------------------------------------------------------------
(* BatchFor.                                                               *)

Enqueue(c, k) ==
    /\ requests' = Append(requests, [client |-> c, key |-> k])
    /\ UNCHANGED <<waitingOnKey, timers, execs, batch, result, reply, executor>>

Replied(c) == reply[c] # NoReply

\* The client takes its answer.
Hear(c) ==
    /\ Replied(c)
    /\ reply' = [reply EXCEPT ![c] = NoReply]
    /\ UNCHANGED <<requests, waitingOnKey, timers, execs, batch, result, executor>>

-----------------------------------------------------------------------------
(* Run.                                                                    *)

\* A request comes in: it joins those of its key, or is the first of them.
Accept ==
    /\ executor = "runs"
    /\ requests # <<>>
    /\ LET r == Head(requests)
       IN /\ waitingOnKey' = [waitingOnKey EXCEPT ![r.key] = Append(@, r.client)]
          /\ timers' = IF waitingOnKey[r.key] = <<>> THEN timers \cup {r.key} ELSE timers
    /\ requests' = Tail(requests)
    /\ UNCHANGED <<execs, batch, result, reply, executor>>

\* The delay is over, whether or not the loop still runs.
TimerEnds(k) ==
    /\ k \in timers
    /\ timers' = timers \ {k}
    /\ execs' = Append(execs, k)
    /\ UNCHANGED <<requests, waitingOnKey, batch, result, reply, executor>>

\* A bug: the last request's function is executed.
DispatchLast ==
    /\ executor = "runs"
    /\ execs # <<>>
    /\ LET k == Head(execs)
           waiters == waitingOnKey[k]
       IN /\ batch' = [batch EXCEPT ![Last(waiters)] = waiters]
          /\ waitingOnKey' = [waitingOnKey EXCEPT ![k] = <<>>]
    /\ execs' = Tail(execs)
    /\ UNCHANGED <<requests, timers, result, reply, executor>>

\* The key is due: its requests are taken off, and executed beside the loop.
Dispatch ==
    /\ executor = "runs"
    /\ execs # <<>>
    /\ LET k == Head(execs)
           waiters == waitingOnKey[k]
       IN /\ batch' = [batch EXCEPT ![Head(waiters)] = waiters]
          /\ waitingOnKey' = [waitingOnKey EXCEPT ![k] = <<>>]
    /\ execs' = Tail(execs)
    /\ UNCHANGED <<requests, timers, result, reply, executor>>

\* The first request's function returns v.
Execute(c, v) ==
    /\ batch[c] # <<>>
    /\ result[c] = NoReply
    /\ result' = [result EXCEPT ![c] = v]
    /\ UNCHANGED <<requests, waitingOnKey, timers, execs, batch, reply, executor>>

\* A bug: the last request of a batch is left out.
ReplyButLast(c) ==
    /\ result[c] # NoReply
    /\ Answer(ToSet(SubSeq(batch[c], 1, Len(batch[c]) - 1)) \cup {c}, result[c])
    /\ batch' = [batch EXCEPT ![c] = <<>>]
    /\ result' = [result EXCEPT ![c] = NoReply]
    /\ UNCHANGED <<requests, waitingOnKey, timers, execs, executor>>

\* A bug: who waits by now is answered as well.
ReplyToAll(c) ==
    /\ result[c] # NoReply
    /\ LET waiting == UNION {ToSet(waitingOnKey[k]) : k \in {j \in BatchKeys : waitingOnKey[j] # <<>>}}
       IN Answer(ToSet(batch[c]) \cup waiting, result[c])
    /\ batch' = [batch EXCEPT ![c] = <<>>]
    /\ result' = [result EXCEPT ![c] = NoReply]
    /\ UNCHANGED <<requests, waitingOnKey, timers, execs, executor>>

\* Every request of the batch is answered alike.
Reply(c) ==
    /\ result[c] # NoReply
    /\ Answer(ToSet(batch[c]), result[c])
    /\ batch' = [batch EXCEPT ![c] = <<>>]
    /\ result' = [result EXCEPT ![c] = NoReply]
    /\ UNCHANGED <<requests, waitingOnKey, timers, execs, executor>>

\* The context is done: the collected requests are refused.
Shut ==
    /\ executor = "runs"
    /\ executor' = "drains"
    /\ Answer(UNION {ToSet(waitingOnKey[k]) : k \in BatchKeys}, Failed)
    /\ waitingOnKey' = [k \in BatchKeys |-> <<>>]
    /\ UNCHANGED <<requests, timers, execs, batch, result>>

\* Then those that are still on the channel, until it is found empty.
Drain ==
    /\ executor = "drains"
    /\ IF requests = <<>>
       THEN /\ executor' = "stopped"
            /\ UNCHANGED <<requests, reply>>
       ELSE /\ Answer({Head(requests).client}, Failed)
            /\ requests' = Tail(requests)
            /\ UNCHANGED executor
    /\ UNCHANGED <<waitingOnKey, timers, execs, batch, result>>

RunLoop == Accept \/ Dispatch \/ Drain
=============================================================================
