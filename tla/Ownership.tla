------------------------------ MODULE Ownership ------------------------------
(***************************************************************************)
(* MostlyCorrectOwner (pkg/distributed/mc_owner.go): a lease on one key,   *)
(* kept as a record with an owner and an expiry in the key-value store.    *)
(* Own reads the record until it finds none, or one that has expired, and  *)
(* puts its own by compare-and-set; a goroutine of its own then puts the   *)
(* expiry off every half interval, until the owner releases the key.       *)
(*                                                                         *)
(* Time is counted in ticks, and every time in the program as the ticks    *)
(* that are left until it: an expiry that is 0 lies in the past.  Clocks   *)
(* of the servers agree.  A caller calls Own once and its name is unique,  *)
(* as is the random slug the code adds to it.  Expiries are nanoseconds in *)
(* the code and no two records are alike, so a predicate holds exactly     *)
(* when nothing was written since the reading it comes from.               *)
(***************************************************************************)
EXTENDS Integers, FiniteSets

CONSTANTS Callers,   \* goroutines that call Own
          NoOwner,   \* the owner of a record that was never written
          Refresh,   \* refreshInterval, in ticks
          MaxTrouble \* how often anything may be late or fail, see below

ASSUME OwnershipAssumption ==
    /\ NoOwner \notin Callers
    /\ Refresh \in Nat /\ Refresh >= 2
    /\ MaxTrouble \in Nat

VARIABLES
    record,    \* the record in the store
    current,   \* readers whose last reading is what the store holds now
    caller,    \* the callers of Own
    refresher, \* their refreshing goroutines
    late,      \* ticks that passed while a goroutine was due
    faults,    \* errors of the store, crashes and cancelled requests
    vacant     \* ticks since the last owner left, while someone waits

leaseVars == <<record, current, caller, refresher>>
ownershipVars == <<leaseVars, late, faults, vacant>>

Trouble == late + faults

\* vacant counts up to this bound, beyond all that is said of it.
VacantLimit == (MaxTrouble + 2) * Refresh

\* The refresher's ticker.
Interval == Refresh \div 2

Readers == Callers \X {"caller", "refresher"}

Waiting == {"ask", "claim", "asleep"}
CallerPoints == Waiting \cup {"idle", "holds", "leave", "cancel", "unowned", "released"}

OwnershipTypeOK ==
    /\ record \in [owner : Callers \cup {NoOwner}, left : 0..Refresh]
    /\ current \subseteq Readers
    /\ caller \in [Callers -> [pc : CallerPoints, timer : 0..Refresh]]
    /\ refresher \in [Callers -> [pc : {"off", "starts", "waits", "sets"}, due : 0..Refresh,
                                  fired : BOOLEAN, stake : 0..Refresh, cancelled : BOOLEAN]]
    /\ late \in Nat /\ faults \in Nat /\ Trouble <= MaxTrouble
    /\ vacant \in Nat

Off == [pc |-> "off", due |-> 0, fired |-> FALSE, stake |-> 0, cancelled |-> FALSE]

OwnershipInit ==
    /\ record = [owner |-> NoOwner, left |-> 0]
    /\ current = {}
    /\ caller = [g \in Callers |-> [pc |-> "idle", timer |-> 0]]
    /\ refresher = [g \in Callers |-> Off]
    /\ late = 0
    /\ faults = 0
    /\ vacant = 0

\* Callers that own the key, or go on as if they did.
Holders == {g \in Callers : caller[g].pc \in {"holds", "leave"}}

Go(g, pc, timer) == caller' = [caller EXCEPT ![g] = [pc |-> pc, timer |-> timer]]

Remember(reader) == current' = current \cup {reader}

\* SetMsgIf succeeds: what everyone else has read is no longer so.
Write(g, left) ==
    /\ record' = [owner |-> g, left |-> left]
    /\ current' = {}

NoWrite == UNCHANGED <<record, current>>

\* The readers of a goroutine that has no more use for what it read.
Forget(readers) == current' = current \ readers
Budgets == UNCHANGED <<late, faults, vacant>>

-----------------------------------------------------------------------------
(* Own.                                                                    *)

StartOwn(g) ==
    /\ caller[g].pc = "idle"
    /\ Go(g, "ask", 0)
    /\ NoWrite
    /\ UNCHANGED refresher
    /\ Budgets

\* A bug: a record that is about to expire is taken for expired.
AskEarly(g) ==
    /\ caller[g].pc = "ask"
    /\ IF record.left <= Interval THEN Go(g, "claim", Refresh) ELSE Go(g, "asleep", record.left)
    /\ Remember(<<g, "caller">>)
    /\ UNCHANGED <<record, refresher>>
    /\ Budgets

\* The reading of a round: a key that is not found or has expired is free,
\* otherwise the caller sleeps until the expiry it read.
Ask(g) ==
    /\ caller[g].pc = "ask"
    /\ \/ /\ record.left = 0
          /\ Go(g, "claim", Refresh)
          /\ Remember(<<g, "caller">>)
       \/ /\ record.left > 0
          /\ Go(g, "asleep", record.left)
          /\ UNCHANGED current
    /\ UNCHANGED <<record, refresher>>
    /\ Budgets

\* A bug: the record is put whatever became of the one that was read.
ClaimBlindly(g) ==
    /\ caller[g].pc = "claim"
    /\ Write(g, caller[g].timer)
    /\ Go(g, "holds", 0)
    /\ refresher' = [refresher EXCEPT ![g] = [Off EXCEPT !.pc = "starts"]]
    /\ vacant' = 0
    /\ UNCHANGED <<late, faults>>

\* The compare-and-set of a round.  Its expiry was computed at the reading.
\* Who loses sleeps for what it would have owned the key: its own message is
\* what the duration is taken from.
Claim(g) ==
    /\ caller[g].pc = "claim"
    /\ \/ /\ <<g, "caller">> \in current
          /\ Write(g, caller[g].timer)
          /\ Go(g, "holds", 0)
          /\ refresher' = [refresher EXCEPT ![g] = [Off EXCEPT !.pc = "starts"]]
          /\ vacant' = 0
       \/ /\ <<g, "caller">> \notin current
          /\ Go(g, "asleep", Refresh)
          /\ NoWrite
          /\ UNCHANGED <<refresher, vacant>>
    /\ UNCHANGED <<late, faults>>

Wake(g) ==
    /\ caller[g].pc = "asleep"
    /\ caller[g].timer = 0
    /\ Go(g, "ask", 0)
    /\ NoWrite
    /\ UNCHANGED refresher
    /\ Budgets

-----------------------------------------------------------------------------
(* refreshKey.                                                             *)

StartTicker(g) ==
    /\ refresher[g].pc = "starts"
    /\ refresher' = [refresher EXCEPT ![g].pc = "waits", ![g].due = Interval]
    /\ UNCHANGED <<record, current, caller>>
    /\ Budgets

\* The ticker fires: read the record, and stop if it is someone else's.
RefreshRead(g) ==
    /\ refresher[g].pc = "waits"
    /\ refresher[g].fired
    /\ \/ /\ record.owner = g
          /\ refresher' = [refresher EXCEPT ![g].fired = FALSE, ![g].pc = "sets", ![g].stake = Refresh]
          /\ Remember(<<g, "refresher">>)
       \/ /\ record.owner # g
          /\ refresher' = [refresher EXCEPT ![g] = Off]
          /\ UNCHANGED current
    /\ UNCHANGED <<record, caller>>
    /\ Budgets

\* Put the expiry off, if the record is still the one that was read; if not,
\* wait for the next tick all the same.
RefreshWrite(g) ==
    /\ refresher[g].pc = "sets"
    /\ IF <<g, "refresher">> \in current THEN Write(g, refresher[g].stake) ELSE NoWrite
    /\ refresher' = [refresher EXCEPT ![g].pc = "waits", ![g].stake = 0]
    /\ UNCHANGED caller
    /\ Budgets

\* ctx.Done is looked at between two refreshes only.
StopRefresh(g) ==
    /\ refresher[g].pc = "waits"
    /\ refresher[g].cancelled
    /\ refresher' = [refresher EXCEPT ![g] = Off]
    /\ UNCHANGED <<record, current, caller>>
    /\ Budgets
-----------------------------------------------------------------------------
(* stopOwning: releaseIf, and only then refreshCancel.                     *)

\* The reading of releaseIf: a key someone else owns by now is left alone.
LeaveRead(g) ==
    /\ caller[g].pc = "holds"
    /\ \/ /\ record.owner = g
          /\ Go(g, "leave", 0)
          /\ Remember(<<g, "caller">>)
       \/ /\ record.owner # g
          /\ Go(g, "cancel", 0)
          /\ UNCHANGED current
    /\ UNCHANGED <<record, refresher>>
    /\ Budgets

\* The expiry is set to the beginning of time; a failed predicate is success.
LeaveWrite(g) ==
    /\ caller[g].pc = "leave"
    /\ IF <<g, "caller">> \in current THEN Write(g, 0) ELSE NoWrite
    /\ Go(g, "cancel", 0)
    /\ UNCHANGED refresher
    /\ Budgets

\* A bug: nobody tells the refresher.
CancelNothing(g) ==
    /\ caller[g].pc = "cancel"
    /\ Go(g, "released", 0)
    /\ UNCHANGED refresher
    /\ NoWrite
    /\ Budgets

CancelRefresh(g) ==
    /\ caller[g].pc = "cancel"
    /\ Go(g, "released", 0)
    /\ refresher' = [refresher EXCEPT ![g].cancelled = refresher[g].pc # "off"]
    /\ NoWrite
    /\ Budgets

-----------------------------------------------------------------------------
(* What can go wrong.                                                      *)

Fault ==
    /\ Trouble < MaxTrouble
    /\ faults' = faults + 1
    /\ UNCHANGED <<late, vacant>>

\* Own returns an error: the store's, or that of a cancelled request.  The
\* store may have applied the compare-and-set all the same.
OwnFails(g) ==
    /\ caller[g].pc \in Waiting
    /\ Fault
    /\ \/ UNCHANGED record /\ Forget({<<g, "caller">>})
       \/ /\ caller[g].pc = "claim"
          /\ <<g, "caller">> \in current
          /\ Write(g, caller[g].timer)
    /\ Go(g, "unowned", 0)
    /\ UNCHANGED refresher

\* A refresher that cannot read stops; one that cannot write goes on.
RefreshFails(g) ==
    /\ Fault
    /\ \/ /\ refresher[g].pc = "waits"
          /\ refresher[g].fired
          /\ refresher' = [refresher EXCEPT ![g] = Off]
       \/ /\ refresher[g].pc = "sets"
          /\ refresher' = [refresher EXCEPT ![g].pc = "waits", ![g].stake = 0]
    /\ Forget({<<g, "refresher">>})
    /\ UNCHANGED <<record, caller>>

\* releaseIf fails, as it does for a request that was cancelled.
LeaveFails(g) ==
    /\ caller[g].pc \in {"holds", "leave"}
    /\ Fault
    /\ Go(g, "cancel", 0)
    /\ Forget({<<g, "caller">>})
    /\ UNCHANGED <<record, refresher>>

\* The server of g stops, and its refresher with it.
Crash(g) ==
    /\ caller[g].pc \notin {"idle", "released"}
    /\ Fault
    /\ Go(g, "released", 0)
    /\ refresher' = [refresher EXCEPT ![g] = Off]
    /\ Forget({g} \X {"caller", "refresher"})
    /\ UNCHANGED record

-----------------------------------------------------------------------------
(* Time.                                                                   *)

\* A goroutine is due when it has a step to take that waits for no timer.
\* What a caller does with the key it owns takes as long as it takes.
Due(g) ==
    \/ caller[g].pc \in {"ask", "claim", "leave", "cancel"}
    \/ caller[g].pc = "asleep" /\ caller[g].timer = 0
    \/ refresher[g].pc \in {"starts", "sets"}
    \/ refresher[g].fired \/ refresher[g].cancelled

Less(n) == IF n = 0 THEN 0 ELSE n - 1

\* A bug: a timer, which has to be set again, in the place of a ticker.
ElapseOnce(r) ==
    IF r.pc \in {"off", "starts"} THEN r
    ELSE [r EXCEPT !.due = r.due - 1, !.fired = @ \/ r.due = 1, !.stake = Less(@)]

\* A ticker that is not read drops its ticks and keeps its pace.
Elapse(r) ==
    IF r.pc \in {"off", "starts"} THEN r
    ELSE [r EXCEPT !.due   = IF r.due = 1 THEN Interval ELSE r.due - 1,
                   !.fired = @ \/ r.due = 1,
                   !.stake = Less(@)]

Tick ==
    /\ record' = [record EXCEPT !.left = Less(@)]
    /\ caller' = [g \in Callers |-> [caller[g] EXCEPT !.timer = Less(@)]]
    /\ refresher' = [g \in Callers |-> Elapse(refresher[g])]
    /\ \/ /\ \A g \in Callers : ~Due(g)
          /\ UNCHANGED late
       \/ /\ \E g \in Callers : Due(g)
          /\ Trouble < MaxTrouble
          /\ late' = late + 1
    /\ vacant' = IF Holders = {} /\ \E g \in Callers : caller[g].pc \in Waiting
                 THEN IF vacant < VacantLimit THEN vacant + 1 ELSE vacant
                 ELSE 0
    /\ UNCHANGED <<current, faults>>

-----------------------------------------------------------------------------
Acquire(g)  == Ask(g) \/ Claim(g) \/ Wake(g)
Refreshing(g) == StartTicker(g) \/ RefreshRead(g) \/ RefreshWrite(g) \/ StopRefresh(g)
Release(g)  == LeaveRead(g) \/ LeaveWrite(g) \/ CancelRefresh(g)
OwnershipFault(g) == OwnFails(g) \/ RefreshFails(g) \/ Crash(g)
=============================================================================
