---------------------------- MODULE OwnershipProofs ----------------------------
(* What is proved of OwnedUpdates for any number of requests, any refresh  *)
(* interval and any number of faults and delays: a key is never owned by   *)
(* two while all goes well, no update is lost then, and a free key is      *)
(* taken in time.                                                          *)
EXTENDS OwnedUpdates, FiniteSetTheorems, TLAPS

LEMMA Intervals ==
    /\ Refresh \in Nat /\ MaxTrouble \in Nat
    /\ Interval \in Nat /\ 1 <= Interval /\ Interval < Refresh /\ 1 <= Refresh - Interval
BY OwnershipAssumption DEF Interval

CallerState == [pc : CallerPoints, timer : 0..Refresh]
RefresherState == [pc : {"off", "starts", "waits", "sets"}, due : 0..Refresh,
                   fired : BOOLEAN, stake : 0..Refresh, cancelled : BOOLEAN]

\* The steps of one goroutine, and the faults.
Besides(g) ==
    \/ StartOwn(g) \/ Ask(g) \/ Claim(g) \/ Wake(g)
    \/ StartTicker(g) \/ RefreshRead(g) \/ RefreshWrite(g) \/ StopRefresh(g)
    \/ LeaveWrite(g) \/ CancelRefresh(g)
    \/ OwnFails(g) \/ RefreshFails(g) \/ Crash(g) \/ LeaveFails(g)
Step(g) == LeaveRead(g) \/ Besides(g)

\* An update's step leaves the lease alone, except the release that comes
\* after it, and a step of the lease the branch.
LEMMA StepsOf ==
    ASSUME [Next]_vars
    PROVE  \/ \E g \in Callers : ((LeaveRead(g) /\ update[g] \in Outcomes) \/ Besides(g)) /\ BranchUnchanged
           \/ \E g \in Callers : (ReadBranch(g) \/ KeepBranch(g) \/ SetBranch(g)) /\ UNCHANGED ownershipVars
           \/ Tick /\ BranchUnchanged
           \/ UNCHANGED ownershipVars /\ BranchUnchanged
<1>1. CASE UNCHANGED vars
    BY <1>1 DEF vars, BranchUnchanged
<1>2. ASSUME NEW g \in Callers,
             \/ StartOwn(g) /\ BranchUnchanged
             \/ Request(g)
             \/ Background(g)
             \/ OwnershipFault(g) /\ BranchUnchanged
             \/ ReleaseFails(g)
      PROVE  \/ ((LeaveRead(g) /\ update[g] \in Outcomes) \/ Besides(g)) /\ BranchUnchanged
             \/ (ReadBranch(g) \/ KeepBranch(g) \/ SetBranch(g)) /\ UNCHANGED ownershipVars
    BY <1>2 DEF Request, Background, OwnershipFault, ReleaseFails, ReleaseAfter, Release, Acquire, Refreshing, Besides,
           ReadBranch, KeepBranch, SetBranch
<1>3. QED
    BY <1>1, <1>2 DEF Next

-----------------------------------------------------------------------------
(* Types.                                                                  *)

LEMMA Fields ==
    ASSUME OwnershipTypeOK
    PROVE  /\ record = [owner |-> record.owner, left |-> record.left]
           /\ record.owner \in Callers \cup {NoOwner} /\ record.left \in 0..Refresh
           /\ \A g \in Callers : /\ caller[g] \in CallerState
                                 /\ caller[g].pc \in CallerPoints /\ caller[g].timer \in 0..Refresh
                                 /\ refresher[g] \in RefresherState
                                 /\ refresher[g].pc \in {"off", "starts", "waits", "sets"}
                                 /\ refresher[g].due \in 0..Refresh /\ refresher[g].stake \in 0..Refresh
                                 /\ refresher[g].fired \in BOOLEAN /\ refresher[g].cancelled \in BOOLEAN
           /\ late \in Nat /\ faults \in Nat /\ vacant \in Nat
BY Intervals DEF OwnershipTypeOK, CallerState, RefresherState

\* The ticker keeps its pace.
Paced == \A g \in Callers : refresher[g].pc \in {"waits", "sets"} => refresher[g].due \in 1..Interval

TypeInv == TypeOK /\ Paced

Moves(g, pc, timer) ==
    /\ caller' \in [Callers -> CallerState]
    /\ caller'[g].pc = pc /\ caller'[g].timer = timer
    /\ \A h \in Callers \ {g} : caller'[h] = caller[h]

Turns(g, r) ==
    /\ refresher' \in [Callers -> RefresherState]
    /\ refresher'[g] = r
    /\ \A h \in Callers \ {g} : refresher'[h] = refresher[h]

\* What becomes of a refresher.
Ticking(r)  == [r EXCEPT !.pc = "waits", !.due = Interval]
Setting(r)  == [r EXCEPT !.fired = FALSE, !.pc = "sets", !.stake = Refresh]
Again(r) == [r EXCEPT !.pc = "waits", !.stake = 0]
Told(r)     == [r EXCEPT !.cancelled = (r.pc # "off")]

LEMMA TickingIs ==
    ASSUME NEW r \in RefresherState
    PROVE  /\ Ticking(r) \in RefresherState
           /\ Ticking(r).pc = "waits" /\ Ticking(r).due = Interval /\ Ticking(r).fired = r.fired
           /\ Ticking(r).stake = r.stake /\ Ticking(r).cancelled = r.cancelled
<1>1. Interval \in 0..Refresh
    BY Intervals
<1>2. Ticking(r) \in RefresherState
    BY <1>1 DEF Ticking, RefresherState
<1>3. QED
    BY <1>2 DEF Ticking, RefresherState

LEMMA SettingIs ==
    ASSUME NEW r \in RefresherState
    PROVE  /\ Setting(r) \in RefresherState
           /\ Setting(r).pc = "sets" /\ Setting(r).due = r.due /\ Setting(r).fired = FALSE
           /\ Setting(r).stake = Refresh /\ Setting(r).cancelled = r.cancelled
<1>1. Refresh \in 0..Refresh
    BY Intervals
<1>2. Setting(r) \in RefresherState
    BY <1>1 DEF Setting, RefresherState
<1>3. QED
    BY <1>2 DEF Setting, RefresherState

LEMMA AgainIs ==
    ASSUME NEW r \in RefresherState
    PROVE  /\ Again(r) \in RefresherState
           /\ Again(r).pc = "waits" /\ Again(r).due = r.due /\ Again(r).fired = r.fired
           /\ Again(r).stake = 0 /\ Again(r).cancelled = r.cancelled
<1>1. 0 \in 0..Refresh
    BY Intervals
<1>2. Again(r) \in RefresherState
    BY <1>1 DEF Again, RefresherState
<1>3. QED
    BY <1>2 DEF Again, RefresherState

LEMMA ToldIs ==
    ASSUME NEW r \in RefresherState
    PROVE  /\ Told(r) \in RefresherState
           /\ Told(r).pc = r.pc /\ Told(r).due = r.due /\ Told(r).fired = r.fired
           /\ Told(r).stake = r.stake
           /\ Told(r).cancelled = (r.pc # "off")
<1>1. (r.pc # "off") \in BOOLEAN
    OBVIOUS
<1>2. Told(r) \in RefresherState
    BY <1>1 DEF Told, RefresherState
<1>3. QED
    BY <1>2 DEF Told, RefresherState

Started == [Off EXCEPT !.pc = "starts"]

LEMMA OffTyped ==
    /\ Off \in RefresherState
    /\ Off.pc = "off" /\ Off.due = 0 /\ Off.fired = FALSE /\ Off.stake = 0 /\ Off.cancelled = FALSE
<1>1. 0 \in 0..Refresh
    BY Intervals
<1>2. Off \in RefresherState
    BY <1>1 DEF Off, RefresherState
<1>3. QED
    BY <1>2 DEF Off

LEMMA StartedTyped ==
    /\ Started \in RefresherState
    /\ Started.pc = "starts" /\ Started.due = 0 /\ Started.fired = FALSE
    /\ Started.stake = 0 /\ Started.cancelled = FALSE
<1>1. 0 \in 0..Refresh
    BY Intervals
<1>a. ASSUME NEW r, r = [Off EXCEPT !.pc = "starts"]
      PROVE  r = [pc |-> "starts", due |-> 0, fired |-> FALSE, stake |-> 0, cancelled |-> FALSE]
    BY <1>a DEF Off
<1>2. Started = [pc |-> "starts", due |-> 0, fired |-> FALSE, stake |-> 0, cancelled |-> FALSE]
    BY <1>a DEF Started
<1>3. ASSUME NEW r, r = [pc |-> "starts", due |-> 0, fired |-> FALSE, stake |-> 0, cancelled |-> FALSE]
      PROVE  r \in RefresherState
    BY <1>1, <1>3 DEF RefresherState
<1>4. Started \in RefresherState
    BY <1>2, <1>3
<1>5. QED
    BY <1>2, <1>4

LEMMA Zeros ==
    ASSUME OwnershipTypeOK
    PROVE  /\ 0 \in 0..Refresh /\ Refresh \in 0..Refresh /\ record.left \in 0..Refresh
           /\ \A g \in Callers : caller[g].timer \in 0..Refresh
BY Fields, Intervals

LEMMA GoEffect ==
    ASSUME OwnershipTypeOK, NEW g \in Callers
    PROVE  \A pc \in {"ask", "claim", "asleep", "idle", "holds", "leave", "cancel", "unowned", "released"},
             timer \in 0..Refresh :
               Go(g, pc, timer) => Moves(g, pc, timer)
BY DEF Go, OwnershipTypeOK, CallerState, CallerPoints, Waiting, Moves

LEMMA TurnEffect ==
    ASSUME OwnershipTypeOK, NEW g \in Callers, NEW r \in RefresherState,
           refresher' = [refresher EXCEPT ![g] = r]
    PROVE  Turns(g, r)
BY DEF OwnershipTypeOK, RefresherState, Turns

\* What each step does.

LEMMA StartOwnEffect ==
    ASSUME OwnershipTypeOK, Paced, NEW g \in Callers, StartOwn(g)
    PROVE  /\ caller[g].pc = "idle" /\ Moves(g, "ask", 0)
           /\ UNCHANGED <<record, current, refresher, late, faults, vacant>>
BY Zeros, GoEffect DEF StartOwn, NoWrite, Budgets

LEMMA AskEffect ==
    ASSUME OwnershipTypeOK, Paced, NEW g \in Callers, Ask(g)
    PROVE  /\ caller[g].pc = "ask"
           /\ \/ /\ record.left = 0 /\ Moves(g, "claim", Refresh)
                 /\ current' = current \cup {<<g, "caller">>}
              \/ /\ record.left > 0 /\ Moves(g, "asleep", record.left)
                 /\ current' = current
           /\ UNCHANGED <<record, refresher, late, faults, vacant>>
BY Zeros, GoEffect DEF Ask, Remember, Budgets

LEMMA ClaimEffect ==
    ASSUME OwnershipTypeOK, Paced, NEW g \in Callers, Claim(g)
    PROVE  /\ caller[g].pc = "claim"
           /\ \/ /\ <<g, "caller">> \in current /\ Moves(g, "holds", 0)
                 /\ record' = [owner |-> g, left |-> caller[g].timer] /\ current' = {}
                 /\ Turns(g, Started) /\ vacant' = 0
              \/ /\ <<g, "caller">> \notin current /\ Moves(g, "asleep", Refresh)
                 /\ UNCHANGED <<record, current, refresher, vacant>>
           /\ UNCHANGED <<late, faults>>
BY Zeros, GoEffect, TurnEffect, StartedTyped DEF Claim, Write, NoWrite, Started

LEMMA WakeEffect ==
    ASSUME OwnershipTypeOK, Paced, NEW g \in Callers, Wake(g)
    PROVE  /\ caller[g].pc = "asleep" /\ caller[g].timer = 0 /\ Moves(g, "ask", 0)
           /\ UNCHANGED <<record, current, refresher, late, faults, vacant>>
BY Zeros, GoEffect DEF Wake, NoWrite, Budgets

LEMMA StartTickerEffect ==
    ASSUME OwnershipTypeOK, Paced, NEW g \in Callers, StartTicker(g)
    PROVE  /\ refresher[g].pc = "starts"
           /\ Turns(g, Ticking(refresher[g]))
           /\ UNCHANGED <<record, current, caller, late, faults, vacant>>
<1>1. refresher' = [refresher EXCEPT ![g] = Ticking(refresher[g])]
    BY DEF StartTicker, OwnershipTypeOK, Ticking
<1>2. QED
    BY <1>1, Fields, TickingIs, TurnEffect DEF StartTicker, Budgets

LEMMA RefreshReadEffect ==
    ASSUME OwnershipTypeOK, Paced, NEW g \in Callers, RefreshRead(g)
    PROVE  /\ refresher[g].pc = "waits" /\ refresher[g].fired
           /\ \/ /\ record.owner = g
                 /\ Turns(g, Setting(refresher[g]))
                 /\ current' = current \cup {<<g, "refresher">>}
              \/ record.owner # g /\ Turns(g, Off) /\ current' = current
           /\ UNCHANGED <<record, caller, late, faults, vacant>>
<1>1. \/ record.owner = g /\ refresher' = [refresher EXCEPT ![g] = Setting(refresher[g])]
      \/ record.owner # g /\ refresher' = [refresher EXCEPT ![g] = Off]
    BY DEF RefreshRead, OwnershipTypeOK, Setting
<1>2. (record.owner = g /\ Turns(g, Setting(refresher[g]))) \/ (record.owner # g /\ Turns(g, Off))
    BY <1>1, Fields, SettingIs, TurnEffect, OffTyped
<1>3. QED
    BY <1>2 DEF RefreshRead, Budgets, Remember

LEMMA RefreshWriteEffect ==
    ASSUME OwnershipTypeOK, Paced, NEW g \in Callers, RefreshWrite(g)
    PROVE  /\ refresher[g].pc = "sets"
           /\ Turns(g, Again(refresher[g]))
           /\ IF <<g, "refresher">> \in current
              THEN record' = [owner |-> g, left |-> refresher[g].stake] /\ current' = {}
              ELSE UNCHANGED <<record, current>>
           /\ UNCHANGED <<caller, late, faults, vacant>>
<1>1. refresher' = [refresher EXCEPT ![g] = Again(refresher[g])]
    BY DEF RefreshWrite, OwnershipTypeOK, Again
<1>2. QED
    BY <1>1, Fields, AgainIs, TurnEffect DEF RefreshWrite, Write, NoWrite, Budgets

LEMMA StopRefreshEffect ==
    ASSUME OwnershipTypeOK, Paced, NEW g \in Callers, StopRefresh(g)
    PROVE  /\ refresher[g].pc = "waits" /\ refresher[g].cancelled /\ Turns(g, Off)
           /\ UNCHANGED <<record, current, caller, late, faults, vacant>>
BY TurnEffect, OffTyped DEF StopRefresh, Budgets

LEMMA LeaveReadEffect ==
    ASSUME OwnershipTypeOK, Paced, NEW g \in Callers, LeaveRead(g)
    PROVE  /\ caller[g].pc = "holds"
           /\ \/ /\ record.owner = g /\ Moves(g, "leave", 0)
                 /\ current' = current \cup {<<g, "caller">>}
              \/ record.owner # g /\ Moves(g, "cancel", 0) /\ current' = current
           /\ UNCHANGED <<record, refresher, late, faults, vacant>>
BY Zeros, GoEffect DEF LeaveRead, Remember, Budgets

LEMMA LeaveWriteEffect ==
    ASSUME OwnershipTypeOK, Paced, NEW g \in Callers, LeaveWrite(g)
    PROVE  /\ caller[g].pc = "leave" /\ Moves(g, "cancel", 0)
           /\ IF <<g, "caller">> \in current
              THEN record' = [owner |-> g, left |-> 0] /\ current' = {}
              ELSE UNCHANGED <<record, current>>
           /\ UNCHANGED <<refresher, late, faults, vacant>>
BY Zeros, GoEffect DEF LeaveWrite, Write, NoWrite, Budgets

LEMMA CancelRefreshEffect ==
    ASSUME OwnershipTypeOK, Paced, NEW g \in Callers, CancelRefresh(g)
    PROVE  /\ caller[g].pc = "cancel" /\ Moves(g, "released", 0)
           /\ Turns(g, Told(refresher[g]))
           /\ UNCHANGED <<record, current, late, faults, vacant>>
<1>1. refresher' = [refresher EXCEPT ![g] = Told(refresher[g])]
    BY DEF CancelRefresh, OwnershipTypeOK, Told
<1>2. QED
    BY <1>1, Fields, ToldIs, Zeros, GoEffect, TurnEffect DEF CancelRefresh, NoWrite, Budgets

LEMMA OwnFailsEffect ==
    ASSUME OwnershipTypeOK, Paced, NEW g \in Callers, OwnFails(g)
    PROVE  /\ caller[g].pc \in Waiting /\ Moves(g, "unowned", 0)
           /\ \/ record' = record /\ current' = current \ {<<g, "caller">>}
              \/ /\ caller[g].pc = "claim" /\ <<g, "caller">> \in current
                 /\ record' = [owner |-> g, left |-> caller[g].timer] /\ current' = {}
           /\ late + faults < MaxTrouble /\ faults' = faults + 1
           /\ UNCHANGED <<refresher, late, vacant>>
BY Zeros, GoEffect DEF OwnFails, Fault, Trouble, Forget, Write

LEMMA RefreshFailsEffect ==
    ASSUME OwnershipTypeOK, Paced, NEW g \in Callers, RefreshFails(g)
    PROVE  /\ \/ refresher[g].pc = "waits" /\ refresher[g].fired /\ Turns(g, Off)
              \/ refresher[g].pc = "sets" /\ Turns(g, Again(refresher[g]))
           /\ current' = current \ {<<g, "refresher">>}
           /\ late + faults < MaxTrouble /\ faults' = faults + 1
           /\ UNCHANGED <<record, caller, late, vacant>>
<1>1. \/ refresher[g].pc = "waits" /\ refresher[g].fired /\ refresher' = [refresher EXCEPT ![g] = Off]
      \/ refresher[g].pc = "sets" /\ refresher' = [refresher EXCEPT ![g] = Again(refresher[g])]
    BY DEF RefreshFails, OwnershipTypeOK, Again
<1>2. \/ refresher[g].pc = "waits" /\ refresher[g].fired /\ Turns(g, Off)
      \/ refresher[g].pc = "sets" /\ Turns(g, Again(refresher[g]))
    BY <1>1, Fields, AgainIs, TurnEffect, OffTyped
<1>3. QED
    BY <1>2 DEF RefreshFails, Fault, Trouble, Forget

LEMMA CrashEffect ==
    ASSUME OwnershipTypeOK, Paced, NEW g \in Callers, Crash(g)
    PROVE  /\ caller[g].pc \notin {"idle", "released"} /\ Moves(g, "released", 0) /\ Turns(g, Off)
           /\ current' = current \ ({g} \X {"caller", "refresher"})
           /\ late + faults < MaxTrouble /\ faults' = faults + 1
           /\ UNCHANGED <<record, late, vacant>>
BY Zeros, GoEffect, TurnEffect, OffTyped DEF Crash, Fault, Trouble, Forget

LEMMA LeaveFailsEffect ==
    ASSUME OwnershipTypeOK, Paced, NEW g \in Callers, LeaveFails(g)
    PROVE  /\ caller[g].pc \in {"holds", "leave"} /\ Moves(g, "cancel", 0)
           /\ current' = current \ {<<g, "caller">>}
           /\ late + faults < MaxTrouble /\ faults' = faults + 1
           /\ UNCHANGED <<record, refresher, late, vacant>>
BY Zeros, GoEffect DEF LeaveFails, Fault, Trouble, Forget

LEMMA Forms ==
    ASSUME OwnershipTypeOK
    PROVE  /\ Off.pc = "off"
           /\ \A g \in Callers :
                 /\ Ticking(refresher[g]).due \in 1..Interval
                 /\ Setting(refresher[g]).due = refresher[g].due
                 /\ Again(refresher[g]).due = refresher[g].due
                 /\ Told(refresher[g]).due = refresher[g].due /\ Told(refresher[g]).pc = refresher[g].pc
<1>1. Interval \in 1..Interval
    BY Intervals
<1>2. ASSUME NEW g \in Callers
      PROVE  /\ Ticking(refresher[g]).due \in 1..Interval
             /\ Setting(refresher[g]).due = refresher[g].due
             /\ Again(refresher[g]).due = refresher[g].due
             /\ Told(refresher[g]).due = refresher[g].due /\ Told(refresher[g]).pc = refresher[g].pc
    <2>1. refresher[g] \in RefresherState
        BY Fields
    <2>2. QED
        BY <1>1, <2>1, TickingIs, SettingIs, AgainIs, ToldIs
<1>3. QED
    BY <1>2, OffTyped

LEMMA StepTyped ==
    ASSUME OwnershipTypeOK, Paced, NEW g \in Callers, Step(g)
    PROVE  OwnershipTypeOK' /\ Paced'
<1>0. /\ late + faults <= MaxTrouble /\ current \subseteq Readers
      /\ <<g, "caller">> \in Readers /\ <<g, "refresher">> \in Readers
      /\ record \in [owner : Callers \cup {NoOwner}, left : 0..Refresh]
      /\ caller \in [Callers -> CallerState] /\ refresher \in [Callers -> RefresherState]
      /\ MaxTrouble \in Nat /\ late \in Nat /\ faults \in Nat /\ vacant \in Nat
    BY Fields, Intervals DEF OwnershipTypeOK, Trouble, Readers, CallerState, RefresherState
<1>1. ASSUME caller' \in [Callers -> CallerState],
             refresher' \in [Callers -> RefresherState],
             record' \in [owner : Callers \cup {NoOwner}, left : 0..Refresh],
             current' \subseteq Readers,
             late' \in Nat, faults' \in Nat, (late + faults)' <= MaxTrouble, vacant' \in Nat,
             \A h \in Callers \ {g} : refresher'[h] = refresher[h],
             refresher'[g].pc \in {"waits", "sets"} => refresher'[g].due \in 1..Interval
      PROVE  OwnershipTypeOK' /\ Paced'
    BY <1>1 DEF OwnershipTypeOK, Paced, Trouble, CallerState, RefresherState
\* The step of a caller that leaves its refresher alone.
<1>2. ASSUME caller' \in [Callers -> CallerState], refresher' = refresher,
             record' \in [owner : Callers \cup {NoOwner}, left : 0..Refresh], current' \subseteq Readers,
             late' = late, faults' = faults \/ (late + faults < MaxTrouble /\ faults' = faults + 1), vacant' = vacant
      PROVE  OwnershipTypeOK' /\ Paced'
    BY <1>0, <1>1, <1>2 DEF Paced
\* The step of a refresher.
<1>3. ASSUME NEW r, Turns(g, r), caller' \in [Callers -> CallerState],
             r.pc \in {"waits", "sets"} => r.due \in 1..Interval,
             record' \in [owner : Callers \cup {NoOwner}, left : 0..Refresh], current' \subseteq Readers,
             late' = late, faults' = faults \/ (late + faults < MaxTrouble /\ faults' = faults + 1), vacant' \in {0, vacant}
      PROVE  OwnershipTypeOK' /\ Paced'
    BY <1>0, <1>1, <1>3 DEF Turns
<1>4. CASE StartOwn(g)
    BY <1>0, <1>2, <1>4, StartOwnEffect, Zeros DEF Moves
<1>5. CASE Ask(g)
    BY <1>0, <1>2, <1>5, AskEffect, Zeros DEF Moves
<1>6. CASE Claim(g)
    BY <1>0, <1>2, <1>3, <1>6, ClaimEffect, StartedTyped, OffTyped, Zeros DEF Moves
<1>7. CASE Wake(g)
    BY <1>0, <1>2, <1>7, WakeEffect, Zeros DEF Moves
<1>8. CASE StartTicker(g)
    BY <1>0, <1>3, <1>8, StartTickerEffect, Fields, Zeros, Intervals, Forms DEF Moves, Paced
<1>9. CASE RefreshRead(g)
    <2>1. /\ refresher[g].due \in 1..Interval /\ record' = record /\ caller' = caller
          /\ late' = late /\ faults' = faults /\ vacant' = vacant
          /\ current' = current \/ current' = current \cup {<<g, "refresher">>}
          /\ Turns(g, Setting(refresher[g])) \/ Turns(g, Off)
        BY <1>9, RefreshReadEffect DEF Paced
    <2>2. current' \subseteq Readers
        BY <1>0, <2>1
    <2>3. Setting(refresher[g]).due \in 1..Interval /\ Off.pc = "off"
        BY <2>1, Forms
    <2>4. CASE Turns(g, Setting(refresher[g]))
        BY <1>0, <1>3, <2>1, <2>2, <2>3, <2>4
    <2>5. CASE Turns(g, Off)
        BY <1>0, <1>3, <2>1, <2>2, <2>3, <2>5
    <2>6. QED
        BY <2>1, <2>4, <2>5
<1>10. CASE RefreshWrite(g)
    BY <1>0, <1>3, <1>10, RefreshWriteEffect, Fields, Zeros, Intervals, Forms DEF Moves, Paced
<1>11. CASE StopRefresh(g)
    BY <1>0, <1>3, <1>11, StopRefreshEffect, Fields, Zeros, Intervals, Forms DEF Moves, Paced
<1>12. CASE LeaveRead(g)
    BY <1>0, <1>2, <1>12, LeaveReadEffect, Zeros DEF Moves
<1>13. CASE LeaveWrite(g)
    BY <1>0, <1>2, <1>13, LeaveWriteEffect, Zeros DEF Moves
<1>14. CASE CancelRefresh(g)
    BY <1>0, <1>3, <1>14, CancelRefreshEffect, Fields, Zeros, Intervals, Forms DEF Moves, Paced
<1>15. CASE OwnFails(g)
    BY <1>0, <1>2, <1>15, OwnFailsEffect, Zeros DEF Moves
<1>16. CASE RefreshFails(g)
    BY <1>0, <1>3, <1>16, RefreshFailsEffect, Fields, Zeros, Intervals, Forms DEF Moves, Paced
<1>17. CASE Crash(g)
    BY <1>0, <1>2, <1>3, <1>17, CrashEffect, StartedTyped, OffTyped, Zeros DEF Moves
<1>18. CASE LeaveFails(g)
    BY <1>0, <1>2, <1>18, LeaveFailsEffect, Zeros DEF Moves
<1>19. QED
    BY <1>4, <1>5, <1>6, <1>7, <1>8, <1>9, <1>10, <1>11, <1>12, <1>13, <1>14, <1>15, <1>16, <1>17, <1>18 DEF Step, Besides

\* A tick of a ticker, and of a countdown.
LEMMA LessIs ==
    ASSUME NEW n \in 0..Refresh
    PROVE  /\ Less(n) \in 0..Refresh /\ Less(n) <= n /\ n - 1 <= Less(n)
           /\ n > 0 => Less(n) = n - 1
BY Intervals DEF Less

LEMMA Elapsed ==
    ASSUME NEW r \in RefresherState, r.pc \in {"waits", "sets"} => r.due \in 1..Interval
    PROVE  /\ Elapse(r) \in RefresherState
           /\ Elapse(r).pc = r.pc /\ Elapse(r).cancelled = r.cancelled
           /\ r.pc \in {"off", "starts"} => Elapse(r) = r
           /\ r.pc \in {"waits", "sets"} =>
                 /\ Elapse(r).due \in 1..Interval
                 /\ Elapse(r).stake = Less(r.stake)
                 /\ r.fired => Elapse(r).fired
                 /\ ~Elapse(r).fired => ~r.fired /\ Elapse(r).due = r.due - 1
                 /\ Elapse(r).fired /\ ~r.fired => r.due = 1
<1>1. CASE r.pc \in {"off", "starts"}
    BY <1>1 DEF Elapse
<1>2. CASE r.pc \notin {"off", "starts"}
    <2> DEFINE d == IF r.due = 1 THEN Interval ELSE r.due - 1
               f == r.fired \/ r.due = 1
               s == Less(r.stake)
    <2>1. /\ r.due \in 1..Interval /\ r.stake \in 0..Refresh /\ r.fired \in BOOLEAN
          /\ r.pc \in {"waits", "sets"}
        BY <1>2 DEF RefresherState
    <2>2. d \in 1..Interval /\ d \in 0..Refresh /\ s \in 0..Refresh /\ f \in BOOLEAN
        BY <2>1, Intervals, LessIs
    <2>3. Elapse(r) = [r EXCEPT !.due = d, !.fired = f, !.stake = s]
        BY <1>2 DEF Elapse, RefresherState
    <2>4. r.fired => f
        OBVIOUS
    <2>5. ~f => ~r.fired /\ d = r.due - 1
        OBVIOUS
    <2>6. f /\ ~r.fired => r.due = 1
        OBVIOUS
    <2> HIDE DEF d, f, s
    <2>7. Elapse(r) \in RefresherState
        BY <2>2, <2>3 DEF RefresherState
    <2>8. /\ Elapse(r).pc = r.pc /\ Elapse(r).cancelled = r.cancelled
          /\ Elapse(r).due = d /\ Elapse(r).fired = f /\ Elapse(r).stake = s
        BY <2>3 DEF RefresherState
    <2>9. QED
        BY <1>2, <2>1, <2>2, <2>4, <2>5, <2>6, <2>7, <2>8 DEF s
<1>3. QED
    BY <1>1, <1>2

LEMMA TickEffect ==
    ASSUME OwnershipTypeOK, Paced, Tick
    PROVE  /\ record' = [owner |-> record.owner, left |-> Less(record.left)]
           /\ \A g \in Callers : /\ caller'[g].pc = caller[g].pc
                                 /\ caller'[g].timer = Less(caller[g].timer)
                                 /\ refresher'[g] = Elapse(refresher[g])
           /\ caller' \in [Callers -> CallerState] /\ refresher' \in [Callers -> RefresherState]
           /\ record' \in [owner : Callers \cup {NoOwner}, left : 0..Refresh]
           /\ current' = current /\ faults' = faults
           /\ \/ (\A g \in Callers : ~Due(g)) /\ late' = late
              \/ (\E g \in Callers : Due(g)) /\ late + faults < MaxTrouble /\ late' = late + 1
           /\ vacant' \in Nat /\ vacant' <= vacant + 1
           /\ Holders # {} => vacant' = 0
           /\ (\A g \in Callers : caller[g].pc \notin Waiting) => vacant' = 0
<1> USE Fields, Intervals, LessIs, Elapsed
<1>1. record' = [owner |-> record.owner, left |-> Less(record.left)]
    BY DEF Tick
<1>2. \A g \in Callers : /\ caller'[g].pc = caller[g].pc
                         /\ caller'[g].timer = Less(caller[g].timer)
                         /\ caller'[g] \in CallerState
    BY DEF Tick, CallerState
<1>3. \A g \in Callers : refresher'[g] = Elapse(refresher[g]) /\ refresher'[g] \in RefresherState
    BY DEF Tick, Paced
<1>4. caller' \in [Callers -> CallerState] /\ refresher' \in [Callers -> RefresherState]
    BY <1>2, <1>3 DEF Tick
<1>5. current' = current /\ faults' = faults /\
      (\/ (\A g \in Callers : ~Due(g)) /\ late' = late
       \/ (\E g \in Callers : Due(g)) /\ late + faults < MaxTrouble /\ late' = late + 1)
    BY DEF Tick, Trouble
<1>6. /\ vacant' \in Nat /\ vacant' <= vacant + 1
      /\ Holders # {} => vacant' = 0
      /\ (\A g \in Callers : caller[g].pc \notin Waiting) => vacant' = 0
    BY DEF Tick
<1>7. QED
    BY <1>1, <1>2, <1>3, <1>4, <1>5, <1>6

LEMMA TickTyped ==
    ASSUME OwnershipTypeOK, Paced, Tick
    PROVE  OwnershipTypeOK' /\ Paced'
<1> USE Fields, Intervals
<1>1. Paced'
    BY TickEffect, Elapsed DEF Paced
<1>2. late' \in Nat /\ faults' \in Nat /\ (late + faults)' <= MaxTrouble
    <2>1. late + faults <= MaxTrouble /\ faults' = faults /\ late' \in {late, late + 1}
        BY TickEffect DEF OwnershipTypeOK, Trouble
    <2>2. late' = late \/ late + faults < MaxTrouble
        BY TickEffect
    <2>3. QED
        BY <2>1, <2>2, TickEffect
<1>3. QED
    BY <1>1, <1>2, TickEffect DEF OwnershipTypeOK, Trouble, CallerState, RefresherState

-----------------------------------------------------------------------------
(* What is written and what is read.                                       *)

\* A reading is still true as long as nothing was written since.
Readings == \A g \in Callers :
    /\ <<g, "refresher">> \in current => refresher[g].pc = "sets" /\ record.owner = g
    /\ <<g, "caller">> \in current => \/ caller[g].pc = "claim" /\ record.left = 0
                                      \/ caller[g].pc = "leave" /\ record.owner = g

\* Whoever has computed an expiry is due, so that the ticks since are counted.
Prompt == \A g \in Callers :
    /\ caller[g].pc = "claim" => caller[g].timer >= Refresh - late
    /\ refresher[g].pc = "sets" => refresher[g].stake >= Refresh - late

\* A refresher outlives its caller's hold only until it is told, and then it
\* is due.
Stopping == \A g \in Callers :
    /\ refresher[g].pc # "off" => \/ caller[g].pc \in {"holds", "leave", "cancel"}
                                  \/ caller[g].pc = "released" /\ refresher[g].cancelled
    /\ refresher[g].cancelled => caller[g].pc = "released"
    /\ refresher[g].pc \in {"off", "starts"} => ~refresher[g].fired

ReadInv == Readings /\ Prompt /\ Stopping

\* The fields of a refresher after its steps.
LEMMA TickerStarted ==
    ASSUME OwnershipTypeOK, NEW g \in Callers, Turns(g, Ticking(refresher[g]))
    PROVE  /\ refresher'[g].pc = "waits" /\ refresher'[g].due = Interval
           /\ refresher'[g].fired = refresher[g].fired /\ refresher'[g].cancelled = refresher[g].cancelled
           /\ \A h \in Callers \ {g} : refresher'[h] = refresher[h]
BY Fields, TickingIs DEF Turns

LEMMA RefreshBegun ==
    ASSUME OwnershipTypeOK, NEW g \in Callers, Turns(g, Setting(refresher[g]))
    PROVE  /\ refresher'[g].pc = "sets" /\ refresher'[g].due = refresher[g].due
           /\ refresher'[g].fired = FALSE /\ refresher'[g].cancelled = refresher[g].cancelled
           /\ refresher'[g].stake = Refresh
           /\ \A h \in Callers \ {g} : refresher'[h] = refresher[h]
<1>1. refresher[g] \in RefresherState
    BY Fields
<1>2. QED
    BY <1>1, SettingIs DEF Turns

LEMMA RefreshEnded ==
    ASSUME OwnershipTypeOK, NEW g \in Callers, Turns(g, Again(refresher[g]))
    PROVE  /\ refresher'[g].pc = "waits" /\ refresher'[g].due = refresher[g].due
           /\ refresher'[g].fired = refresher[g].fired /\ refresher'[g].cancelled = refresher[g].cancelled
           /\ \A h \in Callers \ {g} : refresher'[h] = refresher[h]
BY Fields, AgainIs DEF Turns

LEMMA RefresherTold ==
    ASSUME OwnershipTypeOK, NEW g \in Callers, Turns(g, Told(refresher[g]))
    PROVE  /\ refresher'[g].pc = refresher[g].pc /\ refresher'[g].due = refresher[g].due
           /\ refresher'[g].fired = refresher[g].fired /\ refresher'[g].stake = refresher[g].stake
           /\ refresher'[g].cancelled = (refresher[g].pc # "off")
           /\ \A h \in Callers \ {g} : refresher'[h] = refresher[h]
BY Fields, ToldIs DEF Turns

LEMMA RefresherOff ==
    ASSUME NEW g \in Callers, Turns(g, Off)
    PROVE  /\ refresher'[g].pc = "off" /\ refresher'[g].fired = FALSE /\ refresher'[g].cancelled = FALSE
           /\ \A h \in Callers \ {g} : refresher'[h] = refresher[h]
BY OffTyped DEF Turns

LEMMA RefresherStarted ==
    ASSUME NEW g \in Callers, Turns(g, Started)
    PROVE  /\ refresher'[g].pc = "starts" /\ refresher'[g].fired = FALSE /\ refresher'[g].cancelled = FALSE
           /\ \A h \in Callers \ {g} : refresher'[h] = refresher[h]
BY StartedTyped DEF Turns

\* What others have read, while nothing is written.
LEMMA OthersRead ==
    ASSUME Readings, NEW g \in Callers,
           \A h \in Callers \ {g} : caller'[h] = caller[h] /\ refresher'[h] = refresher[h],
           record' = record, current' \subseteq current \cup {<<g, "caller">>, <<g, "refresher">>},
           <<g, "refresher">> \in current' => refresher'[g].pc = "sets" /\ record.owner = g,
           <<g, "caller">> \in current' => \/ caller'[g].pc = "claim" /\ record.left = 0
                                           \/ caller'[g].pc = "leave" /\ record.owner = g
    PROVE  Readings'
<1> SUFFICES ASSUME NEW h \in Callers, h # g
             PROVE  /\ <<h, "refresher">> \in current' => refresher'[h].pc = "sets" /\ record'.owner = h
                    /\ <<h, "caller">> \in current' => \/ caller'[h].pc = "claim" /\ record'.left = 0
                                                       \/ caller'[h].pc = "leave" /\ record'.owner = h
    BY DEF Readings
<1>1. /\ <<h, "refresher">> \in current' => <<h, "refresher">> \in current
      /\ <<h, "caller">> \in current' => <<h, "caller">> \in current
    OBVIOUS
<1>2. QED
    BY <1>1 DEF Readings

LEMMA NothingRead ==
    ASSUME current' = {}
    PROVE  Readings'
BY DEF Readings

\* What is known of the others, when one goes on.
LEMMA OthersGo ==
    ASSUME Prompt, Stopping, NEW g \in Callers, late' = late,
           \A h \in Callers \ {g} : caller'[h] = caller[h] /\ refresher'[h] = refresher[h],
           caller'[g].pc = "claim" => caller'[g].timer >= Refresh - late,
           refresher'[g].pc = "sets" => refresher'[g].stake >= Refresh - late,
           refresher'[g].pc # "off" => \/ caller'[g].pc \in {"holds", "leave", "cancel"}
                                       \/ caller'[g].pc = "released" /\ refresher'[g].cancelled,
           refresher'[g].cancelled => caller'[g].pc = "released",
           refresher'[g].pc \in {"off", "starts"} => ~refresher'[g].fired
    PROVE  Prompt' /\ Stopping'
BY DEF Prompt, Stopping

\* Calls of the store by others, and what only concerns one goroutine.
LEMMA ReadStep ==
    ASSUME OwnershipTypeOK, Paced, ReadInv, NEW g \in Callers, Step(g)
    PROVE  ReadInv'
<1> DEFINE r == <<g, "refresher">>
           c == <<g, "caller">>
           G == /\ caller'[g].pc = "claim" => caller'[g].timer >= Refresh - late
                /\ refresher'[g].pc = "sets" => refresher'[g].stake >= Refresh - late
                /\ refresher'[g].pc # "off" => \/ caller'[g].pc \in {"holds", "leave", "cancel"}
                                               \/ caller'[g].pc = "released" /\ refresher'[g].cancelled
                /\ refresher'[g].cancelled => caller'[g].pc = "released"
                /\ refresher'[g].pc \in {"off", "starts"} => ~refresher'[g].fired
           Alone == \A h \in Callers \ {g} : caller'[h] = caller[h] /\ refresher'[h] = refresher[h]
           Before == /\ r \in current => refresher[g].pc = "sets" /\ record.owner = g
                     /\ c \in current => \/ caller[g].pc = "claim" /\ record.left = 0
                                         \/ caller[g].pc = "leave" /\ record.owner = g
                     /\ caller[g].pc = "claim" => caller[g].timer >= Refresh - late
                     /\ refresher[g].pc = "sets" => refresher[g].stake >= Refresh - late
                     /\ refresher[g].pc # "off" => \/ caller[g].pc \in {"holds", "leave", "cancel"}
                                                   \/ caller[g].pc = "released" /\ refresher[g].cancelled
                     /\ refresher[g].cancelled => caller[g].pc = "released"
                     /\ refresher[g].pc \in {"off", "starts"} => ~refresher[g].fired
           Now == /\ r \in current' => refresher'[g].pc = "sets" /\ record.owner = g
                  /\ c \in current' => \/ caller'[g].pc = "claim" /\ record.left = 0
                                       \/ caller'[g].pc = "leave" /\ record.owner = g
<1>0. Before
    BY DEF ReadInv, Readings, Prompt, Stopping
<1>1. /\ Refresh >= Refresh - late /\ late \in Nat /\ Refresh \in Nat /\ r # c
      /\ \A h \in {"caller", "refresher"} : <<g, h>> \in {r, c}
    BY Fields, Intervals
<1>a. ASSUME Alone, G, Now, late' = late, record' = record, current' \subseteq current \cup {c, r}
      PROVE  ReadInv'
    BY <1>a, OthersRead, OthersGo DEF ReadInv
<1>b. ASSUME Alone, G, late' = late, current' = {}
      PROVE  ReadInv'
    BY <1>b, NothingRead, OthersGo DEF ReadInv
<1>2. CASE StartOwn(g)
    BY <1>0, <1>1, <1>2, <1>a, StartOwnEffect DEF Moves
<1>3. CASE Ask(g)
    BY <1>0, <1>1, <1>3, <1>a, AskEffect DEF Moves
<1>4. CASE Claim(g)
    BY <1>0, <1>1, <1>4, <1>a, <1>b, ClaimEffect, StartedTyped DEF Moves, Turns
<1>5. CASE Wake(g)
    BY <1>0, <1>1, <1>5, <1>a, WakeEffect DEF Moves
<1>6. CASE StartTicker(g)
    BY <1>0, <1>1, <1>6, <1>a, StartTickerEffect, TickerStarted
<1>7. CASE RefreshRead(g)
    <2>1. CASE record.owner = g /\ Turns(g, Setting(refresher[g])) /\ current' = current \cup {r}
        <3>1. /\ refresher'[g].pc = "sets" /\ refresher'[g].fired = FALSE /\ refresher'[g].stake = Refresh
              /\ refresher'[g].cancelled = refresher[g].cancelled
            BY <2>1, RefreshBegun
        <3>2. Alone
            BY <1>7, <2>1, RefreshReadEffect, RefreshBegun
        <3>3. refresher[g].pc = "waits" /\ UNCHANGED <<record, caller, late>>
            BY <1>7, RefreshReadEffect
        <3>4. G
            BY <1>0, <1>1, <3>1, <3>3
        <3>5. Now
            BY <1>0, <1>1, <2>1, <3>1, <3>3
        <3>6. QED
            BY <1>a, <2>1, <3>2, <3>3, <3>4, <3>5
    <2>2. CASE Turns(g, Off) /\ current' = current
        BY <1>0, <1>1, <1>7, <2>2, <1>a, RefreshReadEffect, RefresherOff
    <2>3. QED
        BY <1>7, <2>1, <2>2, RefreshReadEffect
<1>8. CASE RefreshWrite(g)
    BY <1>0, <1>1, <1>8, <1>a, <1>b, RefreshWriteEffect, RefreshEnded
<1>9. CASE StopRefresh(g)
    BY <1>0, <1>1, <1>9, <1>a, StopRefreshEffect, OffTyped DEF Turns
<1>10. CASE LeaveRead(g)
    BY <1>0, <1>1, <1>10, <1>a, LeaveReadEffect DEF Moves
<1>11. CASE LeaveWrite(g)
    BY <1>0, <1>1, <1>11, <1>a, <1>b, LeaveWriteEffect DEF Moves
<1>12. CASE CancelRefresh(g)
    BY <1>0, <1>1, <1>12, <1>a, CancelRefreshEffect, RefresherTold DEF Moves
<1>13. CASE OwnFails(g)
    BY <1>0, <1>1, <1>13, <1>a, <1>b, OwnFailsEffect DEF Moves, Waiting
<1>14. CASE RefreshFails(g)
    BY <1>0, <1>1, <1>14, <1>a, RefreshFailsEffect, RefreshEnded, RefresherOff
<1>15. CASE Crash(g)
    BY <1>0, <1>1, <1>15, <1>a, CrashEffect, OffTyped DEF Moves, Turns
<1>16. CASE LeaveFails(g)
    BY <1>0, <1>1, <1>16, <1>a, LeaveFailsEffect DEF Moves
<1>17. QED
    BY <1>2, <1>3, <1>4, <1>5, <1>6, <1>7, <1>8, <1>9, <1>10, <1>11, <1>12, <1>13, <1>14, <1>15, <1>16 DEF Step, Besides

LEMMA ReadTick ==
    ASSUME OwnershipTypeOK, Paced, ReadInv, Tick
    PROVE  ReadInv'
<1>0. /\ record'.owner = record.owner /\ (record.left = 0 => record'.left = 0) /\ current' = current
      /\ Refresh \in Nat /\ late \in Nat
    BY Intervals, Fields, TickEffect, LessIs DEF Less
<1> SUFFICES ASSUME NEW g \in Callers
             PROVE  /\ caller'[g].pc = caller[g].pc
                    /\ refresher'[g].pc = refresher[g].pc /\ refresher'[g].cancelled = refresher[g].cancelled
                    /\ refresher[g].pc \in {"off", "starts"} => refresher'[g].fired = refresher[g].fired
                    /\ caller'[g].pc = "claim" => caller'[g].timer >= Refresh - late'
                    /\ refresher'[g].pc = "sets" => refresher'[g].stake >= Refresh - late'
    BY <1>0 DEF ReadInv, Readings, Prompt, Stopping
<1>1. /\ refresher[g] \in RefresherState /\ caller[g].timer \in 0..Refresh /\ refresher[g].stake \in 0..Refresh
      /\ refresher[g].pc \in {"waits", "sets"} => refresher[g].due \in 1..Interval
    BY Fields DEF Paced
<1>2. /\ Elapse(refresher[g]).pc = refresher[g].pc /\ Elapse(refresher[g]).cancelled = refresher[g].cancelled
      /\ refresher[g].pc \in {"off", "starts"} => Elapse(refresher[g]) = refresher[g]
      /\ refresher[g].pc = "sets" => Elapse(refresher[g]).stake = Less(refresher[g].stake)
    BY <1>1, Elapsed
<1>3. caller'[g].pc = caller[g].pc /\ caller'[g].timer = Less(caller[g].timer) /\ refresher'[g] = Elapse(refresher[g])
    BY TickEffect
<1>4. caller[g].pc = "claim" \/ refresher[g].pc = "sets" => late' = late + 1
    BY TickEffect DEF Due
<1>5. Less(caller[g].timer) >= caller[g].timer - 1 /\ Less(refresher[g].stake) >= refresher[g].stake - 1
    BY <1>1, LessIs, Intervals
<1>6. Less(caller[g].timer) \in Nat /\ Less(refresher[g].stake) \in Nat
    BY <1>1, LessIs, Intervals
<1>7. /\ caller[g].pc = "claim" => caller[g].timer >= Refresh - late
      /\ refresher[g].pc = "sets" => refresher[g].stake >= Refresh - late
    BY DEF ReadInv, Prompt
<1>8. QED
    BY <1>0, <1>1, <1>2, <1>3, <1>4, <1>5, <1>6, <1>7

-----------------------------------------------------------------------------
(* One owner, while all goes well.                                         *)

\* A holder's record has as long to go as its refresher needs to put it off.
Covered(g) ==
    /\ record.owner = g
    /\ refresher[g].pc # "off"
    /\ record.left >= Refresh - Interval - late
    /\ refresher[g].pc = "starts" => record.left >= Refresh - late
    /\ refresher[g].pc = "waits" /\ ~refresher[g].fired => record.left - refresher[g].due >= Refresh - Interval - late
    /\ refresher[g].pc = "sets" => <<g, "refresher">> \in current

Leased == Calm => \A g \in Holders : Covered(g)

\* The steps that write nothing, and what they leave to others.
LEMMA OthersCovered ==
    ASSUME Leased, Calm, late' = late, NEW g \in Callers, record' = record,
           \A h \in Callers \ {g} : caller'[h] = caller[h] /\ refresher'[h] = refresher[h]
                                    /\ (<<h, "refresher">> \in current => <<h, "refresher">> \in current'),
           caller'[g].pc \in {"holds", "leave"} => Covered(g)'
    PROVE  Leased'
<1> SUFFICES ASSUME NEW h \in Callers, h # g, h \in Holders' PROVE Covered(h)'
    BY DEF Leased, Holders
<1>1. Covered(h)
    BY DEF Leased, Holders
<1>2. QED
    BY <1>1 DEF Covered

\* Whoever writes leaves nobody else with the key.
LEMMA WriterCovered ==
    ASSUME Leased, Calm, NEW g \in Callers, OwnershipTypeOK,
           \A h \in Callers \ {g} : caller'[h] = caller[h],
           record.owner = g \/ record.left = 0,
           Refresh - Interval - late > 0,
           caller'[g].pc \in {"holds", "leave"} => Covered(g)'
    PROVE  Leased'
<1> SUFFICES ASSUME NEW h \in Callers, h # g, h \in Holders PROVE FALSE
    BY DEF Leased, Holders
<1>1. Covered(h)
    BY DEF Leased
<1>2. record.left > 0 /\ record.owner = h
    BY <1>1, Fields, Intervals DEF Covered
<1>3. QED
    BY <1>2, Fields, Intervals

\* A step of one goroutine is on time, and it may be a fault.
LEMMA Faulty ==
    ASSUME OwnershipTypeOK, Paced, NEW g \in Callers, Step(g)
    PROVE  /\ late' = late
           /\ OwnFails(g) \/ RefreshFails(g) \/ Crash(g) \/ LeaveFails(g) => faults' = faults + 1
           /\ faults' = faults \/ OwnFails(g) \/ RefreshFails(g) \/ Crash(g) \/ LeaveFails(g)
<1>1. CASE OwnFails(g)
    BY <1>1, OwnFailsEffect
<1>2. CASE RefreshFails(g)
    BY <1>2, RefreshFailsEffect
<1>3. CASE Crash(g)
    BY <1>3, CrashEffect
<1>4. CASE LeaveFails(g)
    BY <1>4, LeaveFailsEffect
<1>5. CASE ~(OwnFails(g) \/ RefreshFails(g) \/ Crash(g) \/ LeaveFails(g))
    <2>1. late' = late /\ faults' = faults
        <3>1. CASE StartOwn(g)
            BY <3>1, StartOwnEffect
        <3>2. CASE Ask(g)
            BY <3>2, AskEffect
        <3>3. CASE Claim(g)
            BY <3>3, ClaimEffect
        <3>4. CASE Wake(g)
            BY <3>4, WakeEffect
        <3>5. CASE StartTicker(g)
            BY <3>5, StartTickerEffect
        <3>6. CASE RefreshRead(g)
            BY <3>6, RefreshReadEffect
        <3>7. CASE RefreshWrite(g)
            BY <3>7, RefreshWriteEffect
        <3>8. CASE StopRefresh(g)
            BY <3>8, StopRefreshEffect
        <3>9. CASE LeaveRead(g)
            BY <3>9, LeaveReadEffect
        <3>10. CASE LeaveWrite(g)
            BY <3>10, LeaveWriteEffect
        <3>11. CASE CancelRefresh(g)
            BY <3>11, CancelRefreshEffect
        <3>12. QED
            BY <1>5, <3>1, <3>2, <3>3, <3>4, <3>5, <3>6, <3>7, <3>8, <3>9, <3>10, <3>11 DEF Step, Besides
    <2>2. QED
        BY <1>5, <2>1
<1>6. QED
    BY <1>1, <1>2, <1>3, <1>4, <1>5

LEMMA LeasedStep ==
    ASSUME OwnershipTypeOK, Paced, ReadInv, Leased, NEW g \in Callers, Step(g)
    PROVE  Leased'
<1> DEFINE Keeps == \A h \in Callers \ {g} :
                        /\ caller'[h] = caller[h] /\ refresher'[h] = refresher[h]
                        /\ <<h, "refresher">> \in current => <<h, "refresher">> \in current'
<1>0. CASE OwnFails(g) \/ RefreshFails(g) \/ Crash(g) \/ LeaveFails(g)
    <2>1. faults' = faults + 1 /\ faults \in Nat
        BY <1>0, Faulty, Fields
    <2>2. ~Calm'
        BY <2>1 DEF Calm
    <2>3. QED
        BY <2>2 DEF Leased
<1> SUFFICES ASSUME Calm', faults' = faults PROVE Leased'
    BY <1>0, Faulty DEF Leased
<1>1. late \in Nat /\ faults \in Nat /\ Refresh \in Nat /\ Interval \in Nat /\ record.left \in Nat
    BY Fields, Intervals
<1>2. ASSUME late' = late, Keeps, record' = record, caller'[g].pc \in {"holds", "leave"} => Covered(g)'
      PROVE  Leased'
    BY <1>2, OthersCovered DEF Calm
<1>3. ASSUME late' = late, Keeps, record' = record, caller'[g].pc \notin {"holds", "leave"}
      PROVE  Leased'
    BY <1>2, <1>3
<1>4. ASSUME late' = late, \A h \in Callers \ {g} : caller'[h] = caller[h],
             record.owner = g \/ record.left = 0, caller'[g].pc \in {"holds", "leave"} => Covered(g)'
      PROVE  Leased'
    <2>1. Refresh - Interval - late > 0
        BY <1>1, <1>4 DEF Calm
    <2>2. Calm
        BY <1>4 DEF Calm
    <2>3. QED
        BY <1>4, <2>1, <2>2, WriterCovered
<1>5. ASSUME late' = late, caller[g].pc \in {"holds", "leave"} PROVE Covered(g)
    BY <1>5 DEF Leased, Calm, Holders
<1>6. CASE StartOwn(g)
    BY <1>3, <1>6, StartOwnEffect DEF Moves
<1>7. CASE Ask(g)
    BY <1>3, <1>7, AskEffect DEF Moves
<1>8. CASE Claim(g)
    <2>1. CASE <<g, "caller">> \notin current
        BY <1>3, <1>8, <2>1, ClaimEffect DEF Moves
    <2>2. CASE <<g, "caller">> \in current
        <3>1. /\ record'.owner = g /\ record'.left = caller[g].timer /\ late' = late
              /\ \A h \in Callers \ {g} : caller'[h] = caller[h]
            BY <1>8, <2>2, ClaimEffect DEF Moves
        <3>2. record.left = 0
            BY <1>8, <2>2, ClaimEffect DEF ReadInv, Readings
        <3>3. refresher'[g].pc = "starts"
            BY <1>8, <2>2, ClaimEffect, RefresherStarted
        <3>4. caller[g].timer >= Refresh - late /\ caller[g].timer \in Nat
            <4>1. caller[g].pc = "claim" /\ caller[g].timer \in 0..Refresh
                BY <1>8, ClaimEffect, Fields
            <4>2. QED
                BY <1>1, <4>1 DEF ReadInv, Prompt
        <3>5. Covered(g)'
            BY <1>1, <3>1, <3>3, <3>4 DEF Covered
        <3>6. QED
            BY <1>4, <3>1, <3>2, <3>5
    <2>3. QED
        BY <2>1, <2>2
<1>9. CASE Wake(g)
    BY <1>3, <1>9, WakeEffect DEF Moves
<1>10. CASE StartTicker(g)
    <2>1. /\ refresher[g].pc = "starts" /\ refresher'[g].pc = "waits" /\ refresher'[g].due = Interval
          /\ UNCHANGED <<record, current, caller, late>> /\ Keeps
        BY <1>10, StartTickerEffect, TickerStarted
    <2>2. ASSUME caller'[g].pc \in {"holds", "leave"} PROVE Covered(g)'
        BY <1>1, <1>5, <2>1, <2>2 DEF Covered
    <2>3. QED
        BY <1>2, <2>1, <2>2
<1>11. CASE RefreshRead(g)
    <2>1. UNCHANGED <<record, caller, late>>
        BY <1>11, RefreshReadEffect
    <2>2. CASE record.owner = g /\ Turns(g, Setting(refresher[g])) /\ current' = current \cup {<<g, "refresher">>}
        <3>1. refresher'[g].pc = "sets" /\ Keeps
            BY <2>1, <2>2, RefreshBegun
        <3>2. ASSUME caller'[g].pc \in {"holds", "leave"} PROVE Covered(g)'
            BY <1>5, <2>1, <2>2, <3>1, <3>2 DEF Covered
        <3>3. QED
            BY <1>2, <2>1, <3>1, <3>2
    <2>3. CASE record.owner # g /\ Turns(g, Off) /\ current' = current
        <3>1. Keeps
            BY <2>1, <2>3, RefresherOff
        <3>2. caller[g].pc \notin {"holds", "leave"}
            BY <1>5, <2>1, <2>3 DEF Covered
        <3>3. QED
            BY <1>3, <2>1, <3>1, <3>2
    <2>4. QED
        BY <1>11, <2>2, <2>3, RefreshReadEffect
<1>12. CASE RefreshWrite(g)
    <2>1. /\ refresher[g].pc = "sets" /\ refresher'[g].pc = "waits" /\ refresher'[g].due = refresher[g].due
          /\ UNCHANGED <<caller, late>>
          /\ \A h \in Callers \ {g} : refresher'[h] = refresher[h]
        BY <1>12, RefreshWriteEffect, RefreshEnded
    <2>2. CASE <<g, "refresher">> \in current
        <3>1. record.owner = g /\ record'.owner = g /\ record'.left = refresher[g].stake
            <4>1. record' = [owner |-> g, left |-> refresher[g].stake]
                BY <1>12, <2>2, RefreshWriteEffect
            <4>2. record.owner = g
                BY <2>2 DEF ReadInv, Readings
            <4>3. QED
                BY <4>1, <4>2
        <3>2. /\ refresher[g].stake \in Nat /\ refresher[g].stake >= Refresh - late
              /\ refresher[g].due \in Nat /\ refresher[g].due <= Interval
            BY <2>1, Fields, Intervals DEF ReadInv, Prompt, Paced
        <3>3. Covered(g)'
            BY <1>1, <2>1, <3>1, <3>2 DEF Covered
        <3>4. QED
            BY <1>4, <2>1, <3>1, <3>3
    <2>3. CASE <<g, "refresher">> \notin current
        <3>1. record' = record /\ Keeps
            BY <1>12, <2>1, <2>3, RefreshWriteEffect
        <3>2. caller[g].pc \notin {"holds", "leave"}
            BY <1>5, <2>1, <2>3 DEF Covered
        <3>3. QED
            BY <1>3, <2>1, <3>1, <3>2
    <2>4. QED
        BY <2>2, <2>3
<1>13. CASE StopRefresh(g)
    <2>1. caller[g].pc = "released" /\ UNCHANGED <<record, current, caller, late>>
        BY <1>13, StopRefreshEffect DEF ReadInv, Stopping
    <2>2. Keeps
        BY <1>13, <2>1, StopRefreshEffect, RefresherOff
    <2>3. QED
        BY <1>3, <2>1, <2>2
<1>14. CASE LeaveRead(g)
    <2>1. Keeps /\ UNCHANGED <<record, refresher, late>> /\ current \subseteq current' /\ caller[g].pc = "holds"
        BY <1>14, LeaveReadEffect DEF Moves
    <2>2. Covered(g)'
        BY <1>5, <2>1 DEF Covered
    <2>3. QED
        BY <1>2, <2>1, <2>2
<1>15. CASE LeaveWrite(g)
    <2>1. /\ caller[g].pc = "leave" /\ caller'[g].pc = "cancel" /\ UNCHANGED <<refresher, late>>
          /\ \A h \in Callers \ {g} : caller'[h] = caller[h]
        BY <1>15, LeaveWriteEffect DEF Moves
    <2>2. record.owner = g
        BY <1>5, <2>1 DEF Covered
    <2>3. QED
        BY <1>4, <2>1, <2>2
<1>16. CASE CancelRefresh(g)
    <2>1. caller'[g].pc = "released" /\ UNCHANGED <<record, current, late>>
          /\ \A h \in Callers \ {g} : caller'[h] = caller[h] /\ refresher'[h] = refresher[h]
        BY <1>16, CancelRefreshEffect, RefresherTold DEF Moves
    <2>2. QED
        BY <1>3, <2>1
<1>17. CASE OwnFails(g) \/ RefreshFails(g) \/ Crash(g) \/ LeaveFails(g)
    BY <1>0, <1>17
<1>18. QED
    BY <1>6, <1>7, <1>8, <1>9, <1>10, <1>11, <1>12, <1>13, <1>14, <1>15, <1>16, <1>17 DEF Step, Besides

LEMMA LeasedTick ==
    ASSUME OwnershipTypeOK, Paced, ReadInv, Leased, Tick
    PROVE  Leased'
<1>0. /\ Refresh \in Nat /\ Interval \in Nat /\ late \in Nat /\ faults \in Nat /\ record.left \in 0..Refresh
      /\ late' \in {late, late + 1} /\ faults' = faults
    BY Fields, Intervals, TickEffect
<1>1. Holders' \subseteq Holders
    BY TickEffect DEF Holders
<1>2. Calm' => Calm
    BY <1>0 DEF Calm
<1> SUFFICES ASSUME Calm', NEW h \in Holders PROVE Covered(h)'
    BY <1>1 DEF Leased
<1>3. /\ Covered(h) /\ late < Refresh - Interval /\ h \in Callers
      /\ ~refresher[h].cancelled
    <2>1. h \in Callers /\ caller[h].pc \in {"holds", "leave"}
        BY DEF Holders
    <2>2. QED
        BY <1>2, <2>1 DEF Leased, Calm, ReadInv, Stopping
<1>4. record'.owner = h /\ record'.left = record.left - 1
    <2>1. record.left > 0 /\ record.owner = h
        BY <1>0, <1>3 DEF Covered
    <2>2. QED
        BY <1>0, <2>1, TickEffect, LessIs
<1>5. refresher[h] \in RefresherState /\ refresher'[h] = Elapse(refresher[h])
    BY <1>3, TickEffect, Fields
<1>6. /\ refresher'[h].pc = refresher[h].pc /\ current' = current
      /\ refresher[h].due \in Nat /\ refresher[h].fired \in BOOLEAN
      /\ refresher[h].pc = "waits" => refresher[h].due \in 1..Interval
      /\ refresher[h].pc = "waits" /\ ~refresher'[h].fired => ~refresher[h].fired /\ refresher'[h].due = refresher[h].due - 1
    BY <1>3, <1>5, Elapsed, Fields, Intervals, TickEffect DEF Paced
<1>7. CASE late' = late + 1
    BY <1>0, <1>3, <1>4, <1>6, <1>7 DEF Covered
<1>8. CASE ~Due(h) /\ late' = late
    <2>1. refresher[h].pc = "waits" /\ ~refresher[h].fired
        BY <1>3, <1>8, Fields DEF Covered, Due
    <2>2. record.left - refresher[h].due >= Refresh - Interval - late
        BY <1>3, <2>1 DEF Covered
    <2>3. record.left - 1 >= Refresh - Interval - late
        BY <1>0, <1>6, <2>1, <2>2
    <2>4. ~refresher'[h].fired => record'.left - refresher'[h].due >= Refresh - Interval - late
        BY <1>0, <1>4, <1>6, <2>1, <2>2
    <2>5. QED
        BY <1>4, <1>6, <1>8, <2>1, <2>3, <2>4 DEF Covered
<1>9. QED
    BY <1>3, <1>7, <1>8, TickEffect

\* A calm key has one owner, the one in its record.
LEMMA OneOwnerFollows ==
    ASSUME Leased
    PROVE  OneOwner
<1> SUFFICES ASSUME Calm PROVE Cardinality(Holders) <= 1
    BY DEF OneOwner
<1>1. Holders \subseteq {record.owner}
    BY DEF Leased, Covered
<1>2. IsFiniteSet({record.owner}) /\ Cardinality({record.owner}) = 1
    BY FS_Singleton
<1>3. IsFiniteSet(Holders) /\ Cardinality(Holders) <= Cardinality({record.owner})
    BY <1>1, <1>2, FS_Subset
<1>4. QED
    BY <1>2, <1>3

-----------------------------------------------------------------------------
(* No update is lost, while all goes well.                                 *)

Owned ==
    /\ faults = 0 => \A g \in Callers : caller[g].pc # "unowned"
    /\ faults = 0 => \A g \in Callers : update[g] = "read" => caller[g].pc = "holds"
    /\ Calm => \A g \in Callers : update[g] = "read" => g \in upToDate
    /\ OwnersWin

LEMMA HoldsOn ==
    ASSUME OwnershipTypeOK, Paced, NEW g \in Callers, Besides(g), faults' = faults
    PROVE  /\ caller'[g].pc # "unowned" \/ caller[g].pc = "unowned"
           /\ caller[g].pc = "holds" => caller'[g].pc = "holds"
           /\ \A h \in Callers \ {g} : caller'[h] = caller[h]
<1>1. CASE StartOwn(g)
    BY <1>1, StartOwnEffect DEF Moves
<1>2. CASE Ask(g)
    BY <1>2, AskEffect DEF Moves
<1>3. CASE Claim(g)
    BY <1>3, ClaimEffect DEF Moves
<1>4. CASE Wake(g)
    BY <1>4, WakeEffect DEF Moves
<1>5. CASE StartTicker(g)
    BY <1>5, StartTickerEffect
<1>6. CASE RefreshRead(g)
    BY <1>6, RefreshReadEffect
<1>7. CASE RefreshWrite(g)
    BY <1>7, RefreshWriteEffect
<1>8. CASE StopRefresh(g)
    BY <1>8, StopRefreshEffect
<1>9. CASE LeaveWrite(g)
    BY <1>9, LeaveWriteEffect DEF Moves
<1>10. CASE CancelRefresh(g)
    BY <1>10, CancelRefreshEffect DEF Moves
<1>11. CASE OwnFails(g) \/ RefreshFails(g) \/ Crash(g) \/ LeaveFails(g)
    <2>1. faults' = faults + 1 /\ faults \in Nat
        BY <1>11, Faulty, Fields DEF Step
    <2>2. QED
        BY <2>1
<1>12. QED
    BY <1>1, <1>2, <1>3, <1>4, <1>5, <1>6, <1>7, <1>8, <1>9, <1>10, <1>11 DEF Besides

LEMMA OwnedStep ==
    ASSUME OwnershipTypeOK, Paced, Owned, NEW g \in Callers,
           (LeaveRead(g) /\ update[g] \in Outcomes) \/ Besides(g), BranchUnchanged
    PROVE  Owned'
<1>1. late' = late /\ faults \in Nat /\ (faults' = faults \/ faults' = faults + 1) /\ UNCHANGED <<update, upToDate>>
    BY Faulty, Fields DEF Step, BranchUnchanged
<1>2. CASE faults' = faults + 1
    BY <1>1, <1>2 DEF Owned, OwnersWin, Calm
<1>3. CASE faults' = faults
    <2>1. CASE Besides(g)
        BY <1>1, <1>3, <2>1, HoldsOn DEF Owned, OwnersWin, Calm
    <2>2. CASE LeaveRead(g) /\ update[g] \in Outcomes
        <3>1. /\ caller'[g].pc # "unowned" /\ \A h \in Callers \ {g} : caller'[h] = caller[h]
              /\ update[g] # "read"
            BY <2>2, LeaveReadEffect DEF Moves, Outcomes
        <3>2. QED
            BY <1>1, <1>3, <3>1 DEF Owned, OwnersWin, Calm
    <2>3. QED
        BY <2>1, <2>2
<1>4. QED
    BY <1>1, <1>2, <1>3

LEMMA OwnedTick ==
    ASSUME OwnershipTypeOK, Paced, Owned, Tick, BranchUnchanged
    PROVE  Owned'
<1>1. /\ late \in Nat /\ late' \in {late, late + 1} /\ faults' = faults /\ Refresh \in Nat /\ Interval \in Nat
      /\ \A g \in Callers : caller'[g].pc = caller[g].pc
      /\ UNCHANGED <<update, upToDate>>
    BY Fields, Intervals, TickEffect DEF BranchUnchanged
<1>2. Calm' => Calm
    BY <1>1 DEF Calm
<1>3. QED
    BY <1>1, <1>2 DEF Owned, OwnersWin

\* Who sets the branch owns it, and so does who has read it since: they are
\* the same.
LEMMA OwnedUpdate ==
    ASSUME TypeOK, Leased, Owned, NEW g \in Callers,
           ReadBranch(g) \/ KeepBranch(g) \/ SetBranch(g), UNCHANGED ownershipVars
    PROVE  Owned'
<1>1. UNCHANGED <<record, current, caller, refresher, late, faults, vacant>>
    BY DEF ownershipVars, leaseVars
<1>2. Calm' = Calm
    BY <1>1 DEF Calm
<1>3. update \in [Callers -> {"none", "read"} \cup Outcomes]
    BY DEF TypeOK
<1>4. CASE ReadBranch(g)
    <2>1. /\ update' = [update EXCEPT ![g] = "read"] /\ upToDate' = upToDate \cup {g}
          /\ caller[g].pc \in {"holds", "unowned"}
        BY <1>4 DEF ReadBranch, MayUpdate
    <2>2. QED
        BY <1>1, <1>2, <1>3, <2>1 DEF Owned, OwnersWin
<1>5. CASE KeepBranch(g)
    <2>1. update' = [update EXCEPT ![g] = "done"] /\ upToDate' = upToDate \ {g}
        BY <1>5 DEF KeepBranch
    <2>2. QED
        BY <1>1, <1>2, <1>3, <2>1 DEF Owned, OwnersWin
<1>6. CASE SetBranch(g) /\ g \in upToDate
    <2>1. update' = [update EXCEPT ![g] = "done"] /\ upToDate' = {} /\ update[g] = "read"
        BY <1>6 DEF SetBranch
    <2>2. ASSUME Calm, NEW h \in Callers, update[h] = "read", h # g PROVE FALSE
        <3>1. g \in Holders /\ h \in Holders
            BY <2>1, <2>2 DEF Owned, Holders, Calm
        <3>2. record.owner = g /\ record.owner = h
            BY <2>2, <3>1 DEF Leased, Covered
        <3>3. QED
            BY <2>2, <3>2
    <2>3. QED
        BY <1>1, <1>2, <1>3, <2>1, <2>2 DEF Owned, OwnersWin
<1>7. CASE SetBranch(g) /\ g \notin upToDate
    <2>1. ~Calm /\ update' = [update EXCEPT ![g] = "lost"] /\ upToDate' = upToDate
        BY <1>7 DEF SetBranch, Owned
    <2>2. QED
        BY <1>1, <1>2, <1>3, <2>1 DEF Owned, OwnersWin
<1>8. QED
    BY <1>4, <1>5, <1>6, <1>7

-----------------------------------------------------------------------------
(* A free key is taken in time.                                            *)

Bound == Refresh + late + faults * Refresh

\* Someone's refresher is on who no longer owns the key.
Restless == \E g \in Callers : refresher[g].pc # "off" /\ g \notin Holders

\* Who waits has no further to go than what is left of the bound.
Vacancy ==
    /\ Holders # {} => vacant = 0
    /\ Restless => vacant <= late
    /\ vacant + record.left <= Bound
    /\ \A g \in Callers : caller[g].pc = "asleep" => vacant + caller[g].timer <= Bound
    /\ \A g \in Callers : caller[g].pc = "claim" /\ <<g, "caller">> \notin current => vacant + Refresh <= Bound

LEMMA BoundIs ==
    ASSUME OwnershipTypeOK
    PROVE  /\ Bound \in Nat /\ Refresh + late <= Bound
           /\ late' = late /\ faults' = faults => Bound' = Bound
           /\ late' = late + 1 /\ faults' = faults => Bound' = Bound + 1
           /\ late' = late /\ faults' = faults + 1 => Bound' = Bound + Refresh
<1> DEFINE product(n) == n * Refresh
<1>1. late \in Nat /\ faults \in Nat /\ Refresh \in Nat
    BY Fields, Intervals
<1>2. product(faults) \in Nat /\ product(faults + 1) = product(faults) + Refresh
    BY <1>1
<1>3. Bound = Refresh + late + product(faults) /\ Bound' = Refresh + late' + product(faults')
    BY DEF Bound
<1> HIDE DEF product
<1>4. QED
    BY <1>1, <1>2, <1>3

\* Nobody comes to hold the key, and no refresher starts.
LEMMA StillVacant ==
    ASSUME OwnershipTypeOK, Vacancy, NEW g \in Callers, vacant' = vacant, late' = late,
           \A h \in Callers \ {g} : caller'[h] = caller[h] /\ refresher'[h] = refresher[h],
           caller'[g].pc \in {"holds", "leave"} => caller[g].pc \in {"holds", "leave"},
           refresher'[g].pc # "off" => refresher[g].pc # "off"
    PROVE  /\ Holders' # {} => vacant' = 0
           /\ Restless' => vacant' <= late'
<1>1. Holders' \subseteq Holders
    BY DEF Holders
<1>2. late \in Nat /\ vacant \in Nat
    BY Fields
<1>3. Restless' => Restless \/ Holders # {}
    BY DEF Restless
<1>4. QED
    BY <1>1, <1>2, <1>3 DEF Vacancy

\* There is time for a whole interval.
LEMMA Roomy ==
    ASSUME OwnershipTypeOK', Bound' \in Nat,
           Holders' # {} => vacant' = 0, Restless' => vacant' <= late', (vacant + Refresh <= Bound)'
    PROVE  Vacancy'
<1>1. Refresh \in Nat /\ vacant' \in Nat
    BY Intervals DEF OwnershipTypeOK
<1>2. record'.left \in 0..Refresh
    BY DEF OwnershipTypeOK
<1>3. \A g \in Callers : caller'[g].timer \in 0..Refresh
    BY DEF OwnershipTypeOK
<1>4. ASSUME NEW v \in Nat, NEW b \in Nat, v + Refresh <= b, NEW n \in 0..Refresh PROVE v + n <= b
    BY <1>1, <1>4
<1>5. ASSUME NEW n \in 0..Refresh PROVE vacant' + n <= Bound'
    BY <1>1, <1>4
<1>6. QED
    BY <1>1, <1>2, <1>3, <1>5, 0 \in Nat DEF Vacancy

\* A step without a write.
LEMMA Unwritten ==
    ASSUME OwnershipTypeOK, Vacancy, NEW g \in Callers, vacant' = vacant, late' = late, record' = record,
           faults' = faults \/ faults' = faults + 1,
           \A h \in Callers \ {g} : /\ caller'[h] = caller[h] /\ refresher'[h] = refresher[h]
                                    /\ <<h, "caller">> \in current => <<h, "caller">> \in current',
           caller'[g].pc \in {"holds", "leave"} => caller[g].pc \in {"holds", "leave"},
           refresher'[g].pc # "off" => refresher[g].pc # "off",
           caller'[g].timer \in Nat,
           caller'[g].pc = "asleep" => vacant + caller'[g].timer <= Bound,
           caller'[g].pc = "claim" /\ <<g, "caller">> \notin current' => vacant + Refresh <= Bound
    PROVE  Vacancy'
<1>1. /\ Bound \in Nat /\ Bound' \in Nat /\ Bound <= Bound'
      /\ vacant \in Nat /\ Refresh \in Nat /\ record.left \in Nat
    BY BoundIs, Fields, Intervals
<1>2. /\ Holders' # {} => vacant' = 0
      /\ Restless' => vacant' <= late'
    BY StillVacant
<1>3. vacant + record.left <= Bound'
    BY <1>1 DEF Vacancy
<1>4. ASSUME NEW h \in Callers, caller'[h].pc = "asleep"
      PROVE  vacant + caller'[h].timer <= Bound'
    <2>1. vacant + caller'[h].timer <= Bound
        BY <1>4 DEF Vacancy
    <2>2. caller'[h].timer \in Nat
        <3>1. CASE h = g
            BY <3>1
        <3>2. CASE h # g
            <4>1. caller'[h] = caller[h] /\ caller[h].timer \in 0..Refresh
                BY <3>2, Fields
            <4>2. QED
                BY <1>1, <4>1
        <3>3. QED
            BY <3>1, <3>2
    <2>3. QED
        BY <1>1, <2>1, <2>2
<1>5. ASSUME NEW h \in Callers, caller'[h].pc = "claim", <<h, "caller">> \notin current'
      PROVE  vacant + Refresh <= Bound'
    <2>1. vacant + Refresh <= Bound
        BY <1>5 DEF Vacancy
    <2>2. QED
        BY <1>1, <2>1
<1>6. QED
    BY <1>2, <1>3, <1>4, <1>5 DEF Vacancy

LEMMA VacancyStep ==
    ASSUME OwnershipTypeOK, Paced, ReadInv, Vacancy, OwnershipTypeOK', NEW g \in Callers, Step(g)
    PROVE  Vacancy'
<1> DEFINE Alone == \A h \in Callers \ {g} : caller'[h] = caller[h] /\ refresher'[h] = refresher[h]
           Reads == \A h \in Callers \ {g} : <<h, "caller">> \in current => <<h, "caller">> \in current'
           Idle == vacant' = vacant /\ late' = late /\ record' = record
           On(c) == c.pc \in {"holds", "leave"}
<1>0. /\ Refresh \in Nat /\ late \in Nat /\ faults \in Nat /\ vacant \in Nat /\ record.left \in 0..Refresh
      /\ Bound \in Nat /\ Bound' \in Nat /\ Bound <= Bound' /\ Refresh + late <= Bound
      /\ late' = late /\ (faults' = faults \/ faults' = faults + 1)
      /\ caller[g].timer \in Nat
    BY Fields, Intervals, BoundIs, Faulty
\* A step of g as a caller that writes nothing, and one of its refresher.
<1>1. ASSUME Alone, Reads, Idle, refresher'[g].pc \in {refresher[g].pc, "off"},
             On(caller'[g]) => On(caller[g]), caller'[g].timer \in Nat,
             caller'[g].pc = "asleep" => vacant + caller'[g].timer <= Bound,
             caller'[g].pc = "claim" /\ <<g, "caller">> \notin current' => vacant + Refresh <= Bound
      PROVE  Vacancy'
    BY <1>0, <1>1, Unwritten
<1>2. ASSUME Alone, Idle, caller' = caller, refresher[g].pc # "off" \/ refresher'[g].pc = "off",
             \A h \in Callers : <<h, "caller">> \in current => <<h, "caller">> \in current'
      PROVE  Vacancy'
    <2>1. caller[g].pc = "asleep" => vacant + caller[g].timer <= Bound
        BY DEF Vacancy
    <2>2. caller[g].pc = "claim" /\ <<g, "caller">> \notin current' => vacant + Refresh <= Bound
        BY <1>2 DEF Vacancy
    <2>3. QED
        BY <1>0, <1>2, <2>1, <2>2, Unwritten
\* A write of g: as long as it owns the key nobody waits, and its refresher
\* does not outlast that by more than the ticks it is late.
<1>3. ASSUME Alone, vacant' = vacant, On(caller'[g]) => On(caller[g]), refresher'[g].pc # "off" => refresher[g].pc # "off",
             vacant + Refresh <= Bound'
      PROVE  Vacancy'
    <2>1. /\ Holders' # {} => vacant' = 0
          /\ Restless' => vacant' <= late'
        BY <1>0, <1>3, StillVacant
    <2>2. (vacant + Refresh <= Bound)'
        BY <1>3
    <2>3. QED
        BY <1>0, <2>1, <2>2, Roomy
<1>4. On(caller[g]) \/ refresher[g].pc # "off" => vacant + Refresh <= Bound
    BY <1>0 DEF Vacancy, Holders, Restless
<1>5. CASE StartOwn(g)
    BY <1>0, <1>1, <1>5, StartOwnEffect DEF Moves
<1>6. CASE Ask(g)
    <2>1. CASE record.left = 0 /\ Moves(g, "claim", Refresh) /\ current' = current \cup {<<g, "caller">>}
        BY <1>0, <1>1, <1>6, <2>1, AskEffect DEF Moves
    <2>2. CASE record.left > 0 /\ Moves(g, "asleep", record.left) /\ current' = current
        <3>1. vacant + record.left <= Bound
            BY DEF Vacancy
        <3>2. QED
            BY <1>0, <1>1, <1>6, <2>2, <3>1, AskEffect DEF Moves
    <2>3. QED
        BY <1>6, <2>1, <2>2, AskEffect
<1>7. CASE Claim(g)
    <2>1. CASE <<g, "caller">> \in current
        <3>1. vacant' = 0
            BY <1>7, <2>1, ClaimEffect
        <3>2. vacant' <= late' /\ (vacant + Refresh <= Bound)'
            BY <1>0, <3>1
        <3>3. QED
            BY <1>0, <3>1, <3>2, Roomy
    <2>2. CASE <<g, "caller">> \notin current
        <3>1. caller[g].pc = "claim" /\ Moves(g, "asleep", Refresh) /\ UNCHANGED <<record, current, refresher, vacant>>
            BY <1>7, <2>2, ClaimEffect
        <3>2. vacant + Refresh <= Bound
            BY <2>2, <3>1 DEF Vacancy
        <3>3. QED
            BY <1>0, <1>1, <3>1, <3>2 DEF Moves
    <2>3. QED
        BY <2>1, <2>2
<1>8. CASE Wake(g)
    BY <1>0, <1>1, <1>8, WakeEffect DEF Moves
<1>9. CASE StartTicker(g)
    BY <1>0, <1>2, <1>9, StartTickerEffect, TickerStarted
<1>10. CASE RefreshRead(g)
    <2>1. /\ refresher[g].pc # "off" /\ \A h \in Callers \ {g} : refresher'[h] = refresher[h]
          /\ UNCHANGED <<record, caller, late, vacant>> /\ current \subseteq current'
        BY <1>10, RefreshReadEffect, RefreshBegun, RefresherOff
    <2>2. QED
        BY <1>2, <2>1
<1>11. CASE RefreshWrite(g)
    <2>1. /\ refresher[g].pc # "off" /\ \A h \in Callers \ {g} : refresher'[h] = refresher[h]
          /\ UNCHANGED <<caller, late, vacant, faults>>
        BY <1>11, RefreshWriteEffect, RefreshEnded
    <2>2. vacant + Refresh <= Bound'
        BY <1>4, <2>1, BoundIs
    <2>3. QED
        BY <1>3, <2>1, <2>2
<1>12. CASE StopRefresh(g)
    BY <1>0, <1>2, <1>12, StopRefreshEffect, RefresherOff
<1>13. CASE LeaveRead(g)
    BY <1>0, <1>1, <1>13, LeaveReadEffect DEF Moves
<1>14. CASE LeaveWrite(g)
    <2>1. /\ caller[g].pc = "leave" /\ caller'[g].pc = "cancel" /\ Alone /\ refresher' = refresher
          /\ UNCHANGED <<late, vacant, faults>>
        BY <1>14, LeaveWriteEffect DEF Moves
    <2>2. vacant + Refresh <= Bound'
        BY <1>4, <2>1, BoundIs
    <2>3. QED
        BY <1>3, <2>1, <2>2
<1>15. CASE CancelRefresh(g)
    <2>1. /\ caller'[g].pc = "released" /\ caller'[g].timer = 0 /\ Alone /\ UNCHANGED <<record, current, late, vacant>>
          /\ refresher'[g].pc = refresher[g].pc
        BY <1>15, CancelRefreshEffect, RefresherTold DEF Moves
    <2>2. QED
        BY <1>0, <1>1, <2>1
<1>16. CASE OwnFails(g)
    <2>1. caller'[g].pc = "unowned" /\ caller'[g].timer = 0 /\ Alone /\ UNCHANGED <<refresher, late, vacant>>
          /\ faults' = faults + 1
        BY <1>16, OwnFailsEffect DEF Moves
    <2>2. CASE record' = record /\ current' = current \ {<<g, "caller">>}
        BY <1>0, <1>1, <2>1, <2>2
    <2>3. CASE ~(record' = record /\ current' = current \ {<<g, "caller">>})
        <3>1. vacant <= Bound
            BY <1>0 DEF Vacancy
        <3>2. Bound' = Bound + Refresh
            BY <2>1, BoundIs
        <3>3. vacant + Refresh <= Bound'
            BY <1>0, <3>1, <3>2
        <3>4. QED
            BY <1>3, <2>1, <3>3
    <2>4. QED
        BY <2>2, <2>3
<1>17. CASE RefreshFails(g)
    <2>1. /\ refresher[g].pc # "off" /\ \A h \in Callers \ {g} : refresher'[h] = refresher[h]
          /\ UNCHANGED <<record, caller, late, vacant>> /\ current' = current \ {<<g, "refresher">>}
        BY <1>17, RefreshFailsEffect, RefreshEnded, RefresherOff
    <2>2. QED
        BY <1>2, <2>1
<1>18. CASE Crash(g)
    <2>1. /\ caller'[g].pc = "released" /\ caller'[g].timer = 0 /\ Alone /\ Idle
          /\ refresher'[g].pc = "off" /\ current' = current \ ({g} \X {"caller", "refresher"})
        BY <1>18, CrashEffect, RefresherOff DEF Moves
    <2>2. QED
        BY <1>0, <1>1, <2>1
<1>19. CASE LeaveFails(g)
    <2>1. /\ caller'[g].pc = "cancel" /\ caller'[g].timer = 0 /\ Alone /\ Idle /\ refresher' = refresher
          /\ current' = current \ {<<g, "caller">>}
        BY <1>19, LeaveFailsEffect DEF Moves
    <2>2. QED
        BY <1>0, <1>1, <2>1
<1>20. QED
    BY <1>5, <1>6, <1>7, <1>8, <1>9, <1>10, <1>11, <1>12, <1>13, <1>14, <1>15, <1>16, <1>17, <1>18, <1>19 DEF Step, Besides

\* A tick that brings nobody closer to the key is one that somebody is late.
LEMMA VacancyTick ==
    ASSUME OwnershipTypeOK, Paced, ReadInv, Vacancy, OwnershipTypeOK', Tick
    PROVE  Vacancy'
<1>0. /\ Refresh \in Nat /\ late \in Nat /\ vacant \in Nat /\ record.left \in 0..Refresh
      /\ vacant' \in Nat /\ vacant' <= vacant + 1 /\ faults' = faults /\ late' \in {late, late + 1}
      /\ current' = current /\ record'.left = Less(record.left)
      /\ Bound \in Nat /\ Refresh + late <= Bound
    BY Fields, Intervals, BoundIs, TickEffect
<1>1. /\ (late' = late /\ Bound' = Bound) \/ (late' = late + 1 /\ Bound' = Bound + 1)
      /\ Bound' \in Nat
    <2>1. CASE late' = late
        <3>1. Bound' = Bound
            BY <1>0, <2>1, BoundIs
        <3>2. QED
            BY <1>0, <2>1, <3>1
    <2>2. CASE late' = late + 1
        <3>1. Bound' = Bound + 1
            BY <1>0, <2>2, BoundIs
        <3>2. QED
            BY <1>0, <2>2, <3>1
    <2>3. QED
        BY <1>0, <2>1, <2>2
<1>2. \A g \in Callers : /\ caller'[g].pc = caller[g].pc /\ caller'[g].timer = Less(caller[g].timer)
                         /\ caller[g].timer \in 0..Refresh
                         /\ refresher'[g].pc = refresher[g].pc
    BY Fields, TickEffect, Elapsed DEF Paced
<1>3. \A n \in 0..Refresh : Less(n) \in Nat /\ Less(n) <= n /\ (n > 0 => Less(n) = n - 1)
    BY LessIs
<1>4. Holders' = Holders
    BY <1>2 DEF Holders
<1>5. ASSUME NEW g \in Callers, Due(g) PROVE late' = late + 1 /\ Bound' = Bound + 1
    BY <1>0, <1>1, <1>5, TickEffect
<1>6. Holders' # {} => vacant' = 0
    BY <1>4, TickEffect
<1>7. Restless' => vacant' <= late'
    <2>1. SUFFICES ASSUME NEW g \in Callers, refresher[g].pc # "off", g \notin Holders
                   PROVE  vacant' <= late'
        BY <1>2, <1>4 DEF Restless
    <2>2. vacant <= late
        BY <2>1 DEF Restless, Vacancy
    <2>3. Due(g)
        BY <2>1 DEF ReadInv, Stopping, Holders, Due
    <2>4. QED
        BY <1>0, <1>5, <2>2, <2>3
\* Somebody waits, or the count begins anew.
<1>8. CASE \A g \in Callers : caller[g].pc \notin Waiting
    <2>1. vacant' = 0
        BY <1>8, TickEffect
    <2>2. (vacant + Refresh <= Bound)'
        BY <1>0, <1>1, <2>1
    <2>3. QED
        BY <1>1, <1>6, <1>7, <2>2, Roomy
<1>9. CASE \E g \in Callers : caller[g].pc \in Waiting
    <2>1. PICK w \in Callers : caller[w].pc \in Waiting
        BY <1>9
    <2>2. vacant + record.left <= Bound
        BY DEF Vacancy
    <2>3. vacant' + record'.left <= Bound'
        <3>1. Less(record.left) \in Nat /\ (record.left > 0 => Less(record.left) = record.left - 1)
              /\ Less(record.left) <= record.left
            BY <1>0, <1>3
        <3>2. CASE record.left > 0
            BY <1>0, <1>1, <2>2, <3>1, <3>2
        <3>3. CASE Due(w)
            <4>1. Bound' = Bound + 1
                BY <1>5, <3>3
            <4>2. QED
                BY <1>0, <2>2, <3>1, <4>1
        <3>4. CASE record.left = 0 /\ ~Due(w)
            <4>1. caller[w].pc = "asleep" /\ caller[w].timer \in 0..Refresh /\ caller[w].timer # 0
                BY <1>2, <2>1, <3>4 DEF Due, Waiting
            <4>2. vacant + caller[w].timer <= Bound
                BY <4>1 DEF Vacancy
            <4>3. vacant + 1 <= Bound
                BY <1>0, <4>1, <4>2
            <4>4. QED
                BY <1>0, <1>1, <3>1, <3>4, <4>3
        <3>5. QED
            BY <1>0, <3>2, <3>3, <3>4
    <2>4. ASSUME NEW g \in Callers, caller[g].pc = "asleep"
          PROVE  vacant' + caller'[g].timer <= Bound'
        <3>1. /\ vacant + caller[g].timer <= Bound /\ caller[g].timer \in 0..Refresh
              /\ caller'[g].timer = Less(caller[g].timer)
            BY <1>2, <2>4 DEF Vacancy
        <3>2. /\ Less(caller[g].timer) \in Nat /\ Less(caller[g].timer) <= caller[g].timer
              /\ caller[g].timer > 0 => Less(caller[g].timer) = caller[g].timer - 1
            BY <1>3, <3>1
        <3>3. CASE caller[g].timer > 0
            BY <1>0, <1>1, <3>1, <3>2, <3>3
        <3>4. CASE caller[g].timer = 0
            <4>1. Bound' = Bound + 1
                BY <1>5, <2>4, <3>4 DEF Due
            <4>2. QED
                BY <1>0, <3>1, <3>2, <4>1
        <3>5. QED
            BY <1>0, <3>1, <3>3, <3>4
    <2>5. ASSUME NEW g \in Callers, caller[g].pc = "claim", <<g, "caller">> \notin current
          PROVE  vacant' + Refresh <= Bound'
        <3>1. vacant + Refresh <= Bound
            BY <2>5 DEF Vacancy
        <3>2. Bound' = Bound + 1
            BY <1>5, <2>5 DEF Due
        <3>3. \A v, w1, b, r \in Nat : v + r <= b /\ w1 <= v + 1 => w1 + r <= b + 1
            OBVIOUS
        <3>4. vacant' + Refresh <= Bound + 1
            <4>1. vacant \in Nat /\ vacant' \in Nat /\ Bound \in Nat /\ Refresh \in Nat /\ vacant' <= vacant + 1
                BY <1>0
            <4>2. QED
                BY <3>1, <3>3, <4>1
        <3>5. QED
            BY <3>2, <3>4
    <2>6. QED
        BY <1>0, <1>2, <1>6, <1>7, <2>3, <2>4, <2>5 DEF Vacancy
<1>10. QED
    BY <1>8, <1>9

-----------------------------------------------------------------------------
(* The theorems.                                                           *)

OwnershipInv == TypeInv /\ ReadInv /\ Leased /\ Owned /\ Vacancy

LEMMA InitOwnership == Init => OwnershipInv
<1> SUFFICES ASSUME Init PROVE OwnershipInv
    OBVIOUS
<1>1. /\ record = [owner |-> NoOwner, left |-> 0] /\ current = {}
      /\ caller = [g \in Callers |-> [pc |-> "idle", timer |-> 0]]
      /\ refresher = [g \in Callers |-> Off]
      /\ late = 0 /\ faults = 0 /\ vacant = 0
      /\ update = [g \in Callers |-> "none"] /\ upToDate = {}
    BY DEF Init, OwnershipInit
<1>2. \A g \in Callers : /\ caller[g].pc = "idle" /\ refresher[g].pc = "off" /\ ~refresher[g].fired
                         /\ ~refresher[g].cancelled /\ update[g] = "none"
    BY <1>1, OffTyped
<1>3. OwnershipTypeOK
    <2>1. 0 \in 0..Refresh /\ 0 \in Nat /\ 0 + 0 <= MaxTrouble
        BY Intervals
    <2>2. record \in [owner : Callers \cup {NoOwner}, left : 0..Refresh]
        BY <1>1, <2>1
    <2>3. caller \in [Callers -> CallerState]
        BY <1>1, <2>1 DEF CallerState, CallerPoints
    <2>4. refresher \in [Callers -> RefresherState]
        BY <1>1, OffTyped
    <2>5. QED
        BY <1>1, <2>1, <2>2, <2>3, <2>4 DEF OwnershipTypeOK, Trouble, CallerState, RefresherState
<1>4. TypeInv
    <2>1. update \in [Callers -> {"none", "read"} \cup Outcomes] /\ upToDate \subseteq Callers
        BY <1>1
    <2>2. QED
        BY <1>2, <1>3, <2>1 DEF TypeInv, TypeOK, Paced
<1>5. ReadInv
    BY <1>1, <1>2 DEF ReadInv, Readings, Prompt, Stopping
<1>6. Holders = {}
    BY <1>2 DEF Holders
<1>7. Leased /\ Owned
    BY <1>2, <1>6 DEF Leased, Owned, OwnersWin
<1>8. Vacancy
    <2>1. ~Restless
        BY <1>2 DEF Restless
    <2>2. Bound \in Nat /\ vacant + record.left = 0
        BY <1>1, <1>3, BoundIs
    <2>3. QED
        BY <1>2, <1>6, <2>1, <2>2 DEF Vacancy
<1>9. QED
    BY <1>4, <1>5, <1>7, <1>8 DEF OwnershipInv

LEMMA UpdateTyped ==
    ASSUME TypeOK, NEW g \in Callers, ReadBranch(g) \/ KeepBranch(g) \/ SetBranch(g)
    PROVE  update' \in [Callers -> {"none", "read"} \cup Outcomes] /\ upToDate' \subseteq Callers
<1>1. /\ update \in [Callers -> {"none", "read"} \cup Outcomes] /\ upToDate \subseteq Callers
      /\ \E u \in {"none", "read"} \cup Outcomes : update' = [update EXCEPT ![g] = u]
      /\ upToDate' \in {upToDate \cup {g}, upToDate \ {g}, upToDate, {}}
    BY DEF TypeOK, ReadBranch, KeepBranch, SetBranch, Outcomes
<1>2. QED
    BY <1>1

LEMMA NextOwnership == OwnershipInv /\ [Next]_vars => OwnershipInv'
<1> SUFFICES ASSUME OwnershipInv, [Next]_vars PROVE OwnershipInv'
    OBVIOUS
<1>0. OwnershipTypeOK /\ TypeOK /\ Paced /\ ReadInv /\ Leased /\ Owned /\ Vacancy
    BY DEF OwnershipInv, TypeInv, TypeOK
<1>a. ASSUME BranchUnchanged, OwnershipTypeOK' PROVE TypeOK'
    BY <1>0, <1>a DEF TypeOK, BranchUnchanged
<1>1. ASSUME NEW g \in Callers, (LeaveRead(g) /\ update[g] \in Outcomes) \/ Besides(g), BranchUnchanged
      PROVE  OwnershipInv'
    <2>1. Step(g)
        BY <1>1 DEF Step
    <2>2. OwnershipTypeOK' /\ Paced'
        BY <1>0, <2>1, StepTyped
    <2>3. ReadInv' /\ Leased' /\ Vacancy'
        BY <1>0, <2>1, <2>2, ReadStep, LeasedStep, VacancyStep
    <2>4. Owned'
        BY <1>0, <1>1, OwnedStep
    <2>5. QED
        BY <1>a, <1>1, <2>2, <2>3, <2>4 DEF OwnershipInv, TypeInv
<1>2. ASSUME NEW g \in Callers, ReadBranch(g) \/ KeepBranch(g) \/ SetBranch(g), UNCHANGED ownershipVars
      PROVE  OwnershipInv'
    <2>1. UNCHANGED <<record, current, caller, refresher, late, faults, vacant>>
        BY <1>2 DEF ownershipVars, leaseVars
    <2>2. OwnershipTypeOK' /\ Paced'
        BY <1>0, <2>1 DEF OwnershipTypeOK, Trouble, Paced
    <2>3. TypeOK'
        BY <1>0, <1>2, <2>2, UpdateTyped DEF TypeOK
    <2>4. ReadInv'
        BY <1>0, <2>1 DEF ReadInv, Readings, Prompt, Stopping
    <2>5. Leased'
        BY <1>0, <2>1 DEF Leased, Calm, Holders, Covered
    <2>6. Owned'
        BY <1>0, <1>2, OwnedUpdate
    <2>7. Vacancy'
        BY <1>0, <2>1 DEF Vacancy, Restless, Holders, Bound
    <2>8. QED
        BY <2>2, <2>3, <2>4, <2>5, <2>6, <2>7 DEF OwnershipInv, TypeInv
<1>3. CASE Tick /\ BranchUnchanged
    <2>1. OwnershipTypeOK' /\ Paced'
        BY <1>0, <1>3, TickTyped
    <2>2. ReadInv' /\ Leased' /\ Owned' /\ Vacancy'
        BY <1>0, <1>3, <2>1, ReadTick, LeasedTick, OwnedTick, VacancyTick
    <2>3. QED
        BY <1>a, <1>3, <2>1, <2>2 DEF OwnershipInv, TypeInv
<1>4. CASE UNCHANGED ownershipVars /\ BranchUnchanged
    <2>1. UNCHANGED <<record, current, caller, refresher, late, faults, vacant, update, upToDate>>
        BY <1>4 DEF ownershipVars, leaseVars, BranchUnchanged
    <2>2. OwnershipTypeOK' /\ Paced' /\ TypeOK'
        BY <1>0, <2>1 DEF OwnershipTypeOK, Trouble, Paced, TypeOK
    <2>3. ReadInv'
        BY <1>0, <2>1 DEF ReadInv, Readings, Prompt, Stopping
    <2>4. Leased' /\ Owned'
        BY <1>0, <2>1 DEF Leased, Owned, OwnersWin, Calm, Holders, Covered
    <2>5. Vacancy'
        BY <1>0, <2>1 DEF Vacancy, Restless, Holders, Bound
    <2>6. QED
        BY <2>2, <2>3, <2>4, <2>5 DEF OwnershipInv, TypeInv
<1>5. QED
    BY <1>1, <1>2, <1>3, <1>4, StepsOf

\* Everything stays within its type, and a ticker within its interval
\* (startOwningKey, refreshKey).
THEOREM OwnershipTypeCorrect == Spec => []TypeOK
<1>1. OwnershipInv => TypeOK
    BY DEF OwnershipInv, TypeInv
<1>2. QED
    BY <1>1, InitOwnership, NextOwnership, PTL DEF Spec

\* While the store answers and all goroutines together are late by less than
\* a refresh leaves to spare, at most one caller of Own has the key, however
\* many call and however long each takes (mc_owner.go, Own).
THEOREM OneOwnerAtATime == Spec => []OneOwner
<1>1. OwnershipInv => OneOwner
    BY OneOwnerFollows DEF OwnershipInv
<1>2. QED
    BY <1>1, InitOwnership, NextOwnership, PTL DEF Spec

\* Then no compare-and-set of the branch fails: whoever has read the branch
\* owns it, and it is still what was read (BranchUpdate).
THEOREM OwnersWinAllRaces == Spec => []OwnersWin
<1>1. OwnershipInv => OwnersWin
    BY DEF OwnershipInv, Owned
<1>2. QED
    BY <1>1, InitOwnership, NextOwnership, PTL DEF Spec

\* However many faults there are and however late the goroutines, a key that
\* is waited for is free for no longer than an interval, one more for every
\* fault and the ticks that somebody was late (Own, releaseIf).
THEOREM FreeKeysAreTaken == Spec => []FreeKeyIsTaken
<1>1. OwnershipInv => FreeKeyIsTaken
    <2>1. SUFFICES ASSUME OwnershipInv PROVE FreeKeyIsTaken
        OBVIOUS
    <2>2. /\ vacant + record.left <= Bound /\ vacant \in Nat /\ record.left \in 0..Refresh /\ Refresh \in Nat
          /\ Bound \in Nat
        BY <2>1, Fields, Intervals, BoundIs DEF OwnershipInv, TypeInv, TypeOK, Vacancy
    <2>3. vacant <= Bound
        BY <2>2
    <2>4. QED
        BY <2>3 DEF FreeKeyIsTaken, Bound
<1>2. QED
    BY <1>1, InitOwnership, NextOwnership, PTL DEF Spec
================================================================================
