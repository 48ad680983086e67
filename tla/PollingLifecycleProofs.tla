----------------------- MODULE PollingLifecycleProofs -----------------------
(***************************************************************************)
(* Proofs about PollingLifecycle for every number of requests, timers,     *)
(* cycles and reads: type correctness; that no timer is left behind; that  *)
(* one cycle runs at a time; and that a request that meets no other leaves *)
(* the poller as the flag in the database says, whatever was before it.    *)
(***************************************************************************)
EXTENDS PollingLifecycle, TLAPS

USE PollingAssumption DEF Process, pollerVars

(* The disjuncts of the next-state relation, for the case analyses below.  *)
LEMMA Steps ==
  ASSUME Next
  PROVE  \/ \E r \in Request, on \in BOOLEAN : Admit(r, on)
         \/ BootRead
         \/ \E r \in Process : \/ WriteFlag(r) \/ Count(r) \/ StartBasic(r) \/ StartSNGIL(r)
                               \/ ModeCheck(r) \/ StartMapped(r) \/ Stop(r) \/ Fail(r)
         \/ \E t \in TimerId : FireCycle(t)
         \/ \E c \in Cycle : \/ DevicesRead(c) \/ SendRead(c) \/ ReadStarts(c)
                             \/ ReadAnswered(c) \/ LeaveLoop(c) \/ FinishCycle(c)
         \/ ChangeData \/ Restart
  BY Zenon DEF Next, RequestStep, CycleStep

-----------------------------------------------------------------------------
(* Type correctness.                                                       *)
Timers == [TimerId -> {"none", "cycle", "essential"}]
CycleState == [at : CyclePoint, left : 0..MaxReads]

LEMMA SetTimerType ==
  ASSUME NEW left \in Timers, NEW kind \in {"cycle", "essential"}, SetTimer(left, kind)
  PROVE  timers' \in Timers /\ singlePollingTimer' \in TimerId
  BY DEF SetTimer, Timers

LEMMA ScheduleNextType ==
  ASSUME TypeOK, NEW left \in Timers, NEW stop, ScheduleNext(left, stop)
  PROVE  timers' \in Timers /\ singlePollingTimer' \in TimerId \cup {NoTimer}
<1> DEFINE cleared == [t \in TimerId |-> IF t = singlePollingTimer THEN "none" ELSE left[t]]
<1>1. cleared \in Timers
  BY DEF Timers
<1>2. CASE stop
  BY <1>2 DEF ScheduleNext, TypeOK
<1>3. CASE ~stop
  BY <1>1, <1>3, SetTimerType DEF ScheduleNext
<1> QED BY <1>2, <1>3

LEMMA NewCycleType ==
  /\ [at |-> "devices", left |-> MaxReads] \in CycleState
  /\ NoCycle \in CycleState
  BY DEF CycleState, CyclePoint, NoCycle

LEMMA RunCycleType ==
  ASSUME TypeOK, NEW left \in Timers, RunCycle(left)
  PROVE  /\ timers' \in Timers /\ singlePollingTimer' \in TimerId \cup {NoTimer}
         /\ isPollingCycleRunning' \in BOOLEAN
         /\ cycle' \in [Cycle -> CycleState]
<1>1. CASE isPollingCycleRunning
  BY <1>1, ScheduleNextType DEF RunCycle, TypeOK, CycleState
<1>2. CASE ~isPollingCycleRunning
  BY <1>2, NewCycleType DEF RunCycle, TypeOK, CycleState
<1> QED BY <1>1, <1>2

(* A cycle that goes on from one point to another, or sends a read.        *)
LEMMA CycleGoes ==
  ASSUME TypeOK, NEW c \in Cycle, NEW point \in CyclePoint, Goto(c, point)
  PROVE  /\ cycle' \in [Cycle -> CycleState]
         /\ cycle'[c].at = point
         /\ \A d \in Cycle \ {c} : cycle'[d] = cycle[d]
  BY DEF Goto, TypeOK, CycleState

LEMMA CycleSends ==
  ASSUME TypeOK, NEW c \in Cycle, SendRead(c)
  PROVE  /\ cycle' \in [Cycle -> CycleState]
         /\ cycle'[c].at = "queued"
         /\ \A d \in Cycle \ {c} : cycle'[d] = cycle[d]
<1>1. cycle[c].left \in 0..MaxReads /\ cycle[c].left > 0
  BY DEF TypeOK, SendRead
<1>2. cycle[c].left - 1 \in 0..MaxReads
  BY <1>1
<1>3. cycle' = [cycle EXCEPT ![c] = [at |-> "queued", left |-> cycle[c].left - 1]]
  BY DEF SendRead
<1>4. [at |-> "queued", left |-> cycle[c].left - 1] \in CycleState
  BY <1>2 DEF CycleState, CyclePoint
<1> QED BY <1>3, <1>4 DEF TypeOK, CycleState

LEMMA TypeStep == TypeOK /\ [Next]_vars => TypeOK'
<1> SUFFICES ASSUME TypeOK, [Next]_vars PROVE TypeOK'
  OBVIOUS
<1>0. ASSUME pollingEnabled' \in BOOLEAN, hasData' \in BOOLEAN,
             at' \in [Process -> RequestPoint], wants' \in [Process -> BOOLEAN],
             timers' \in Timers, singlePollingTimer' \in TimerId \cup {NoTimer},
             linkMonitor' \in BOOLEAN, stopRequested' \in BOOLEAN,
             isPollingCycleRunning' \in BOOLEAN, cycle' \in [Cycle -> CycleState],
             past' \subseteq {"overlap", "failure"}
      PROVE  TypeOK'
  BY <1>0 DEF TypeOK, Timers, CycleState
<1>00. /\ pollingEnabled \in BOOLEAN /\ hasData \in BOOLEAN
       /\ at \in [Process -> RequestPoint] /\ wants \in [Process -> BOOLEAN]
       /\ timers \in Timers /\ singlePollingTimer \in TimerId \cup {NoTimer}
       /\ linkMonitor \in BOOLEAN /\ stopRequested \in BOOLEAN
       /\ isPollingCycleRunning \in BOOLEAN /\ cycle \in [Cycle -> CycleState]
       /\ past \subseteq {"overlap", "failure"}
  BY DEF TypeOK, Timers, CycleState
<1>1. ASSUME NEW r \in Request, NEW on \in BOOLEAN, Admit(r, on) PROVE TypeOK'
  BY <1>0, <1>00, <1>1 DEF Admit, dbVars, timerVars, RequestPoint
<1>2. ASSUME BootRead PROVE TypeOK'
  BY <1>0, <1>00, <1>2 DEF BootRead, dbVars, timerVars, RequestPoint
<1>3. ASSUME NEW r \in Process, WriteFlag(r) PROVE TypeOK'
  BY <1>0, <1>00, <1>3 DEF WriteFlag, timerVars, RequestPoint
<1>4. ASSUME NEW r \in Process, Count(r) PROVE TypeOK'
  BY <1>0, <1>00, <1>4 DEF Count, dbVars, timerVars, RequestPoint
<1>5. Cleared \in Timers
  BY <1>00 DEF Cleared, Timers
<1>6. ASSUME NEW r \in Process, StartBasic(r) PROVE TypeOK'
  <2>1. timers' \in Timers /\ singlePollingTimer' \in TimerId
    BY <1>5, <1>6, SetTimerType DEF StartBasic
  <2> QED BY <1>0, <1>00, <1>6, <2>1 DEF StartBasic, dbVars, RequestPoint
<1>7. ASSUME NEW r \in Process, StartSNGIL(r) PROVE TypeOK'
  BY <1>0, <1>00, <1>7 DEF StartSNGIL, dbVars, timerVars, RequestPoint
<1>8. ASSUME NEW r \in Process, ModeCheck(r) PROVE TypeOK'
  BY <1>0, <1>00, <1>8 DEF ModeCheck, dbVars, timerVars, RequestPoint
<1>9. ASSUME NEW r \in Process, StartMapped(r) PROVE TypeOK'
  <2>1. /\ timers' \in Timers /\ singlePollingTimer' \in TimerId \cup {NoTimer}
        /\ isPollingCycleRunning' \in BOOLEAN
        /\ cycle' \in [Cycle -> CycleState]
    BY <1>5, <1>9, RunCycleType DEF StartMapped
  <2> QED BY <1>0, <1>00, <1>9, <2>1 DEF StartMapped, dbVars, RequestPoint
<1>10. ASSUME NEW r \in Process, Stop(r) PROVE TypeOK'
  <2>1. cycle' \in [Cycle -> CycleState]
    BY <1>10 DEF Stop, TypeOK, CycleState, CyclePoint
  <2>2. at' \in [Process -> RequestPoint]
    BY <1>00, <1>10 DEF Stop, RequestPoint
  <2> QED BY <1>0, <1>00, <1>5, <1>10, <2>1, <2>2 DEF Stop, dbVars
<1>11. ASSUME NEW r \in Process, Fail(r) PROVE TypeOK'
  BY <1>0, <1>00, <1>11 DEF Fail, dbVars, timerVars, RequestPoint
<1>12. ASSUME NEW t \in TimerId, FireCycle(t) PROVE TypeOK'
  <2>1. [timers EXCEPT ![t] = "none"] \in Timers
    BY <1>00 DEF Timers
  <2>2. CASE stopRequested
    BY <1>0, <1>00, <1>12, <2>1, <2>2 DEF FireCycle, dbVars, requestVars
  <2>3. CASE ~stopRequested
    <3>1. /\ timers' \in Timers /\ singlePollingTimer' \in TimerId \cup {NoTimer}
          /\ isPollingCycleRunning' \in BOOLEAN
          /\ cycle' \in [Cycle -> CycleState]
      BY <1>12, <2>1, <2>3, RunCycleType DEF FireCycle
    <3> QED BY <1>0, <1>00, <1>12, <3>1 DEF FireCycle, dbVars, requestVars
  <2> QED BY <2>2, <2>3
<1>13. ASSUME NEW c \in Cycle,
              DevicesRead(c) \/ ReadStarts(c) \/ ReadAnswered(c) \/ LeaveLoop(c)
       PROVE  TypeOK'
  <2>1. \E point \in CyclePoint : Goto(c, point)
    BY <1>13 DEF DevicesRead, ReadStarts, ReadAnswered, LeaveLoop, CyclePoint
  <2>2. cycle' \in [Cycle -> CycleState]
    BY <2>1, CycleGoes
  <2>3. UNCHANGED <<dbVars, requestVars, timerVars, linkMonitor, stopRequested,
                    isPollingCycleRunning, past>>
    BY <1>13 DEF DevicesRead, ReadStarts, ReadAnswered, LeaveLoop
  <2> QED BY <1>0, <1>00, <2>2, <2>3 DEF dbVars, requestVars, timerVars
<1>14. ASSUME NEW c \in Cycle, SendRead(c) PROVE TypeOK'
  BY <1>0, <1>00, <1>14, CycleSends DEF SendRead, dbVars, requestVars, timerVars
<1>15. ASSUME NEW c \in Cycle, FinishCycle(c) PROVE TypeOK'
  <2>1. timers' \in Timers /\ singlePollingTimer' \in TimerId \cup {NoTimer}
    BY <1>00, <1>15, ScheduleNextType DEF FinishCycle
  <2>2. cycle' \in [Cycle -> CycleState]
    BY <1>00, <1>15, NewCycleType DEF FinishCycle
  <2> QED BY <1>0, <1>00, <1>15, <2>1, <2>2 DEF FinishCycle, dbVars, requestVars
<1>16. ASSUME ChangeData PROVE TypeOK'
  BY <1>0, <1>00, <1>16 DEF ChangeData, requestVars, timerVars
<1>17. ASSUME Restart PROVE TypeOK'
  BY <1>0, <1>00, <1>17, NewCycleType
  DEF Restart, dbVars, BootAt, BootTimers, BootCycle, Timers, RequestPoint
<1>18. ASSUME UNCHANGED vars PROVE TypeOK'
  BY <1>0, <1>00, <1>18 DEF vars, dbVars, requestVars, timerVars
<1> QED
  BY <1>1, <1>2, <1>3, <1>4, <1>6, <1>7, <1>8, <1>9, <1>10, <1>11, <1>12, <1>13,
     <1>14, <1>15, <1>16, <1>17, <1>18, Steps, Zenon

(* Every variable keeps its type.                                          *)
THEOREM Typing == Safety => []TypeOK
<1>1. Init => TypeOK
  <2> SUFFICES ASSUME Init PROVE TypeOK
    OBVIOUS
  <2>1. at \in [Process -> RequestPoint] /\ wants \in [Process -> BOOLEAN]
    BY DEF Init, BootAt, RequestPoint
  <2>2. cycle \in [Cycle -> [at : CyclePoint, left : 0..MaxReads]]
    BY NewCycleType DEF Init, BootCycle, CycleState
  <2> QED BY <2>1, <2>2 DEF Init, TypeOK, BootTimers
<1> QED BY <1>1, TypeStep, PTL DEF Safety

-----------------------------------------------------------------------------
(* Timers.                                                                 *)
OnlyField(left) == \A t \in TimerId : left[t] # "none" => t = singlePollingTimer

LEMMA SetTimerField ==
  ASSUME NEW left \in Timers, \A t \in TimerId : left[t] = "none",
         NEW kind, SetTimer(left, kind)
  PROVE  NoOrphanTimer'
  BY DEF SetTimer, Timers, NoOrphanTimer, Live

LEMMA ScheduleNextField ==
  ASSUME TypeOK, NEW left \in Timers, OnlyField(left), NEW stop, ScheduleNext(left, stop)
  PROVE  NoOrphanTimer'
<1> DEFINE cleared == [t \in TimerId |-> IF t = singlePollingTimer THEN "none" ELSE left[t]]
<1>1. cleared \in Timers /\ \A t \in TimerId : cleared[t] = "none"
  BY DEF Timers, OnlyField
<1>2. CASE stop
  BY <1>2 DEF ScheduleNext, OnlyField, NoOrphanTimer, Live
<1>3. CASE ~stop
  BY <1>1, <1>3, SetTimerField DEF ScheduleNext
<1> QED BY <1>2, <1>3

LEMMA RunCycleField ==
  ASSUME TypeOK, NEW left \in Timers, OnlyField(left), RunCycle(left)
  PROVE  NoOrphanTimer'
<1>1. CASE isPollingCycleRunning
  BY <1>1, ScheduleNextField DEF RunCycle
<1>2. CASE ~isPollingCycleRunning
  BY <1>2 DEF RunCycle, OnlyField, NoOrphanTimer, Live
<1> QED BY <1>1, <1>2

(* Every statement that sets a timer has cleared the field's before, and   *)
(* the one that forgets the field has cleared it too.                      *)
LEMMA TimerStep == TypeOK /\ NoOrphanTimer /\ [Next]_vars => NoOrphanTimer'
<1> SUFFICES ASSUME TypeOK, NoOrphanTimer, [Next]_vars PROVE NoOrphanTimer'
  OBVIOUS
<1>0. ASSUME UNCHANGED timerVars PROVE NoOrphanTimer'
  BY <1>0 DEF timerVars, NoOrphanTimer, Live
<1>00. /\ timers \in Timers /\ OnlyField(timers)
       /\ Cleared \in Timers /\ \A t \in TimerId : Cleared[t] = "none"
  BY DEF TypeOK, Timers, NoOrphanTimer, Live, OnlyField, Cleared
<1>1. ASSUME \/ \E r \in Request, on \in BOOLEAN : Admit(r, on)
             \/ BootRead
             \/ \E r \in Process : WriteFlag(r) \/ Count(r) \/ StartSNGIL(r) \/ ModeCheck(r) \/ Fail(r)
             \/ \E c \in Cycle : DevicesRead(c) \/ SendRead(c) \/ ReadStarts(c)
                                 \/ ReadAnswered(c) \/ LeaveLoop(c)
             \/ ChangeData
      PROVE  NoOrphanTimer'
  BY <1>0, <1>1, Zenon DEF Admit, BootRead, WriteFlag, Count, StartSNGIL, ModeCheck, Fail,
     DevicesRead, SendRead, ReadStarts, ReadAnswered, LeaveLoop, ChangeData
<1>2. ASSUME NEW r \in Process, StartBasic(r) PROVE NoOrphanTimer'
  BY <1>00, <1>2, SetTimerField DEF StartBasic
<1>3. ASSUME NEW r \in Process, StartMapped(r) PROVE NoOrphanTimer'
  BY <1>00, <1>3, RunCycleField DEF StartMapped, OnlyField
<1>4. ASSUME NEW r \in Process, Stop(r) PROVE NoOrphanTimer'
  BY <1>00, <1>4 DEF Stop, NoOrphanTimer, Live
<1>5. ASSUME NEW t \in TimerId, FireCycle(t) PROVE NoOrphanTimer'
  <2> DEFINE left == [timers EXCEPT ![t] = "none"]
  <2>1. left \in Timers /\ OnlyField(left)
    BY <1>00 DEF Timers, OnlyField
  <2>2. CASE stopRequested
    BY <1>5, <2>1, <2>2 DEF FireCycle, NoOrphanTimer, Live, OnlyField
  <2>3. CASE ~stopRequested
    BY <1>5, <2>1, <2>3, RunCycleField DEF FireCycle
  <2> QED BY <2>2, <2>3
<1>6. ASSUME NEW c \in Cycle, FinishCycle(c) PROVE NoOrphanTimer'
  BY <1>00, <1>6, ScheduleNextField DEF FinishCycle
<1>7. ASSUME Restart PROVE NoOrphanTimer'
  BY <1>7 DEF Restart, BootTimers, NoOrphanTimer, Live
<1>8. ASSUME UNCHANGED vars PROVE NoOrphanTimer'
  BY <1>8, <1>0 DEF vars
<1> QED BY <1>1, <1>2, <1>3, <1>4, <1>5, <1>6, <1>7, <1>8, Steps, Zenon

(* No timer is left behind, however starts, stops and cycles interleave.   *)
THEOREM NoTimerLeftBehind == Safety => []NoOrphanTimer
<1>1. Init => NoOrphanTimer
  BY DEF Init, BootTimers, NoOrphanTimer, Live
<1> QED BY <1>1, TimerStep, Typing, PTL DEF Safety

-----------------------------------------------------------------------------
(* Cycles.                                                                 *)
LEMMA NotNone ==
  ASSUME NEW s, s.at # "none"
  PROVE  s # NoCycle
  BY DEF NoCycle

(* A step of cycle c from one point to another.                            *)
LEMMA GoingOn ==
  ASSUME TypeOK, OneCycle, NEW c \in Cycle,
         cycle[c].at # "none", cycle'[c].at # "none",
         \A d \in Cycle \ {c} : cycle'[d] = cycle[d],
         isPollingCycleRunning' = isPollingCycleRunning
  PROVE  OneCycle'
<1>1. cycle[c] # NoCycle /\ cycle'[c] # NoCycle
  BY NotNone
<1> QED BY <1>1 DEF OneCycle

LEMMA RunCycleOne ==
  ASSUME TypeOK, OneCycle, NEW left, RunCycle(left)
  PROVE  OneCycle'
<1>1. CASE isPollingCycleRunning
  BY <1>1 DEF RunCycle, OneCycle
<1>2. CASE ~isPollingCycleRunning
  <2>1. PICK c \in Cycle :
          /\ isPollingCycleRunning'
          /\ cycle' = [cycle EXCEPT ![c] = [at |-> "devices", left |-> MaxReads]]
    BY <1>2 DEF RunCycle
  <2>2. cycle'[c].at = "devices" /\ \A d \in Cycle \ {c} : cycle'[d] = cycle[d]
    BY <2>1 DEF TypeOK
  <2>3. cycle'[c] # NoCycle
    BY <2>2, NotNone
  <2>4. \A d \in Cycle : cycle[d] = NoCycle
    BY <1>2 DEF OneCycle
  <2> QED BY <2>1, <2>2, <2>3, <2>4 DEF OneCycle
<1> QED BY <1>1, <1>2

LEMMA CycleStepOne == TypeOK /\ OneCycle /\ [Next]_vars => OneCycle'
<1> SUFFICES ASSUME TypeOK, OneCycle, [Next]_vars PROVE OneCycle'
  OBVIOUS
<1>0. ASSUME UNCHANGED <<isPollingCycleRunning, cycle>> PROVE OneCycle'
  BY <1>0 DEF OneCycle
<1>1. ASSUME \/ \E r \in Request, on \in BOOLEAN : Admit(r, on)
             \/ BootRead
             \/ \E r \in Process : WriteFlag(r) \/ Count(r) \/ StartBasic(r) \/ StartSNGIL(r)
                                   \/ ModeCheck(r) \/ Fail(r)
             \/ ChangeData
      PROVE  OneCycle'
  BY <1>0, <1>1, Zenon DEF Admit, BootRead, WriteFlag, Count, StartBasic, StartSNGIL,
     ModeCheck, Fail, ChangeData
<1>2. ASSUME NEW r \in Process, StartMapped(r) PROVE OneCycle'
  BY <1>2, RunCycleOne DEF StartMapped
<1>3. ASSUME NEW r \in Process, Stop(r) PROVE OneCycle'
  <2>1. PICK dropped \in SUBSET {c \in Cycle : cycle[c].at = "queued"} :
          cycle' = [c \in Cycle |-> IF c \in dropped THEN [cycle[c] EXCEPT !.at = "lost"]
                                    ELSE cycle[c]]
    BY <1>3 DEF Stop
  <2>2. ASSUME NEW c \in Cycle PROVE cycle'[c] # NoCycle <=> cycle[c] # NoCycle
    <3>1. CASE c \in dropped
      <4>1. cycle[c].at = "queued" /\ cycle'[c].at = "lost"
        BY <2>1, <3>1 DEF TypeOK
      <4> QED BY <4>1, NotNone
    <3>2. CASE c \notin dropped
      BY <2>1, <3>2
    <3> QED BY <3>1, <3>2
  <2>3. isPollingCycleRunning' = isPollingCycleRunning
    BY <1>3 DEF Stop
  <2> QED BY <2>2, <2>3 DEF OneCycle
<1>4. ASSUME NEW t \in TimerId, FireCycle(t) PROVE OneCycle'
  BY <1>0, <1>4, RunCycleOne DEF FireCycle
<1>5. ASSUME NEW c \in Cycle,
             DevicesRead(c) \/ ReadStarts(c) \/ ReadAnswered(c) \/ LeaveLoop(c)
      PROVE  OneCycle'
  <2>1. \E point \in CyclePoint \ {"none"} : Goto(c, point)
    BY <1>5 DEF DevicesRead, ReadStarts, ReadAnswered, LeaveLoop, CyclePoint
  <2>2. cycle[c].at # "none" /\ isPollingCycleRunning' = isPollingCycleRunning
    BY <1>5 DEF DevicesRead, ReadStarts, ReadAnswered, LeaveLoop
  <2>3. cycle'[c].at # "none" /\ \A d \in Cycle \ {c} : cycle'[d] = cycle[d]
    BY <2>1, CycleGoes
  <2> QED BY <2>2, <2>3, GoingOn
<1>6. ASSUME NEW c \in Cycle, SendRead(c) PROVE OneCycle'
  <2>1. cycle[c].at # "none" /\ isPollingCycleRunning' = isPollingCycleRunning
    BY <1>6 DEF SendRead
  <2>2. cycle'[c].at # "none" /\ \A d \in Cycle \ {c} : cycle'[d] = cycle[d]
    BY <1>6, CycleSends
  <2> QED BY <2>1, <2>2, GoingOn
<1>7. ASSUME NEW c \in Cycle, FinishCycle(c) PROVE OneCycle'
  <2>1. cycle[c] # NoCycle
    BY <1>7, NotNone DEF FinishCycle
  <2>2. /\ isPollingCycleRunning' = FALSE /\ cycle'[c] = NoCycle
        /\ \A d \in Cycle \ {c} : cycle'[d] = cycle[d]
    BY <1>7 DEF FinishCycle, TypeOK
  <2> QED BY <2>1, <2>2 DEF OneCycle
<1>8. ASSUME Restart PROVE OneCycle'
  BY <1>8 DEF Restart, BootCycle, OneCycle
<1>9. ASSUME UNCHANGED vars PROVE OneCycle'
  BY <1>9, <1>0 DEF vars
<1> QED BY <1>1, <1>2, <1>3, <1>4, <1>5, <1>6, <1>7, <1>8, <1>9, Steps, Zenon

(* One cycle runs at a time, and the flag says whether one does.           *)
THEOREM CyclesExclude == Safety => []OneCycle
<1>1. Init => OneCycle
  BY DEF Init, BootCycle, OneCycle
<1> QED BY <1>1, CycleStepOne, Typing, PTL DEF Safety

-----------------------------------------------------------------------------
(* A cycle whose read was dropped from the queue waits for its answer until *)
(* the server restarts, and no other cycle begins: neither a stop nor a     *)
(* start of polling, nor a timer, gets the poller going again               *)
(* (isPollingCycleRunning, which only the finally block of that cycle       *)
(* resets).                                                                 *)
WedgeStays ==
  [][\A c \in Cycle : cycle[c].at = "lost" /\ ~Restart =>
       cycle'[c] = cycle[c] /\ \A d \in Cycle \ {c} : cycle'[d] = NoCycle]_vars

LEMMA WedgeStep ==
  ASSUME TypeOK, OneCycle, NEW c \in Cycle, cycle[c].at = "lost",
         [Next]_vars, ~Restart
  PROVE  cycle'[c] = cycle[c] /\ \A d \in Cycle \ {c} : cycle'[d] = NoCycle
<1>1. \A d \in Cycle \ {c} : cycle[d] = NoCycle
  <2>1. cycle[c] # NoCycle
    BY NotNone
  <2> QED BY <2>1 DEF OneCycle
<1>2. isPollingCycleRunning
  <2>1. cycle[c] # NoCycle
    BY NotNone
  <2> QED BY <2>1 DEF OneCycle
<1>3. \A d \in Cycle : cycle[d].at \in {"lost", "none"}
  BY <1>1 DEF NoCycle
<1>4. ASSUME UNCHANGED cycle
      PROVE  cycle'[c] = cycle[c] /\ \A d \in Cycle \ {c} : cycle'[d] = NoCycle
  BY <1>1, <1>4
<1>5. ASSUME NEW left, RunCycle(left) PROVE UNCHANGED cycle
  BY <1>2, <1>5 DEF RunCycle
<1>6. ASSUME \/ \E r \in Request, on \in BOOLEAN : Admit(r, on)
             \/ BootRead
             \/ \E r \in Process : WriteFlag(r) \/ Count(r) \/ StartBasic(r) \/ StartSNGIL(r)
                                   \/ ModeCheck(r) \/ Fail(r)
             \/ ChangeData \/ UNCHANGED vars
      PROVE  UNCHANGED cycle
  BY <1>6, Zenon DEF Admit, BootRead, WriteFlag, Count, StartBasic, StartSNGIL,
     ModeCheck, Fail, ChangeData, vars
<1>7. ASSUME NEW r \in Process, StartMapped(r) PROVE UNCHANGED cycle
  BY <1>5, <1>7 DEF StartMapped
<1>8. ASSUME NEW t \in TimerId, FireCycle(t) PROVE UNCHANGED cycle
  BY <1>5, <1>8 DEF FireCycle
<1>9. ASSUME NEW r \in Process, Stop(r)
      PROVE  cycle'[c] = cycle[c] /\ \A d \in Cycle \ {c} : cycle'[d] = NoCycle
  <2>1. PICK dropped \in SUBSET {d \in Cycle : cycle[d].at = "queued"} :
          cycle' = [d \in Cycle |-> IF d \in dropped THEN [cycle[d] EXCEPT !.at = "lost"]
                                    ELSE cycle[d]]
    BY <1>9 DEF Stop
  <2>2. \A d \in Cycle : cycle'[d] = cycle[d]
    BY <1>3, <2>1
  <2> QED BY <1>1, <2>2
<1>10. ASSUME NEW d \in Cycle,
              \/ DevicesRead(d) \/ SendRead(d) \/ ReadStarts(d) \/ ReadAnswered(d)
              \/ LeaveLoop(d) \/ FinishCycle(d)
       PROVE  FALSE
  BY <1>3, <1>10 DEF DevicesRead, SendRead, ReadStarts, ReadAnswered, LeaveLoop, FinishCycle
<1> QED BY <1>4, <1>6, <1>7, <1>8, <1>9, <1>10, Steps, Zenon

THEOREM LostReadWedges == Safety => WedgeStays
<1>1. TypeOK /\ OneCycle /\ [Next]_vars =>
        [\A c \in Cycle : cycle[c].at = "lost" /\ ~Restart =>
           cycle'[c] = cycle[c] /\ \A d \in Cycle \ {c} : cycle'[d] = NoCycle]_vars
  BY WedgeStep
<1> QED BY <1>1, Typing, CyclesExclude, PTL DEF Safety, WedgeStays

-----------------------------------------------------------------------------
(* The flag.  Once no request has met another, one at most is in progress. *)
OneRequest == \A r, q \in Process : ~Idle(r) /\ ~Idle(q) => r = q

(* What a step does to the history: it forgets at a restart, and when a    *)
(* request that is alone writes the flag.                                  *)
LEMMA PastKept ==
  ASSUME [Next]_vars, ~Restart, \A r \in Process : ~(WriteFlag(r) /\ Alone(r))
  PROVE  past \subseteq past'
<1>1. ASSUME NEW r \in Request, NEW on \in BOOLEAN, Admit(r, on) PROVE past \subseteq past'
  BY <1>1 DEF Admit
<1>2. ASSUME NEW r \in Process, WriteFlag(r) PROVE past \subseteq past'
  BY <1>2 DEF WriteFlag
<1>3. ASSUME NEW r \in Process, Fail(r) PROVE past \subseteq past'
  BY <1>3 DEF Fail
<1>4. ASSUME \/ BootRead
             \/ \E r \in Process : \/ Count(r) \/ StartBasic(r) \/ StartSNGIL(r)
                                   \/ ModeCheck(r) \/ StartMapped(r) \/ Stop(r)
             \/ \E t \in TimerId : FireCycle(t)
             \/ \E c \in Cycle : \/ DevicesRead(c) \/ SendRead(c) \/ ReadStarts(c)
                                 \/ ReadAnswered(c) \/ LeaveLoop(c) \/ FinishCycle(c)
             \/ ChangeData \/ UNCHANGED vars
      PROVE  past' = past
  BY <1>4, Zenon DEF BootRead, Count, StartBasic, StartSNGIL, ModeCheck, StartMapped, Stop,
     FireCycle, DevicesRead, SendRead, ReadStarts, ReadAnswered, LeaveLoop, FinishCycle,
     ChangeData, vars
<1> QED BY <1>1, <1>2, <1>3, <1>4, Steps, Zenon

LEMMA OneRequestStep ==
  ASSUME TypeOK, OneRequest, [Next]_vars, "overlap" \notin past'
  PROVE  OneRequest'
<1>0. ASSUME at' = at PROVE OneRequest'
  BY <1>0 DEF OneRequest, Idle
<1>1. ASSUME NEW r \in Request, NEW on \in BOOLEAN, Admit(r, on) PROVE OneRequest'
  BY <1>1 DEF Admit, Quiet, OneRequest, Idle, TypeOK
<1>2. ASSUME BootRead PROVE OneRequest'
  BY <1>2 DEF BootRead, OneRequest, Idle, TypeOK
<1>3. ASSUME NEW r \in Process,
             \/ WriteFlag(r) \/ Count(r) \/ StartBasic(r) \/ StartSNGIL(r)
             \/ ModeCheck(r) \/ StartMapped(r) \/ Stop(r) \/ Fail(r)
      PROVE  OneRequest'
  <2>1. ~Idle(r)
    BY <1>3 DEF WriteFlag, Count, StartBasic, StartSNGIL, ModeCheck, StartMapped, Stop, Fail, Idle
  <2>2. \E point : at' = [at EXCEPT ![r] = point]
    BY <1>3, Zenon DEF WriteFlag, Count, StartBasic, StartSNGIL, ModeCheck, StartMapped, Stop, Fail
  <2>3. \A q \in Process \ {r} : at'[q] = at[q]
    BY <2>2 DEF TypeOK
  <2> QED BY <2>1, <2>3 DEF OneRequest, Idle
<1>4. ASSUME NEW t \in TimerId, FireCycle(t) PROVE at' = at
  BY <1>4 DEF FireCycle, requestVars
<1>5. ASSUME NEW c \in Cycle, \/ DevicesRead(c) \/ SendRead(c) \/ ReadStarts(c)
                              \/ ReadAnswered(c) \/ LeaveLoop(c) \/ FinishCycle(c)
      PROVE  at' = at
  BY <1>5 DEF DevicesRead, SendRead, ReadStarts, ReadAnswered, LeaveLoop, FinishCycle, requestVars
<1>6. ASSUME ChangeData \/ UNCHANGED vars PROVE at' = at
  BY <1>6 DEF ChangeData, vars, requestVars
<1>7. ASSUME Restart PROVE OneRequest'
  BY <1>7 DEF Restart, BootAt, OneRequest, Idle
<1> QED BY <1>0, <1>1, <1>2, <1>3, <1>4, <1>5, <1>6, <1>7, Steps, Zenon

(* A request that is alone when it writes the flag stays the only one.     *)
LEMMA AloneRequest ==
  ASSUME TypeOK, NEW r \in Process, WriteFlag(r), Alone(r)
  PROVE  /\ OneRequest'
         /\ \A q \in Process \ {r} : at'[q] = "idle"
         /\ pollingEnabled' = wants[r] /\ wants[r] \in BOOLEAN
         /\ at'[r] = IF wants[r] THEN "counting" ELSE "stopping"
<1>1. \A q \in Process \ {r} : at'[q] = "idle"
  BY DEF WriteFlag, Alone, Idle, TypeOK
<1>2. /\ pollingEnabled' = wants[r] /\ wants[r] \in BOOLEAN
      /\ at'[r] = IF wants[r] THEN "counting" ELSE "stopping"
  BY DEF WriteFlag, TypeOK
<1> QED BY <1>1, <1>2 DEF OneRequest, Idle

OnPoint == {"counting", "startBasic", "startSNGIL", "modeCheck", "intervalRead"}

Silent ==
  /\ \A t \in TimerId : timers[t] = "none"
  /\ linkMonitor = FALSE
  /\ isPollingCycleRunning = FALSE \/ stopRequested = TRUE

(* A request that is to start something has written or read ON; and only a *)
(* request that is to stop it stands between OFF and silence.              *)
Silence ==
  /\ \A r \in Process : at[r] \in OnPoint => pollingEnabled = TRUE
  /\ pollingEnabled = FALSE /\ (\A r \in Process : at[r] # "stopping") => Silent

LEMMA SilenceStep ==
  TypeOK /\ OneRequest /\ NoOrphanTimer /\ OneCycle /\ Silence /\ [Next]_vars => Silence'
<1> SUFFICES ASSUME TypeOK, OneRequest, NoOrphanTimer, OneCycle, Silence, [Next]_vars
             PROVE  Silence'
  OBVIOUS
(* A step of a cycle or a timer, which keeps silence.                      *)
<1>0. ASSUME at' = at, pollingEnabled' = pollingEnabled, Silent => Silent'
      PROVE  Silence'
  BY <1>0 DEF Silence
<1>00. ASSUME UNCHANGED <<timerVars, linkMonitor, stopRequested, isPollingCycleRunning>>
       PROVE  Silent <=> Silent'
  BY <1>00 DEF Silent, timerVars
<1>1. ASSUME NEW r \in Request, NEW on \in BOOLEAN, Admit(r, on) PROVE Silence'
  <2>1. at'[r] = "writing" /\ at[r] = "idle" /\ \A q \in Process \ {r} : at'[q] = at[q]
    BY <1>1 DEF Admit, Idle, TypeOK
  <2>2. pollingEnabled' = pollingEnabled /\ (Silent <=> Silent')
    BY <1>1, <1>00 DEF Admit, dbVars
  <2> QED BY <2>1, <2>2 DEF Silence, OnPoint
<1>2. ASSUME BootRead PROVE Silence'
  <2>1. /\ at[boot] = "bootRead" /\ \A q \in Process \ {boot} : at'[q] = at[q]
        /\ at'[boot] = IF pollingEnabled THEN "counting" ELSE "idle"
    BY <1>2 DEF BootRead, TypeOK
  <2>2. pollingEnabled' = pollingEnabled /\ pollingEnabled \in BOOLEAN /\ (Silent <=> Silent')
    BY <1>2, <1>00 DEF BootRead, dbVars, TypeOK
  <2> QED BY <2>1, <2>2 DEF Silence, OnPoint
<1>3. ASSUME NEW r \in Process, WriteFlag(r) PROVE Silence'
  <2>1. \A q \in Process \ {r} : at'[q] = at[q] /\ at[q] = "idle"
    BY <1>3 DEF WriteFlag, OneRequest, Idle, TypeOK
  <2>2. /\ pollingEnabled' = wants[r] /\ wants[r] \in BOOLEAN
        /\ at'[r] = IF wants[r] THEN "counting" ELSE "stopping"
    BY <1>3 DEF WriteFlag, TypeOK
  <2> QED BY <2>1, <2>2 DEF Silence, OnPoint
<1>4. ASSUME NEW r \in Process, Count(r) \/ StartBasic(r) \/ StartSNGIL(r) \/ StartMapped(r)
      PROVE  Silence'
  <2>1. pollingEnabled = TRUE /\ pollingEnabled' = pollingEnabled
    BY <1>4 DEF Count, StartBasic, StartSNGIL, StartMapped, Silence, OnPoint, dbVars
  <2> QED BY <2>1 DEF Silence
<1>5. ASSUME NEW r \in Process, ModeCheck(r) PROVE Silence'
  <2>1. pollingEnabled = TRUE /\ pollingEnabled' = pollingEnabled
    BY <1>5 DEF ModeCheck, Silence, OnPoint, dbVars
  <2> QED BY <2>1 DEF Silence
<1>6. ASSUME NEW r \in Process, Fail(r) PROVE Silence'
  <2>1. /\ at'[r] = "idle" /\ at[r] # "stopping"
        /\ \A q \in Process \ {r} : at'[q] = at[q]
    BY <1>6 DEF Fail, TypeOK
  <2>2. pollingEnabled' = pollingEnabled /\ (Silent <=> Silent')
    BY <1>6, <1>00 DEF Fail, dbVars
  <2> QED BY <2>1, <2>2 DEF Silence, OnPoint
<1>7. ASSUME NEW r \in Process, Stop(r) PROVE Silence'
  <2>1. /\ at'[r] = "idle" /\ \A q \in Process \ {r} : at'[q] = at[q]
        /\ pollingEnabled' = pollingEnabled
    BY <1>7 DEF Stop, TypeOK, dbVars
  <2>2. Silent'
    BY <1>7 DEF Stop, Silent, Cleared, NoOrphanTimer, Live
  <2> QED BY <2>1, <2>2 DEF Silence, OnPoint
<1>8. ASSUME NEW t \in TimerId, FireCycle(t) PROVE Silence'
  <2>1. at' = at /\ pollingEnabled' = pollingEnabled /\ ~Silent
    BY <1>8 DEF FireCycle, requestVars, dbVars, Silent
  <2> QED BY <2>1, <1>0
<1>9. ASSUME NEW c \in Cycle, \/ DevicesRead(c) \/ SendRead(c) \/ ReadStarts(c)
                              \/ ReadAnswered(c) \/ LeaveLoop(c)
      PROVE  Silence'
  <2>1. UNCHANGED <<dbVars, requestVars, timerVars, linkMonitor, stopRequested,
                    isPollingCycleRunning>>
    BY <1>9, Zenon DEF DevicesRead, SendRead, ReadStarts, ReadAnswered, LeaveLoop
  <2> QED BY <2>1, <1>0, <1>00 DEF dbVars, requestVars
<1>10. ASSUME NEW c \in Cycle, FinishCycle(c) PROVE Silence'
  <2>1. isPollingCycleRunning
    <3>1. cycle[c] # NoCycle
      BY <1>10, NotNone DEF FinishCycle
    <3> QED BY <3>1 DEF OneCycle
  <2>2. Silent => Silent'
    <3> SUFFICES ASSUME Silent PROVE Silent'
      OBVIOUS
    <3>1. stopRequested
      BY <2>1 DEF Silent
    <3>2. timers' = timers /\ linkMonitor' = linkMonitor /\ isPollingCycleRunning' = FALSE
      BY <1>10, <3>1 DEF FinishCycle, ScheduleNext
    <3> QED BY <3>2 DEF Silent
  <2> QED BY <1>10, <2>2, <1>0 DEF FinishCycle, dbVars, requestVars
<1>11. ASSUME ChangeData PROVE Silence'
  BY <1>11, <1>0, <1>00 DEF ChangeData, requestVars
<1>12. ASSUME Restart PROVE Silence'
  <2>1. Silent'
    BY <1>12 DEF Restart, Silent, BootTimers
  <2>2. \A r \in Process : at'[r] \in {"bootRead", "idle"}
    BY <1>12 DEF Restart, BootAt
  <2> QED BY <2>1, <2>2 DEF Silence, OnPoint
<1>13. ASSUME UNCHANGED vars PROVE Silence'
  BY <1>13, <1>0, <1>00 DEF vars, dbVars, requestVars
<1> QED
  BY <1>1, <1>2, <1>3, <1>4, <1>5, <1>6, <1>7, <1>8, <1>9, <1>10, <1>11, <1>12, <1>13,
     Steps, Zenon

LEMMA AloneSilence ==
  ASSUME TypeOK, NEW r \in Process, WriteFlag(r), Alone(r)
  PROVE  Silence'
BY AloneRequest DEF Silence, OnPoint

LEMMA RestartSilence ==
  ASSUME Restart
  PROVE  OneRequest' /\ Silence'
<1>1. \A r \in Process : at'[r] = IF r = boot THEN "bootRead" ELSE "idle"
  BY DEF Restart, BootAt
<1>2. Silent'
  BY DEF Restart, Silent, BootTimers
<1> QED BY <1>1, <1>2 DEF OneRequest, Idle, Silence, OnPoint

(* No request has met another since one wrote the flag alone.              *)
Orderly == "overlap" \notin past => OneRequest /\ Silence

LEMMA OrderlyStep ==
  TypeOK /\ NoOrphanTimer /\ OneCycle /\ Orderly /\ [Next]_vars => Orderly'
<1> SUFFICES ASSUME TypeOK, NoOrphanTimer, OneCycle, Orderly, [Next]_vars,
                    "overlap" \notin past'
             PROVE  OneRequest' /\ Silence'
  BY DEF Orderly
<1>1. CASE Restart
  BY <1>1, RestartSilence
<1>2. CASE \E r \in Process : WriteFlag(r) /\ Alone(r)
  BY <1>2, AloneRequest, AloneSilence
<1>3. CASE ~Restart /\ \A r \in Process : ~(WriteFlag(r) /\ Alone(r))
  <2>1. "overlap" \notin past
    BY <1>3, PastKept
  <2>2. OneRequest /\ Silence
    BY <2>1 DEF Orderly
  <2> QED BY <2>2, OneRequestStep, SilenceStep
<1> QED BY <1>1, <1>2, <1>3

LEMMA OrderlyInit == Init => Orderly
<1> SUFFICES ASSUME Init PROVE OneRequest /\ Silence
  BY DEF Orderly
<1>1. \A r \in Process : at[r] = IF r = boot THEN "bootRead" ELSE "idle"
  BY DEF Init, BootAt
<1>2. Silent
  BY DEF Init, BootTimers, Silent
<1> QED BY <1>1, <1>2 DEF OneRequest, Silence, Idle, OnPoint

LEMMA OrderlyOff == TypeOK /\ Orderly => OffMeansSilent
<1> SUFFICES ASSUME TypeOK, Orderly, Quiet, "overlap" \notin past, ~pollingEnabled
             PROVE  /\ \A t \in TimerId : ~Live(t)
                    /\ ~linkMonitor
                    /\ isPollingCycleRunning => stopRequested
  BY DEF OffMeansSilent
<1>1. pollingEnabled = FALSE /\ Silence
  BY DEF TypeOK, Orderly
<1>2. Silent
  BY <1>1 DEF Silence, Quiet, Idle
<1> QED BY <1>2 DEF Silent, Live

-----------------------------------------------------------------------------
(* ON means polling while, besides, no database call failed.               *)
Polls == \/ \E t \in TimerId : timers[t] # "none"
         \/ isPollingCycleRunning = TRUE /\ stopRequested = FALSE

OnTheWay(r) == at[r] \notin {"idle", "writing"}

Polling ==
  /\ \A r \in Process : at[r] = "stopping" => pollingEnabled = FALSE
  /\ pollingEnabled = FALSE \/ (\E r \in Process : OnTheWay(r)) \/ Polls

(* A cycle timer is never left over from before a stop: none fires in vain. *)
NoneInVain == \A t \in TimerId : timers[t] = "cycle" => stopRequested = FALSE

LEMMA SetTimerPolls ==
  ASSUME NEW left \in Timers, NEW kind \in {"cycle", "essential"}, SetTimer(left, kind)
  PROVE  /\ \E t \in TimerId : timers'[t] # "none"
         /\ \A t \in TimerId : timers'[t] = left[t] \/ timers'[t] = kind
  BY DEF SetTimer, Timers

LEMMA ScheduleNextPolls ==
  ASSUME TypeOK, NEW left \in Timers, ScheduleNext(left, FALSE)
  PROVE  \E t \in TimerId : timers'[t] # "none"
<1> DEFINE cleared == [t \in TimerId |-> IF t = singlePollingTimer THEN "none" ELSE left[t]]
<1>1. cleared \in Timers
  BY DEF Timers
<1>2. SetTimer(cleared, "cycle")
  BY DEF ScheduleNext
<1> QED BY <1>1, <1>2, SetTimerPolls

LEMMA RunCyclePolls ==
  ASSUME TypeOK, NEW left \in Timers, RunCycle(left), stopRequested' = FALSE
  PROVE  Polls'
<1>1. CASE isPollingCycleRunning
  BY <1>1, ScheduleNextPolls DEF RunCycle, Polls
<1>2. CASE ~isPollingCycleRunning
  BY <1>2 DEF RunCycle, Polls
<1> QED BY <1>1, <1>2

(* A timer that ScheduleNext or RunCycle sets, with polling not stopped.    *)
LEMMA RunCycleVain ==
  ASSUME stopRequested' = FALSE
  PROVE  NoneInVain'
  BY DEF NoneInVain

LEMMA VainStep == TypeOK /\ NoOrphanTimer /\ NoneInVain /\ [Next]_vars => NoneInVain'
<1> SUFFICES ASSUME TypeOK, NoOrphanTimer, NoneInVain, [Next]_vars PROVE NoneInVain'
  OBVIOUS
<1>0. /\ timers \in Timers /\ Cleared \in Timers /\ \A t \in TimerId : Cleared[t] = "none"
  BY DEF TypeOK, Timers, NoOrphanTimer, Live, Cleared
<1>00. ASSUME UNCHANGED <<timers, stopRequested>> PROVE NoneInVain'
  BY <1>00 DEF NoneInVain
<1>1. ASSUME \/ \E r \in Request, on \in BOOLEAN : Admit(r, on)
             \/ BootRead
             \/ \E r \in Process : WriteFlag(r) \/ Count(r) \/ ModeCheck(r) \/ Fail(r)
             \/ \E c \in Cycle : DevicesRead(c) \/ SendRead(c) \/ ReadStarts(c)
                                 \/ ReadAnswered(c) \/ LeaveLoop(c)
             \/ ChangeData
      PROVE  NoneInVain'
  <2>1. UNCHANGED <<timers, stopRequested>>
    BY <1>1, Zenon DEF Admit, BootRead, WriteFlag, Count, ModeCheck, Fail, DevicesRead,
       SendRead, ReadStarts, ReadAnswered, LeaveLoop, ChangeData, timerVars
  <2> QED BY <2>1, <1>00
<1>2. ASSUME NEW r \in Process, StartSNGIL(r) \/ StartMapped(r) PROVE NoneInVain'
  <2>1. stopRequested' = FALSE
    BY <1>2 DEF StartSNGIL, StartMapped
  <2> QED BY <2>1, RunCycleVain
<1>3. ASSUME NEW r \in Process, StartBasic(r) PROVE NoneInVain'
  <2>1. SetTimer(Cleared, "essential")
    BY <1>3 DEF StartBasic
  <2>2. \A t \in TimerId : timers'[t] = Cleared[t] \/ timers'[t] = "essential"
    BY <1>0, <2>1, SetTimerPolls
  <2> QED BY <1>0, <2>2 DEF NoneInVain
<1>4. ASSUME NEW r \in Process, Stop(r) PROVE NoneInVain'
  BY <1>0, <1>4 DEF Stop, NoneInVain
<1>5. ASSUME NEW t \in TimerId, FireCycle(t) PROVE NoneInVain'
  <2>1. stopRequested = FALSE /\ stopRequested' = stopRequested
    BY <1>5 DEF FireCycle, NoneInVain
  <2> QED BY <2>1, RunCycleVain
<1>6. ASSUME NEW c \in Cycle, FinishCycle(c) PROVE NoneInVain'
  <2>1. stopRequested' = stopRequested /\ ScheduleNext(timers, stopRequested)
    BY <1>6 DEF FinishCycle
  <2>2. CASE stopRequested
    <3>1. timers' = timers
      BY <2>1, <2>2 DEF ScheduleNext
    <3> QED BY <2>1, <3>1, <1>00
  <2>3. CASE ~stopRequested
    BY <2>1, <2>3, RunCycleVain DEF TypeOK
  <2> QED BY <2>2, <2>3
<1>7. ASSUME Restart PROVE NoneInVain'
  BY <1>7 DEF Restart, BootTimers, NoneInVain
<1>8. ASSUME UNCHANGED vars PROVE NoneInVain'
  BY <1>8, <1>00 DEF vars, timerVars
<1> QED BY <1>1, <1>2, <1>3, <1>4, <1>5, <1>6, <1>7, <1>8, Steps, Zenon

LEMMA RestartPolling ==
  ASSUME Restart
  PROVE  Polling'
<1>1. at'[boot] = "bootRead" /\ \A r \in Process : at'[r] # "stopping"
  BY DEF Restart, BootAt
<1> QED BY <1>1 DEF Polling, OnTheWay

LEMMA AlonePolling ==
  ASSUME TypeOK, NEW r \in Process, WriteFlag(r), Alone(r)
  PROVE  Polling'
BY AloneRequest DEF Polling, OnTheWay

LEMMA PollingStep ==
  ASSUME TypeOK, OneRequest, NoOrphanTimer, Silence, NoneInVain, Polling, [Next]_vars,
         past' = {}
  PROVE  Polling'
<1>0. /\ timers \in Timers /\ Cleared \in Timers /\ \A t \in TimerId : Cleared[t] = "none"
  BY DEF TypeOK, Timers, NoOrphanTimer, Live, Cleared
(* A step that moves a request and leaves what polls alone.                 *)
<1>00. ASSUME NEW r \in Process, \A q \in Process \ {r} : at'[q] = at[q],
              UNCHANGED <<timers, stopRequested, isPollingCycleRunning, pollingEnabled>>,
              at'[r] # "stopping",
              OnTheWay(r)' \/ (~OnTheWay(r) /\ at'[r] \in {"idle", "writing"})
       PROVE  Polling'
  BY <1>00 DEF Polling, OnTheWay, Polls
<1>000. ASSUME at' = at, pollingEnabled' = pollingEnabled, Polls => Polls'
        PROVE  Polling'
  BY <1>000 DEF Polling, OnTheWay
<1>1. ASSUME NEW r \in Request, NEW on \in BOOLEAN, Admit(r, on) PROVE Polling'
  <2>1. at'[r] = "writing" /\ at[r] = "idle" /\ \A q \in Process \ {r} : at'[q] = at[q]
    BY <1>1 DEF Admit, Idle, TypeOK
  <2> QED BY <1>1, <2>1, <1>00 DEF Admit, dbVars, timerVars, OnTheWay
<1>2. ASSUME BootRead PROVE Polling'
  <2>1. /\ at[boot] = "bootRead" /\ \A q \in Process \ {boot} : at'[q] = at[q]
        /\ at'[boot] = IF pollingEnabled THEN "counting" ELSE "idle"
    BY <1>2 DEF BootRead, TypeOK
  <2>2. UNCHANGED <<timers, stopRequested, isPollingCycleRunning, pollingEnabled>>
    BY <1>2 DEF BootRead, timerVars, dbVars
  <2>3. CASE pollingEnabled
    BY <2>1, <2>2, <2>3, <1>00 DEF OnTheWay
  <2>4. CASE ~pollingEnabled
    BY <2>1, <2>2, <2>4 DEF Polling, Polls, TypeOK
  <2> QED BY <2>3, <2>4
<1>3. ASSUME NEW r \in Process, WriteFlag(r) PROVE Polling'
  <2>1. \A q \in Process \ {r} : at'[q] = at[q] /\ at[q] = "idle"
    BY <1>3 DEF WriteFlag, OneRequest, Idle, TypeOK
  <2>2. /\ pollingEnabled' = wants[r] /\ wants[r] \in BOOLEAN
        /\ at'[r] = IF wants[r] THEN "counting" ELSE "stopping"
    BY <1>3 DEF WriteFlag, TypeOK
  <2> QED BY <2>1, <2>2 DEF Polling, OnTheWay
<1>4. ASSUME NEW r \in Process, Count(r) PROVE Polling'
  <2>1. /\ at'[r] \in {"startSNGIL", "startBasic"}
        /\ \A q \in Process \ {r} : at'[q] = at[q]
    BY <1>4 DEF Count, TypeOK
  <2> QED BY <1>4, <2>1, <1>00 DEF Count, dbVars, timerVars, OnTheWay
<1>5. ASSUME NEW r \in Process, StartBasic(r) PROVE Polling'
  <2>1. \A q \in Process : at'[q] # "stopping"
    <3>1. \A q \in Process \ {r} : at'[q] = at[q] /\ at[q] = "idle"
      BY <1>5 DEF StartBasic, OneRequest, Idle, TypeOK
    <3> QED BY <1>5, <3>1 DEF StartBasic, TypeOK
  <2>2. SetTimer(Cleared, "essential")
    BY <1>5 DEF StartBasic
  <2>3. \E t \in TimerId : timers'[t] # "none"
    BY <1>0, <2>2, SetTimerPolls
  <2> QED BY <2>1, <2>3 DEF Polling, Polls
<1>6. ASSUME NEW r \in Process, StartSNGIL(r) PROVE Polling'
  <2>1. /\ at'[r] = "modeCheck" /\ \A q \in Process \ {r} : at'[q] = at[q]
        /\ pollingEnabled' = pollingEnabled
    BY <1>6 DEF StartSNGIL, TypeOK, dbVars
  <2> QED BY <2>1 DEF Polling, OnTheWay
<1>7. ASSUME NEW r \in Process, ModeCheck(r) PROVE Polling'
  <2>1. pollingEnabled = TRUE
    BY <1>7 DEF ModeCheck, Silence, OnPoint
  <2>2. /\ at'[r] = "intervalRead" /\ \A q \in Process \ {r} : at'[q] = at[q]
    BY <1>7, <2>1 DEF ModeCheck, TypeOK
  <2> QED BY <1>7, <2>2, <1>00 DEF ModeCheck, dbVars, timerVars, OnTheWay
<1>8. ASSUME NEW r \in Process, StartMapped(r) PROVE Polling'
  <2>1. \A q \in Process : at'[q] # "stopping"
    <3>1. \A q \in Process \ {r} : at'[q] = at[q] /\ at[q] = "idle"
      BY <1>8 DEF StartMapped, OneRequest, Idle, TypeOK
    <3> QED BY <1>8, <3>1 DEF StartMapped, TypeOK
  <2>2. stopRequested' = FALSE /\ RunCycle(Cleared)
    BY <1>8 DEF StartMapped
  <2>3. Polls'
    BY <1>0, <2>2, RunCyclePolls
  <2> QED BY <2>1, <2>2, <2>3 DEF Polling
<1>9. ASSUME NEW r \in Process, Stop(r) PROVE Polling'
  <2>1. pollingEnabled = FALSE /\ pollingEnabled' = pollingEnabled
    BY <1>9 DEF Stop, Polling, dbVars
  <2> QED BY <1>9, <2>1 DEF Polling, Stop, TypeOK
<1>10. ASSUME NEW t \in TimerId, FireCycle(t) PROVE Polling'
  <2>1. stopRequested = FALSE /\ stopRequested' = stopRequested
    BY <1>10 DEF FireCycle, NoneInVain
  <2>2. /\ [timers EXCEPT ![t] = "none"] \in Timers
        /\ RunCycle([timers EXCEPT ![t] = "none"])
    BY <1>0, <1>10, <2>1 DEF FireCycle, Timers
  <2>3. Polls'
    BY <2>1, <2>2, RunCyclePolls
  <2> QED BY <1>10, <2>1, <2>3, <1>000 DEF FireCycle, dbVars, requestVars
<1>11. ASSUME NEW c \in Cycle, \/ DevicesRead(c) \/ SendRead(c) \/ ReadStarts(c)
                               \/ ReadAnswered(c) \/ LeaveLoop(c)
       PROVE  Polling'
  <2>1. UNCHANGED <<dbVars, requestVars, timerVars, stopRequested, isPollingCycleRunning>>
    BY <1>11, Zenon DEF DevicesRead, SendRead, ReadStarts, ReadAnswered, LeaveLoop
  <2> QED BY <2>1, <1>000 DEF dbVars, requestVars, timerVars, Polls, Polling
<1>12. ASSUME NEW c \in Cycle, FinishCycle(c) PROVE Polling'
  <2>1. at' = at /\ UNCHANGED <<pollingEnabled, stopRequested>> /\ ScheduleNext(timers, stopRequested)
    BY <1>12 DEF FinishCycle, dbVars, requestVars
  <2>2. CASE stopRequested
    <3>1. timers' = timers
      BY <2>1, <2>2 DEF ScheduleNext
    <3> QED BY <2>1, <2>2, <3>1, <1>000 DEF Polls, Polling
  <2>3. CASE ~stopRequested
    <3>1. stopRequested = FALSE
      BY <2>3 DEF TypeOK
    <3>2. \E t \in TimerId : timers'[t] # "none"
      BY <1>0, <2>1, <3>1, ScheduleNextPolls
    <3> QED BY <2>1, <3>1, <3>2, <1>000 DEF Polls
  <2> QED BY <2>2, <2>3
<1>13. ASSUME ChangeData \/ UNCHANGED vars PROVE Polling'
  BY <1>13, <1>000 DEF ChangeData, vars, dbVars, requestVars, timerVars, Polls, Polling
<1>14. ASSUME Restart PROVE Polling'
  BY <1>14, RestartPolling
<1>15. ASSUME NEW r \in Process, Fail(r) PROVE Polling'
  BY <1>15 DEF Fail
<1> QED
  BY <1>1, <1>2, <1>3, <1>4, <1>5, <1>6, <1>7, <1>8, <1>9, <1>10, <1>11, <1>12, <1>13,
     <1>14, <1>15, Steps, Zenon

(* And no database call failed either.                                     *)
Unfailing == past = {} => Polling

LEMMA UnfailingStep ==
  TypeOK /\ NoOrphanTimer /\ Orderly /\ NoneInVain /\ Unfailing /\ [Next]_vars => Unfailing'
<1> SUFFICES ASSUME TypeOK, NoOrphanTimer, Orderly, NoneInVain, Unfailing, [Next]_vars,
                    past' = {}
             PROVE  Polling'
  BY DEF Unfailing
<1>1. CASE Restart
  BY <1>1, RestartPolling
<1>2. CASE \E r \in Process : WriteFlag(r) /\ Alone(r)
  BY <1>2, AlonePolling
<1>3. CASE ~Restart /\ \A r \in Process : ~(WriteFlag(r) /\ Alone(r))
  <2>1. past = {}
    BY <1>3, PastKept
  <2>2. OneRequest /\ Silence /\ Polling
    BY <2>1 DEF Orderly, Unfailing
  <2> QED BY <2>2, PollingStep
<1> QED BY <1>1, <1>2, <1>3

(* The flag and the poller agree when no request is in progress and the     *)
(* last that wrote the flag, or the start-up, met no other: OFF means that  *)
(* nothing polls and nothing will; ON, unless a database call failed, that  *)
(* a timer or a cycle polls.                                                *)
THEOREM FlagObeyed == Safety => []FlagIsObeyed
<1>1. Init => NoneInVain /\ Unfailing
  <2> SUFFICES ASSUME Init PROVE NoneInVain /\ Polling
    BY DEF Unfailing
  <2>1. at[boot] = "bootRead" /\ \A r \in Process : at[r] # "stopping"
    BY DEF Init, BootAt
  <2> QED BY <2>1 DEF Init, BootTimers, NoneInVain, Polling, OnTheWay
<1>2. TypeOK /\ Unfailing => OnMeansPolling
  <2> SUFFICES ASSUME TypeOK, Unfailing, Quiet, past = {}, pollingEnabled
               PROVE  \/ \E t \in TimerId : Live(t)
                      \/ isPollingCycleRunning /\ ~stopRequested
    BY DEF OnMeansPolling
  <2>1. pollingEnabled # FALSE /\ \A r \in Process : ~OnTheWay(r)
    BY DEF TypeOK, Quiet, Idle, OnTheWay
  <2>2. Polls
    BY <2>1 DEF Polling, Unfailing
  <2> QED BY <2>2 DEF Polls, Live
<1>3. OffMeansSilent /\ OnMeansPolling => FlagIsObeyed
  BY DEF FlagIsObeyed
<1> QED BY <1>1, <1>2, <1>3, OrderlyInit, OrderlyStep, OrderlyOff, VainStep, UnfailingStep,
           Typing, NoTimerLeftBehind, CyclesExclude, PTL DEF Safety

=============================================================================
