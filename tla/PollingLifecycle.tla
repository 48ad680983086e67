-------------------------- MODULE PollingLifecycle --------------------------
(***************************************************************************)
(* Turning the Modbus polling on and off: applyPollingEnabled              *)
(* (PollingControlService.ts), the start-up path of ServerInitializer.ts,  *)
(* and the timers and cycles of UnifiedModbusPollerService.ts.  Requests   *)
(* and cycles are asynchronous functions: an action is the stretch from    *)
(* one await to the next, and everything may interleave between actions.   *)
(*                                                                         *)
(* The queue is seen from outside, as CommandChannel promises it: a read   *)
(* of a cycle waits, runs, is answered, or is dropped by a clear, after    *)
(* which its await never returns.                                          *)
(***************************************************************************)
EXTENDS Naturals, FiniteSets

CONSTANTS Request,      \* operators toggling the polling, each again and again
          boot,         \* the start-up path, run once per server start
          TimerId,      \* a pool of timer objects
          NoTimer,      \* singlePollingTimer = null
          Cycle,        \* a pool of invocations of runMappedPollingCycle
          MaxReads      \* bound on the reads one cycle sends to the queue

ASSUME PollingAssumption ==
  /\ boot \notin Request
  /\ NoTimer \notin TimerId
  /\ MaxReads \in Nat

Process == Request \cup {boot}

VARIABLES pollingEnabled,       \* database: runtime.pollingEnabled
          hasData,              \* database: the Data collection is not empty
          at,                   \* where each request is
          wants,                \* the value a request was sent with
          timers,               \* what each timer of the event loop will run
          singlePollingTimer,
          linkMonitor,          \* linkMonitorTimer is running
          stopRequested,
          isPollingCycleRunning,
          cycle,                \* where each invocation is, and its reads left
          past                  \* history: "overlap" or "failure" of requests

dbVars == <<pollingEnabled, hasData>>
requestVars == <<at, wants>>
timerVars == <<timers, singlePollingTimer>>
pollerVars == <<timerVars, linkMonitor, stopRequested, isPollingCycleRunning, cycle>>
vars == <<dbVars, requestVars, pollerVars, past>>

RequestPoint == {"idle", "bootRead", "writing", "stopping", "counting",
                 "startBasic", "startSNGIL", "modeCheck", "intervalRead"}
CyclePoint == {"none", "devices", "poll", "queued", "running", "lost", "sync"}

TypeOK ==
  /\ pollingEnabled \in BOOLEAN /\ hasData \in BOOLEAN
  /\ at \in [Process -> RequestPoint]
  /\ wants \in [Process -> BOOLEAN]
  /\ timers \in [TimerId -> {"none", "cycle", "essential"}]
  /\ singlePollingTimer \in TimerId \cup {NoTimer}
  /\ linkMonitor \in BOOLEAN /\ stopRequested \in BOOLEAN
  /\ isPollingCycleRunning \in BOOLEAN
  /\ cycle \in [Cycle -> [at : CyclePoint, left : 0..MaxReads]]
  /\ past \subseteq {"overlap", "failure"}

NoCycle == [at |-> "none", left |-> 0]

(* A server process that has just started. *)
BootAt == [r \in Process |-> IF r = boot THEN "bootRead" ELSE "idle"]
BootTimers == [t \in TimerId |-> "none"]
BootCycle == [c \in Cycle |-> NoCycle]

Init ==
  /\ pollingEnabled \in BOOLEAN /\ hasData \in BOOLEAN
  /\ at = BootAt /\ wants = [r \in Process |-> TRUE]
  /\ timers = BootTimers /\ singlePollingTimer = NoTimer
  /\ linkMonitor = FALSE /\ stopRequested = FALSE
  /\ isPollingCycleRunning = FALSE /\ cycle = BootCycle
  /\ past = {}

Live(t) == timers[t] # "none"
Idle(r) == at[r] = "idle"
Quiet == \A r \in Process : Idle(r)
Alone(r) == \A q \in Process \ {r} : Idle(q)

-----------------------------------------------------------------------------
(* Timers and cycles of UnifiedModbusPollerService.  A definition whose      *)
(* comment starts with "Defect" is not part of the model: it is a plausible *)
(* mistake in a definition after it.                                        *)

(* clearTimeout(this.singlePollingTimer), as a value of timers. *)
Cleared == [t \in TimerId |-> IF t = singlePollingTimer THEN "none" ELSE timers[t]]

(* this.singlePollingTimer = setTimeout(...) or setInterval(...): a fresh    *)
(* timer object, on the timers left by the statement before.                *)
SetTimer(left, kind) ==
  \E t \in TimerId :
    /\ left[t] = "none" /\ t # singlePollingTimer
    /\ timers' = [left EXCEPT ![t] = kind]
    /\ singlePollingTimer' = t

(* Defect: the timer is replaced without being cleared. *)
ScheduleOver(left, stop) ==
  IF stop THEN timers' = left /\ UNCHANGED singlePollingTimer
  ELSE SetTimer(left, "cycle")

(* scheduleNextMappedPollingCycle *)
ScheduleNext(left, stop) ==
  IF stop THEN timers' = left /\ UNCHANGED singlePollingTimer
  ELSE SetTimer([t \in TimerId |-> IF t = singlePollingTimer THEN "none" ELSE left[t]],
                "cycle")

(* Defect: the early return on a running cycle is inside the try, so its    *)
(* finally block resets the flag of the other invocation.                   *)
RunCycleResetting(left) ==
  IF isPollingCycleRunning
  THEN /\ ScheduleNext(left, FALSE)
       /\ isPollingCycleRunning' = FALSE
       /\ UNCHANGED cycle
  ELSE /\ isPollingCycleRunning' = TRUE
       /\ \E c \in Cycle :
            /\ cycle[c] = NoCycle
            /\ cycle' = [cycle EXCEPT ![c] = [at |-> "devices", left |-> MaxReads]]
       /\ timers' = left /\ UNCHANGED singlePollingTimer

(* runMappedPollingCycle, not stopped, up to its first await. *)
RunCycle(left) ==
  IF isPollingCycleRunning
  THEN /\ ScheduleNext(left, FALSE)
       /\ UNCHANGED <<isPollingCycleRunning, cycle>>
  ELSE /\ isPollingCycleRunning' = TRUE
       /\ \E c \in Cycle :
            /\ cycle[c] = NoCycle
            /\ cycle' = [cycle EXCEPT ![c] = [at |-> "devices", left |-> MaxReads]]
       /\ timers' = left /\ UNCHANGED singlePollingTimer

(* The one-shot timer of the mapped polling fires. *)
FireCycle(t) ==
  /\ timers[t] = "cycle"
  /\ IF stopRequested
     THEN /\ timers' = [timers EXCEPT ![t] = "none"]
          /\ UNCHANGED <<singlePollingTimer, isPollingCycleRunning, cycle>>
     ELSE RunCycle([timers EXCEPT ![t] = "none"])
  /\ UNCHANGED <<dbVars, requestVars, linkMonitor, stopRequested, past>>

Goto(c, point) == cycle' = [cycle EXCEPT ![c].at = point]

(* getRegisteredDevicesWithCache returned: poll them, or skip this cycle.   *)
DevicesRead(c) ==
  /\ cycle[c].at = "devices"
  /\ \E empty \in BOOLEAN :
       Goto(c, IF empty \/ stopRequested THEN "sync" ELSE "poll")
  /\ UNCHANGED <<dbVars, requestVars, timerVars, linkMonitor, stopRequested,
                 isPollingCycleRunning, past>>

(* Defect: the loop over the reads runs one too far. *)
SendReadPastEnd(c) ==
  /\ cycle[c].at = "poll"
  /\ cycle' = [cycle EXCEPT ![c] = [at |-> "queued", left |-> @.left - 1]]
  /\ UNCHANGED <<dbVars, requestVars, timerVars, linkMonitor, stopRequested,
                 isPollingCycleRunning, past>>

(* The next low-priority read.  stopRequested is looked at before a client  *)
(* and before a device, not between the reads of one bulk.                  *)
SendRead(c) ==
  /\ cycle[c].at = "poll" /\ cycle[c].left > 0
  /\ stopRequested => cycle[c].left < MaxReads
  /\ cycle' = [cycle EXCEPT ![c] = [at |-> "queued", left |-> @.left - 1]]
  /\ UNCHANGED <<dbVars, requestVars, timerVars, linkMonitor, stopRequested,
                 isPollingCycleRunning, past>>

(* The queue puts the read on the line, and answers it or rejects it. *)
ReadStarts(c) ==
  /\ cycle[c].at = "queued"
  /\ Goto(c, "running")
  /\ UNCHANGED <<dbVars, requestVars, timerVars, linkMonitor, stopRequested,
                 isPollingCycleRunning, past>>

ReadAnswered(c) ==
  /\ cycle[c].at = "running"
  /\ Goto(c, "poll")
  /\ UNCHANGED <<dbVars, requestVars, timerVars, linkMonitor, stopRequested,
                 isPollingCycleRunning, past>>

(* No read is left, or a stop was seen: what was read is still stored.      *)
LeaveLoop(c) ==
  /\ cycle[c].at = "poll"
  /\ cycle[c].left = 0 \/ stopRequested
  /\ Goto(c, "sync")
  /\ UNCHANGED <<dbVars, requestVars, timerVars, linkMonitor, stopRequested,
                 isPollingCycleRunning, past>>

(* Defect: the finally block forgets isPollingCycleRunning. *)
FinishCycleKeepingFlag(c) ==
  /\ cycle[c].at = "sync"
  /\ cycle' = [cycle EXCEPT ![c] = NoCycle]
  /\ ScheduleNext(timers, stopRequested)
  /\ UNCHANGED <<dbVars, requestVars, linkMonitor, stopRequested,
                 isPollingCycleRunning, past>>

(* The finally block of runMappedPollingCycle. *)
FinishCycle(c) ==
  /\ cycle[c].at = "sync"
  /\ cycle' = [cycle EXCEPT ![c] = NoCycle]
  /\ isPollingCycleRunning' = FALSE
  /\ ScheduleNext(timers, stopRequested)
  /\ UNCHANGED <<dbVars, requestVars, linkMonitor, stopRequested, past>>

-----------------------------------------------------------------------------
(* Requests. *)

(* POST /system/polling, accepted: no Data apply holds the lock.  A refused  *)
(* request changes nothing.  RuntimeSettings has the lock.                  *)
Admit(r, on) ==
  /\ Idle(r)
  /\ at' = [at EXCEPT ![r] = "writing"]
  /\ wants' = [wants EXCEPT ![r] = on]
  /\ past' = IF Quiet THEN past ELSE past \cup {"overlap"}
  /\ UNCHANGED <<dbVars, pollerVars>>

(* updatePollingState has written the flag.  A request that is alone from   *)
(* here on settles the poller, whatever has been before.                    *)
WriteFlag(r) ==
  /\ at[r] = "writing"
  /\ pollingEnabled' = wants[r]
  /\ at' = [at EXCEPT ![r] = IF wants[r] THEN "counting" ELSE "stopping"]
  /\ past' = IF Alone(r) THEN {} ELSE past
  /\ UNCHANGED <<hasData, wants, pollerVars>>

(* startDDCPolling reads the flag. *)
BootRead ==
  /\ at[boot] = "bootRead"
  /\ at' = [at EXCEPT ![boot] = IF pollingEnabled THEN "counting" ELSE "idle"]
  /\ UNCHANGED <<dbVars, wants, pollerVars, past>>

(* Data.countDocuments *)
Count(r) ==
  /\ at[r] = "counting"
  /\ at' = [at EXCEPT ![r] = IF hasData THEN "startSNGIL" ELSE "startBasic"]
  /\ UNCHANGED <<dbVars, wants, pollerVars, past>>

(* startBasicPolling, startEssentialPolling: an interval takes the place of *)
(* the timer; stopRequested stays as it is.                                 *)
StartBasic(r) ==
  /\ at[r] = "startBasic"
  /\ SetTimer(Cleared, "essential")
  /\ at' = [at EXCEPT ![r] = "idle"]
  /\ UNCHANGED <<dbVars, wants, linkMonitor, stopRequested,
                 isPollingCycleRunning, cycle, past>>

(* startAllSNGILPolling up to isSystemModeAuto. *)
StartSNGIL(r) ==
  /\ at[r] = "startSNGIL"
  /\ stopRequested' = FALSE
  /\ at' = [at EXCEPT ![r] = "modeCheck"]
  /\ UNCHANGED <<dbVars, wants, timerVars, linkMonitor, isPollingCycleRunning,
                 cycle, past>>

(* isSystemModeAuto: the flag is read again. *)
ModeCheck(r) ==
  /\ at[r] = "modeCheck"
  /\ at' = [at EXCEPT ![r] = IF pollingEnabled THEN "intervalRead" ELSE "idle"]
  /\ UNCHANGED <<dbVars, wants, pollerVars, past>>

(* startMappedPollingWithTimer, after getPollingInterval. *)
StartMapped(r) ==
  /\ at[r] = "intervalRead"
  /\ stopRequested' = FALSE
  /\ linkMonitor' = TRUE
  /\ RunCycle(Cleared)
  /\ at' = [at EXCEPT ![r] = "idle"]
  /\ UNCHANGED <<dbVars, wants, past>>

(* Defect: the poller is stopped without stopRequested. *)
StopTimersOnly(r) ==
  /\ at[r] = "stopping"
  /\ linkMonitor' = FALSE
  /\ timers' = Cleared
  /\ singlePollingTimer' = NoTimer
  /\ at' = [at EXCEPT ![r] = "idle"]
  /\ UNCHANGED <<dbVars, wants, stopRequested, isPollingCycleRunning, cycle, past>>

(* stopAllPolling, then clearQueue: a waiting read may be dropped. *)
Stop(r) ==
  /\ at[r] = "stopping"
  /\ stopRequested' = TRUE
  /\ linkMonitor' = FALSE
  /\ timers' = Cleared
  /\ singlePollingTimer' = NoTimer
  /\ \E dropped \in SUBSET {c \in Cycle : cycle[c].at = "queued"} :
       cycle' = [c \in Cycle |-> IF c \in dropped THEN [cycle[c] EXCEPT !.at = "lost"]
                                                  ELSE cycle[c]]
  /\ at' = [at EXCEPT ![r] = "idle"]
  /\ UNCHANGED <<dbVars, wants, isPollingCycleRunning, past>>

(* A database call fails: the request ends with an error, or, at the mode   *)
(* check, as if polling were off.                                           *)
Fail(r) ==
  /\ at[r] \in {"bootRead", "writing", "counting", "modeCheck"}
  /\ at' = [at EXCEPT ![r] = "idle"]
  /\ past' = past \cup {"failure"}
  /\ UNCHANGED <<dbVars, wants, pollerVars>>

-----------------------------------------------------------------------------
(* Devices are registered or removed. *)
ChangeData ==
  /\ hasData' = ~hasData
  /\ UNCHANGED <<pollingEnabled, requestVars, pollerVars, past>>

(* The server process ends at any point and starts again on its database.   *)
Restart ==
  /\ at' = BootAt /\ wants' = [r \in Process |-> TRUE]
  /\ timers' = BootTimers /\ singlePollingTimer' = NoTimer
  /\ linkMonitor' = FALSE /\ stopRequested' = FALSE
  /\ isPollingCycleRunning' = FALSE /\ cycle' = BootCycle
  /\ past' = {}
  /\ UNCHANGED dbVars

RequestStep(r) ==
  \/ WriteFlag(r) \/ Count(r) \/ StartBasic(r) \/ StartSNGIL(r)
  \/ ModeCheck(r) \/ StartMapped(r) \/ Stop(r) \/ Fail(r)

CycleStep(c) ==
  \/ DevicesRead(c) \/ SendRead(c) \/ ReadStarts(c) \/ ReadAnswered(c)
  \/ LeaveLoop(c) \/ FinishCycle(c)

Next ==
  \/ \E r \in Request, on \in BOOLEAN : Admit(r, on)
  \/ BootRead
  \/ \E r \in Process : RequestStep(r)
  \/ \E t \in TimerId : FireCycle(t)
  \/ \E c \in Cycle : CycleStep(c)
  \/ ChangeData
  \/ Restart

(* The event loop runs what is ready; the database and the line answer.     *)
(* Nobody is obliged to toggle, to change devices or to restart.            *)
Fairness ==
  /\ WF_vars(BootRead)
  /\ \A r \in Process : WF_vars(RequestStep(r))
  /\ \A t \in TimerId : WF_vars(FireCycle(t))
  /\ \A c \in Cycle : WF_vars(CycleStep(c))

Safety == Init /\ [][Next]_vars
Spec == Safety /\ Fairness

-----------------------------------------------------------------------------
(* Every poll timer the event loop still has is the one the field refers    *)
(* to: no start, retry or end of a cycle leaves a timer behind that         *)
(* stopAllPolling could not find.                                           *)
NoOrphanTimer == \A t \in TimerId : Live(t) => t = singlePollingTimer

(* One cycle at most is between its start and its finally block, and the    *)
(* flag says whether one is, also while stops, restarts of polling and late *)
(* finally blocks overlap.                                                  *)
OneCycle ==
  /\ \A c, d \in Cycle : cycle[c] # NoCycle /\ cycle[d] # NoCycle => c = d
  /\ isPollingCycleRunning <=> \E c \in Cycle : cycle[c] # NoCycle

(* The flag in the database and the poller agree when no request is in      *)
(* progress and the last that wrote the flag, or the start-up, met no       *)
(* other: whatever overlaps, stops and failures there were before it, and   *)
(* whatever cycles are still under way.  Off: no timer and no link monitor  *)
(* runs, and a cycle that is not done will not schedule another.            *)
OffMeansSilent ==
  Quiet /\ "overlap" \notin past /\ ~pollingEnabled =>
    /\ \A t \in TimerId : ~Live(t)
    /\ ~linkMonitor
    /\ isPollingCycleRunning => stopRequested

(* On, and no database call failed since: a timer is running, or a cycle is *)
(* that will set one.                                                       *)
OnMeansPolling ==
  Quiet /\ past = {} /\ pollingEnabled =>
    \/ \E t \in TimerId : Live(t)
    \/ isPollingCycleRunning /\ ~stopRequested

FlagIsObeyed == OffMeansSilent /\ OnMeansPolling

(* The server process was replaced by a new one. *)
Restarted == at[boot] = "bootRead"

CycleScheduled == \E t \in TimerId : timers[t] = "cycle"
CycleBegins == \E c \in Cycle : cycle[c].at = "devices"
SomeCycleLost == \E c \in Cycle : cycle[c].at = "lost"
Superseded == stopRequested \/ Restarted \/ \E t \in TimerId : timers[t] = "essential"

(* "이전 폴링 사이클이 아직 실행 중입니다. 다음 대기 후 재시도합니다." (the previous   *)
(* cycle is still running, it is retried after the next wait): a cycle that *)
(* is scheduled is eventually run, unless polling is stopped, becomes the   *)
(* essential polling, or the server restarts.                               *)
ScheduledCycleRuns == CycleScheduled ~> CycleBegins \/ Superseded

(* Every cycle moves on, unless its read was dropped from the queue or the  *)
(* server restarts: one that is scheduled is run, as above, and one that is *)
(* running when polling is stopped ends, or polling is started again.       *)
CyclesMoveOn ==
  /\ CycleScheduled ~> CycleBegins \/ Superseded \/ SomeCycleLost
  /\ stopRequested ~> ~isPollingCycleRunning \/ ~stopRequested \/ SomeCycleLost \/ Restarted
=============================================================================
