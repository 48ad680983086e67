------------------------------ MODULE DdcTime ------------------------------
(***************************************************************************)
(* The clock of the DDC, and the start-up of the server, which waits for   *)
(* its first setting: DdcTimeSyncService.ts, refreshDdcTime of             *)
(* SystemService.ts, initializeServices of ServerInitializer.ts.           *)
(*                                                                         *)
(* The clock's registers are set and read one by one, YEAR first and       *)
(* SECOND last, each by a command of the queue, while the clock runs on.   *)
(* A time is the value of each register; a register that is full passes    *)
(* on to the one before it, as minutes do to hours, and all are taken to   *)
(* have the same range.  The day of the week, which hangs on the date, is  *)
(* not apart.                                                              *)
(*                                                                         *)
(* The queue is seen as CommandChannel promises it: a command waits, then  *)
(* runs and is answered, or is dropped by a clear and never answered.      *)
(*                                                                         *)
(* Nothing is kept of the time that is stored at the end: the schema of    *)
(* the settings has no field ddcTime, so Mongoose strips it.  syncStatus   *)
(* and lastSyncTime, which are only shown, are left out.                   *)
(***************************************************************************)
EXTENDS Integers, FiniteSets

CONSTANTS Manual,     \* requests that set the clock (/system/ddc-time-sync/execute, …)
          Refresh,    \* requests that read it (/system/ddc-time/refresh)
          timer,      \* runSync, run by the start-up and then by the interval
          Parts,      \* the registers of the clock, 1 (YEAR) to Parts (SECOND)
          Base        \* the values of a register

ASSUME DdcTimeAssumption ==
  /\ timer \notin Manual \cup Refresh /\ Manual \cap Refresh = {}
  /\ Parts \in Nat \ {0} /\ Base \in Nat \ {0, 1}

Sync == Manual \cup {timer}
Job == Sync \cup Refresh
Part == 1..Parts
Time == [Part -> 0..(Base - 1)]

VARIABLES up,         \* how far the start-up is
          interval,   \* syncInterval is set
          ddc,        \* what the DDC's clock shows
          doing,      \* where each job is
          part,       \* the part its next command is about
          local,      \* the time it is to set, or what it has read so far
          disturbed   \* history: jobs of which a part done was changed since

startVars == <<up, interval>>
clockVars == <<startVars, ddc, doing, part, local, disturbed>>

Stage == {"polling", "connect", "sync", "recovery", "counters", "done", "aborted"}

ClockTypeOK ==
  /\ up \in Stage /\ interval \in BOOLEAN
  /\ ddc \in Time
  /\ doing \in [Job -> {"idle", "client", "queued", "storing", "lost"}]
  /\ part \in [Job -> Part]
  /\ local \in [Job -> Time]
  /\ disturbed \subseteq Job

(* What a reading starts from.                                              *)
Blank == [p \in Part |-> 0]

(* A server that has just begun to listen; the DDC's clock shows anything. *)
Fresh ==
  [up |-> "polling", interval |-> FALSE, doing |-> [j \in Job |-> "idle"],
   part |-> [j \in Job |-> 1], local |-> [j \in Job |-> Blank], disturbed |-> {}]

ClockInit ==
  /\ ddc \in Time
  /\ up = Fresh.up /\ interval = Fresh.interval /\ doing = Fresh.doing
  /\ part = Fresh.part /\ local = Fresh.local /\ disturbed = Fresh.disturbed

-----------------------------------------------------------------------------
(* Defect: SECOND is the first and YEAR the last. *)
RegisterSecondFirst(p) == Parts + 1 - p

(* The register of a job's p-th command, in the order of ddcTimeCommands and *)
(* of actionMap.                                                            *)
Register(p) == p

(* Jobs that are past register p.                                           *)
Past(p) == {j \in Job : doing[j] = "queued" /\ p < part[j]}

-----------------------------------------------------------------------------
(* What a job has in its locals, and the history of its parts, end with it. *)
Forget(jobs) ==
  /\ part' = [j \in Job |-> IF j \in jobs THEN Fresh.part[j] ELSE part[j]]
  /\ local' = [j \in Job |-> IF j \in jobs THEN Fresh.local[j] ELSE local[j]]

(* The end of a job.  runSync catches what syncDdcTime throws, and the      *)
(* start-up goes on after the first one, which sets the interval.           *)

(* Defect: runSync does not catch, so that startScheduledSync leaves by its *)
(* catch and sets no interval.                                              *)
EndJobUncaught(j, ok) ==
  /\ doing' = [doing EXCEPT ![j] = "idle"] /\ Forget({j})
  /\ IF j = timer THEN /\ interval' = (interval \/ ok)
                       /\ up' = IF up = "sync" THEN "recovery" ELSE up
                  ELSE UNCHANGED startVars

EndJob(j, ok) ==
  /\ doing' = [doing EXCEPT ![j] = "idle"] /\ Forget({j})
  /\ IF j = timer THEN /\ interval' = TRUE
                       /\ up' = IF up = "sync" THEN "recovery" ELSE up
                  ELSE UNCHANGED startVars

(* syncDdcTime, refreshDdcTime up to the query for the client. *)
BeginJob(j) ==
  /\ doing' = [doing EXCEPT ![j] = "client"]
  /\ UNCHANGED <<part, local, disturbed>>

(* A request of an operator, at any time: nothing keeps it from beginning   *)
(* while another job is under way.                                          *)
Ask(j) ==
  /\ j # timer /\ doing[j] = "idle"
  /\ BeginJob(j)
  /\ UNCHANGED <<startVars, ddc>>

HourFires ==
  /\ interval /\ doing[timer] = "idle"
  /\ BeginJob(timer)
  /\ UNCHANGED <<startVars, ddc>>

(* The client is there: getKstNowParts, whose time is any, and the first    *)
(* command.                                                                 *)
ClientFound(j) ==
  /\ doing[j] = "client"
  /\ doing' = [doing EXCEPT ![j] = "queued"]
  /\ \E now \in Time : local' = [local EXCEPT ![j] = IF j \in Sync THEN now ELSE Blank]
  /\ UNCHANGED <<startVars, ddc, part, disturbed>>

(* No client, no mapping, or a database that fails. *)
JobWithoutClient(j) ==
  /\ doing[j] = "client"
  /\ EndJob(j, FALSE)
  /\ UNCHANGED <<ddc, disturbed>>

-----------------------------------------------------------------------------
(* One command: a register written or read, and the next one queued. *)

(* Defect: the loop runs past the last command. *)
GoOnPastEnd(j) ==
  /\ part' = [part EXCEPT ![j] = @ + 1]
  /\ doing' = [doing EXCEPT ![j] = IF part[j] > Parts THEN "storing" ELSE "queued"]

GoOn(j) ==
  IF part[j] = Parts
  THEN doing' = [doing EXCEPT ![j] = "storing"] /\ UNCHANGED part
  ELSE part' = [part EXCEPT ![j] = @ + 1] /\ UNCHANGED doing

(* The register of j's command is given its value: what the clock shows     *)
(* then, and the jobs of which a part already done is changed.              *)
Set(j) == LET p == Register(part[j]) IN ddc' = [ddc EXCEPT ![p] = local[j][p]]
Strikes(j) ==
  LET p == Register(part[j]) IN IF local[j][p] = ddc[p] THEN {} ELSE Past(p) \ {j}

Written(j) ==
  /\ j \in Sync /\ doing[j] = "queued"
  /\ Set(j) /\ disturbed' = disturbed \cup Strikes(j)
  /\ GoOn(j)
  /\ UNCHANGED <<startVars, local>>

ReadOut(j) ==
  /\ j \in Refresh /\ doing[j] = "queued"
  /\ LET p == Register(part[j]) IN local' = [local EXCEPT ![j][p] = ddc[p]]
  /\ GoOn(j)
  /\ UNCHANGED <<startVars, ddc, disturbed>>

(* A command that fails ends the job; a write may have been taken even so.  *)
CommandFails(j) ==
  /\ doing[j] = "queued"
  /\ \/ j \in Sync /\ Set(j) /\ disturbed' = (disturbed \cup Strikes(j)) \ {j}
     \/ UNCHANGED ddc /\ disturbed' = disturbed \ {j}
  /\ EndJob(j, FALSE)

(* updateSettings, which may fail; then the end of the job. *)
Store(j) ==
  /\ doing[j] = "storing"
  /\ \E ok \in BOOLEAN : EndJob(j, ok)
  /\ disturbed' = disturbed \ {j}
  /\ UNCHANGED ddc

(* clearQueue, by polling off: the promises of waiting commands, all but    *)
(* the one on the line, are never settled.  A request or an hourly run is   *)
(* forgotten; the first run is awaited by the start-up.                     *)
Clear ==
  \E running \in {{}} \cup {{j} : j \in Job} :
    LET dropped == {j \in Job : doing[j] = "queued"} \ running IN
    /\ dropped # {}
    /\ doing' = [j \in Job |-> IF j \notin dropped THEN doing[j]
                            ELSE IF j = timer /\ up = "sync" THEN "lost" ELSE "idle"]
    /\ Forget(dropped)
    /\ disturbed' = disturbed \ dropped
    /\ UNCHANGED <<startVars, ddc>>

-----------------------------------------------------------------------------
(* The start-up, with the server listening already. *)

(* startDDCPolling, which catches its errors: PollingLifecycle has it. *)
StartPolling ==
  /\ up = "polling" /\ up' = "connect"
  /\ UNCHANGED <<interval, ddc, doing, part, local, disturbed>>

(* initializeModbusServices: the line is connected, or a mock takes its     *)
(* place; startDdcTimeSync begins the first run.                            *)
ConnectLine ==
  /\ up = "connect" /\ up' = "sync"
  /\ BeginJob(timer)
  /\ UNCHANGED <<interval, ddc>>

(* The line cannot be connected: the error leaves initializeServices, and   *)
(* index.ts goes on without the services that were still to come.           *)
LineFails ==
  /\ up = "connect" /\ up' = "aborted"
  /\ UNCHANGED <<interval, ddc, doing, part, local, disturbed>>

(* startPollingRecovery; then the people counter's scheduler and poller.    *)
StartRest ==
  /\ \/ up = "recovery" /\ up' = "counters"
     \/ up = "counters" /\ up' = "done"
  /\ UNCHANGED <<interval, ddc, doing, part, local, disturbed>>

(* The DDC's clock runs.  A register changes when all those after it are    *)
(* full; the last one always does.                                          *)
Changes(p) == \A q \in (p + 1)..Parts : ddc[q] = Base - 1

Tick ==
  /\ ddc' = [p \in Part |-> IF ~Changes(p) THEN ddc[p]
                            ELSE IF ddc[p] = Base - 1 THEN 0 ELSE ddc[p] + 1]
  /\ disturbed' = disturbed \cup
       UNION {Past(p) : p \in {q \in Part : q < Parts /\ Changes(q)}}
  /\ UNCHANGED <<startVars, doing, part, local>>

Restart ==
  /\ up' = Fresh.up /\ interval' = Fresh.interval /\ doing' = Fresh.doing
  /\ part' = Fresh.part /\ local' = Fresh.local /\ disturbed' = Fresh.disturbed
  /\ UNCHANGED ddc

JobStep(j) ==
  \/ ClientFound(j) \/ JobWithoutClient(j) \/ Written(j) \/ ReadOut(j)
  \/ CommandFails(j) \/ Store(j)

StartStep == StartPolling \/ ConnectLine \/ LineFails \/ StartRest

ClockNext ==
  \/ \E j \in Job : Ask(j) \/ JobStep(j)
  \/ HourFires \/ Clear \/ StartStep \/ Tick \/ Restart

(* The event loop runs what is ready, the timer fires, and the queue puts   *)
(* on the line what it does not drop.  Nobody has to ask, to clear the      *)
(* queue or to restart; the clock may stand still.                          *)
ClockFairness ==
  /\ \A j \in Job : WF_clockVars(JobStep(j))
  /\ WF_clockVars(HourFires) /\ WF_clockVars(StartStep)

ClockSpec == ClockInit /\ [][ClockNext]_clockVars /\ ClockFairness

-----------------------------------------------------------------------------
(* "SECOND는 경계 이슈를 줄이기 위해 마지막에 설정" (SECOND is set last, to avoid    *)
(* trouble at boundaries): after the last command the clock shows the time  *)
(* that was to be set, or the time read is what it shows, although the      *)
(* clock runs on between the commands and other jobs set and read it,       *)
(* unless a carry or another job changed a part that was already done.      *)
WholeTime ==
  [][\A j \in Job : doing[j] = "queued" /\ doing'[j] = "storing" /\ j \notin disturbed
                  => local'[j] = ddc']_clockVars

(* The start-up comes to its end, or gives up at the connection, unless the *)
(* queue was cleared under its first setting of the clock; and the clock is *)
(* set again and again from then on, whatever fails.                        *)
KeepsTime ==
  /\ []<>(doing[timer] = "lost" \/ up \in {"done", "aborted", "polling"})
  /\ up = "done" ~> doing[timer] = "client" \/ up # "done"
=============================================================================
