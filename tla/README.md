# Smart green shelter backend: TLA+ models and proofs

The repository is the control system of bus shelters ("smart green shelters").
One Node.js process (`packages/backend`) talks to the shelter's DDC, a building
controller reached by Modbus over one serial line, and to a people counter on
a serial line of its own.  It mirrors their state in MongoDB, serves a REST and
WebSocket interface to a web frontend, and restores stored states to the
devices.  There are no threads.  There is, all the same, plenty of concurrency:
every handler, timer and service tick is an asynchronous function, and every
`await` is a place where any other may run.  Nothing in the code uses a
transaction or a mutex; what exclusion there is rests on flags tested and set
between two awaits, and on a lock field in a document.

The models therefore have one granularity: **an action is the code from one
await to the next**.  What reads state before an await and uses it after it is
two actions, with everything else allowed in between.

Paths below are relative to `src/packages/backend/src/`; `S/` stands for
`core/services/`.

---

## 1. Inventory

| Part | Code | State | Operations |
|---|---|---|---|
| Modbus command queue | `S/ModbusCommandQueue.ts` | three arrays (high, normal, low), `isProcessing` | add, process, clear, destroy |
| Polling on/off | `S/PollingControlService.ts`, `S/UnifiedModbusPollerService.ts`, `core/ServerInitializer.ts` | `runtime.pollingEnabled` in the database; `singlePollingTimer`, `linkMonitorTimer`, `stopRequested`, `isPollingCycleRunning` in memory | switch on, switch off, start-up, cycle, stop |
| Runtime settings | `S/SystemService.ts`, `core/repositories/MongoSystemRepository.ts`, `S/PollingAutoRecoveryService.ts`, `api/v1/routes/system/*`, `api/v1/routes/snapshots.ts` | one document, with `runtime` (flags, interval, lock, recovery prompt) and seasonal, advanced, network settings; system snapshots | read-then-write of one field, lock and unlock, prompt and answer, take and load a system snapshot, client defaults |
| Data application | `S/DataApplyService.ts`, `api/v1/routes/client.ts` | the Data collection (one document per device), data snapshots, `applying` | load of a data snapshot, registration of a client, reset of the DDC |
| Storing of results | `S/CommandResultHandler.ts`, `S/DataSyncService.ts`, `S/PollingDataPersistenceService.ts` | the Data collection | update of the fields of one device, batch of a cycle |
| Control requests | `S/ControlService.ts`, `S/HardwareControlService.ts`, `S/CommandLogService.ts` | command log (waiting, success, fail) | one command; a time as two commands |
| Serial line | `S/RealModbusService.ts`, `S/UnifiedModbusService.ts` | port, connection | connect, execute with retry, execute directly |
| People counter | `S/PeopleCounter*Service.ts`, `api/v1/routes/system/people-counter.ts` | port, job queue, last cumulative count, per-day reset | query, poll, aggregate, reset at midnight, delete what was counted |
| DDC clock | `S/DdcTimeSyncService.ts`, `refreshDdcTime` of `S/SystemService.ts` | the DDC's time registers, timer | set the clock by seven writes, read it by seven reads |
| Status and errors | `S/StatusService.ts`, `S/ErrorService.ts` | a status document and error documents per device | update of units, communication error and its clearing, link monitor |
| Schedulers | `S/SnapshotScheduler.ts`, `S/LogSchedulerService.ts` | timers | take snapshots, remove old snapshots and logs |
| WebSocket, logs | `S/WebSocketService.ts`, `S/UnifiedLogService.ts` | sockets | broadcast |
| Port mappings, meta | `S/PortMappingService.ts`, `data/`, `meta/` | tables | look-up |
| Users, keys, sessions | `S/UserService.ts`, `S/ApiKeyService.ts`, `S/SecurityService.ts` | documents | create, check, remove |
| Host control | `S/LinuxSystemService.ts` | none | restart and time of the host |
| Start-up | `core/ServerInitializer.ts`, `core/container/` | none | construction in a fixed order, then, with the server listening, polling if the flag says so, the line, the clock, recovery, the people counter |
| Frontend, tester, deployment | `packages/frontend`, `people-counter-tester`, `packages/scripts`, nginx, Docker | none of the backend's | views and tools |

### How the parts interact

```
 operator ──REST──► routes ──► PollingControlService ──► runtime settings (database)
                      │                 │  start / stop          ▲ read-then-write
                      │                 ▼                        │
                      │        UnifiedModbusPoller ──────► SystemService ◄── recovery prompt
                      │           │ low       │ batch            ▲ lock
                      │           ▼           ▼                  │
   control ──high──► ModbusCommandQueue   Data collection ◄── DataApplyService ◄── snapshots
                      │           ▲                              │ writes, high
                      ▼           └──────────────────────────────┘
                 serial line ──► DDC            people counter ──► its poller ──► Data
```

* **Calls and promises.**  Control, polling, loads and the clock put commands
  into the queue and await a promise.  The queue is the only exclusion on the
  serial line, apart from `executeDirect`, which goes round it.
* **Shared database state.**  The polling flag and the load lock live in the
  settings document; the Data collection is written by control, by polling, by
  the people counter and by the jobs that replace it.
* **Callbacks.**  Timers start cycles; a cycle sets the next timer in its
  `finally`; `setImmediate` starts queue loops.
* **Failure.**  A database call may reject.  A transaction on the line always
  ends, by an answer or a time limit.  A promise of the queue need not:
  switching polling off clears the arrays and forgets the promises in them.  The
  process is restarted by its supervisor after a crash, and then what was in
  memory is gone and what is in the database is as the last write left it.

### What makes each part correct

* *Queue*: one transaction at a time; no command lost, duplicated, or answered
  before it ran; order kept inside a priority; every command answered; no
  command asleep in a queue nobody serves.
* *Polling*: the flag in the database and the poller agree when no request is
  in progress; no timer that `stopAllPolling` cannot find; one cycle at a time;
  a scheduled cycle runs; polling survives a restart.
* *Settings*: updating one field does not undo another; the lock is set while
  a load applies and only then, and comes off; the polling flag is frozen in
  between; a prompt that is shown can be answered; a restored snapshot is all
  there.
* *Data*: one job writes the DDC at a time and comes out again; no device
  ends without a document or with two; what is applied is what was in the
  snapshot; the collection comes to show what the DDC holds.
* *Control*: the log ends in success or failure; a time is set wholly or not
  at all; what is stored was written.
* *People counter*: one query on its line; an answer belongs to its query; no
  person counted twice; the midnight reset is not undone by an older poll.
* *Status*: a unit's status is not undone by the update of another unit; an
  error is there exactly while the device does not answer.
* *Serial line*: one port open; a command sent once however often it is tried;
  connected once the start-up can, and again when the device is back.
* *Clock*: what is set or read is one time; it is set again and again; the
  start-up that waits for it comes to its end.

PROJECT.json lists the hazards, each at its line, with the properties that
cover it, or a note of why none does.

---

## 2. Plan and state of the work

| | Modules | Status |
|---|---|---|
| A | `CommandChannel`, `CommandQueue`, `CommandQueueProofs` | done |
| B | `PollingLifecycle`, `PollingLifecycleProofs` | done, mapped polling of the real device |
| C | `RuntimeSettings`, `RuntimeSettingsProofs` | done |
| D | `DataLoad`, `DataLoadProofs` | done |
| E | `PeopleCounter`, `PeopleCounterProofs` | done, people entering at one counter |
| F | `ControlCommand`, `ControlCommandProofs`: the life of a command and its log, times as two writes | done |
| G | `UnitStatus`, `UnitStatusProofs`: status and error documents, link monitor | done |
| H | `SerialLine`, `DdcProofs`: connecting, losing and finding the line again | done |
| I | `DdcTime`, `DdcProofs`: the DDC's clock, and the start-up, which waits for it | done |

Each `X` has a module `MCX`, which holds what its `.cfg` files need.

A comes first because everything that touches the DDC goes through the queue,
and B, D, F and I rest on what it promises.  The modules are composed by what they
promise each other and not by one product of all state spaces:

* B, D, F and I see the queue as `CommandChannel` has it: a command waits, runs, is
  answered, or is dropped by a clear and then never heard of again.  That
  `CommandQueue` gives no more and no less is the refinement `ImplementsChannel`;
  that a dropped command is heard of no more, `LostStaysLost`.
* B and D leave out the lock, which C has.  `FlagFrozen` of C is why no switch
  to OFF clears the queue under a load in D (`Lose` is for registrations only).
* C ends where a toggle starts or stops the poller; B begins there.
* E stands beside the others: a line and a queue of its own.  Its contacts are
  the Data collection, where D has its upserts, and the status documents, where
  G has its tasks.
* F ends where the answer of a command is stored; D has that store as one step
  among loads and registrations, F as the several it is, for the times.
* G takes from H that `isConnected` may change at any moment, and that it comes
  to say what the line does (`LinkFollows`).  That is so of a service the start-up
  has connected; in mock mode `isConnected` is always TRUE
  (`S/UnifiedModbusCommunicationService.ts:160`), which G has as a line that does
  not go away.
* H lies under the queue: what is one step of a loop in A, a transaction that
  resolves or rejects, is a command of H with its reconnection.
* I begins where B's `BootRead` has returned, and clears the queue where B's
  `Stop` does.

---

## 3. The modules

Each module keeps the names of the source for its state and its helpers.
Definitions whose comment begins with "Defect" are not part of a
specification: each is a plausible mistake in the definition that follows it,
and substituting it must break the property named in PROJECT.json.

### A. CommandQueue and CommandChannel (`S/ModbusCommandQueue.ts`)

An add pushes onto one of three arrays and, unless `isProcessing`, schedules a
loop with `setImmediate`.  Ten adds in one turn schedule ten loops; the test of
`isProcessing` at the top of `processQueue` lets one in.  The loop passes the
array *object* of a priority to `processPriorityQueue`, which shifts until that
object is empty; `clearQueue` meanwhile makes the fields refer to new objects.
So the state has a heap: `heap[g][p]` is the array of priority `p` after the
`g`-th clear, `gen` the generation the fields refer to, `holds[l]` the one
loop `l` shifts from.

| Action | Code |
|---|---|
| `Add` | `addCommand`, `addCommandObject`, `startProcessingIfNeeded` |
| `StartLoop` | the `setImmediate` callback: `processQueue` to its first await |
| `Complete` | `executeCommand` settles the promise; the `while` shifts the next command |
| `NextPriority`, `EndPass` | the awaits of `processQueue`; its outer `while` and `finally` |
| `Clear` | `clearQueue`, `destroy` |

A transaction on the line is one step that resolves or rejects; its retries and
reconnections are module H.  A command is added once; there is no identity in
the code to add it twice by.

`CommandChannel` is what callers may rely on: three waiting lines, one command
on the line, answers only after execution, a clear that cuts the end of a line.
It promises nothing *between* priorities.  Indeed a low-priority array is
emptied before the loop looks at the high one again, so a control command waits
for a whole polling batch, although `packages/backend/README_DEPLOYMENT.md:204`
lists priorities of control over polling as a feature.

### B. PollingLifecycle (`S/PollingControlService.ts`, `S/UnifiedModbusPollerService.ts`, `core/ServerInitializer.ts`)

State: the flag and the existence of devices in the database; for each request
the await it is at; timer objects (a live timer says what it runs);
`singlePollingTimer`, `linkMonitor`, `stopRequested`, `isPollingCycleRunning`;
and for each invocation of `runMappedPollingCycle` where it is and how many
reads it still has to send.  `pollingIntervals`, the statistics and the mock
simulation are left out.

`past` is a history variable: whether requests have overlapped, or a call of
one has failed, since a request last wrote the flag with no other under way.
`FlagIsObeyed` promises what such a request leaves behind, so that it says
something of every system that once raced or failed and was then switched in
peace.  A restart clears `past` too.

| Action | Code |
|---|---|
| `Admit`, `WriteFlag` | `POST /system/polling`, `applyPollingEnabled`, `updatePollingState` |
| `BootRead` | `startDDCPolling` of the initializer |
| `Count`, `StartBasic` | `countDocuments`, then `startBasicPolling` when there are no devices |
| `StartSNGIL`, `ModeCheck`, `StartMapped` | the three stretches of `startAllSNGILPolling` |
| `Stop` | `stopAllPolling` and `clearQueue`, in one turn |
| `FireCycle`, `RunCycle`, `ScheduleNext` | the one-shot timer and its rescheduling |
| `DevicesRead` … `FinishCycle` | the cycle: device list, reads one by one, storing, `finally` |
| `Fail`, `Restart` | a database call rejects; the process ends and starts again |

### C. RuntimeSettings (`S/SystemService.ts`, `core/repositories/MongoSystemRepository.ts`, routes)

One document.  A process is a request or a service tick: it is refused or
admitted (`Admit`, `Refuse`: the tests of `pollingEnabled`, `applyInProgress`
and a pending prompt, each with its await), reads the document (`Read`), and
writes all runtime fields back with one of them changed (`Write`).  `Patched`
is the repository: a patch with a `runtime` part sets five listed runtime
fields and nothing else.  `Overwrite` is that patch as a restored system
snapshot and a client assignment make it.  A load of a data snapshot writes
the lock, is at `"apply"` while it writes the devices, and unlocks
(`Unlock`) in its `finally`.  Any call to the database may reject, which ends the
update (`Fail`): the one that releases the lock as well, after which nothing
tries again.  `seasonal` stands for every setting outside `runtime`.

`past` is a history variable: whether, since a moment at which no call was under
way, two reads-then-writes overlapped or the document was overwritten; and
whether one of these, a crash or a release that failed has left the lock behind
in the database.  It
is forgotten as soon as no call is under way and the lock is not set
(`Note`), so that the properties say something of every system that once raced
or crashed and has come to rest.

### D. DataLoad (`S/DataApplyService.ts`, `api/v1/routes/client.ts`)

State: the Data collection, the DDC register of each device, the newest data
snapshot, the flag `applying`, and for each job its point, the documents it is
to insert and those it has still to create, reset or write.  A document has one
writable field; `made` stands for its `_id`, by the generation it was created
in.  Two documents of one device are possible, as in the code, where nothing
makes the device id unique.

| Action | Code |
|---|---|
| `BeginLoad`, `DeleteAll`, `Insert` | `applySnapshotData` up to `applyData` |
| `Register`, `Create` | `POST /client` with `initialize`: deletion, then a document per device |
| `BeginReset`, `ClearPort`, `EndReset` | `initializeDDC` |
| `BeginApply`, `ReadBack`, `WriteOut`, `Finish` | `applyData` |
| `Lose` | a write of a registration dropped from the queue by polling off |
| `Poll`, `Store`, `Command` | a poller's reading and its store; a control command; `updateOne` |
| `TakeSnapshot`, `Crash` | the snapshot scheduler or an operator; a restart |

`past` is a history variable: of the collection, of the newest snapshot and of the
documents each load has with it, whether they come from two jobs filling the
collection at once (`"overlap"`) or from a filling that an error, a crash or the
moment of the snapshot cut short (`"unfinished"`).  A job that deletes everything
while nobody else is filling begins anew: the collection then is as good as
what it puts in (`Emptied`).

The DDC starts with any contents.  The people counter (`Counter`) has no port,
so no job writes it; its poller upserts its document.  Left out: the progress
report and the verification, which only read; `cancel`, which has no caller;
the coupling of hours and minutes (`ControlCommand`); that `reset-data` deletes
the people counter's document (`PeopleCounter`); the fallback of
`bulkWriteDataCollection`, which ends in an error whenever it would insert.

### E. PeopleCounter (`S/PeopleCounterQueueService.ts`, `S/PeopleCounterService.ts`, `S/PeopleCounterPollerService.ts`, `S/PeopleCounterResetSchedulerService.ts`)

One counter, whose count of people entering runs on until it is reset.  State:
the device's count, a request and an answer on the line; the queue (`jobs`,
`running` for `processing`, `drainDue` for the `setImmediate`); the unit's
`lastRawPollInCumulative`, `todayKey` and `todayInCount`; the increments stored
per day (`raw`, the sums of people_counter_raw) and the unit in the Data
collection (`doc`).  A job is named by its owner: a poll of the timer, the
midnight reset, or a request (a reset command or a frame sent by hand).  The
timer starts a poll every ten seconds without waiting for the last.  Whatever
comes on the line while a query listens is its answer, the late answer of an
earlier one included.  `entered`, `counted`, `missing` and `raced` are history
variables: the people who came; the increments stored; those of each day that
are not in the database, because `savePollRaw` failed and swallowed the error or
because `reset-data` has deleted them; and whether a poll was answered while
another had yet to store its increment.

| Action | Code |
|---|---|
| `TickFires`, `Ask` | the timer; `POST …/apc-test`, `SET_RESET`: a job is enqueued and, the line being idle, begun |
| `Answered`, `Unanswered` | `query`: an answer; a time-out, an error, an unreadable one |
| `Clear`, `Save`, `Store` | `tick` after its answer, between its awaits: the increment, `savePollRaw`, the count of the day, `upsertData` |
| `EraseRaw`, `EraseDoc` | `POST …/reset-data`: the increments are deleted, then the document, or the unit in it shows 0; the poller keeps its count |
| `HandEnds`, `Zero` | `sendManualApcFrame`, `reset`; the device obeys a reset at any moment while such a job runs |
| `DrainAgain` | the `setImmediate` of `drain` |
| `MidnightFires`, `MidnightResets`, `Retry` | the scheduler's timer, which may fire a moment early; a reset that fails is tried once again |
| `ZeroDoc`, `ZeroUnit` | the document, then the poller's count, set to 0 |
| `BeginSum`, `Sum`, `StoreFirst` | `start`: polling on? the sum of today's increments, the first document, the timer |
| `Enter`, `DayTurns`, `Respond`, `LoseAnswer`, `Restart` | people, clock, device, line, process |

No line of the code keeps a poll from being answered while another is saving;
ten seconds usually do.  Left out: the people
leaving and inside, which nothing adds up; a second counter; `stop`, called at
shutdown only; other writers of the document (D), of which a load may bring back
an older count and a registration deletes it; the expiry of increments after 35
days, when no card shows their day any more; `reset-data` of a unit and of
everything differ by other units and clients alone.

### F. ControlCommand (`api/v1/routes/devices.ts`, `S/ControlService.ts`, `S/CommandResultHandler.ts`)

A request is a list of commands for one unit.  The route creates a log for each,
answers the user, and executes the commands one after another in the
background.  State: for each request the await it is at, its loop index, the
array of logs it could create, the status of each log and the answer it is
storing; the high-priority writes in the queue; three registers, the fields of
Data that mirror them, and the time as it is shown; the poller's reading.  A
time `v` is an hour register and a minute register that both hold `v`, so that
"a time somebody set" means that the two agree.  `taken`, `torn` and `unlogged`
are history variables.

| Action | Code |
|---|---|
| `Post`, `CreateLog` | `POST …/commands`: a log `waiting` for each command; one that fails is left out of the array |
| `Skip`, `NextCommand` | `executeCommandsInBackground`: command `i` under log `i` of the array; a command that throws does not end the loop |
| `Begin`, `BeginTime`, `Reject` | `executeUnitCommandWithExistingLog`, `executeTimeCommand` to the first await |
| `AnswerWrite`, `AnswerHour`, `AnswerMinute`, `AnswerRead` | the queue's answer; the MINUTE write is queued in the turn of the HOUR's answer |
| `LogSuccess`, `StoreAnswer`, `Store` | `handleSuccess`: the log, then Data, hour, minute and the integrated time |
| `LogFail` | `handleFailure`, once per handler the error passes through |
| `PollRead`, `PollStore` | the cycle's reads, and its stores field by field |
| `Clear`, `Restart` | `clearQueue` by polling off; the process |

Writes are first in, first out, as they are in a priority of `CommandChannel`.
A read is of the normal priority and may be answered at any moment.

### G. UnitStatus (`S/StatusService.ts`, `S/ErrorService.ts`, `S/UnifiedModbusPollerService.ts`, `S/PeopleCounterPollerService.ts`)

A report of a unit is four database calls: read the Status document, replace
it, read the first Error document, and create, save or delete one.  State: for
each reporter where it is, what it reports of which unit and what it has read;
the Status document and the list of Error documents; `linkDownActive`; the line
and the units that answer.  `stale` is what Mongoose makes of saving a document
that has changed or gone since it was read: a push is taken, a save of a whole
array meets the version and fails, a save of a deleted document fails.  A
registration creates an Error document without units (`Init` has it, and a
registration that could not), which the first good report of any unit deletes:
`Found` asks whether any unit but the reported one is listed, as the code does.

| Action | Code |
|---|---|
| `StartCycle`, `Turn` | the cycle's reads, then its report of each unit; none while `linkDownActive` |
| `Tick`, `Probe`, `ResetLink` | `runLinkMonitorTick`, its probe, start and stop of the monitor |
| `Count` | `tick` of the people counter: all units reported at once |
| `ReadStatus`, `Replace` | `setCommunicationErrorForDevice`, `clearCommunicationErrorForDevice` |
| `ReadError`, `Create`, `Save`, `Delete` | `createCommunicationErrorForDevice`, `clearCommunicationErrorForDevice` |
| `Fault`, `Change` | a database call rejects; the line, or a unit, fails or recovers |

Left out: the status of the device as a whole, which is computed from its
units'; alarms, whose fields no data carries; that a registration deletes the
documents; the catch round the cycle's bulk read, which takes a thrown error
for a read without an answer.

### H. SerialLine (`S/RealModbusService.ts`, `S/UnifiedModbusCommunicationService.ts`, `S/UnifiedModbusService.ts`)

A command that finds the port closed opens it; one whose read or write says
that the port is not open disconnects, connects and tries once more.  Connecting
is: close the client, open and close a port of its own as a test, open the
client's.  The test is given up after five seconds; the close of its port, which
is not open yet, fails and is ignored, and the opening goes on beside the
client's own, to fail or to succeed in a client nothing refers to.  The device
file is open in one port at a time.

Before anything else the start-up connects, and the service begins in mock mode
(`real` FALSE), in which a command leaves the line alone and is answered with
invented values.  `Init` has the start-up in the place of the queue's command.
If it succeeds the service is `real`; if it fails, or the device is not there,
the server goes on in mock mode and nothing connects again.

State: `real`; the service's client and flag (`_isConnected`), what has the file
open (`held`: a client, the test of a command, or a port object nothing refers
to), whether the device is plugged in, the openings of tests given up (`late`),
and for each command its await, the client it opens and whether it has
reconnected.  `overlapped` is a history variable: two commands were connecting
at once, or one beside the opening of a test it had given up.

| Action | Code |
|---|---|
| `Begin` | the queue's next command, or a command of `POST /hardware/…` through `executeDirect` |
| `Answer`, `Timeout`, `End` | `executeRealRead`, `executeRealWrite`; the error as `isRecoverableSerialError` judges it |
| `Disconnect`, `Connect` | `disconnect`; `runWithSerialReconnect` |
| `TestOpened`, `TestClosed`, `TestFailed` | `testPortAccess` |
| `TestTimeout`, `LateOpening` | its time limit, and what becomes of the opening it gave up |
| `StartOpen`, `Opened`, `OpenFailed` | `connectRTUBuffered` and what follows it; for the start-up, `setActiveService('real')` or mock mode |
| `Plug` | the device is unplugged or plugged in |

What `modbus-serial` and `serialport` do is external, and taken from how
`RealModbusService` uses them.

### I. DdcTime (`S/DdcTimeSyncService.ts`, `S/SystemService.ts`, `core/ServerInitializer.ts`)

Setting the clock is seven writes, YEAR first and SECOND last; reading it seven
reads in that order; each is a command of the queue, awaited before the next.
The clock runs on between them.  State: how far the start-up is (`up`), whether
the hourly timer is set (`interval`), what the clock shows, and for each job
where it is (`doing`), the part it is at and the time it is to set or has read so
far (`local`).  A time is a value for each register, and a tick carries.
`disturbed` is a history variable: the jobs of which a part already done has been
changed since, by a carry or by another job.

| Action | Code |
|---|---|
| `StartPolling`, `ConnectLine`, `LineFails`, `StartRest` | `initializeServices`, from `startDDCPolling` on |
| `HourFires`, `Ask` | `runSync` by its interval; the routes that set and read the clock |
| `ClientFound`, `JobWithoutClient` | `getClientInfo`, `getKstNowParts` |
| `Written`, `ReadOut`, `CommandFails` | a command answered, the next one queued |
| `Store`, `EndJob` | `updateSettings`; `runSync` swallows what the job throws |
| `Clear` | `clearQueue`: all commands that wait, but not one on the line |
| `Tick`, `Restart` | the DDC's clock; the process |

The start-up awaits its first setting of the clock; the hourly ones nobody
awaits, so that one whose command is dropped is simply forgotten.

---

## 4. The runs

Sizes are distinct states on the instances of the `.cfg` files.

| Run | Asks | States |
|---|---|---|
| `queue` | Is the queue correct under any order of adds, callbacks, answers and clears, and does it implement `CommandChannel`? | 130 297 |
| `polling` | An operator and the start-up, restarts, failing calls: a timer left behind, two cycles, a flag the poller does not obey, a cycle that stands still? | 141 112 |
| `polling_wedge` | Does a scheduled cycle run after a stop dropped a read? **Violated** | |
| `settings_serial` | Updates and loads, overlapping or not, failing calls, crashes, restored snapshots: is an update undone, the lock exact and released, the flag frozen, as far as nothing came in between? | 608 936 |
| `data_concurrent` | A load and a registration, snapshots, crashes and errors in any order: one job in the service, and out again, and one document of each device? | 242 598 |
| `data_shown` | Loads beside a poller, a user and the people counter: does the collection come to show what the DDC holds? | 334 366 |
| `people_counter` | Late answers, resets, midnight, failing stores, deleted data, races, restarts: is a job lost, somebody counted twice, too much shown? | 3 253 398 (symmetric) |
| `control` | Two requests and the poller, one fault anywhere: do logs settle, once and truly, are times whole, does Data come to show them? | 251 088 |
| `control_truth` | Was every command whose log says success taken by the DDC? **Violated** | |
| `status` | Cycle and link monitor, or the people counter's tasks, with failures: do the two collections agree, and follow the line? | 1 395 552 |
| `line` | The first connection, then queue and hardware route, over a device that comes and goes: sent twice, a port nobody can close, connected again? | 1 190 369 |
| `ddc_time` | Settings and readings of a running clock, dropped and failing commands, the start-up: is what is set or read whole, and does it go on? | 92 960 |

### Why the bounds are enough

* `queue`: one command of each priority and a second low one: two meet in one
  array, four loops are scheduled at once, and the one clear comes at any
  moment.  A second clear only makes a second detached array, and a loop holds
  one at most (`OneLoop`).  The proofs have no bound.
* `polling*`: one operator and the start-up, which a restart brings at any
  moment beside the operator's request, are two requests that overlap, in every
  phase of both; three timer objects are one more than can be live; a pool of
  two invocations shows a second cycle if one could start; two reads let a stop
  fall before, between and after them.  The proofs have no bound.
* `settings_serial`: a lost update needs two processes and two fields, and two
  loads that both find the lock free are two processes as well.  Two intervals
  tell a value from its neighbour; one season will do, since nothing depends on
  it; one prompt is enough, since a pending one bars the next.  A system snapshot
  is taken at the default interval only (`DefaultSnapshot`, a constraint of the
  run), which is one value of the two to restore over the other.  The proofs of
  the safety properties have no bound.
* `data_concurrent`: a load and a registration, each again and again, overlap in
  every way (two loads meet as a load and a registration do, but for the
  registration's deletion, and the proofs have any number), over one device of
  the DDC and the people counter, whose poller inserts beside them.  One value:
  the three properties are about documents and not about what is in them.
  `data_shown`: two values, since it is about them, and one job with a user.
  `MaxMade` bounds registrations and the people counter's inserts together, since
  `_id`s are never used twice; the proofs leave it open.
* `people_counter`: two polls overlap, race, and meet a request and the reset in
  the queue; one person is enough to be counted twice, and one change of the day
  to be carried over.  A race is explored until its polls have stored what they
  read, beside the reset's stores but with no new job on the line meanwhile
  (`RaceAlone`, a constraint of the run).  The proofs have no bound.
* `control*`: two requests of two commands, of every kind between them, set two
  times at once, write and read while the poller stores; each time differs from
  the other and from the first one.  `MaxFault = 1` puts one fault at any place.
  The proofs have no bound.
* `status`: two units are the least for one to undo the other's; the cycle and
  one tick overlap in every phase, as do two tasks.  Three changes make the line
  fail and recover while one unit stays unreadable, which the monitor then marks
  good; with a database call that fails there are two (`FewDisturbances`, a
  constraint of the run, which cuts no step that fairness asks for).
* `line`: a queued command and two others meet in every phase of connecting;
  three changes unplug the device, bring it back and take it again; five
  clients are as many as three commands can have made and not yet given up.
  `MaxFault = 1` is one opening that fails for another reason, or one test given
  up, at any point.
* `ddc_time`: two registers of two values are the least with a carry; the hourly
  job, an operator's setting and a reading overlap in every order, again and
  again.  The time to be set is any, so it need not be related to the clock's.
* Every passing run has `CHECK_DEADLOCK` on but `queue`, where all commands
  may be answered and nothing is left to do.

### Fairness

* `CommandQueue`: weak fairness of each loop's callback, continuation and
  completion.  The event loop runs what is ready, and `executeDirect` returns
  because reads and writes on the port have time limits.  None for adds, clears.
* `PollingLifecycle`: weak fairness of each request's and each cycle's next
  step and of each timer, for the same reasons.  None for toggles, changes of
  devices, restarts, or the start of a request.  A dropped read has no step: its
  promise is never settled.
* `RuntimeSettings`: weak fairness of each process's next step: what comes
  after an await is run, unless its call fails, and an application ends, well or
  not.  None for requests or failures; a release that fails is in `past`.
* `DataLoad`: weak fairness of each job's next step and of each store, which is
  of stores that succeed: `ShowsTheDevice` speaks of behaviours in which, from
  some time on, they do (a failing store is no step of `Copy`).  Strong
  fairness of each poller's read of each device, for a cycle reads every device
  in turn and the timer starts cycle after cycle.  It is assumed there that
  polling is on.
* `ControlCommand`: weak fairness of each request's next step, which rests on
  `AnsweredOrLost` of the queue, and of the poller.  None for requests, clears,
  restarts or faults.
* `UnitStatus`: weak fairness of the cycle and its turns, of each tick and probe,
  and of each reporter's next database call.  Polling is on.  None for changes
  or faults.
* `SerialLine`: weak fairness of each command's next step, since calls of the
  port return and an answer has a time limit; of the opening a test gave up, which
  ends too; and of the queue's next command, since polling reads again and again.
  None for the hardware route, the device, or a test's time limit.
* `DdcTime`: weak fairness of each job's next step, of the hourly timer and of
  the start-up.  None for operators, clears, restarts, or the clock itself.

### Findings

The two violated runs are behaviour of the code that contradicts what its own
comments say; PROJECT.json quotes both.

1. **`polling_wedge`.**  OFF clears the queue and forgets the promise of a
   waiting read; the cycle that awaits it never reaches its `finally`,
   `isPollingCycleRunning` stays set, and after the next ON each timer finds it
   and puts the cycle off, until the server restarts
   (`S/PollingControlService.ts:45`, `S/ModbusCommandQueue.ts:405`).
2. **`control_truth`.**  `executeTimeCommand` awaits its two writes and does not
   look at their answers, and a write that failed resolves with `success: false`:
   the log of a time the DDC refused says success, and Data shows it
   (`S/ControlService.ts:703`).  The same invariant breaks when a log cannot be
   created, as the logs after it in the array are then those of the commands
   before (`api/v1/routes/devices.ts:326`).

### Counterexamples without a run of their own

Each is reached by dropping one condition of a property; they mark the exact
border of what the passing runs and the theorems promise.

| What | How to see it | Code |
|---|---|---|
| A command lost to a clear is never answered | `AnsweredOrLost` without `Lost` in `queue` | `S/ModbusCommandQueue.ts:405` |
| An OFF falls into an ON: the database says OFF and the poller polls | `polling`: `OffMeansSilent` without `past` | `S/PollingControlService.ts:38` |
| ON is answered and nothing polls, a database call of the start having failed | `polling`: `OnMeansPolling` without `past` | `S/UnifiedModbusPollerService.ts:452` |
| Two updates of settings at once lose one | `settings_serial`: `NoLostUpdate` without `past` | `S/SystemService.ts:292` |
| Two loads both find the lock free, and the first to end unlocks under the other | the same: `LockExact` | `api/v1/routes/snapshots.ts:364` |
| An update that read the document during a load sets the lock again after it | the same: `LockReleased` | `S/SystemService.ts:299` |
| A crash during a load leaves the lock in the database; no start-up clears it, and every toggle and load is refused | the same: `LockExact`, `LockReleased` without `past` | `api/v1/routes/snapshots.ts:411` |
| The call that releases the lock rejects: `setApplyLock` rethrows, the `finally` ends there, and the lock stays just so, with no crash at all | the same, without `"left"`: `Fail` at a load's unlocking update | `api/v1/routes/snapshots.ts:411`, `S/SystemService.ts:155` |
| A system snapshot taken during a load brings the lock back | the same | `S/SystemService.ts:1212` |
| A recovery prompt is broadcast and never stored, so no answer and no 30 s timer finds it; the seasonal, advanced and network settings of a restored snapshot are dropped in the same way | `settings_serial`: after `BeginPrompt`'s write, `prompt = settings.recoveryPrompt`; `Persisted` lacks the field | `core/repositories/MongoSystemRepository.ts:74`, `S/PollingAutoRecoveryService.ts:187` |
| A load that fails after its deletion leaves devices without documents; nothing is rolled back, though the header of the file says so (line 8) | `data_concurrent`: `OneEach` without `past` (`"unfinished"`) | `S/DataApplyService.ts:132` |
| A snapshot taken while a load or a registration is between deletion and insertion is of a partial collection, and is restored later | the same (`"unfinished"`, from the snapshot) | `S/SnapshotScheduler.ts:212` |
| A poller stores between a load's insertion and its reading back: the load writes the DDC's old value to the DDC | `data_shown`: what `WriteOut` writes is in the snapshot | `S/DataApplyService.ts:142` |
| A load and a registration fill the collection together, and the devices have two documents each | `data_concurrent`: `OneEach` without `past` (`"overlap"`) | `api/v1/routes/client.ts:680` |
| The people counter gets two documents | `data_concurrent`: `OneDocument` over all devices | `S/PeopleCounterPollerService.ts:416` |
| A person is counted by two polls, both of which read the last count before either set it | `people_counter`: `CountedOnce` without `raced` | `S/PeopleCounterPollerService.ts:347` |
| A poll answered before midnight and stored after the reset puts the document of the old day back | `people_counter`: `[][doc # None /\ doc' # None /\ doc.day <= day /\ stage = "on" => doc'.day >= doc.day]_vars` | `S/PeopleCounterPollerService.ts:372` |
| The first people of a new day, counted while the reset is still at work, are gone from the card when it sets the count to 0 | `people_counter`: `[][ZeroUnit /\ todayKey = nextRun => todayInCount = 0]_vars` | `S/PeopleCounterResetSchedulerService.ts:128` |
| `reset-data` deletes the increments and the document; the poller goes on from its own count, and with the next person the card shows all those deleted again, until midnight or a restart | `people_counter`: `ShownWasStored` without `missing`, after `EraseRaw`, `EraseDoc` and a poll | `api/v1/routes/system/people-counter.ts:276`, `:311` |
| An increment that `savePollRaw` could not store is shown on the card, and gone from it after a restart | the same, by the second disjunct of `SavePollRaw` | `S/PeopleCounterPollerService.ts:255`, `:366` |
| A time read by a user is stored and shown as the text `[object Object]`, until the poller stores the next one | `control`: `shown` holds no `Garbled` | `S/ControlService.ts:829` |
| Status 2, reported when the link went down, falls back to 0 until the cycle's next turn: it tested `linkDownActive` four awaits ago | `status`: `down /\ kind = "ddc" => [status stays Failing]` | `S/UnifiedModbusPollerService.ts:2055` |
| A failing unit of the people counter shows 0 tick after tick: the task of the other unit replaces the document it read before | `status`: `StatusFollows` for `kind = "counter"` | `S/PeopleCounterPollerService.ts:216` |
| Two tasks make two Error documents, of which the second is never looked at again | `status`: `Len(errors) <= 1` | `S/PeopleCounterPollerService.ts:232`, `S/ErrorService.ts:53` |
| Two commands of the hardware route connect at once on one client: a port stays open that nothing refers to, and every later connection fails until the device is unplugged or the server restarts, although `packages/backend/README_DEPLOYMENT.md:205` lists automatic reconnection | `line`: `NoneLeftOpen` without `overlapped`, nine steps | `S/RealModbusService.ts:187`, `api/v1/routes/hardware.ts:546` |
| One command alone leaves a port open: the test of its port is given up after five seconds, and the opening succeeds later in a client nothing refers to | `line`: `NoneLeftOpen` without `overlapped`, `TestTimeout` then `LateOpening` | `S/RealModbusService.ts:160`, `:173` |
| The DDC's second hand passes 59 between the write of MINUTE and that of SECOND: the clock is set to 12:31:00 for 12:30:00; a reading is off in the same way | `ddc_time`: `WholeTime` without `disturbed` | `S/DdcTimeSyncService.ts:133`, `S/SystemService.ts:1036` |
| Polling OFF during the first setting of the clock: the start-up waits for ever, and neither recovery nor the people counter's poller and reset start | `ddc_time`: `KeepsTime` without `"lost"` | `core/ServerInitializer.ts:301` |
| A line that cannot be connected is logged as "서버를 종료합니다 (Docker 재시작 유도)" (the server is ended so that Docker restarts it); the server goes on without clock, recovery and people counter | `ddc_time`: `KeepsTime` without `"aborted"` | `core/ServerInitializer.ts:580`, `index.ts:278` |
| The same server stays in mock mode: it answers commands with invented values, calls the line connected, and does not open the port though the device is there for good | `line`: `LinkFollows` without `real`, four steps | `S/UnifiedModbusCommunicationService.ts:12`, `:160`, `S/UnifiedModbusService.ts:86` |

Two more were met while reading, which no model is needed for: a registration
ends with calls of `syncTime` and `startPolling`, which do not exist
(`api/v1/routes/client.ts:478`, `:483`), and swallows the `TypeError`; and the
schema of the settings has no `ddcTime`, so that the time logged as stored
(`S/DdcTimeSyncService.ts:200`) is stripped, and the answer of
`/system/ddc-time/sync` carries none.

---

## 5. What is proved

TLAPS checks every step; no obligation is left out, and nothing is assumed but
the named `ASSUME`s on constants, which say that sets that must be disjoint
are, and that defaults are members.  A theorem holds for every number of
commands, requests, timers, devices, jobs and values.

| Theorem | States |
|---|---|
| `CommandQueueProofs!Typing`, `LoopsCorrect`, `CommandsInOnePlace` | `TypeOK`; `LoopsServe`; `OnePlace` |
| `CommandQueueProofs!QueueIsChannel` | `ImplementsChannel`: the queue refines `CommandChannel` |
| `PollingLifecycleProofs!Typing`, `NoTimerLeftBehind`, `CyclesExclude` | `TypeOK`; `NoOrphanTimer`; `OneCycle` |
| `PollingLifecycleProofs!FlagObeyed` | `FlagIsObeyed` |
| `RuntimeSettingsProofs!Typing`, `UpdatesKept` | `TypeOK`; `NoLostUpdate` |
| `RuntimeSettingsProofs!LockIsExact`, `FlagIsFrozen` | `LockExact`; `FlagFrozen` |
| `DataLoadProofs!Typing`, `ApplicationsExclude` | `TypeOK`; `OneApplication` |
| `DataLoadProofs!OneDocumentEach`, `OneEachAtRest` (with `NoneMissingAtRest`) | `OneDocument`; `OneEach` |
| `PeopleCounterProofs!TypeCorrect`, `JobsAreServed` | `TypeOK`; `JobsServed` |
| `PeopleCounterProofs!ShownAlwaysStored`, `NobodyTwice` | `ShownWasStored`; `CountedOnce` |
| `ControlCommandProofs!Typing`, `WrittenIsTaken`, `SettledStays`, `TimeStaysWhole` | `TypeOK`; `WriteSuccessTaken`; `SettledForGood`; `TimeIsWhole` |
| `UnitStatusProofs!Typing`, `CollectionsAgree` | `TypeOK`; `AgreeUnlessDisturbed` |
| `DdcProofs!Typing`, `OnceOnTheWire`, `NoPortLeftOpen` | `TypeOK`; `SentOnce`; `NoneLeftOpen` of `SerialLine` |
| `DdcProofs!ClockTyping`, `TimeIsSetWhole` | `ClockTypeOK`; `WholeTime` of `DdcTime` |
| `CommandQueueProofs!LostStaysLost` | a command dropped by a clear is never executed nor answered (`LostForGood`) |
| `PollingLifecycleProofs!LostReadWedges` | after a dropped read no cycle begins until a restart (`WedgeStays`) |
| `RuntimeSettingsProofs!LeftLockIsFinal` | a lock left behind, and the polling flag, stay (`LeftLockStays`) |
| `DataLoadProofs!LostWriteBlocks` | after a dropped write no job gets inside until a restart (`LostBlocks`) |
| `DdcProofs!StrayPortStays` | a port nothing refers to shuts the line until the device is unplugged (`StrayStays`) |

No theorem has a condition on a constant beyond those `ASSUME`s.  Where a promise
is broken by an overlap, a failure or a crash the model has, the property itself
says so, by a history variable (`past`, `raced`, `missing`, `overlapped`, `torn`,
`unlogged`, `disturbed`), and these are the counterexamples above turned round.
The overlaps, failures and crashes a model has are those its section above
names; what it leaves out (the last lines of each section, and section 6) a
theorem says nothing of.

The last five rows say how a broken promise goes on: the findings and the
counterexamples of section 4 show that these states are reached, and the
theorems that what the code does later does not end them.  They are action properties,
defined beside their proofs and not in a run's list; TLC found no step against
them on the instances of `queue`, `polling`, `settings_serial`, `data_shown` and
`line`.

### The arguments

* **`LoopsCorrect`.**  `OneLoop` alone is inductive but for a clear: a loop that
  starts needs the queue of the current generation.  `LoopInv` adds that arrays
  of generations to come are empty (`FreshEmpty`), so a clear cannot wake
  anything, and `NoLostWakeup`, whose interesting step is `EndPass`: the flag
  falls only in the turn in which the arrays were seen empty.
* **`CommandsInOnePlace`.**  `OnePlace` says that a command is at one index of one
  array object, or in one loop, and pending.  `ShiftIndex`, `ShiftHead`,
  `ShiftPlace` and `AddIndex`, `AddPlace` say what a shift and a push do index by
  index; `OneLoop` is needed for a loop that ends holding nothing.
* **`NoTimerLeftBehind`.**  Inductive as it stands: every place that sets the
  field clears the timer it had, or runs in the callback of that timer, which
  is no longer live.  `OnlyField` states it for the intermediate value of the
  timers inside one turn.
* **`CyclesExclude`.**  Inductive: the flag is tested and set in one turn, and
  the finally block of the only cycle gives it back, however many stops and
  starts came between.
* **`QueueIsChannel`.**  The waiting line of a priority has two views (`ViewInv`):
  while no loop is in that priority it is the array the field refers to; while
  one is, it is the array object that loop holds, detached or not, followed by
  the field's array if that is another.  `ConcatAppend` and `ConcatHeadTail` say
  that a push and a shift do the same to the view as to the arrays; that arrays
  of generations to come are empty (`FreshEmpty`) makes a clear a cut of the
  line's end.  Each action is then a step of the channel or a stutter, one
  lemma each.
* **`FlagObeyed`.**  Three invariants.  `Orderly`: unless requests overlapped,
  there is one at a time (`OneRequest`), and `Silence`: a request on its way to
  start the poller means that the flag is ON, and OFF with no stop on its way
  means silence already.  `NoneInVain`: a timer of a cycle is never live with
  `stopRequested` set.  `Unfailing`: unless something overlapped or failed, ON
  and no request on its way means a timer, or a cycle that will set one.  A
  request that writes the flag alone establishes all three from *any* state,
  and that is why `past` may be cleared there.
* **`UpdatesKept`.**  `OneUpdates` (one process between its check and its write)
  makes a copy that was read stay fresh (`FreshCopy`), and a fresh copy makes the
  write of all fields change one.  Both hold until an overlap is noted
  (`UpdateKept`); when no call is under way both hold of any document, which is
  why the history may be forgotten there.  `Noted` and `PastGrows` say that
  every step notes what it is.
* **`LockIsExact`, `FlagIsFrozen`.**  `LockInv` says who has the lock
  (`OneHolds`), that it is set while somebody has it, and that a toggle or a load
  on its way past its last check has found it free and still does
  (`LockKnown`).  That last part is what an overlap destroys, and an overwritten
  document destroys that the lock is set (`LockKept`).  That it is set *only*
  while somebody has it needs the whole history to be empty (`PastClean`): what
  is left behind, by a crash or by a release that fails, is noted in the step
  that leaves it and stays noted until the lock is seen cleared.
* **`ApplicationsExclude`.**  Inductive: the flag and the set of jobs inside
  change together in every action that touches either, crashes included.
* **`OneDocumentEach`.**  `OneFilling`: until an overlap is noted one job at most
  is between its deletion and its last insertion, since whoever deletes beside
  another notes it.  `EachOnce`: the collection, the snapshot and what a load is
  going to insert hold one document per device of the DDC, each unless its own
  history has an overlap; and a job about to insert finds nothing of the DDC's
  in the collection.  The history travels with the documents, from the
  collection to a snapshot, to a load and back.
* **`OneEachAtRest`.**  `NoneMissingAtRest` besides, by `NoneLost`: what is in the
  collection and what the one job has still to put there cover all devices,
  unless something was left out on the way; and an insertion meets no `_id` that
  is there already, because what the people counter's poller inserted meanwhile
  is of a newer generation than any document there has been (`MadeBefore`).
* **`JobsAreServed`.**  Inductive as it stands.
  `AppendHolds` and `TailHolds` say what a push and a shift do to a queue
  without duplicates, `DrainKeeps` that a drain moves a job and drops none;
  each action of an owner then enqueues, ends, moves or stays.
* **`ShownAlwaysStored`.**  `DayInv`: not only the document, but every number on
  its way to it (the unit's count, what a poll or the start is about to store)
  is covered by the increments of its day, those stored and those missing from
  the database.  Their sum only grows: a failed store adds to the missing ones
  (`DayAdded`), and a deletion moves the stored ones there.
* **`NobodyTwice`.**  `CountInv` follows the counts in the order in which they
  will be taken: from the last reference to the reading of the poll being
  saved, to the answer on its way, to the device.  What is stored and what
  these steps can still add is at most who entered.  `Triangle` says that a
  count left out in between (a lost answer) never adds, `DeltaGrows` what one
  person or a reset of the device does to the last step.  Two polls being saved
  at once would both start from the same reference; that is `raced`.

* **`WrittenIsTaken`, `SettledStays`.**  `LogInv`: the array of logs is in the
  order of the commands and lacks only logs that could not be created
  (`InOrder`), so that command `i` with a full array is under its own log; no log
  the loop has still to come to is settled, nor is one that is to become
  `success` (`Open`); and the write whose log is about to say `success` was
  taken (`Truth`).  That a late `fail` never falls on a `success` is what
  `handleSuccess`, which swallows its errors, buys.
* **`TimeStaysWhole`.**  `TimeInv`: every request at a write is in the queue once
  (`Queued`), and, while no write of a time was refused, the last MINUTE in
  the queue is of the HOUR the DDC holds, or the DDC's two agree if there is
  none (`LastMinute`).  It rests on the MINUTE being queued in the turn in which
  the HOUR is answered, before the next HOUR can be.
* **`CollectionsAgree`.**  `QuietInv`: until two reports overlap or one fails, at
  most one report is under way, and what it has read is what is there (`Calm`);
  each of its four calls then restores the agreement for its unit.  The document
  without units that a registration creates agrees as no document does, and is
  deleted or pushed to like any other.
* **`OnceOnTheWire`.**  `SentWaits`: a command has been sent exactly while it
  waits; a reconnection begins only with one that was not.
* **`NoPortLeftOpen`.**  `PortInv`: until two commands connect at once or a test is
  given up, one command connects at most, the start-up among them, and no opening
  of a test is on its way (`OneConnects`, `PortKept`); what it has found closed stays closed until it opens
  it (`FoundClosed`); the client it opens is still the service's
  (`OpensItsOwn`); and whatever has the device file open can close it
  (`HeldByUser`).
* **`TimeIsSetWhole`.**  `DoneAgrees`: of a job that waits for its next command,
  what it has done agrees with the clock, register by register, until a carry
  or another job disturbs it.  A tick that does not carry past a register
  leaves it (`TickAgrees`), a write by another job is at a register behind it
  only if it disturbs it (`LeftAloneBySet`).  Two facts about where jobs begin are
  needed: a job that has no command yet is at the first part
  (`BeginsAtFirst`), and the timer has not run when the start-up comes to its
  first setting (`TimerWaits`).

* **`LostStaysLost`.**  A command that waits nowhere a field or a loop can reach
  stays there: a shift makes no array reachable that was not (`ShiftLost`), an
  add puts nothing but its own command in one (`AddLost`), and a clear brings in
  arrays that are still empty (`ClearLost`, by `FreshEmpty`).  This is what lets
  `PollingLifecycle`, `DataLoad` and the other modules have one state, `"lost"`,
  for whoever awaits a dropped command.
* **`LostReadWedges`, `LostWriteBlocks`.**  The flag is given back by nobody but
  the one whose command was dropped (`OneCycle`, `OneApplication`), and every
  other step tests it or is outside.
* **`LeftLockIsFinal`.**  `LockStuck`: nobody is past its check with a toggle or a
  lock, and whoever has read the document has read the lock and the flag as
  they are, so that writing them back changes neither.  A moment without a
  call establishes it, and every step but the two that overwrite the document
  keeps it, a restart of the server included.
* **`StrayPortStays`.**  The test and the opening need the device file free, and a
  request needs the file open in the client the service has.

### Model-checked only

* Liveness: `AnsweredOrLost`, `CyclesMoveOn`, `LockReleased`, `ComesOut`,
  `ShowsTheDevice`, `LogsSettle`, `TimeShown`, `StatusFollows`, `LinkFollows`,
  `KeepsTime`.  The prover has no rule for fairness (`ENABLED`).

Also out of the prover's reach, and not needed so far: induction over data, and
`RECURSIVE` operators.  No module uses either.

---

## 6. Not modelled, and why

* **Two transactions on the line at once.**  `SerialLine` has two commands
  connect together, but not their bytes mix: what a device makes of that is not
  in the code.  Nor the data of a transaction, which is a model value in
  `DataLoad` and `ControlCommand`.
* **Essential polling's own reads.**  Its interval is modelled, its reads are not;
  they do not await each other, so their number in the queue has no bound.
* **The cache of registered devices** (`S/UnifiedModbusPollerService.ts:278`), five
  minutes of it, which a registration does not clear: the cycles of the models
  report on the devices there are.
* **Values and tables**: the coding of fields (`S/realModbusFieldCodec.ts`), the
  port mappings (`meta/`, `data/`) and the transformation of a reading
  (`S/DataSyncService.ts`) are arithmetic and look-ups without state that unit
  tests reach.
* **The hardware route but for its use of the line, `syncStatus` and
  `lastSyncTime` of the clock, the statistics of polling**: shown and not
  acted on.
* **Code without a caller**: mode switches and `retryConnection` of the Modbus
  service, `cancel` of a load, `executeUnitCommand` and the strategies of
  control, `HardwareControlService`, the alarm fields of Status.
* **Schedulers** beyond the snapshot they take: timers, and the deletion of
  old documents.
* **In-memory and hybrid repositories, mock hardware**: they stand in for the
  database and the line in tests and development.
* **WebSocket, logs, users, keys, host control**: no other part depends on what
  they do, or they are single-document updates and calls of the operating
  system.
* **The frontend** (`packages/frontend`) is about half of the repository's lines.  It
  shows what REST and WebSocket bring and keeps no state the backend depends on;
  its command dialog polls a log every 300 ms and gives up after 30 s, which
  changes nothing in the backend.  The tester, scripts, nginx and Docker files
  are tools.  So the models stand for a small share of all lines, the
  concurrent and failing part of the backend.
* **The database** is taken to apply one call at a time and to keep what it
  applied; a call that rejects is taken to have changed nothing.  Rejecting calls
  are `CutShort` and `StoreFails` of `DataLoad`, the two `Fail`s of
  `PollingLifecycle` and `RuntimeSettings`, the second disjunct of `SavePollRaw`,
  `Store` and `EraseDoc` of `PeopleCounter`, `Fault` of `UnitStatus`, and what
  `MaxFault` bounds in `ControlCommand`.
