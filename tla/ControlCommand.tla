--------------------------- MODULE ControlCommand ---------------------------
(***************************************************************************)
(* A user's request is a list of commands for one unit.  The route creates *)
(* a CommandLog 'waiting' for each, answers the user, and executes the     *)
(* commands one after another in the background: a command becomes one or  *)
(* two transactions of the Modbus queue, its answer settles the log and is *)
(* stored in the unit's Data, which the poller stores to as well.          *)
(*                                                                         *)
(* The route keeps the logs it could create in an array and executes       *)
(* command i under the i-th log of that array.                             *)
(*                                                                         *)
(* A time is an hour and a minute register; time v stands for the hour and *)
(* the minute of v, so that the DDC holds a time somebody set when both    *)
(* registers hold the same v.                                              *)
(***************************************************************************)
EXTENDS Naturals, Sequences

CONSTANTS Request,      \* the requests of users
          N,            \* the commands of each request
          Bodies,       \* what the requests may ask for, each a command list
          Value,        \* switch values and times
          First,        \* what the DDC holds at first
          Garbled,      \* "[object Object]", the text of a queue answer
          MaxFault      \* bound on the faults of a behaviour

Position == 1..N

Kind == {"write", "read", "time", "readTime", "invalid"}

ASSUME ControlAssumption ==
  /\ N \in Nat \ {0}
  /\ Bodies \subseteq [Request -> [Position -> [kind : Kind, value : Value]]]
  /\ First \in Value
  /\ Garbled \notin Value
  /\ MaxFault \in Nat

VARIABLES commands, \* the body of each request
          at,       \* where the handler of each request is
          cur,      \* its loop index
          logs,     \* commandLogs: the command each log was created for
          log,      \* the status of the log created for each command
          tries,    \* how often 'fail' is still to be written
          got,      \* the answer to store
          queue,    \* the high priority writes, the first may be on the line
          ddc,      \* the registers
          data,     \* the unit's fields in Data, one for each register
          shown,    \* and its integrated field, the time as shown
          poll,     \* where the poller is
          reading,  \* the registers as the poller read them
          faults,   \* faults so far
          taken,    \* history: the registers each command wrote
          torn,     \* history: a part of a time was not taken
          unlogged  \* history: logs whose last update failed

request == <<at, cur, logs, log, tries, got>>
history == <<taken, torn, unlogged>>
poller == <<poll, reading>>
documents == <<data, shown>>
vars == <<commands, request, queue, ddc, documents, poller, faults, history>>

InQueue == {"write", "hour", "minute"}
Reading == {"read", "readHour", "readMinute"}
Ended == {"done", "lost", "stopped"}
Stage == {"unsent", "creating", "loop", "logging", "storing", "failing"}
         \cup InQueue \cup Reading \cup Ended

Register == {"switch", "hour", "minute"}
Registers == [Register -> Value]
Text == Value \cup {Garbled}

TypeOK ==
  /\ commands \in Bodies
  /\ at \in [Request -> Stage]
  /\ cur \in [Request -> 1..(N + 1)]
  /\ logs \in [Request -> Seq(Position)]
  /\ log \in [Request -> [Position -> {"none", "waiting", "success", "fail"}]]
  /\ tries \in [Request -> 0..4]
  /\ got \in [Request -> Text]
  /\ queue \in Seq(Request)
  /\ ddc \in Registers
  /\ data \in Registers
  /\ shown \in Text \X Text
  /\ poll \in {"idle"} \cup Register
  /\ reading \in Registers
  /\ faults \in 0..MaxFault
  /\ taken \in [Request -> SUBSET (Position \X Register)]
  /\ torn \in BOOLEAN
  /\ unlogged \in [Request -> SUBSET Position]

Init ==
  /\ commands \in Bodies
  /\ at = [r \in Request |-> "unsent"]
  /\ cur = [r \in Request |-> 1]
  /\ logs = [r \in Request |-> << >>]
  /\ log = [r \in Request |-> [k \in Position |-> "none"]]
  /\ tries = [r \in Request |-> 0]
  /\ got = [r \in Request |-> First]
  /\ queue = << >>
  /\ ddc = [x \in Register |-> First]
  /\ data = [x \in Register |-> First]
  /\ shown = <<First, First>>
  /\ poll = "idle"
  /\ reading = [x \in Register |-> First]
  /\ faults = 0
  /\ taken = [r \in Request |-> {}]
  /\ torn = FALSE
  /\ unlogged = [r \in Request |-> {}]

Command(r) == commands[r][cur[r]]

(* The command whose log command cur[r] is executed under.                  *)
Log(r) == logs[r][cur[r]]

Fault == faults < MaxFault /\ faults' = faults + 1
NoFault == UNCHANGED faults

Goto(r, stage) == at' = [at EXCEPT ![r] = stage] /\ UNCHANGED cur
SetLog(r, k, status) == log' = [log EXCEPT ![r][k] = status]

(* The background loop goes on to the next command; the answer is local to  *)
(* the one that ends.                                                       *)
NextCommand(r) ==
  /\ got' = [got EXCEPT ![r] = First]
  /\ cur' = [cur EXCEPT ![r] = @ + 1]
  /\ at' = [at EXCEPT ![r] = IF cur[r] = N THEN "done" ELSE "loop"]

Fail(r, n) == Goto(r, "failing") /\ tries' = [tries EXCEPT ![r] = n]

-----------------------------------------------------------------------------
(* Definitions whose comment starts with "Defect" are not part of the       *)
(* model: each is a plausible mistake in the definition after it, used to   *)
(* see that a property depends on that definition.                          *)

Post(r) ==
  /\ at[r] = "unsent"
  /\ Goto(r, "creating")
  /\ UNCHANGED <<logs, log, tries, got, queue, ddc, documents, poller, faults,
                 history>>

(* Defect: the loop goes one command too far.                               *)
CreateLogPast(r) ==
  /\ at[r] = "creating"
  /\ NoFault
  /\ logs' = [logs EXCEPT ![r] = Append(@, cur[r])]
  /\ log' = [log EXCEPT ![r] = [k \in 1..cur[r] |->
                                  IF k = cur[r] THEN "waiting" ELSE @[k]]]
  /\ IF cur[r] = N + 1
     THEN /\ cur' = [cur EXCEPT ![r] = 1]
          /\ at' = [at EXCEPT ![r] = "loop"]
     ELSE cur' = [cur EXCEPT ![r] = @ + 1] /\ UNCHANGED at
  /\ UNCHANGED <<tries, got, queue, ddc, documents, poller, history>>

(* The loop that creates the logs; a failed create is caught and skipped.   *)
CreateLog(r) ==
  /\ at[r] = "creating"
  /\ \/ /\ logs' = [logs EXCEPT ![r] = Append(@, cur[r])]
        /\ SetLog(r, cur[r], "waiting")
        /\ NoFault
     \/ Fault /\ UNCHANGED <<logs, log>>
  /\ IF cur[r] = N
     THEN /\ cur' = [cur EXCEPT ![r] = 1]
          /\ at' = [at EXCEPT ![r] = "loop"]
     ELSE cur' = [cur EXCEPT ![r] = @ + 1] /\ UNCHANGED at
  /\ UNCHANGED <<tries, got, queue, ddc, documents, poller, history>>

(* No log is left for this command: it is not executed.                     *)
Skip(r) ==
  /\ at[r] = "loop"
  /\ cur[r] > Len(logs[r])
  /\ NextCommand(r)
  /\ UNCHANGED <<logs, log, tries, queue, ddc, documents, poller, faults,
                 history>>

(* executeUnitCommandWithExistingLog of a command other than a time: the    *)
(* log is set to 'waiting' again, then the transaction is queued.  The      *)
(* update of the log is outside the try: its failure reaches the route.     *)
Begin(r) ==
  /\ at[r] = "loop"
  /\ cur[r] <= Len(logs[r])
  /\ Command(r).kind \in {"write", "read"}
  /\ \/ /\ NoFault
        /\ SetLog(r, Log(r), "waiting")
        /\ Goto(r, Command(r).kind)
        /\ queue' = IF Command(r).kind = "write" THEN Append(queue, r)
                                                 ELSE queue
        /\ UNCHANGED tries
     \/ Fault /\ Fail(r, 1) /\ UNCHANGED <<log, queue>>
  /\ UNCHANGED <<logs, got, ddc, documents, poller, history>>

(* executeTimeCommand and executeTimeGetCommand up to their first await.    *)
BeginTime(r) ==
  /\ at[r] = "loop"
  /\ cur[r] <= Len(logs[r])
  /\ \/ /\ Command(r).kind = "time"
        /\ Goto(r, "hour")
        /\ queue' = Append(queue, r)
     \/ /\ Command(r).kind = "readTime"
        /\ Goto(r, "readHour")
        /\ UNCHANGED queue
  /\ UNCHANGED <<logs, log, tries, got, ddc, documents, poller, faults, history>>

(* A command that is not sent: a time that cannot be parsed (only the       *)
(* route writes 'fail'), a key without a port mapping or a unit type        *)
(* without Modbus commands (handleFailure, then the route), a time command  *)
(* without a port mapping (executeTimeCommand, for the second schedule      *)
(* twice, its catch, the route).                                            *)
Reject(r) ==
  /\ at[r] = "loop"
  /\ cur[r] <= Len(logs[r])
  /\ Command(r).kind = "invalid"
  /\ \E n \in 1..4 : Fail(r, n)
  /\ UNCHANGED <<logs, log, got, queue, ddc, documents, poller, faults, history>>

-----------------------------------------------------------------------------
(* The line.  executeCommand of the queue resolves with success FALSE when  *)
(* the transaction failed: the DDC may have refused it, or its answer was   *)
(* lost.                                                                    *)

Take(r, register) ==
  /\ ddc' = [ddc EXCEPT ![register] = Command(r).value]
  /\ taken' = [taken EXCEPT ![r] = @ \cup {<<cur[r], register>>}]

(* Defect: the answer's success is not looked at.                           *)
AnswerWriteUnseen(r) ==
  /\ queue # << >> /\ r = Head(queue)
  /\ at[r] = "write"
  /\ queue' = Tail(queue)
  /\ got' = [got EXCEPT ![r] = Command(r).value]
  /\ Goto(r, "logging")
  /\ \/ NoFault /\ Take(r, "switch")
     \/ Fault /\ UNCHANGED <<ddc, taken>>
  /\ UNCHANGED <<logs, log, tries, documents, poller, torn, unlogged>>

(* A write is answered.  On failure handleFailure writes 'fail', the throw  *)
(* is caught and written again, and once more by the route.                 *)
AnswerWrite(r) ==
  /\ queue # << >> /\ r = Head(queue)
  /\ at[r] = "write"
  /\ queue' = Tail(queue)
  /\ \/ /\ NoFault
        /\ Take(r, "switch")
        /\ got' = [got EXCEPT ![r] = Command(r).value]
        /\ Goto(r, "logging")
        /\ UNCHANGED tries
     \/ /\ Fault
        /\ Take(r, "switch") \/ UNCHANGED <<ddc, taken>>
        /\ Fail(r, 3)
        /\ UNCHANGED got
  /\ UNCHANGED <<logs, log, documents, poller, torn, unlogged>>

(* Defect: a pause before the MINUTE write: others come first, or last.     *)
AnswerHourLate(r) ==
  /\ queue # << >> /\ r = Head(queue)
  /\ at[r] = "hour"
  /\ Goto(r, "minute")
  /\ \E k \in 1..Len(queue) :
       queue' = SubSeq(queue, 2, k) \o <<r>> \o SubSeq(queue, k + 1, Len(queue))
  /\ \/ NoFault /\ Take(r, "hour") /\ UNCHANGED torn
     \/ Fault /\ torn' = TRUE /\ UNCHANGED <<ddc, taken>>
  /\ UNCHANGED <<logs, log, tries, got, documents, poller, unlogged>>

(* executeTimeCommand does not look at the answers.  The HOUR write's       *)
(* answer resumes it before any other code of the process runs, so that     *)
(* the MINUTE write is queued behind the writes that wait already.          *)
AnswerHour(r) ==
  /\ queue # << >> /\ r = Head(queue)
  /\ at[r] = "hour"
  /\ Goto(r, "minute")
  /\ queue' = Append(Tail(queue), r)
  /\ \/ NoFault /\ Take(r, "hour") /\ UNCHANGED torn
     \/ Fault /\ torn' = TRUE /\ UNCHANGED <<ddc, taken>>
  /\ UNCHANGED <<logs, log, tries, got, documents, poller, unlogged>>

AnswerMinute(r) ==
  /\ queue # << >> /\ r = Head(queue)
  /\ at[r] = "minute"
  /\ Goto(r, "logging")
  /\ queue' = Tail(queue)
  /\ got' = [got EXCEPT ![r] = Command(r).value]
  /\ \/ NoFault /\ Take(r, "minute") /\ UNCHANGED torn
     \/ Fault /\ torn' = TRUE /\ UNCHANGED <<ddc, taken>>
  /\ UNCHANGED <<logs, log, tries, documents, poller, unlogged>>

(* Reads have normal priority: they may be served before or after a write.  *)
(* executeTimeGetCommand looks at neither answer and writes the answer      *)
(* objects as text.                                                         *)
AnswerRead(r) ==
  /\ \/ /\ at[r] = "read" /\ NoFault
        /\ got' = [got EXCEPT ![r] = ddc["switch"]]
        /\ Goto(r, "logging")
        /\ UNCHANGED tries
     \/ at[r] = "read" /\ Fault /\ Fail(r, 3) /\ UNCHANGED got
     \/ at[r] = "readHour" /\ Goto(r, "readMinute")
        /\ UNCHANGED <<tries, got, faults>>
     \/ /\ at[r] = "readMinute"
        /\ got' = [got EXCEPT ![r] = Garbled]
        /\ Goto(r, "logging")
        /\ UNCHANGED <<tries, faults>>
  /\ UNCHANGED <<logs, log, queue, ddc, documents, poller, history>>

-----------------------------------------------------------------------------
(* handleSuccess: the log, then the field.  Every error is swallowed: when  *)
(* the log could not be updated the field is not stored either, and the     *)
(* command still counts as executed.                                        *)
LogSuccess(r) ==
  /\ at[r] = "logging"
  /\ \/ /\ NoFault
        /\ SetLog(r, Log(r), "success")
        /\ Goto(r, "storing")
        /\ UNCHANGED <<got, unlogged>>
     \/ /\ Fault
        /\ unlogged' = [unlogged EXCEPT ![r] = @ \cup {Log(r)}]
        /\ NextCommand(r)
        /\ UNCHANGED log
  /\ UNCHANGED <<logs, tries, queue, ddc, documents, poller, taken, torn>>

(* The field the answer of a command is stored in: the user's time in the   *)
(* integrated field only.                                                   *)
StoreAnswer(r) ==
  \/ /\ Command(r).kind \in {"write", "read"}
     /\ data' = [data EXCEPT !["switch"] = got[r]]
     /\ UNCHANGED shown
  \/ /\ Command(r).kind \in {"time", "readTime"}
     /\ shown' = <<got[r], got[r]>>
     /\ UNCHANGED data

(* Defect: an error of the store is rethrown to executeTimeCommand's catch. *)
StoreOrFail(r) ==
  /\ at[r] = "storing"
  /\ \/ NoFault /\ StoreAnswer(r) /\ NextCommand(r) /\ UNCHANGED tries
     \/ Fault /\ Fail(r, 2) /\ UNCHANGED <<got, documents>>
  /\ UNCHANGED <<logs, log, queue, ddc, poller, history>>

(* updateDeviceDataLegacy and updateSingleField.                            *)
Store(r) ==
  /\ at[r] = "storing"
  /\ \/ NoFault /\ StoreAnswer(r)
     \/ Fault /\ UNCHANGED documents
  /\ NextCommand(r)
  /\ UNCHANGED <<logs, log, tries, queue, ddc, poller, history>>

(* Defect: the loop has no try of its own: a failed command ends it.        *)
LogFailAndEnd(r) ==
  /\ at[r] = "failing"
  /\ tries' = [tries EXCEPT ![r] = @ - 1]
  /\ \/ NoFault /\ SetLog(r, Log(r), "fail") /\ UNCHANGED unlogged
     \/ /\ Fault
        /\ unlogged' = IF tries[r] = 1 /\ log[r][Log(r)] = "waiting"
                       THEN [unlogged EXCEPT ![r] = @ \cup {Log(r)}]
                       ELSE unlogged
        /\ UNCHANGED log
  /\ IF tries[r] = 1 THEN Goto(r, "done") /\ UNCHANGED got
     ELSE UNCHANGED <<at, cur, got>>
  /\ UNCHANGED <<logs, queue, ddc, documents, poller, taken, torn>>

(* 'fail' is written by each catch the error passes, the last one being the *)
(* route's, which goes on with the next command.                            *)
LogFail(r) ==
  /\ at[r] = "failing"
  /\ tries' = [tries EXCEPT ![r] = @ - 1]
  /\ \/ NoFault /\ SetLog(r, Log(r), "fail") /\ UNCHANGED unlogged
     \/ /\ Fault
        /\ unlogged' = IF tries[r] = 1 /\ log[r][Log(r)] = "waiting"
                       THEN [unlogged EXCEPT ![r] = @ \cup {Log(r)}]
                       ELSE unlogged
        /\ UNCHANGED log
  /\ IF tries[r] = 1 THEN NextCommand(r) ELSE UNCHANGED <<at, cur, got>>
  /\ UNCHANGED <<logs, queue, ddc, documents, poller, taken, torn>>

-----------------------------------------------------------------------------
Waiting == {r \in Request : at[r] \in InQueue \cup Reading}

(* What may be on the line: a read, or the first write of the queue.        *)
OnLine == {r \in Waiting : at[r] \in Reading \/ r = Head(queue)}

(* clearQueue: the promises of what is queued are never settled; what is on *)
(* the line is answered.                                                    *)
Clear ==
  /\ Waiting # {} /\ Fault
  /\ \E kept \in {{}} \cup {{r} : r \in OnLine} :
       /\ queue' = IF queue # << >> /\ Head(queue) \in kept
                   THEN <<Head(queue)>> ELSE << >>
       /\ at' = [r \in Request |-> IF r \in Waiting \ kept THEN "lost"
                                                           ELSE at[r]]
       /\ torn' = (torn \/ \E r \in Waiting \ kept : at[r] = "minute")
  /\ UNCHANGED <<cur, logs, log, tries, got, ddc, documents, poller, taken,
                 unlogged>>

(* The process stops and starts again: its requests and its queue are gone, *)
(* the documents stay as they are.                                          *)
Restart ==
  /\ Fault
  /\ at' = [r \in Request |-> IF at[r] \in Ended \cup {"unsent"}
                              THEN at[r] ELSE "stopped"]
  /\ queue' = << >>
  /\ torn' = (torn \/ \E r \in Request : at[r] = "minute")
  /\ poll' = "idle"
  /\ UNCHANGED <<cur, logs, log, tries, got, ddc, documents, reading, taken,
                 unlogged>>

-----------------------------------------------------------------------------
(* The poller reads the unit's registers in one transaction and stores them *)
(* one after another; a poll that fails stores nothing and is not a step.   *)
PollRead ==
  /\ poll = "idle"
  /\ reading' = ddc
  /\ poll' = "switch"
  /\ UNCHANGED <<request, queue, ddc, documents, faults, history>>

AfterStore == [switch |-> "hour", hour |-> "minute", minute |-> "idle"]

(* Defect: the integrated field is left to the user's commands.             *)
PollStoreAlone ==
  /\ poll # "idle"
  /\ NoFault /\ data' = [data EXCEPT ![poll] = reading[poll]]
  /\ poll' = AfterStore[poll]
  /\ reading' = IF poll = "minute" THEN [x \in Register |-> First] ELSE reading
  /\ UNCHANGED <<request, queue, ddc, shown, history>>

(* handleTimeFieldSync: an hour or a minute takes the integrated field with *)
(* it, combined with the other part as Data has it.  Only the poller stores *)
(* hours and minutes, so that nothing comes between its read and its write. *)
PollStore ==
  /\ poll # "idle"
  /\ \/ /\ NoFault
        /\ data' = [data EXCEPT ![poll] = reading[poll]]
        /\ shown' = IF poll = "switch" THEN shown
                    ELSE <<data'["hour"], data'["minute"]>>
     \/ Fault /\ UNCHANGED documents
  /\ poll' = AfterStore[poll]
  /\ reading' = IF poll = "minute" THEN [x \in Register |-> First] ELSE reading
  /\ UNCHANGED <<request, queue, ddc, history>>

Progress(r) ==
  \/ CreateLog(r) \/ Skip(r) \/ Begin(r) \/ BeginTime(r) \/ Reject(r)
  \/ AnswerWrite(r) \/ AnswerHour(r) \/ AnswerMinute(r) \/ AnswerRead(r)
  \/ LogSuccess(r) \/ Store(r) \/ LogFail(r)

Next ==
  /\ \/ \E r \in Request : Post(r) \/ Progress(r)
     \/ Clear \/ Restart \/ PollRead \/ PollStore
  /\ UNCHANGED commands

Spec == Init /\ [][Next]_vars

(* Each await returns: CommandQueue shows that a command of the queue is    *)
(* answered unless it is cleared.  The poller's timer goes on.              *)
FairSpec ==
  /\ Spec
  /\ \A r \in Request : WF_vars(Progress(r) /\ UNCHANGED commands)
  /\ WF_vars((PollRead \/ PollStore) /\ UNCHANGED commands)

-----------------------------------------------------------------------------
Settled == {"success", "fail"}
Writes(k, r) ==
  {k} \X (IF commands[r][k].kind = "write" THEN {"switch"}
          ELSE IF commands[r][k].kind = "time" THEN {"hour", "minute"}
          ELSE {})

(* A log that says how its command ended never says anything else later,    *)
(* although 'fail' is written by up to three handlers and 'success' by      *)
(* another: handleSuccess swallows what goes wrong after it.                *)
SettledForGood ==
  [][\A r \in Request, k \in Position :
       log[r][k] \in Settled => log'[r][k] = log[r][k]]_vars

(* When every log could be created, a log of a general write that says      *)
(* 'success' is the log of a command the DDC took: AnswerWrite looks at the *)
(* queue's answer before handleSuccess.                                     *)
WriteSuccessTaken ==
  \A r \in Request, k \in Position :
    Len(logs[r]) = N /\ log[r][k] = "success" /\ commands[r][k].kind = "write"
      => Writes(k, r) \subseteq taken[r]

(* A log 'waiting' comes to say how its command ended, unless its last      *)
(* update failed, the queue was cleared or the process stopped: the loop of *)
(* the route goes on after a command that fails.                            *)
LogsSettle ==
  \A r \in Request, k \in Position :
    log[r][k] = "waiting" ~> \/ log[r][k] \in Settled
                             \/ k \in unlogged[r]
                             \/ at[r] \in {"lost", "stopped"}

(* While every write of a time is taken, the DDC's hour and minute are of   *)
(* one time whenever no time command is between the two, also when several  *)
(* requests set it at once: writes are first in, first out and each MINUTE  *)
(* is queued as soon as its HOUR is answered.                               *)
TimeIsWhole ==
  torn \/ (\E r \in Request : at[r] = "minute") \/ ddc["hour"] = ddc["minute"]

(* Data comes to show the DDC's time and keeps showing it, whatever was     *)
(* stored on success of a command: the poller stores what it reads.         *)
TimeShown == <>[](shown = <<ddc["hour"], ddc["minute"]>>)

(* devices.ts: a CommandLog is created for each command and the command is  *)
(* executed under its existing CommandLog.  A log that says 'success' is    *)
(* the log of a command the DDC took.                                       *)
SuccessIsTrue ==
  \A r \in Request, k \in Position :
    log[r][k] = "success" => Writes(k, r) \subseteq taken[r]
=============================================================================
