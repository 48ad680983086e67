------------------------ MODULE ControlCommandProofs ------------------------
(***************************************************************************)
(* Proofs about ControlCommand for every number of requests and commands,  *)
(* any bodies and any number of faults: type correctness; that a log is    *)
(* settled for good; that the success of a general write is true; and that *)
(* the DDC's hour and minute are of one time.                              *)
(***************************************************************************)
EXTENDS ControlCommand, TLAPS

USE ControlAssumption

LEMMA Steps ==
  ASSUME [Next]_vars
  PROVE  /\ commands' = commands
         /\ \/ \E r \in Request :
                 \/ Post(r) \/ CreateLog(r) \/ Skip(r) \/ Begin(r) \/ BeginTime(r)
                 \/ Reject(r) \/ AnswerWrite(r) \/ AnswerHour(r) \/ AnswerMinute(r)
                 \/ AnswerRead(r) \/ LogSuccess(r) \/ Store(r) \/ LogFail(r)
            \/ Clear \/ Restart \/ PollRead \/ PollStore
            \/ UNCHANGED vars
  BY Zenon DEF Next, Progress, vars

-----------------------------------------------------------------------------
(* Where a handler is says what kind of command it executes, and that the   *)
(* command has a log.                                                       *)
Busy == {"logging", "storing", "failing"} \cup InQueue \cup Reading

Stages(r) ==
  /\ at[r] \notin Ended => cur[r] \in Position
  /\ at[r] \in Busy => cur[r] <= Len(logs[r])
  /\ at[r] = "write" => Command(r).kind = "write"
  /\ at[r] \in {"hour", "minute"} => Command(r).kind = "time"
  /\ at[r] = "read" => Command(r).kind = "read"
  /\ at[r] \in {"readHour", "readMinute"} => Command(r).kind = "readTime"
  /\ at[r] \in {"logging", "storing"} /\ Command(r).kind \in {"write", "read"}
       => got[r] \in Value
  /\ at[r] = "failing" => tries[r] > 0

StageInv == \A r \in Request : Stages(r)

LEMMA CommandType ==
  ASSUME TypeOK, NEW r \in Request, cur[r] \in Position
  PROVE  Command(r).kind \in Kind /\ Command(r).value \in Value
<1>1. commands[r] \in [Position -> [kind : Kind, value : Value]]
  BY Zenon DEF TypeOK
<1>2. commands[r][cur[r]] \in [kind : Kind, value : Value]
  BY <1>1, Zenon
<1>3. QED BY <1>2 DEF Command

(* What each step may do to the handler of a request other than r.          *)
LEMMA OneMoves ==
  ASSUME TypeOK, commands' = commands, NEW r \in Request,
         at' = [at EXCEPT ![r] = at'[r]], cur' = [cur EXCEPT ![r] = cur'[r]],
         \A q \in Request \ {r} : logs'[q] = logs[q] /\ got'[q] = got[q] /\ tries'[q] = tries[q],
         StageInv, Stages(r)'
  PROVE  StageInv'
<1>1. ASSUME NEW q \in Request \ {r} PROVE Stages(q)'
  <2>1. at'[q] = at[q] /\ cur'[q] = cur[q]
    BY Zenon DEF TypeOK
  <2>2. Command(q)' = Command(q)
    BY <2>1 DEF Command
  <2>3. Stages(q)
    BY DEF StageInv
  <2>4. QED BY <2>1, <2>2, <2>3 DEF Stages
<1>2. QED BY <1>1, Zenon DEF StageInv

LEMMA Goes ==
  ASSUME TypeOK, NEW r \in Request, NEW stage \in Stage, Goto(r, stage)
  PROVE  /\ at'[r] = stage /\ cur'[r] = cur[r]
         /\ at' = [at EXCEPT ![r] = at'[r]] /\ cur' = [cur EXCEPT ![r] = cur'[r]]
         /\ at' \in [Request -> Stage] /\ cur' \in [Request -> 1..(N + 1)]
         /\ \A q \in Request \ {r} : at'[q] = at[q] /\ cur'[q] = cur[q]
  BY DEF Goto, TypeOK

LEMMA GoesOn ==
  ASSUME TypeOK, NEW r \in Request, cur[r] \in Position, NextCommand(r)
  PROVE  /\ at'[r] \in {"done", "loop"} /\ cur'[r] = cur[r] + 1
         /\ cur[r] = N <=> at'[r] = "done"
         /\ cur'[r] \in 1..(N + 1)
         /\ at'[r] = "loop" => cur'[r] \in Position
         /\ at' = [at EXCEPT ![r] = at'[r]] /\ cur' = [cur EXCEPT ![r] = cur'[r]]
         /\ at' \in [Request -> Stage] /\ cur' \in [Request -> 1..(N + 1)]
         /\ got'[r] = First /\ got' \in [Request -> Text]
         /\ \A q \in Request \ {r} : at'[q] = at[q] /\ cur'[q] = cur[q] /\ got'[q] = got[q]
<1>1. cur'[r] = cur[r] + 1 /\ cur[r] + 1 \in 1..(N + 1)
  BY DEF NextCommand, TypeOK, Position
<1>2. at'[r] = IF cur[r] = N THEN "done" ELSE "loop"
  BY DEF NextCommand, TypeOK
<1>3. at'[r] = "loop" => cur'[r] \in Position
  BY <1>1, <1>2 DEF Position
<1>4. /\ at' = [at EXCEPT ![r] = at'[r]] /\ cur' = [cur EXCEPT ![r] = cur'[r]]
      /\ \A q \in Request \ {r} : at'[q] = at[q] /\ cur'[q] = cur[q] /\ got'[q] = got[q]
      /\ got'[r] = First
  BY DEF NextCommand, TypeOK
<1>5. at'[r] \in Stage
  BY <1>2 DEF Stage, Ended
<1>6. at' \in [Request -> Stage]
  BY <1>4, <1>5 DEF TypeOK
<1>7. cur' \in [Request -> 1..(N + 1)]
  BY <1>1, <1>4 DEF TypeOK
<1>8. got' \in [Request -> Text]
  BY DEF NextCommand, TypeOK, Text
<1>9. QED BY <1>1, <1>2, <1>3, <1>4, <1>6, <1>7, <1>8, Zenon

LEMMA StageSets ==
  /\ InQueue \subseteq Stage /\ Reading \subseteq Stage /\ Ended \subseteq Stage
  /\ {"unsent", "creating", "loop", "logging", "storing", "failing"} \subseteq Stage
  /\ Busy \cap Ended = {} /\ Busy \subseteq Stage
  BY DEF Stage, Busy, InQueue, Reading, Ended

(* A handler that ends, or goes back to the loop, is in order.              *)
LEMMA GoesOnStages ==
  ASSUME TypeOK, NEW r \in Request, cur[r] \in Position, NextCommand(r)
  PROVE  Stages(r)'
<1>1. at'[r] \in {"done", "loop"} /\ (at'[r] = "loop" => cur'[r] \in Position)
  BY GoesOn
<1>2. QED BY <1>1 DEF Stages, Busy, InQueue, Reading, Ended

LEMMA LogType ==
  ASSUME TypeOK, NEW r \in Request, Stages(r), at[r] \in Busy
  PROVE  /\ cur[r] \in Position /\ cur[r] \in DOMAIN logs[r] /\ Log(r) \in Position
<1>1. cur[r] \in Position
  BY StageSets DEF Stages
<1>2. logs[r] \in Seq(Position)
  BY DEF TypeOK
<1>3. QED BY <1>1, <1>2 DEF Stages, Log, Position

LEMMA LogSet ==
  ASSUME TypeOK, NEW r \in Request, NEW k, NEW status \in {"waiting", "success", "fail"},
         SetLog(r, k, status)
  PROVE  log' \in [Request -> [Position -> {"none", "waiting", "success", "fail"}]]
<1>1. log[r] \in [Position -> {"none", "waiting", "success", "fail"}]
  BY DEF TypeOK
<1>2. [log[r] EXCEPT ![k] = status] \in [Position -> {"none", "waiting", "success", "fail"}]
  BY <1>1
<1>3. log' = [log EXCEPT ![r] = [log[r] EXCEPT ![k] = status]]
  BY DEF SetLog, TypeOK
<1>4. QED BY <1>2, <1>3 DEF TypeOK

TypeInv == TypeOK /\ StageInv

LEMMA TypeInit == Init => TypeInv
<1> SUFFICES ASSUME Init PROVE TypeInv
  OBVIOUS
<1>1. commands \in Bodies /\ faults = 0 /\ torn = FALSE /\ queue = << >> /\ poll = "idle"
  BY DEF Init
<1>2. /\ at \in [Request -> Stage] /\ cur \in [Request -> 1..(N + 1)]
      /\ logs \in [Request -> Seq(Position)] /\ tries \in [Request -> 0..4]
      /\ log \in [Request -> [Position -> {"none", "waiting", "success", "fail"}]]
      /\ got \in [Request -> Text]
      /\ taken \in [Request -> SUBSET (Position \X Register)]
      /\ unlogged \in [Request -> SUBSET Position]
  BY DEF Init, Stage, Text
<1>3. ddc \in Registers /\ data \in Registers /\ reading \in Registers /\ shown \in Text \X Text
  BY DEF Init, Registers, Text
<1>4. TypeOK
  <2>1. faults \in 0..MaxFault /\ queue \in Seq(Request) /\ poll \in {"idle"} \cup Register
    BY <1>1
  <2>2. QED BY <1>1, <1>2, <1>3, <2>1, Zenon DEF TypeOK
<1>5. ASSUME NEW r \in Request PROVE Stages(r)
  <2>1. at[r] = "unsent" /\ cur[r] = 1
    BY DEF Init
  <2>2. QED BY <2>1 DEF Stages, Busy, InQueue, Reading, Ended, Position
<1>6. QED BY <1>4, <1>5, Zenon DEF TypeInv, StageInv

LEMMA PostType ==
  ASSUME TypeInv, commands' = commands, NEW r \in Request, Post(r)
  PROVE  TypeInv'
<1>1. Goto(r, "creating") /\ Stages(r) /\ "creating" \in Stage
  BY StageSets DEF Post, TypeInv, StageInv
<1>2. TypeOK'
  BY <1>1, Goes DEF Post, TypeInv, TypeOK, documents, poller, history
<1>3. Stages(r)'
  BY <1>1, Goes DEF Post, TypeInv, Stages, Busy, InQueue, Reading, Ended
<1>4. StageInv'
  BY <1>1, <1>3, Goes, OneMoves DEF Post, TypeInv
<1>5. QED BY <1>2, <1>4 DEF TypeInv

LEMMA CreateLogType ==
  ASSUME TypeInv, commands' = commands, NEW r \in Request, CreateLog(r)
  PROVE  TypeInv'
<1>1. cur[r] \in Position /\ Stages(r)
  BY DEF CreateLog, TypeInv, StageInv, Stages, Ended
<1>2. logs' \in [Request -> Seq(Position)] /\ \A q \in Request \ {r} : logs'[q] = logs[q]
  <2>1. Append(logs[r], cur[r]) \in Seq(Position)
    BY <1>1 DEF TypeInv, TypeOK
  <2>2. QED BY <2>1 DEF CreateLog, TypeInv, TypeOK
<1>3. log' \in [Request -> [Position -> {"none", "waiting", "success", "fail"}]]
  BY LogSet DEF CreateLog, TypeInv, TypeOK
<1>4. /\ at'[r] \in {"creating", "loop"} /\ cur'[r] \in Position
      /\ at' = [at EXCEPT ![r] = at'[r]] /\ cur' = [cur EXCEPT ![r] = cur'[r]]
  <2>1. CASE cur[r] = N
    BY <2>1 DEF CreateLog, TypeInv, TypeOK, Position
  <2>2. CASE cur[r] # N
    <3>1. cur' = [cur EXCEPT ![r] = cur[r] + 1] /\ at' = at
      BY <2>2 DEF CreateLog, TypeInv, TypeOK
    <3>2. cur[r] + 1 \in Position
      BY <1>1, <2>2 DEF Position
    <3>3. QED BY <3>1, <3>2 DEF CreateLog, TypeInv, TypeOK
  <2>3. QED BY <2>1, <2>2
<1>5. at' \in [Request -> Stage] /\ cur' \in [Request -> 1..(N + 1)]
  <2>1. at'[r] \in Stage /\ cur'[r] \in 1..(N + 1)
    BY <1>4, StageSets DEF Position
  <2>2. at \in [Request -> Stage] /\ cur \in [Request -> 1..(N + 1)]
    BY DEF TypeInv, TypeOK
  <2>3. QED BY <1>4, <2>1, <2>2
<1>6. faults' \in 0..MaxFault
  BY DEF CreateLog, Fault, NoFault, TypeInv, TypeOK
<1>7. TypeOK'
  BY <1>2, <1>3, <1>5, <1>6 DEF CreateLog, TypeInv, TypeOK, documents, poller, history
<1>8. Stages(r)'
  BY <1>4 DEF Stages, Busy, InQueue, Reading, Ended
<1>9. StageInv'
  BY <1>2, <1>4, <1>8, OneMoves DEF CreateLog, TypeInv
<1>10. QED BY <1>7, <1>9 DEF TypeInv

LEMMA SkipType ==
  ASSUME TypeInv, commands' = commands, NEW r \in Request, Skip(r)
  PROVE  TypeInv'
<1>1. cur[r] \in Position /\ NextCommand(r)
  BY DEF Skip, TypeInv, StageInv, Stages, Ended
<1>2. TypeOK'
  BY <1>1, GoesOn DEF Skip, TypeInv, TypeOK, documents, poller, history
<1>3. StageInv'
  BY <1>1, GoesOn, GoesOnStages, OneMoves DEF Skip, TypeInv
<1>4. QED BY <1>2, <1>3 DEF TypeInv

LEMMA FailType ==
  ASSUME TypeOK, NEW r \in Request, NEW n \in 1..4, Fail(r, n)
  PROVE  /\ Goto(r, "failing") /\ tries'[r] = n /\ tries' \in [Request -> 0..4]
         /\ \A q \in Request \ {r} : tries'[q] = tries[q]
  BY DEF Fail, TypeOK

LEMMA FaultType == ASSUME TypeOK, Fault \/ NoFault PROVE faults' \in 0..MaxFault
  BY DEF Fault, NoFault, TypeOK

LEMMA BeginType ==
  ASSUME TypeInv, commands' = commands, NEW r \in Request, Begin(r)
  PROVE  TypeInv'
<1>0. TypeOK /\ Stages(r) /\ StageInv
  BY DEF TypeInv, StageInv
<1>1. cur[r] \in Position /\ cur[r] <= Len(logs[r]) /\ Command(r).kind \in {"write", "read"}
  BY <1>0 DEF Begin, Stages, Ended
<1>2. CASE Fault /\ Fail(r, 1) /\ UNCHANGED <<log, queue>>
  <2>1. Goto(r, "failing") /\ tries'[r] = 1 /\ "failing" \in Stage
    BY <1>0, <1>2, FailType, StageSets
  <2>2. TypeOK'
    BY <1>0, <1>2, <2>1, FailType, FaultType, Goes
       DEF Begin, TypeOK, documents, poller, history
  <2>3. Stages(r)'
    BY <1>0, <1>1, <2>1, Goes DEF Begin, Stages, Busy, InQueue, Reading, Ended
  <2>4. StageInv'
    BY <1>0, <1>2, <2>1, <2>3, Goes, FailType, OneMoves DEF Begin
  <2>5. QED BY <2>2, <2>4 DEF TypeInv
<1>3. CASE /\ NoFault /\ SetLog(r, Log(r), "waiting") /\ Goto(r, Command(r).kind)
           /\ queue' = IF Command(r).kind = "write" THEN Append(queue, r) ELSE queue
           /\ UNCHANGED tries
  <2>1. Command(r).kind \in Stage
    BY <1>1, StageSets DEF InQueue, Reading
  <2>2. queue' \in Seq(Request)
    BY <1>0, <1>3 DEF TypeOK
  <2>3. TypeOK'
    BY <1>0, <1>3, <2>1, <2>2, LogSet, FaultType, Goes
       DEF Begin, TypeOK, documents, poller, history
  <2>4. /\ at'[r] = Command(r).kind /\ cur'[r] = cur[r] /\ logs' = logs
        /\ Command(r)' = Command(r)
    <3>1. at'[r] = Command(r).kind /\ cur'[r] = cur[r]
      BY <1>0, <1>3, <2>1, Goes
    <3>2. QED BY <3>1 DEF Begin, Command
  <2>5. Stages(r)'
    BY <1>1, <2>4 DEF Stages, Busy, InQueue, Reading, Ended
  <2>6. StageInv'
    BY <1>0, <1>3, <2>1, <2>5, Goes, OneMoves DEF Begin
  <2>7. QED BY <2>3, <2>6 DEF TypeInv
<1>4. QED BY <1>2, <1>3 DEF Begin

LEMMA BeginTimeType ==
  ASSUME TypeInv, commands' = commands, NEW r \in Request, BeginTime(r)
  PROVE  TypeInv'
<1>0. TypeOK /\ Stages(r) /\ StageInv
  BY DEF TypeInv, StageInv
<1>1. cur[r] \in Position /\ cur[r] <= Len(logs[r])
  BY <1>0 DEF BeginTime, Stages, Ended
<1>2. PICK stage \in {"hour", "readHour"} :
        /\ Goto(r, stage)
        /\ Command(r).kind = IF stage = "hour" THEN "time" ELSE "readTime"
        /\ queue' \in Seq(Request)
  <2>1. queue \in Seq(Request) /\ Append(queue, r) \in Seq(Request)
    BY <1>0 DEF TypeOK
  <2>2. CASE Goto(r, "hour") /\ Command(r).kind = "time" /\ queue' = Append(queue, r)
    BY <2>1, <2>2
  <2>3. CASE Goto(r, "readHour") /\ Command(r).kind = "readTime" /\ queue' = queue
    BY <2>1, <2>3
  <2>4. QED BY <2>2, <2>3 DEF BeginTime
<1>3. stage \in Stage
  BY StageSets DEF InQueue, Reading
<1>4. TypeOK'
  BY <1>0, <1>2, <1>3, Goes DEF BeginTime, TypeOK, documents, poller, history
<1>5. at'[r] = stage /\ cur'[r] = cur[r] /\ logs' = logs /\ Command(r)' = Command(r)
  <2>1. at'[r] = stage /\ cur'[r] = cur[r]
    BY <1>0, <1>2, <1>3, Goes
  <2>2. QED BY <2>1 DEF BeginTime, Command
<1>6. Stages(r)'
  BY <1>1, <1>2, <1>5 DEF Stages, Busy, InQueue, Reading, Ended
<1>7. StageInv'
  BY <1>0, <1>2, <1>3, <1>6, Goes, OneMoves DEF BeginTime
<1>8. QED BY <1>4, <1>7 DEF TypeInv

LEMMA RejectType ==
  ASSUME TypeInv, commands' = commands, NEW r \in Request, Reject(r)
  PROVE  TypeInv'
<1>0. TypeOK /\ Stages(r) /\ StageInv
  BY DEF TypeInv, StageInv
<1>1. cur[r] \in Position /\ cur[r] <= Len(logs[r])
  BY <1>0 DEF Reject, Stages, Ended
<1>2. PICK n \in 1..4 : Fail(r, n)
  BY DEF Reject
<1>3. Goto(r, "failing") /\ tries'[r] = n /\ "failing" \in Stage
  BY <1>0, <1>2, FailType, StageSets
<1>4. TypeOK'
  BY <1>0, <1>2, <1>3, FailType, Goes DEF Reject, TypeOK, documents, poller, history
<1>5. Stages(r)'
  BY <1>0, <1>1, <1>3, Goes DEF Reject, Stages, Busy, InQueue, Reading, Ended
<1>6. StageInv'
  BY <1>0, <1>2, <1>3, <1>5, Goes, FailType, OneMoves DEF Reject
<1>7. QED BY <1>4, <1>6 DEF TypeInv

(* A handler that waits, and the step that goes on from there.              *)
LEMMA OnTheWay ==
  ASSUME TypeInv, NEW r \in Request, at[r] \in Busy
  PROVE  /\ TypeOK /\ Stages(r) /\ StageInv
         /\ cur[r] \in Position /\ cur[r] <= Len(logs[r]) /\ Log(r) \in Position
         /\ Command(r).kind \in Kind /\ Command(r).value \in Value
<1>1. TypeOK /\ Stages(r) /\ StageInv
  BY DEF TypeInv, StageInv
<1>2. cur[r] \in Position /\ Log(r) \in Position
  BY <1>1, LogType
<1>3. QED BY <1>1, <1>2, CommandType DEF Stages

LEMMA TakeType ==
  ASSUME TypeOK, NEW r \in Request, cur[r] \in Position, Command(r).value \in Value,
         NEW x \in Register, Take(r, x) \/ UNCHANGED <<ddc, taken>>
  PROVE  /\ ddc' \in Registers
         /\ taken' \in [Request -> SUBSET (Position \X Register)]
<1>1. /\ ddc \in Registers
      /\ taken \in [Request -> SUBSET (Position \X Register)]
  BY DEF TypeOK
<1>2. [ddc EXCEPT ![x] = Command(r).value] \in Registers
  BY <1>1 DEF Registers
<1>3. [taken EXCEPT ![r] = @ \cup {<<cur[r], x>>}] \in [Request -> SUBSET (Position \X Register)]
  <2>1. <<cur[r], x>> \in Position \X Register
    OBVIOUS
  <2>2. taken[r] \cup {<<cur[r], x>>} \in SUBSET (Position \X Register)
    BY <1>1, <2>1, Zenon
  <2>3. QED BY <1>1, <2>2
<1>4. QED BY <1>1, <1>2, <1>3 DEF Take

LEMMA QueueType ==
  ASSUME TypeOK, queue # << >>
  PROVE  Tail(queue) \in Seq(Request) /\ Head(queue) \in Request
  BY DEF TypeOK

LEMMA AnswerWriteType ==
  ASSUME TypeInv, commands' = commands, NEW r \in Request, AnswerWrite(r)
  PROVE  TypeInv'
<1>0. /\ TypeOK /\ Stages(r) /\ StageInv
      /\ cur[r] \in Position /\ cur[r] <= Len(logs[r]) /\ Command(r).value \in Value
  BY OnTheWay DEF AnswerWrite, Busy, InQueue
<1>1. queue' \in Seq(Request) /\ "switch" \in Register
  BY <1>0, QueueType DEF AnswerWrite, Register
<1>2. /\ ddc' \in Registers /\ taken' \in [Request -> SUBSET (Position \X Register)]
      /\ faults' \in 0..MaxFault
  BY <1>0, <1>1, TakeType, FaultType DEF AnswerWrite
<1>20. UNCHANGED <<logs, log, data, shown, poll, reading, torn, unlogged>>
  BY DEF AnswerWrite, documents, poller
<1>3. CASE Fail(r, 3) /\ UNCHANGED got
  <2>1. Goto(r, "failing") /\ tries'[r] = 3 /\ "failing" \in Stage
    BY <1>0, <1>3, FailType, StageSets
  <2>2. TypeOK'
    <3>1. tries' \in [Request -> 0..4]
      BY <1>0, <1>3, FailType
    <3>2. at' \in [Request -> Stage] /\ cur' \in [Request -> 1..(N + 1)]
      BY <1>0, <2>1, Goes
    <3>3. QED BY <1>0, <1>1, <1>2, <1>20, <1>3, <3>1, <3>2 DEF TypeOK
  <2>3. Stages(r)'
    BY <1>0, <2>1, <1>20, Goes DEF Stages, Busy, InQueue, Reading, Ended
  <2>4. StageInv'
    BY <1>0, <1>20, <1>3, <2>1, <2>3, Goes, FailType, OneMoves
  <2>5. QED BY <2>2, <2>4 DEF TypeInv
<1>4. CASE got' = [got EXCEPT ![r] = Command(r).value] /\ Goto(r, "logging") /\ UNCHANGED tries
  <2>1. /\ got' \in [Request -> Text] /\ got'[r] = Command(r).value
        /\ \A q \in Request \ {r} : got'[q] = got[q]
    BY <1>0, <1>4 DEF TypeOK, Text
  <2>2. "logging" \in Stage /\ at'[r] = "logging" /\ cur'[r] = cur[r]
    BY <1>0, <1>4, StageSets, Goes
  <2>3. TypeOK'
    BY <1>0, <1>1, <1>2, <1>4, <2>1, <2>2, Goes
       DEF AnswerWrite, TypeOK, documents, poller, history
  <2>4. Stages(r)'
    BY <1>0, <2>1, <2>2 DEF AnswerWrite, Stages, Busy, InQueue, Reading, Ended
  <2>5. StageInv'
    BY <1>0, <1>4, <2>1, <2>2, <2>4, Goes, OneMoves DEF AnswerWrite
  <2>6. QED BY <2>3, <2>5 DEF TypeInv
<1>5. QED BY <1>3, <1>4 DEF AnswerWrite

LEMMA AnswerHourType ==
  ASSUME TypeInv, commands' = commands, NEW r \in Request, AnswerHour(r)
  PROVE  TypeInv'
<1>0. /\ TypeOK /\ Stages(r) /\ StageInv
      /\ cur[r] \in Position /\ cur[r] <= Len(logs[r]) /\ Command(r).value \in Value
  BY OnTheWay DEF AnswerHour, Busy, InQueue
<1>1. queue' \in Seq(Request) /\ "hour" \in Register
  BY <1>0, QueueType DEF AnswerHour, Register
<1>2. /\ ddc' \in Registers /\ taken' \in [Request -> SUBSET (Position \X Register)]
      /\ faults' \in 0..MaxFault
  BY <1>0, <1>1, TakeType, FaultType DEF AnswerHour
<1>3. torn' \in BOOLEAN
  BY <1>0 DEF AnswerHour, TypeOK
<1>4. Goto(r, "minute") /\ "minute" \in Stage /\ at'[r] = "minute" /\ cur'[r] = cur[r]
  BY <1>0, StageSets, Goes DEF AnswerHour, InQueue
<1>5. TypeOK'
  BY <1>0, <1>1, <1>2, <1>3, <1>4, Goes DEF AnswerHour, TypeOK, documents, poller
<1>6. Command(r)' = Command(r) /\ Command(r).kind = "time"
  BY <1>0, <1>4 DEF Command, AnswerHour, Stages
<1>7. Stages(r)'
  BY <1>0, <1>4, <1>6 DEF AnswerHour, Stages, Busy, InQueue, Reading, Ended
<1>8. StageInv'
  BY <1>0, <1>4, <1>7, Goes, OneMoves DEF AnswerHour
<1>9. QED BY <1>5, <1>8 DEF TypeInv

LEMMA AnswerMinuteType ==
  ASSUME TypeInv, commands' = commands, NEW r \in Request, AnswerMinute(r)
  PROVE  TypeInv'
<1>0. /\ TypeOK /\ Stages(r) /\ StageInv
      /\ cur[r] \in Position /\ cur[r] <= Len(logs[r]) /\ Command(r).value \in Value
  BY OnTheWay DEF AnswerMinute, Busy, InQueue
<1>1. queue' \in Seq(Request) /\ "minute" \in Register
  BY <1>0, QueueType DEF AnswerMinute, Register
<1>2. /\ ddc' \in Registers /\ taken' \in [Request -> SUBSET (Position \X Register)]
      /\ faults' \in 0..MaxFault
  BY <1>0, <1>1, TakeType, FaultType DEF AnswerMinute
<1>3. torn' \in BOOLEAN
  BY <1>0 DEF AnswerMinute, TypeOK
<1>4. Goto(r, "logging") /\ "logging" \in Stage /\ at'[r] = "logging" /\ cur'[r] = cur[r]
  BY <1>0, StageSets, Goes DEF AnswerMinute
<1>5. /\ got' \in [Request -> Text] /\ got'[r] = Command(r).value
      /\ \A q \in Request \ {r} : got'[q] = got[q]
  BY <1>0 DEF AnswerMinute, TypeOK, Text
<1>6. TypeOK'
  BY <1>0, <1>1, <1>2, <1>3, <1>4, <1>5, Goes DEF AnswerMinute, TypeOK, documents, poller
<1>7. Stages(r)'
  BY <1>0, <1>4, <1>5 DEF AnswerMinute, Stages, Busy, InQueue, Reading, Ended
<1>8. StageInv'
  BY <1>0, <1>4, <1>5, <1>7, Goes, OneMoves DEF AnswerMinute
<1>9. QED BY <1>6, <1>8 DEF TypeInv

LEMMA AnswerReadType ==
  ASSUME TypeInv, commands' = commands, NEW r \in Request, AnswerRead(r)
  PROVE  TypeInv'
<1>0. /\ TypeOK /\ Stages(r) /\ StageInv
      /\ cur[r] \in Position /\ cur[r] <= Len(logs[r])
  BY OnTheWay DEF AnswerRead, Busy, Reading
<1>1. faults' \in 0..MaxFault
  BY <1>0, FaultType DEF AnswerRead, TypeOK
<1>2. CASE Fail(r, 3) /\ UNCHANGED got
  <2>1. Goto(r, "failing") /\ tries'[r] = 3 /\ "failing" \in Stage
    BY <1>0, <1>2, FailType, StageSets
  <2>2. TypeOK'
    BY <1>0, <1>1, <1>2, <2>1, FailType, Goes
       DEF AnswerRead, TypeOK, documents, poller, history
  <2>3. Stages(r)'
    BY <1>0, <2>1, Goes DEF AnswerRead, Stages, Busy, InQueue, Reading, Ended
  <2>4. StageInv'
    BY <1>0, <1>2, <2>1, <2>3, Goes, FailType, OneMoves DEF AnswerRead
  <2>5. QED BY <2>2, <2>4 DEF TypeInv
<1>3. CASE at[r] = "readHour" /\ Goto(r, "readMinute") /\ UNCHANGED <<tries, got>>
  <2>1. "readMinute" \in Stage /\ at'[r] = "readMinute" /\ cur'[r] = cur[r]
    BY <1>0, <1>3, StageSets, Goes DEF Reading
  <2>2. TypeOK'
    BY <1>0, <1>1, <1>3, <2>1, Goes DEF AnswerRead, TypeOK, documents, poller, history
  <2>3. Command(r)' = Command(r) /\ Command(r).kind = "readTime"
    BY <1>0, <1>3, <2>1 DEF Command, Stages
  <2>4. Stages(r)'
    BY <1>0, <2>1, <2>3 DEF AnswerRead, Stages, Busy, InQueue, Reading, Ended
  <2>5. StageInv'
    BY <1>0, <1>3, <2>1, <2>4, Goes, OneMoves DEF AnswerRead
  <2>6. QED BY <2>2, <2>5 DEF TypeInv
<1>4. ASSUME NEW value \in Text, got' = [got EXCEPT ![r] = value],
             Goto(r, "logging"), UNCHANGED tries,
             value \in Value \/ Command(r).kind = "readTime"
      PROVE  TypeInv'
  <2>1. "logging" \in Stage /\ at'[r] = "logging" /\ cur'[r] = cur[r]
    BY <1>0, <1>4, StageSets, Goes
  <2>2. /\ got' \in [Request -> Text] /\ got'[r] = value
        /\ \A q \in Request \ {r} : got'[q] = got[q]
    BY <1>0, <1>4 DEF TypeOK
  <2>3. TypeOK'
    BY <1>0, <1>1, <1>4, <2>1, <2>2, Goes DEF AnswerRead, TypeOK, documents, poller, history
  <2>4. Command(r)' = Command(r)
    BY <2>1 DEF Command
  <2>5. Stages(r)'
    BY <1>0, <1>4, <2>1, <2>2, <2>4 DEF AnswerRead, Stages, Busy, InQueue, Reading, Ended
  <2>6. StageInv'
    BY <1>0, <1>4, <2>1, <2>2, <2>5, Goes, OneMoves DEF AnswerRead
  <2>7. QED BY <2>3, <2>6 DEF TypeInv
<1>5. ddc["switch"] \in Value /\ ddc["switch"] \in Text /\ Garbled \in Text
  BY <1>0 DEF TypeOK, Registers, Register, Text
<1>6. at[r] = "readMinute" => Command(r).kind = "readTime"
  BY <1>0 DEF Stages
<1>7. QED BY <1>2, <1>3, <1>4, <1>5, <1>6 DEF AnswerRead

LEMMA LogSuccessType ==
  ASSUME TypeInv, commands' = commands, NEW r \in Request, LogSuccess(r)
  PROVE  TypeInv'
<1>0. /\ TypeOK /\ Stages(r) /\ StageInv /\ Log(r) \in Position
      /\ cur[r] \in Position /\ cur[r] <= Len(logs[r])
  BY OnTheWay DEF LogSuccess, Busy
<1>1. faults' \in 0..MaxFault
  BY <1>0, FaultType DEF LogSuccess
<1>2. UNCHANGED <<logs, tries, queue, ddc, data, shown, poll, reading, taken, torn>>
  BY DEF LogSuccess, documents, poller
<1>3. CASE SetLog(r, Log(r), "success") /\ Goto(r, "storing") /\ UNCHANGED <<got, unlogged>>
  <2>1. "storing" \in Stage /\ at'[r] = "storing" /\ cur'[r] = cur[r]
    BY <1>0, <1>3, StageSets, Goes
  <2>2. log' \in [Request -> [Position -> {"none", "waiting", "success", "fail"}]]
    BY <1>0, <1>3, LogSet
  <2>3. TypeOK'
    BY <1>0, <1>1, <1>2, <1>3, <2>1, <2>2, Goes DEF TypeOK
  <2>4. Command(r)' = Command(r)
    BY <2>1 DEF Command
  <2>5. Stages(r)'
    BY <1>0, <1>2, <1>3, <2>1, <2>4 DEF LogSuccess, Stages, Busy, InQueue, Reading, Ended
  <2>6. StageInv'
    BY <1>0, <1>2, <1>3, <2>1, <2>5, Goes, OneMoves
  <2>7. QED BY <2>3, <2>6 DEF TypeInv
<1>4. CASE /\ unlogged' = [unlogged EXCEPT ![r] = @ \cup {Log(r)}]
           /\ NextCommand(r) /\ UNCHANGED log
  <2>1. unlogged' \in [Request -> SUBSET Position]
    BY <1>0, <1>4 DEF TypeOK
  <2>2. TypeOK'
    BY <1>0, <1>1, <1>2, <1>4, <2>1, GoesOn DEF TypeOK
  <2>3. StageInv'
    BY <1>0, <1>2, <1>4, GoesOn, GoesOnStages, OneMoves
  <2>4. QED BY <2>2, <2>3 DEF TypeInv
<1>5. QED BY <1>3, <1>4 DEF LogSuccess

LEMMA StoreType ==
  ASSUME TypeInv, commands' = commands, NEW r \in Request, Store(r)
  PROVE  TypeInv'
<1>0. TypeOK /\ Stages(r) /\ StageInv /\ cur[r] \in Position /\ NextCommand(r)
  BY OnTheWay DEF Store, Busy
<1>1. faults' \in 0..MaxFault
  BY <1>0, FaultType DEF Store
<1>2. UNCHANGED <<logs, log, tries, queue, ddc, poll, reading, taken, torn, unlogged>>
  BY DEF Store, poller, history
<1>3. data' \in Registers /\ shown' \in Text \X Text
  <2>1. CASE Command(r).kind \in {"write", "read"} /\ UNCHANGED shown
               /\ data' = [data EXCEPT !["switch"] = got[r]]
    <3>1. got[r] \in Value
      BY <1>0, <2>1 DEF Store, Stages
    <3>2. QED BY <1>0, <2>1, <3>1 DEF TypeOK, Registers
  <2>2. CASE shown' = <<got[r], got[r]>> /\ UNCHANGED data
    BY <1>0, <2>2 DEF TypeOK
  <2>3. CASE UNCHANGED documents
    BY <1>0, <2>3 DEF TypeOK, documents
  <2>4. QED BY <2>1, <2>2, <2>3 DEF Store, StoreAnswer
<1>4. TypeOK'
  BY <1>0, <1>1, <1>2, <1>3, GoesOn DEF TypeOK
<1>5. StageInv'
  BY <1>0, <1>2, GoesOn, GoesOnStages, OneMoves
<1>6. QED BY <1>4, <1>5 DEF TypeInv

LEMMA LogFailType ==
  ASSUME TypeInv, commands' = commands, NEW r \in Request, LogFail(r)
  PROVE  TypeInv'
<1>0. /\ TypeOK /\ Stages(r) /\ StageInv /\ Log(r) \in Position
      /\ cur[r] \in Position /\ cur[r] <= Len(logs[r]) /\ at[r] = "failing"
  BY OnTheWay DEF LogFail, Busy
<1>1. faults' \in 0..MaxFault
  BY <1>0, FaultType DEF LogFail
<1>2. UNCHANGED <<logs, queue, ddc, data, shown, poll, reading, taken, torn>>
  BY DEF LogFail, documents, poller
<1>3. /\ tries[r] \in 1..4 /\ tries' = [tries EXCEPT ![r] = @ - 1]
      /\ tries' \in [Request -> 0..4] /\ tries'[r] = tries[r] - 1
      /\ \A q \in Request \ {r} : tries'[q] = tries[q]
  <2>1. tries \in [Request -> 0..4] /\ tries[r] > 0
    BY <1>0 DEF Stages, TypeOK
  <2>2. tries[r] - 1 \in 0..4
    BY <2>1
  <2>3. QED BY <2>1, <2>2 DEF LogFail
<1>4. /\ log' \in [Request -> [Position -> {"none", "waiting", "success", "fail"}]]
      /\ unlogged' \in [Request -> SUBSET Position]
  <2>1. CASE SetLog(r, Log(r), "fail") /\ UNCHANGED unlogged
    BY <1>0, <2>1, LogSet DEF TypeOK
  <2>2. CASE /\ UNCHANGED log
             /\ \/ unlogged' = [unlogged EXCEPT ![r] = @ \cup {Log(r)}]
                \/ unlogged' = unlogged
    <3>1. unlogged \in [Request -> SUBSET Position]
      BY <1>0 DEF TypeOK
    <3>2. unlogged[r] \cup {Log(r)} \in SUBSET Position
      BY <1>0, <3>1, Zenon
    <3>3. unlogged' \in [Request -> SUBSET Position]
      BY <2>2, <3>1, <3>2
    <3>4. QED BY <1>0, <2>2, <3>3 DEF TypeOK
  <2>3. QED BY <2>1, <2>2 DEF LogFail
<1>5. CASE tries[r] = 1
  <2>1. NextCommand(r)
    BY <1>5 DEF LogFail
  <2>2. TypeOK'
    BY <1>0, <1>1, <1>2, <1>3, <1>4, <2>1, GoesOn DEF TypeOK
  <2>3. StageInv'
    BY <1>0, <1>2, <1>3, <2>1, GoesOn, GoesOnStages, OneMoves
  <2>4. QED BY <2>2, <2>3 DEF TypeInv
<1>6. CASE tries[r] # 1
  <2>1. UNCHANGED <<at, cur, got>>
    BY <1>6 DEF LogFail
  <2>2. TypeOK'
    BY <1>0, <1>1, <1>2, <1>3, <1>4, <2>1 DEF TypeOK
  <2>3. Command(r)' = Command(r) /\ tries'[r] > 0
    BY <1>3, <1>6, <2>1 DEF Command
  <2>4. Stages(r)'
    BY <1>0, <1>2, <2>1, <2>3 DEF Stages
  <2>5. at' = [at EXCEPT ![r] = at'[r]] /\ cur' = [cur EXCEPT ![r] = cur'[r]]
    BY <1>0, <2>1 DEF TypeOK
  <2>6. StageInv'
    BY <1>0, <1>2, <1>3, <2>1, <2>4, <2>5, OneMoves
  <2>7. QED BY <2>2, <2>6 DEF TypeInv
<1>7. QED BY <1>5, <1>6

(* Steps that end handlers, or leave them where they are.                   *)
LEMMA SomeEnd ==
  ASSUME TypeInv, commands' = commands, UNCHANGED <<cur, logs, tries, got>>,
         \A q \in Request : at'[q] \in {"lost", "stopped"} \/ at'[q] = at[q]
  PROVE  StageInv'
<1>1. ASSUME NEW q \in Request PROVE Stages(q)'
  <2>1. Stages(q) /\ Command(q)' = Command(q)
    BY DEF TypeInv, StageInv, Command
  <2>2. CASE at'[q] \in {"lost", "stopped"}
    BY <2>2 DEF Stages, Busy, InQueue, Reading, Ended
  <2>3. CASE at'[q] = at[q]
    BY <2>1, <2>3 DEF Stages
  <2>4. QED BY <2>2, <2>3
<1>2. QED BY <1>1, Zenon DEF StageInv

LEMMA ClearType ==
  ASSUME TypeInv, commands' = commands, Clear
  PROVE  TypeInv'
<1>0. TypeOK /\ faults' \in 0..MaxFault
  BY FaultType DEF Clear, TypeInv
<1>1. UNCHANGED <<cur, logs, log, tries, got, ddc, data, shown, poll, reading, taken, unlogged>>
  BY DEF Clear, documents, poller
<1>2. PICK kept \in {{}} \cup {{r} : r \in OnLine} :
        /\ queue' = IF queue # << >> /\ Head(queue) \in kept
                    THEN <<Head(queue)>> ELSE << >>
        /\ at' = [r \in Request |-> IF r \in Waiting \ kept THEN "lost" ELSE at[r]]
        /\ torn' = (torn \/ \E r \in Waiting \ kept : at[r] = "minute")
  BY DEF Clear
<1>3. queue' \in Seq(Request)
  BY <1>0, <1>2, QueueType
<1>4. at' \in [Request -> Stage] /\ \A q \in Request : at'[q] = "lost" \/ at'[q] = at[q]
  <2>1. "lost" \in Stage /\ at \in [Request -> Stage]
    BY <1>0, StageSets DEF Ended, TypeOK
  <2>2. QED BY <1>2, <2>1
<1>5. torn' \in BOOLEAN
  BY <1>0, <1>2, Zenon DEF TypeOK
<1>6. TypeOK'
  BY <1>0, <1>1, <1>3, <1>4, <1>5 DEF TypeOK
<1>7. StageInv'
  BY <1>1, <1>4, SomeEnd
<1>8. QED BY <1>6, <1>7 DEF TypeInv

LEMMA RestartType ==
  ASSUME TypeInv, commands' = commands, Restart
  PROVE  TypeInv'
<1>0. TypeOK /\ faults' \in 0..MaxFault
  BY FaultType DEF Restart, TypeInv
<1>1. UNCHANGED <<cur, logs, log, tries, got, ddc, data, shown, reading, taken, unlogged>>
  BY DEF Restart, documents
<1>2. at' \in [Request -> Stage] /\ \A q \in Request : at'[q] = "stopped" \/ at'[q] = at[q]
  <2>1. "stopped" \in Stage /\ at \in [Request -> Stage]
    BY <1>0, StageSets DEF Ended, TypeOK
  <2>2. QED BY <2>1 DEF Restart
<1>3. torn' \in BOOLEAN
  BY <1>0, Zenon DEF TypeOK, Restart
<1>4. queue' \in Seq(Request) /\ poll' \in {"idle"} \cup Register
  BY DEF Restart
<1>5. TypeOK'
  BY <1>0, <1>1, <1>2, <1>3, <1>4 DEF TypeOK
<1>6. StageInv'
  BY <1>1, <1>2, SomeEnd
<1>7. QED BY <1>5, <1>6 DEF TypeInv

LEMMA PollReadType ==
  ASSUME TypeInv, commands' = commands, PollRead
  PROVE  TypeInv'
<1>1. UNCHANGED <<at, cur, logs, log, tries, got, queue, ddc, data, shown, faults,
                  taken, torn, unlogged>>
  BY DEF PollRead, request, documents, history
<1>2. TypeOK'
  BY <1>1 DEF PollRead, TypeInv, TypeOK, Register
<1>3. StageInv'
  BY <1>1, SomeEnd
<1>4. QED BY <1>2, <1>3 DEF TypeInv

LEMMA PollStoreType ==
  ASSUME TypeInv, commands' = commands, PollStore
  PROVE  TypeInv'
<1>1. UNCHANGED <<at, cur, logs, log, tries, got, queue, ddc, taken, torn, unlogged>>
  BY DEF PollStore, request, history
<1>2. TypeOK /\ poll \in Register /\ faults' \in 0..MaxFault
  BY FaultType DEF PollStore, TypeInv, TypeOK
<1>3. poll' \in {"idle"} \cup Register
  BY <1>2 DEF PollStore, AfterStore, Register
<1>4. reading' \in Registers
  BY <1>2 DEF PollStore, TypeOK, Registers
<1>5. data' \in Registers /\ shown' \in Text \X Text
  <2>1. CASE UNCHANGED documents
    BY <1>2, <2>1 DEF TypeOK, documents
  <2>2. CASE /\ data' = [data EXCEPT ![poll] = reading[poll]]
             /\ shown' = IF poll = "switch" THEN shown ELSE <<data'["hour"], data'["minute"]>>
    <3>1. data' \in Registers
      BY <1>2, <2>2 DEF TypeOK, Registers
    <3>2. data'["hour"] \in Text /\ data'["minute"] \in Text
      BY <3>1 DEF Registers, Register, Text
    <3>3. QED BY <1>2, <2>2, <3>1, <3>2 DEF TypeOK
  <2>3. QED BY <2>1, <2>2 DEF PollStore
<1>6. TypeOK'
  BY <1>1, <1>2, <1>3, <1>4, <1>5 DEF TypeOK
<1>7. StageInv'
  BY <1>1, SomeEnd
<1>8. QED BY <1>6, <1>7 DEF TypeInv

LEMMA TypeStep == TypeInv /\ [Next]_vars => TypeInv'
<1> SUFFICES ASSUME TypeInv, [Next]_vars PROVE TypeInv'
  OBVIOUS
<1>1. commands' = commands
  BY Steps
<1>2. CASE UNCHANGED vars
  <2>1. UNCHANGED <<at, cur, logs, log, tries, got, queue, ddc, data, shown, poll, reading,
                    faults, taken, torn, unlogged>>
    BY <1>2 DEF vars, request, documents, poller, history
  <2>2. TypeOK'
    BY <1>1, <2>1 DEF TypeInv, TypeOK
  <2>3. StageInv'
    BY <1>1, <2>1, SomeEnd
  <2>4. QED BY <2>2, <2>3 DEF TypeInv
<1>3. QED BY <1>1, <1>2, Steps, Zenon, PostType, CreateLogType, SkipType, BeginType,
          BeginTimeType, RejectType, AnswerWriteType, AnswerHourType, AnswerMinuteType,
          AnswerReadType, LogSuccessType, StoreType, LogFailType, ClearType, RestartType,
          PollReadType, PollStoreType

(* Every variable keeps its type: a handler always has the log and the kind *)
(* of command its stage is for.                                             *)
THEOREM Typing == Spec => []TypeOK
<1>1. Init => TypeInv
  BY TypeInit
<1>2. TypeInv /\ [Next]_vars => TypeInv'
  BY TypeStep
<1>3. TypeInv => TypeOK
  BY DEF TypeInv
<1>4. QED BY <1>1, <1>2, <1>3, PTL DEF Spec

-----------------------------------------------------------------------------
(* The logs of a request.  They are those of an increasing sequence of its  *)
(* commands, of all of them when none is missing; until a log is settled    *)
(* its command lies ahead of the loop; and 'success' of a general write is  *)
(* written when the DDC has taken it.                                       *)
Making == {"unsent", "creating"}
Created(r) == IF at[r] \in Making THEN cur[r] - 1 ELSE N

InOrder(r) ==
  /\ Len(logs[r]) <= Created(r)
  /\ \A i \in DOMAIN logs[r] :
       i <= logs[r][i] /\ logs[r][i] <= i + (Created(r) - Len(logs[r]))
  /\ \A i, j \in DOMAIN logs[r] : i < j => logs[r][i] < logs[r][j]

Open(r) ==
  /\ at[r] \in Making => \A k \in Position : log[r][k] \notin Settled
  /\ at[r] \notin Making \cup Ended =>
       \A j \in DOMAIN logs[r] : j > cur[r] => log[r][logs[r][j]] \notin Settled
  /\ at[r] \in {"loop", "logging"} \cup InQueue \cup Reading =>
       (cur[r] \in DOMAIN logs[r] => log[r][Log(r)] \notin Settled)
  /\ at[r] = "failing" => log[r][Log(r)] # "success"

Truth(r) ==
  /\ at[r] \in {"logging", "storing"} /\ Command(r).kind = "write"
       => <<cur[r], "switch">> \in taken[r]
  /\ \A k \in Position :
       Len(logs[r]) = N /\ log[r][k] = "success" /\ commands[r][k].kind = "write"
         => <<k, "switch">> \in taken[r]

LogsOf(r) == InOrder(r) /\ Open(r) /\ Truth(r)
LogInv == \A r \in Request : LogsOf(r)

(* No queued write is a request's twice, each is one that waits for the     *)
(* line; the last MINUTE write queued is of the DDC's hour.                 *)
Queued ==
  /\ \A i, j \in DOMAIN queue : queue[i] = queue[j] => i = j
  /\ \A i \in DOMAIN queue : at[queue[i]] \in InQueue
  /\ \A r \in Request : at[r] \in InQueue => \E i \in DOMAIN queue : queue[i] = r

IsMinute(i) == at[queue[i]] = "minute"

LastMinute ==
  \/ torn
  \/ /\ \A i \in DOMAIN queue :
          IsMinute(i) /\ (\A j \in DOMAIN queue : j > i => ~IsMinute(j))
            => Command(queue[i]).value = ddc["hour"]
     /\ (\A i \in DOMAIN queue : ~IsMinute(i)) => ddc["hour"] = ddc["minute"]

TimeInv == Queued /\ LastMinute

LEMMA LogsInit == Init => LogInv
<1> SUFFICES ASSUME Init, NEW r \in Request PROVE LogsOf(r)
  BY DEF LogInv
<1>1. /\ at[r] = "unsent" /\ cur[r] = 1 /\ logs[r] = << >>
      /\ \A k \in Position : log[r][k] = "none"
  BY DEF Init
<1>2. InOrder(r)
  BY <1>1 DEF InOrder, Created, Making
<1>3. Open(r) /\ Truth(r)
  BY <1>1 DEF Open, Truth, Making, Settled, InQueue, Reading
<1>4. QED BY <1>2, <1>3 DEF LogsOf

(* A step that leaves a request alone.                                      *)
LEMMA LogsKept ==
  ASSUME NEW r \in Request, LogsOf(r), commands' = commands,
         at'[r] = at[r], cur'[r] = cur[r], logs'[r] = logs[r], log'[r] = log[r],
         taken'[r] = taken[r]
  PROVE  LogsOf(r)'
  BY DEF LogsOf, InOrder, Open, Truth, Created, Command, Log

LEMMA LogTypes ==
  ASSUME TypeOK, NEW r \in Request
  PROVE  /\ logs[r] \in Seq(Position) /\ Len(logs[r]) \in Nat
         /\ DOMAIN logs[r] = 1..Len(logs[r])
         /\ \A i \in DOMAIN logs[r] : logs[r][i] \in Position /\ i \in Nat
         /\ cur[r] \in 1..(N + 1) /\ Created(r) \in Nat
         /\ log[r] \in [Position -> {"none", "waiting", "success", "fail"}]
  BY DEF TypeOK, Created, Position

(* Once the logs are there they keep their order.                           *)
LEMMA OrderKept ==
  ASSUME TypeOK, NEW r \in Request, InOrder(r), logs'[r] = logs[r],
         Created(r)' \in Nat, Created(r) <= Created(r)'
  PROVE  InOrder(r)'
<1>1. /\ Len(logs[r]) \in Nat /\ Created(r) \in Nat /\ DOMAIN logs[r] \subseteq Nat
      /\ \A i \in DOMAIN logs[r] : logs[r][i] \in Nat
  BY LogTypes DEF Position
<1>2. QED BY <1>1 DEF InOrder

LEMMA OrderKeptLater ==
  ASSUME TypeOK, NEW r \in Request, InOrder(r), logs'[r] = logs[r], at'[r] \notin Making
  PROVE  InOrder(r)'
<1>1. Created(r)' = N /\ Created(r) <= N
  BY LogTypes DEF Created
<1>2. QED BY <1>1, OrderKept

(* The logs ahead of the loop are other logs.                               *)
LEMMA LaterLog ==
  ASSUME TypeOK, NEW r \in Request, InOrder(r), NEW j \in DOMAIN logs[r],
         cur[r] \in DOMAIN logs[r], j > cur[r]
  PROVE  logs[r][j] \in Position /\ logs[r][j] # Log(r)
<1>1. logs[r][j] \in Position /\ logs[r][cur[r]] \in Position
  BY LogTypes
<1>2. logs[r][cur[r]] < logs[r][j]
  BY DEF InOrder
<1>3. QED BY <1>1, <1>2 DEF Log, Position

(* The loop goes on: the logs ahead of it are not settled.                  *)
LEMMA LogsGoOn ==
  ASSUME TypeInv, commands' = commands, NEW r \in Request, LogsOf(r),
         at[r] \notin Making \cup Ended, NextCommand(r), logs'[r] = logs[r],
         taken'[r] = taken[r],
         \A k \in Position : log'[r][k] = log[r][k] \/ (k = Log(r) /\ log'[r][k] = "fail"),
         log'[r] = log[r] \/ cur[r] \in DOMAIN logs[r]
  PROVE  LogsOf(r)'
<1>0. TypeOK /\ cur[r] \in Position
  BY DEF TypeInv, StageInv, Stages
<1>1. at'[r] \in {"done", "loop"} /\ cur'[r] = cur[r] + 1 /\ cur[r] \in Nat
  BY <1>0, GoesOn DEF Position
<1>2. InOrder(r)'
  BY <1>0, <1>1, OrderKeptLater DEF LogsOf, Making
<1>3. ASSUME NEW j \in DOMAIN logs[r], j > cur[r]
      PROVE  log'[r][logs[r][j]] \notin Settled
  <2>1. log[r][logs[r][j]] \notin Settled
    BY <1>3 DEF LogsOf, Open
  <2>2. logs[r][j] \in Position
    BY <1>0, LogTypes
  <2>3. CASE log'[r] = log[r]
    BY <2>1, <2>3
  <2>4. CASE cur[r] \in DOMAIN logs[r]
    <3>1. logs[r][j] # Log(r)
      BY <1>0, <1>3, <2>4, LaterLog DEF LogsOf
    <3>2. QED BY <2>1, <2>2, <3>1
  <2>5. QED BY <2>3, <2>4
<1>4. Open(r)'
  <2>1. \A j \in DOMAIN logs[r] : j \in Nat
    BY <1>0, LogTypes
  <2>2. \A j \in DOMAIN logs[r] : j > cur'[r] \/ j = cur'[r] => j > cur[r]
    BY <1>1, <2>1
  <2>3. QED BY <1>1, <1>3, <2>2 DEF Open, Making, Ended, InQueue, Reading, Log
<1>5. Truth(r)'
  BY <1>1 DEF LogsOf, Truth
<1>6. QED BY <1>2, <1>4, <1>5 DEF LogsOf

(* The same when the step writes no log.                                    *)
LEMMA LogsGoOnSame ==
  ASSUME TypeInv, commands' = commands, NEW r \in Request, LogsOf(r),
         at[r] \notin Making \cup Ended, NextCommand(r), logs'[r] = logs[r],
         taken'[r] = taken[r], log'[r] = log[r]
  PROVE  LogsOf(r)'
<1>1. \A k \in Position : log'[r][k] = log[r][k] \/ (k = Log(r) /\ log'[r][k] = "fail")
  OBVIOUS
<1>2. log'[r] = log[r] \/ cur[r] \in DOMAIN logs[r]
  OBVIOUS
<1>3. QED BY <1>1, <1>2, LogsGoOn, Zenon

(* A handler stays with its command and writes no log.                      *)
LEMMA LogsStay ==
  ASSUME TypeInv, commands' = commands, NEW r \in Request, LogsOf(r),
         at[r] \in {"loop"} \cup InQueue \cup Reading,
         at'[r] \in {"logging", "failing"} \cup InQueue \cup Reading,
         cur'[r] = cur[r], cur[r] \in DOMAIN logs[r], logs'[r] = logs[r],
         \A k \in Position : log'[r][k] = log[r][k] \/ log'[r][k] = "waiting",
         taken[r] \subseteq taken'[r],
         at'[r] = "logging" /\ Command(r).kind = "write" => <<cur[r], "switch">> \in taken'[r]
  PROVE  LogsOf(r)'
<1>0. TypeOK
  BY DEF TypeInv
<1>1. InOrder(r)'
  BY <1>0, OrderKeptLater DEF LogsOf, Making, InQueue, Reading
<1>2. \A k \in Position : log'[r][k] \in Settled => log'[r][k] = log[r][k]
  BY DEF Settled
<1>3. /\ \A j \in DOMAIN logs[r] : j > cur[r] => log'[r][logs[r][j]] \notin Settled
      /\ log'[r][Log(r)] \notin Settled
  <2>1. /\ \A j \in DOMAIN logs[r] : logs[r][j] \in Position
        /\ Log(r) \in Position
    BY <1>0, LogTypes DEF Log
  <2>2. log[r][Log(r)] \notin Settled
    BY DEF LogsOf, Open
  <2>3. \A j \in DOMAIN logs[r] : j > cur[r] => log[r][logs[r][j]] \notin Settled
    BY DEF LogsOf, Open, Making, Ended, InQueue, Reading
  <2>4. QED BY <1>2, <2>1, <2>2, <2>3, Zenon
<1>5. Open(r)'
  <2>1. log'[r][Log(r)] # "success" /\ Log(r)' = Log(r)
    BY <1>3 DEF Settled, Log
  <2>2. at'[r] \notin Making
    BY DEF Making, InQueue, Reading
  <2>3. QED BY <1>3, <2>1, <2>2, Zenon DEF Open
<1>6. Truth(r)'
  <2>1. Command(r)' = Command(r)
    BY DEF Command
  <2>2. at'[r] # "storing"
    BY DEF InQueue, Reading
  <2>3. ASSUME NEW k \in Position, log'[r][k] = "success" PROVE log[r][k] = "success"
    BY <1>2, <2>3 DEF Settled
  <2>4. QED BY <2>1, <2>2, <2>3 DEF LogsOf, Truth
<1>7. QED BY <1>1, <1>5, <1>6 DEF LogsOf

LEMMA PostLogs ==
  ASSUME TypeInv, commands' = commands, NEW r \in Request, LogsOf(r), Post(r)
  PROVE  LogsOf(r)'
<1>0. TypeOK /\ Goto(r, "creating") /\ "creating" \in Stage
  BY StageSets DEF TypeInv, Post
<1>1. at[r] = "unsent" /\ at'[r] = "creating" /\ UNCHANGED <<logs, log, taken>> /\ cur'[r] = cur[r]
  BY <1>0, Goes DEF Post, history
<1>2. Created(r)' = Created(r)
  BY <1>1 DEF Created, Making
<1>3. InOrder(r)'
  BY <1>1, <1>2 DEF LogsOf, InOrder
<1>4. Open(r)' /\ Truth(r)'
  BY <1>1 DEF LogsOf, Open, Truth, Making, Ended, InQueue, Reading
<1>5. QED BY <1>3, <1>4 DEF LogsOf

LEMMA CreateLogLogs ==
  ASSUME TypeInv, commands' = commands, NEW r \in Request, LogsOf(r), CreateLog(r)
  PROVE  LogsOf(r)'
<1>0. /\ TypeOK /\ at[r] = "creating" /\ cur[r] \in Position
      /\ TypeInv' /\ TypeOK'
  BY CreateLogType DEF TypeInv, StageInv, Stages, Ended, CreateLog
<1>1. Created(r) = cur[r] - 1 /\ Created(r)' = cur[r] /\ cur[r] \in Nat
  <2>1. CASE cur[r] = N
    BY <1>0, <2>1 DEF CreateLog, TypeOK, Created, Making, Position
  <2>2. CASE cur[r] # N
    <3>1. cur'[r] = cur[r] + 1 /\ at'[r] = "creating"
      BY <1>0, <2>2 DEF CreateLog, TypeOK
    <3>2. QED BY <1>0, <3>1 DEF Created, Making, Position
  <2>3. QED BY <2>1, <2>2
<1>2. at'[r] \in {"creating", "loop"}
  BY <1>0 DEF CreateLog, TypeOK
<1>3. /\ logs[r] \in Seq(Position) /\ Len(logs[r]) \in Nat
      /\ DOMAIN logs[r] = 1..Len(logs[r])
      /\ \A i \in DOMAIN logs[r] : logs[r][i] \in Nat
  BY <1>0, LogTypes DEF Position
<1>4. InOrder(r)'
  <2>1. CASE logs' = [logs EXCEPT ![r] = Append(@, cur[r])]
    <3> DEFINE before == logs[r]
               after == Append(before, cur[r])
    <3>1. logs'[r] = after
      BY <1>0, <2>1 DEF TypeOK
    <3>2. Len(before) <= cur[r] - 1
      BY <1>1 DEF LogsOf, InOrder
    <3>3. /\ Len(after) = Len(before) + 1 /\ DOMAIN after = 1..(Len(before) + 1)
          /\ \A i \in 1..Len(before) : after[i] = before[i]
          /\ after[Len(before) + 1] = cur[r]
      BY <1>0, <1>3
    <3>4. ASSUME NEW i \in DOMAIN after
          PROVE  i <= after[i] /\ after[i] <= i + (cur[r] - Len(after))
      <4>1. CASE i \in 1..Len(before)
        <5>1. /\ i <= before[i] /\ before[i] <= i + (cur[r] - 1 - Len(before))
              /\ before[i] \in Nat /\ after[i] = before[i]
          BY <1>1, <1>3, <3>3, <4>1 DEF LogsOf, InOrder
        <5>2. QED BY <1>1, <1>3, <3>3, <4>1, <5>1
      <4>2. CASE i = Len(before) + 1
        BY <1>1, <1>3, <3>2, <3>3, <4>2
      <4>3. QED BY <1>3, <3>3, <4>1, <4>2
    <3>5. ASSUME NEW i \in DOMAIN after, NEW j \in DOMAIN after, i < j
          PROVE  after[i] < after[j]
      <4>1. i \in 1..Len(before) /\ i \in Nat
        BY <1>3, <3>3, <3>5
      <4>2. CASE j \in 1..Len(before)
        BY <1>3, <3>3, <3>5, <4>1, <4>2 DEF LogsOf, InOrder
      <4>3. CASE j = Len(before) + 1
        <5>1. before[i] <= i + (cur[r] - 1 - Len(before)) /\ before[i] \in Nat
          BY <1>1, <1>3, <4>1 DEF LogsOf, InOrder
        <5>2. before[i] < cur[r]
          BY <1>1, <1>3, <4>1, <5>1
        <5>3. QED BY <3>3, <4>1, <4>3, <5>2
      <4>4. QED BY <1>3, <3>3, <4>2, <4>3
    <3>6. Len(after) <= cur[r]
      BY <1>1, <1>3, <3>2, <3>3
    <3>7. QED BY <1>1, <3>1, <3>4, <3>5, <3>6, Zenon DEF InOrder
  <2>2. CASE UNCHANGED logs
    BY <1>0, <1>1, <2>2, OrderKept DEF LogsOf
  <2>3. QED BY <2>1, <2>2 DEF CreateLog
<1>5. \A k \in Position : log[r][k] \notin Settled
  BY <1>0 DEF LogsOf, Open, Making
<1>6. \A k \in Position : log'[r][k] \notin Settled
  <2>1. \A k \in Position : log'[r][k] = log[r][k] \/ log'[r][k] = "waiting"
    BY <1>0 DEF CreateLog, SetLog, TypeOK
  <2>2. QED BY <1>5, <2>1 DEF Settled
<1>7. \A j \in DOMAIN logs'[r] : logs'[r][j] \in Position
  <2>1. logs'[r] \in Seq(Position)
    BY <1>0 DEF TypeOK
  <2>2. QED BY <2>1
<1>8. Open(r)'
  <2>1. \A j \in DOMAIN logs'[r] : log'[r][logs'[r][j]] \notin Settled
    BY <1>6, <1>7
  <2>2. QED BY <1>2, <1>6, <2>1 DEF Open, Log
<1>9. Truth(r)'
  BY <1>2, <1>6 DEF Truth, Settled
<1>10. QED BY <1>4, <1>8, <1>9 DEF LogsOf

LEMMA HandlerLogs ==
  ASSUME TypeInv, commands' = commands, NEW r \in Request, LogsOf(r),
         \/ Skip(r) \/ Begin(r) \/ BeginTime(r) \/ Reject(r) \/ AnswerWrite(r)
         \/ AnswerHour(r) \/ AnswerMinute(r) \/ AnswerRead(r) \/ LogSuccess(r)
         \/ Store(r) \/ LogFail(r)
  PROVE  LogsOf(r)'
<1>0. TypeOK /\ Stages(r)
  BY DEF TypeInv, StageInv
<1>1. ASSUME Skip(r) PROVE LogsOf(r)'
  <2>1. /\ at[r] \notin Making \cup Ended /\ NextCommand(r)
        /\ UNCHANGED <<logs, log, taken>>
    BY <1>1 DEF Skip, history, Making, Ended
  <2>2. log'[r] = log[r] /\ logs'[r] = logs[r] /\ taken'[r] = taken[r]
    BY <2>1
  <2>3. QED BY <2>1, <2>2, LogsGoOnSame
<1>2. ASSUME Begin(r) PROVE LogsOf(r)'
  <2>1. UNCHANGED <<logs, taken>> /\ at[r] = "loop" /\ cur[r] \in DOMAIN logs[r]
    BY <1>0, <1>2, LogTypes DEF Begin, history, Stages, Ended
  <2>2. PICK stage \in {"write", "read", "failing"} : Goto(r, stage)
    BY <1>2 DEF Begin, Fail
  <2>3. at'[r] = stage /\ cur'[r] = cur[r]
    BY <1>0, <2>2, Goes, StageSets DEF InQueue, Reading
  <2>4. \A k \in Position : log'[r][k] = log[r][k] \/ log'[r][k] = "waiting"
    BY <1>0, <1>2 DEF Begin, SetLog, TypeOK
  <2>5. QED BY <2>1, <2>3, <2>4, LogsStay DEF InQueue, Reading
<1>3. ASSUME BeginTime(r) PROVE LogsOf(r)'
  <2>1. UNCHANGED <<logs, log, taken>> /\ at[r] = "loop" /\ cur[r] \in DOMAIN logs[r]
    BY <1>0, <1>3, LogTypes DEF BeginTime, history, Stages, Ended
  <2>2. PICK stage \in {"hour", "readHour"} : Goto(r, stage)
    BY <1>3 DEF BeginTime
  <2>3. at'[r] = stage /\ cur'[r] = cur[r]
    BY <1>0, <2>2, Goes, StageSets DEF InQueue, Reading
  <2>4. QED BY <2>1, <2>3, LogsStay DEF InQueue, Reading
<1>4. ASSUME Reject(r) PROVE LogsOf(r)'
  <2>1. UNCHANGED <<logs, log, taken>> /\ at[r] = "loop" /\ cur[r] \in DOMAIN logs[r]
    BY <1>0, <1>4, LogTypes DEF Reject, history, Stages, Ended
  <2>2. at'[r] = "failing" /\ cur'[r] = cur[r]
    BY <1>0, <1>4, Goes, StageSets DEF Reject, Fail
  <2>3. QED BY <2>1, <2>2, LogsStay
<1>5. ASSUME AnswerWrite(r) PROVE LogsOf(r)'
  <2>1. UNCHANGED <<logs, log>> /\ at[r] = "write" /\ cur[r] \in DOMAIN logs[r]
    BY <1>0, <1>5, LogType DEF AnswerWrite, Busy, InQueue
  <2>2. /\ cur'[r] = cur[r] /\ at'[r] \in {"logging", "failing"}
        /\ at'[r] = "logging" => Take(r, "switch")
    <3>1. CASE Goto(r, "logging") /\ Take(r, "switch")
      BY <1>0, <3>1, Goes, StageSets
    <3>2. CASE Fail(r, 3)
      BY <1>0, <3>2, Goes, StageSets DEF Fail
    <3>3. QED BY <1>5, <3>1, <3>2 DEF AnswerWrite
  <2>3. /\ taken[r] \subseteq taken'[r]
        /\ Take(r, "switch") => <<cur[r], "switch">> \in taken'[r]
    BY <1>0, <1>5 DEF AnswerWrite, Take, TypeOK
  <2>4. QED BY <2>1, <2>2, <2>3, LogsStay DEF InQueue
<1>6. ASSUME AnswerHour(r) PROVE LogsOf(r)'
  <2>1. UNCHANGED <<logs, log>> /\ at[r] = "hour" /\ cur[r] \in DOMAIN logs[r]
    BY <1>0, <1>6, LogType DEF AnswerHour, Busy, InQueue
  <2>2. at'[r] = "minute" /\ cur'[r] = cur[r]
    BY <1>0, <1>6, Goes, StageSets DEF AnswerHour, InQueue
  <2>3. taken[r] \subseteq taken'[r]
    BY <1>0, <1>6 DEF AnswerHour, Take, TypeOK
  <2>4. QED BY <2>1, <2>2, <2>3, LogsStay DEF InQueue
<1>7. ASSUME AnswerMinute(r) PROVE LogsOf(r)'
  <2>1. UNCHANGED <<logs, log>> /\ at[r] = "minute" /\ cur[r] \in DOMAIN logs[r]
    BY <1>0, <1>7, LogType DEF AnswerMinute, Busy, InQueue
  <2>2. at'[r] = "logging" /\ cur'[r] = cur[r] /\ Command(r).kind = "time"
    BY <1>0, <1>7, Goes, StageSets DEF AnswerMinute, Stages
  <2>3. taken[r] \subseteq taken'[r]
    BY <1>0, <1>7 DEF AnswerMinute, Take, TypeOK
  <2>4. QED BY <2>1, <2>2, <2>3, LogsStay DEF InQueue
<1>8. ASSUME AnswerRead(r) PROVE LogsOf(r)'
  <2>1. UNCHANGED <<logs, log, taken>> /\ at[r] \in Reading /\ cur[r] \in DOMAIN logs[r]
    BY <1>0, <1>8, LogType DEF AnswerRead, Busy, Reading, history
  <2>2. PICK stage \in {"readMinute", "logging", "failing"} : Goto(r, stage)
    BY <1>8 DEF AnswerRead, Fail
  <2>3. at'[r] = stage /\ cur'[r] = cur[r]
    BY <1>0, <2>2, Goes, StageSets DEF Reading
  <2>4. Command(r).kind # "write"
    BY <1>0, <1>8 DEF AnswerRead, Stages
  <2>5. QED BY <2>1, <2>3, <2>4, LogsStay DEF Reading
<1>10. ASSUME Store(r) PROVE LogsOf(r)'
  <2>1. /\ at[r] \notin Making \cup Ended /\ NextCommand(r)
        /\ UNCHANGED <<logs, log, taken>>
    BY <1>10 DEF Store, history, Making, Ended
  <2>2. log'[r] = log[r] /\ logs'[r] = logs[r] /\ taken'[r] = taken[r]
    BY <2>1
  <2>3. QED BY <2>1, <2>2, LogsGoOnSame
<1>11. ASSUME LogFail(r) PROVE LogsOf(r)'
  <2>1. /\ UNCHANGED <<logs, taken>> /\ at[r] = "failing" /\ Log(r) \in Position
        /\ cur[r] \in DOMAIN logs[r]
    BY <1>0, <1>11, LogType DEF LogFail, Busy
  <2>2. \A k \in Position : log'[r][k] = log[r][k] \/ (k = Log(r) /\ log'[r][k] = "fail")
    <3>1. SetLog(r, Log(r), "fail") \/ UNCHANGED log
      BY <1>11 DEF LogFail
    <3>2. CASE UNCHANGED log
      BY <3>2
    <3>3. CASE SetLog(r, Log(r), "fail")
      <4>1. log'[r] = [log[r] EXCEPT ![Log(r)] = "fail"]
        BY <1>0, <3>3, Zenon DEF SetLog, TypeOK
      <4>2. log[r] \in [Position -> {"none", "waiting", "success", "fail"}]
        BY <1>0, LogTypes
      <4>3. QED BY <2>1, <4>1, <4>2
    <3>4. QED BY <3>1, <3>2, <3>3
  <2>3. CASE NextCommand(r)
    <3>1. logs'[r] = logs[r] /\ taken'[r] = taken[r]
      BY <2>1
    <3>2. at[r] \notin Making \cup Ended
      BY <2>1 DEF Making, Ended
    <3>3. log'[r] = log[r] \/ cur[r] \in DOMAIN logs[r]
      BY <2>1
    <3>4. QED BY <2>2, <2>3, <3>1, <3>2, <3>3, LogsGoOn, Zenon
  <2>4. CASE UNCHANGED <<at, cur, got>>
    <3>1. InOrder(r)'
      BY <2>1, <2>4 DEF LogsOf, InOrder, Created
    <3>2. Log(r)' = Log(r) /\ Command(r)' = Command(r)
      BY <2>1, <2>4 DEF Log, Command
    <3>3. ASSUME NEW j \in DOMAIN logs[r], j > cur[r]
          PROVE  log'[r][logs[r][j]] \notin Settled
      <4>1. log[r][logs[r][j]] \notin Settled
        BY <1>0, <2>1, <3>3 DEF LogsOf, Open, Making, Ended
      <4>2. logs[r][j] \in Position /\ logs[r][j] # Log(r)
        BY <1>0, <2>1, <3>3, LaterLog DEF LogsOf
      <4>3. QED BY <2>2, <4>1, <4>2
    <3>4. log'[r][Log(r)] # "success"
      BY <2>1, <2>2 DEF LogsOf, Open
    <3>5. Open(r)'
      BY <2>1, <2>4, <3>2, <3>3, <3>4 DEF Open, Making, Ended, InQueue, Reading
    <3>6. Truth(r)'
      BY <2>1, <2>2, <2>4, <3>2 DEF LogsOf, Truth
    <3>7. QED BY <3>1, <3>5, <3>6 DEF LogsOf
  <2>5. QED BY <1>11, <2>3, <2>4 DEF LogFail
<1>9. ASSUME LogSuccess(r) PROVE LogsOf(r)'
  <2>1. /\ UNCHANGED <<logs, taken>> /\ at[r] = "logging" /\ Log(r) \in Position
        /\ cur[r] \in DOMAIN logs[r] /\ cur[r] \in Position
    BY <1>0, <1>9, LogType DEF LogSuccess, Busy
  <2>2. CASE NextCommand(r) /\ UNCHANGED log
    <3>1. log'[r] = log[r] /\ logs'[r] = logs[r] /\ taken'[r] = taken[r]
      BY <2>1, <2>2
    <3>2. at[r] \notin Making \cup Ended
      BY <2>1 DEF Making, Ended
    <3>3. QED BY <2>2, <3>1, <3>2, LogsGoOnSame
  <2>3. CASE SetLog(r, Log(r), "success") /\ Goto(r, "storing")
    <3>1. at'[r] = "storing" /\ cur'[r] = cur[r]
      BY <1>0, <2>3, Goes, StageSets
    <3>2. Log(r)' = Log(r) /\ Command(r)' = Command(r)
      BY <2>1, <3>1 DEF Log, Command
    <3>3. InOrder(r)'
      BY <1>0, <2>1, <3>1, OrderKeptLater DEF LogsOf, Making
    <3>4. \A k \in Position : log'[r][k] = IF k = Log(r) THEN "success" ELSE log[r][k]
      BY <1>0, <2>1, <2>3 DEF SetLog, TypeOK
    <3>5. ASSUME NEW j \in DOMAIN logs[r], j > cur[r]
          PROVE  log'[r][logs[r][j]] \notin Settled
      <4>1. log[r][logs[r][j]] \notin Settled
        BY <1>0, <2>1, <3>5 DEF LogsOf, Open, Making, Ended
      <4>2. logs[r][j] \in Position /\ logs[r][j] # Log(r)
        BY <1>0, <2>1, <3>5, LaterLog DEF LogsOf
      <4>3. QED BY <3>4, <4>1, <4>2
    <3>6. Open(r)'
      BY <2>1, <3>1, <3>5 DEF Open, Making, Ended, InQueue, Reading
    <3>7. Len(logs[r]) = N => Log(r) = cur[r]
      <4>1. Created(r) = N /\ cur[r] \in Nat /\ logs[r][cur[r]] \in Nat
        BY <1>0, <2>1, LogTypes DEF Created, Making, Position
      <4>2. /\ cur[r] <= logs[r][cur[r]]
            /\ logs[r][cur[r]] <= cur[r] + (N - Len(logs[r]))
        BY <2>1, <4>1 DEF LogsOf, InOrder
      <4>3. QED BY <4>1, <4>2 DEF Log
    <3>8. Command(r).kind = "write" => <<cur[r], "switch">> \in taken[r]
      BY <2>1 DEF LogsOf, Truth
    <3>9. ASSUME NEW k \in Position, Len(logs[r]) = N, log'[r][k] = "success",
                 commands[r][k].kind = "write"
          PROVE  <<k, "switch">> \in taken[r]
      <4>1. CASE k = Log(r)
        BY <3>7, <3>8, <3>9, <4>1 DEF Command
      <4>2. CASE k # Log(r)
        BY <3>4, <3>9, <4>2 DEF LogsOf, Truth
      <4>3. QED BY <4>1, <4>2
    <3>10. Truth(r)'
      BY <2>1, <3>1, <3>2, <3>8, <3>9 DEF Truth
    <3>11. QED BY <3>3, <3>6, <3>10 DEF LogsOf
  <2>4. QED BY <1>9, <2>2, <2>3 DEF LogSuccess
<1>12. QED BY <1>1, <1>2, <1>3, <1>4, <1>5, <1>6, <1>7, <1>8, <1>9, <1>10, <1>11

(* A step of one request leaves the others' handlers and logs alone.        *)
Alone(q) == /\ at'[q] = at[q] /\ cur'[q] = cur[q] /\ logs'[q] = logs[q]
            /\ log'[q] = log[q] /\ taken'[q] = taken[q]

LEMMA OthersAlone ==
  ASSUME TypeInv, NEW r \in Request, NEW q \in Request \ {r},
         \/ Post(r) \/ CreateLog(r) \/ Skip(r) \/ Begin(r) \/ BeginTime(r)
         \/ Reject(r) \/ AnswerWrite(r) \/ AnswerHour(r) \/ AnswerMinute(r)
         \/ AnswerRead(r) \/ LogSuccess(r) \/ Store(r) \/ LogFail(r)
  PROVE  Alone(q)
<1>0. TypeOK
  BY DEF TypeInv
<1>1. ASSUME NEW stage, Goto(r, stage) PROVE at'[q] = at[q] /\ cur'[q] = cur[q]
  BY <1>0, <1>1 DEF Goto, TypeOK
<1>2. ASSUME NextCommand(r) PROVE at'[q] = at[q] /\ cur'[q] = cur[q]
  BY <1>0, <1>2 DEF NextCommand, TypeOK
<1>3. ASSUME NEW k, NEW status, SetLog(r, k, status) PROVE log'[q] = log[q]
  BY <1>0, <1>3 DEF SetLog, TypeOK
<1>4. ASSUME NEW x, Take(r, x) PROVE taken'[q] = taken[q]
  BY <1>0, <1>4 DEF Take, TypeOK
<1>5. CASE Post(r)
  BY <1>1, <1>5 DEF Post, history, Alone
<1>6. CASE CreateLog(r)
  <2>1. at'[q] = at[q] /\ cur'[q] = cur[q]
    BY <1>0, <1>6 DEF CreateLog, TypeOK
  <2>2. logs'[q] = logs[q] /\ log'[q] = log[q]
    BY <1>0, <1>3, <1>6 DEF CreateLog, TypeOK
  <2>3. QED BY <1>6, <2>1, <2>2 DEF CreateLog, history, Alone
<1>7. CASE Skip(r)
  BY <1>2, <1>7 DEF Skip, history, Alone
<1>8. CASE Begin(r)
  BY <1>1, <1>3, <1>8 DEF Begin, Fail, history, Alone
<1>9. CASE BeginTime(r)
  BY <1>1, <1>9 DEF BeginTime, history, Alone
<1>10. CASE Reject(r)
  BY <1>1, <1>10 DEF Reject, Fail, history, Alone
<1>11. CASE AnswerWrite(r)
  BY <1>1, <1>4, <1>11 DEF AnswerWrite, Fail, Alone
<1>12. CASE AnswerHour(r)
  BY <1>1, <1>4, <1>12 DEF AnswerHour, Alone
<1>13. CASE AnswerMinute(r)
  BY <1>1, <1>4, <1>13 DEF AnswerMinute, Alone
<1>14. CASE AnswerRead(r)
  BY <1>1, <1>14 DEF AnswerRead, Fail, history, Alone
<1>15. CASE LogSuccess(r)
  BY <1>1, <1>2, <1>3, <1>15 DEF LogSuccess, Alone
<1>16. CASE Store(r)
  BY <1>2, <1>16 DEF Store, history, Alone
<1>17. CASE LogFail(r)
  BY <1>2, <1>3, <1>17 DEF LogFail, Alone
<1>18. QED BY <1>5, <1>6, <1>7, <1>8, <1>9, <1>10, <1>11, <1>12, <1>13, <1>14, <1>15,
              <1>16, <1>17, Zenon

(* Steps that only end handlers.                                            *)
LEMMA LogsEnd ==
  ASSUME TypeInv, commands' = commands, LogInv, UNCHANGED <<cur, logs, log, taken>>,
         \A q \in Request : at'[q] \in {"lost", "stopped"} \/ at'[q] = at[q]
  PROVE  LogInv'
<1> SUFFICES ASSUME NEW q \in Request PROVE LogsOf(q)'
  BY DEF LogInv
<1>0. TypeOK /\ LogsOf(q)
  BY DEF TypeInv, LogInv
<1>1. CASE at'[q] = at[q]
  BY <1>0, <1>1, LogsKept
<1>2. CASE at'[q] \in {"lost", "stopped"}
  <2>1. InOrder(q)'
    BY <1>0, <1>2, OrderKeptLater DEF LogsOf, Making
  <2>2. Open(q)' /\ Truth(q)'
    BY <1>0, <1>2 DEF LogsOf, Open, Truth, Making, Ended, InQueue, Reading
  <2>3. QED BY <2>1, <2>2 DEF LogsOf
<1>3. QED BY <1>1, <1>2

LEMMA EndsOnly ==
  ASSUME TypeInv, [Next]_vars, Clear \/ Restart \/ PollRead \/ PollStore \/ UNCHANGED vars
  PROVE  /\ UNCHANGED <<cur, logs, log, taken>>
         /\ \A q \in Request : at'[q] \in {"lost", "stopped"} \/ at'[q] = at[q]
<1>1. CASE Clear
  BY <1>1 DEF Clear
<1>2. CASE Restart
  BY <1>2 DEF Restart
<1>3. CASE PollRead \/ PollStore \/ UNCHANGED vars
  BY <1>3 DEF PollRead, PollStore, request, history, vars
<1>4. QED BY <1>1, <1>2, <1>3

LEMMA LogStep == TypeInv /\ LogInv /\ [Next]_vars => LogInv'
<1> SUFFICES ASSUME TypeInv, LogInv, [Next]_vars PROVE LogInv'
  OBVIOUS
<1>1. commands' = commands
  BY Steps
<1>2. ASSUME NEW r \in Request,
             \/ Post(r) \/ CreateLog(r) \/ Skip(r) \/ Begin(r) \/ BeginTime(r)
             \/ Reject(r) \/ AnswerWrite(r) \/ AnswerHour(r) \/ AnswerMinute(r)
             \/ AnswerRead(r) \/ LogSuccess(r) \/ Store(r) \/ LogFail(r)
      PROVE  LogInv'
  <2>1. ASSUME NEW q \in Request \ {r} PROVE LogsOf(q)'
    <3>1. Alone(q) /\ LogsOf(q)
      BY <1>2, OthersAlone, Zenon DEF LogInv
    <3>2. QED BY <1>1, <3>1, LogsKept DEF Alone
  <2>2. LogsOf(r)'
    <3>1. LogsOf(r)
      BY DEF LogInv
    <3>2. QED BY <1>1, <1>2, <3>1, PostLogs, CreateLogLogs, HandlerLogs, Zenon
  <2>3. QED BY <2>1, <2>2, Zenon DEF LogInv
<1>3. CASE Clear \/ Restart \/ PollRead \/ PollStore \/ UNCHANGED vars
  BY <1>1, <1>3, EndsOnly, LogsEnd, Zenon
<1>4. QED BY <1>2, <1>3, Steps, Zenon

(* A log of a general write that says 'success' is the log of a command the *)
(* DDC took, when every log could be created: handleSuccess is reached only *)
(* with an answer of success, and log i is then that of command i.          *)
THEOREM WrittenIsTaken == Spec => []WriteSuccessTaken
<1>1. Init => TypeInv /\ LogInv
  BY TypeInit, LogsInit
<1>2. TypeInv /\ LogInv /\ [Next]_vars => TypeInv' /\ LogInv'
  BY TypeStep, LogStep
<1>3. LogInv => WriteSuccessTaken
  <2> SUFFICES ASSUME LogInv, NEW r \in Request, NEW k \in Position,
                      Len(logs[r]) = N, log[r][k] = "success", commands[r][k].kind = "write"
               PROVE  Writes(k, r) \subseteq taken[r]
    BY DEF WriteSuccessTaken
  <2>1. <<k, "switch">> \in taken[r]
    BY DEF LogInv, LogsOf, Truth
  <2>2. Writes(k, r) = {k} \X {"switch"}
    BY DEF Writes
  <2>3. \A p \in {k} \X {"switch"} : p = <<k, "switch">>
    OBVIOUS
  <2>4. QED BY <2>1, <2>2, <2>3, Zenon
<1>4. QED BY <1>1, <1>2, <1>3, PTL DEF Spec

(* No step changes a settled log: a log is written 'waiting' or settled     *)
(* only while its command is the one in the loop, which ends with it.       *)
LEMMA SettledStep ==
  ASSUME TypeInv, LogInv, [Next]_vars, NEW r \in Request, NEW k \in Position,
         log[r][k] \in Settled
  PROVE  log'[r][k] = log[r][k]
<1>0. TypeOK /\ LogsOf(r) /\ Stages(r)
  BY DEF TypeInv, LogInv, StageInv
<1>1. ASSUME NEW q \in Request,
             \/ Post(q) \/ CreateLog(q) \/ Skip(q) \/ Begin(q) \/ BeginTime(q)
             \/ Reject(q) \/ AnswerWrite(q) \/ AnswerHour(q) \/ AnswerMinute(q)
             \/ AnswerRead(q) \/ LogSuccess(q) \/ Store(q) \/ LogFail(q)
      PROVE  log'[r][k] = log[r][k]
  <2>1. CASE q # r
    BY <1>1, <2>1, OthersAlone DEF Alone
  <2>2. CASE q = r
    <3>1. CASE CreateLog(r)
      BY <1>0, <3>1 DEF CreateLog, LogsOf, Open, Making
    <3>2. CASE Begin(r)
      <4>1. cur[r] \in DOMAIN logs[r] /\ log[r][Log(r)] \notin Settled
        BY <1>0, <3>2, LogTypes DEF Begin, Stages, Ended, LogsOf, Open
      <4>2. k # Log(r)
        BY <4>1
      <4>3. QED BY <1>0, <3>2, <4>2 DEF Begin, SetLog, TypeOK
    <3>3. CASE LogSuccess(r)
      <4>1. cur[r] \in DOMAIN logs[r] /\ log[r][Log(r)] \notin Settled
        BY <1>0, <3>3, LogType DEF LogSuccess, Busy, LogsOf, Open
      <4>2. k # Log(r)
        BY <4>1
      <4>3. QED BY <1>0, <3>3, <4>2 DEF LogSuccess, SetLog, TypeOK
    <3>4. CASE LogFail(r)
      <4>1. log[r][Log(r)] # "success"
        BY <1>0, <3>4 DEF LogFail, LogsOf, Open
      <4>2. k = Log(r) => log[r][k] = "fail"
        BY <4>1 DEF Settled
      <4>3. QED BY <1>0, <3>4, <4>2 DEF LogFail, SetLog, TypeOK
    <3>5. CASE \/ Post(r) \/ Skip(r) \/ BeginTime(r) \/ Reject(r) \/ AnswerWrite(r)
               \/ AnswerHour(r) \/ AnswerMinute(r) \/ AnswerRead(r) \/ Store(r)
      <4>1. UNCHANGED log
        BY <3>5 DEF Post, Skip, BeginTime, Reject, AnswerWrite, AnswerHour, AnswerMinute,
                    AnswerRead, Store
      <4>2. QED BY <4>1
    <3>6. QED BY <1>1, <2>2, <3>1, <3>2, <3>3, <3>4, <3>5, Zenon
  <2>3. QED BY <2>1, <2>2
<1>2. CASE Clear \/ Restart \/ PollRead \/ PollStore \/ UNCHANGED vars
  BY <1>2, EndsOnly
<1>3. QED BY <1>1, <1>2, Steps, Zenon

(* A settled log never says anything else later.                            *)
THEOREM SettledStays == Spec => SettledForGood
<1>1. Init => TypeInv /\ LogInv
  BY TypeInit, LogsInit
<1>2. TypeInv /\ LogInv /\ [Next]_vars => TypeInv' /\ LogInv'
  BY TypeStep, LogStep
<1>3. TypeInv /\ LogInv /\ [Next]_vars
      => [\A r \in Request, k \in Position :
            log[r][k] \in Settled => log'[r][k] = log[r][k]]_vars
  BY SettledStep, Zenon
<1>4. QED BY <1>1, <1>2, <1>3, PTL DEF Spec, SettledForGood

-----------------------------------------------------------------------------
(* The queue and the time the DDC holds.                                    *)
LEMMA TimeInit == Init => TimeInv
<1> SUFFICES ASSUME Init PROVE TimeInv
  OBVIOUS
<1>1. queue = << >> /\ ddc = [x \in Register |-> First] /\ \A r \in Request : at[r] = "unsent"
  BY DEF Init
<1>2. ddc["hour"] = ddc["minute"]
  BY <1>1 DEF Register
<1>3. Queued
  BY <1>1 DEF Queued, InQueue
<1>4. LastMinute
  BY <1>1, <1>2 DEF LastMinute
<1>5. QED BY <1>3, <1>4 DEF TimeInv

LEMMA QueueFacts ==
  ASSUME TypeOK
  PROVE  /\ queue \in Seq(Request) /\ Len(queue) \in Nat /\ DOMAIN queue = 1..Len(queue)
         /\ \A i \in DOMAIN queue : queue[i] \in Request /\ i \in Nat
  BY DEF TypeOK

LEMMA TailFacts ==
  ASSUME TypeOK, queue # << >>
  PROVE  /\ Tail(queue) \in Seq(Request) /\ Len(Tail(queue)) = Len(queue) - 1
         /\ Head(queue) = queue[1] /\ 1 \in DOMAIN queue
         /\ \A i \in DOMAIN Tail(queue) :
              /\ i \in Nat /\ i + 1 \in DOMAIN queue /\ i + 1 # 1
              /\ Tail(queue)[i] = queue[i + 1]
         /\ \A j \in DOMAIN queue :
              j # 1 => j - 1 \in DOMAIN Tail(queue) /\ queue[j] = Tail(queue)[j - 1]
<1>1. queue \in Seq(Request) /\ Len(queue) \in Nat \ {0}
  BY QueueFacts DEF TypeOK
<1>2. /\ Tail(queue) \in Seq(Request) /\ Len(Tail(queue)) = Len(queue) - 1
      /\ Head(queue) = queue[1] /\ DOMAIN queue = 1..Len(queue)
      /\ DOMAIN Tail(queue) = 1..(Len(queue) - 1)
      /\ \A i \in 1..(Len(queue) - 1) : Tail(queue)[i] = queue[i + 1]
  BY <1>1
<1>3. QED BY <1>1, <1>2

LEMMA AppendFacts ==
  ASSUME NEW s \in Seq(Request), NEW r \in Request
  PROVE  /\ Append(s, r) \in Seq(Request)
         /\ DOMAIN s = 1..Len(s) /\ Len(s) \in Nat
         /\ DOMAIN Append(s, r) = DOMAIN s \cup {Len(s) + 1}
         /\ \A i \in DOMAIN s : i \in Nat /\ i # Len(s) + 1 /\ i < Len(s) + 1 /\ Append(s, r)[i] = s[i]
         /\ Append(s, r)[Len(s) + 1] = r
  OBVIOUS

(* A step that neither queues nor answers a write.                          *)
LEMMA TimeKept ==
  ASSUME TypeInv, commands' = commands, TimeInv, UNCHANGED <<queue, ddc, torn>>,
         \A q \in Request : at[q] \in InQueue \/ at'[q] \in InQueue
                              => at'[q] = at[q] /\ cur'[q] = cur[q]
  PROVE  TimeInv'
<1>0. TypeOK
  BY DEF TypeInv
<1>1. \A i \in DOMAIN queue :
        queue[i] \in Request /\ at'[queue[i]] = at[queue[i]] /\ cur'[queue[i]] = cur[queue[i]]
  BY <1>0, QueueFacts DEF TimeInv, Queued
<1>2. Queued'
  BY <1>1 DEF TimeInv, Queued
<1>3. LastMinute'
  BY <1>1 DEF TimeInv, LastMinute, IsMinute, Command
<1>4. QED BY <1>2, <1>3 DEF TimeInv

(* A general write or an HOUR write is queued.                              *)
LEMMA TimeQueued ==
  ASSUME TypeInv, commands' = commands, TimeInv, NEW r \in Request,
         at[r] \notin InQueue, at'[r] \in {"write", "hour"},
         \A q \in Request \ {r} : at'[q] = at[q] /\ cur'[q] = cur[q],
         queue' = Append(queue, r), UNCHANGED <<ddc, torn>>
  PROVE  TimeInv'
<1>0. TypeOK
  BY DEF TypeInv
<1>1. PICK last \in Nat :
        /\ DOMAIN queue' = DOMAIN queue \cup {last} /\ queue'[last] = r
        /\ \A i \in DOMAIN queue : i < last /\ i # last /\ queue'[i] = queue[i]
  BY <1>0, QueueFacts, AppendFacts
<1>2. \A i \in DOMAIN queue : /\ queue[i] \in Request \ {r}
                               /\ at'[queue[i]] = at[queue[i]] /\ cur'[queue[i]] = cur[queue[i]]
  BY <1>0, QueueFacts DEF TimeInv, Queued
<1>3. Queued'
  <2>1. ASSUME NEW i \in DOMAIN queue', NEW j \in DOMAIN queue', queue'[i] = queue'[j]
        PROVE  i = j
    BY <1>1, <1>2, <2>1 DEF TimeInv, Queued
  <2>2. \A i \in DOMAIN queue' : at'[queue'[i]] \in InQueue
    BY <1>1, <1>2 DEF TimeInv, Queued, InQueue
  <2>3. ASSUME NEW q \in Request, at'[q] \in InQueue
        PROVE  \E i \in DOMAIN queue' : queue'[i] = q
    <3>1. CASE q = r
      BY <1>1, <3>1
    <3>2. CASE q # r
      <4>1. at[q] \in InQueue
        BY <2>3, <3>2
      <4>2. PICK i \in DOMAIN queue : queue[i] = q
        BY <4>1 DEF TimeInv, Queued
      <4>3. QED BY <1>1, <4>2
    <3>3. QED BY <3>1, <3>2
  <2>4. QED BY <2>1, <2>2, <2>3, Zenon DEF Queued
<1>4. LastMinute'
  <2>1. /\ \A i \in DOMAIN queue : IsMinute(i)' = IsMinute(i) /\ Command(queue[i])' = Command(queue[i])
        /\ ~IsMinute(last)'
    BY <1>1, <1>2 DEF IsMinute, Command
  <2>2. CASE torn
    BY <2>2 DEF LastMinute
  <2>3. CASE ~torn
    <3>1. ASSUME NEW i \in DOMAIN queue', IsMinute(i)',
                 \A j \in DOMAIN queue' : j > i => ~IsMinute(j)'
          PROVE  (Command(queue[i]).value = ddc["hour"])'
      <4>1. i \in DOMAIN queue /\ IsMinute(i)
        BY <1>1, <2>1, <3>1
      <4>2. \A j \in DOMAIN queue : j > i => ~IsMinute(j)
        BY <1>1, <2>1, <3>1
      <4>3. Command(queue[i]).value = ddc["hour"]
        BY <2>3, <4>1, <4>2 DEF TimeInv, LastMinute
      <4>4. QED BY <1>1, <2>1, <4>1, <4>3
    <3>2. ((\A i \in DOMAIN queue : ~IsMinute(i)) => ddc["hour"] = ddc["minute"])'
      BY <1>1, <2>1, <2>3 DEF TimeInv, LastMinute
    <3>3. QED BY <3>1, <3>2 DEF LastMinute
  <2>4. QED BY <2>2, <2>3
<1>5. QED BY <1>3, <1>4 DEF TimeInv

(* What the answer of the first write of the queue leaves of Queued.        *)
LEMMA QueuedAnswered ==
  ASSUME TypeInv, Queued, NEW r \in Request, queue # << >>, r = Head(queue),
         at'[r] \notin InQueue, queue' = Tail(queue),
         \A q \in Request \ {r} : at'[q] = at[q]
  PROVE  Queued'
<1>0. TypeOK
  BY DEF TypeInv
<1>1. /\ \A i \in DOMAIN queue' : /\ i \in Nat /\ i + 1 \in DOMAIN queue /\ i + 1 # 1
                                  /\ queue'[i] = queue[i + 1]
      /\ \A j \in DOMAIN queue :
           j # 1 => j - 1 \in DOMAIN queue' /\ queue[j] = queue'[j - 1]
      /\ queue[1] = r /\ 1 \in DOMAIN queue
  BY <1>0, TailFacts
<1>2. ASSUME NEW i \in DOMAIN queue', NEW j \in DOMAIN queue', queue'[i] = queue'[j]
      PROVE  i = j
  <2>1. /\ i + 1 \in DOMAIN queue /\ j + 1 \in DOMAIN queue
        /\ queue[i + 1] = queue[j + 1]
    BY <1>1, <1>2
  <2>2. i + 1 = j + 1
    BY <2>1 DEF Queued
  <2>3. QED BY <1>1, <2>2
<1>3. ASSUME NEW i \in DOMAIN queue' PROVE at'[queue'[i]] \in InQueue
  <2>1. i + 1 \in DOMAIN queue /\ i + 1 # 1 /\ queue'[i] = queue[i + 1]
    BY <1>1
  <2>2. queue[i + 1] # r /\ at[queue[i + 1]] \in InQueue
    BY <1>1, <2>1 DEF Queued
  <2>3. queue[i + 1] \in Request
    BY <1>0, <2>1, QueueFacts
  <2>4. QED BY <2>1, <2>2, <2>3
<1>4. ASSUME NEW q \in Request, at'[q] \in InQueue
      PROVE  \E i \in DOMAIN queue' : queue'[i] = q
  <2>1. q # r /\ at[q] \in InQueue
    BY <1>4
  <2>2. PICK j \in DOMAIN queue : queue[j] = q
    BY <2>1 DEF Queued
  <2>3. j # 1
    BY <1>1, <2>1, <2>2
  <2>4. QED BY <1>1, <2>2, <2>3
<1>5. QED BY <1>2, <1>3, <1>4, Zenon DEF Queued

(* The first write is answered and is not the HOUR write of a time.         *)
LEMMA TimeAnswered ==
  ASSUME TypeInv, commands' = commands, TimeInv, NEW r \in Request,
         queue # << >>, r = Head(queue), at[r] \in {"write", "minute"},
         at'[r] \notin InQueue, queue' = Tail(queue),
         \A q \in Request \ {r} : at'[q] = at[q] /\ cur'[q] = cur[q],
         \/ torn'
         \/ /\ torn' = torn /\ ddc'["hour"] = ddc["hour"]
            /\ ddc'["minute"] = IF at[r] = "minute" THEN Command(r).value ELSE ddc["minute"]
  PROVE  TimeInv'
<1>0. TypeOK /\ Queued /\ LastMinute
  BY DEF TypeInv, TimeInv
<1>1. /\ \A i \in DOMAIN queue' : /\ i \in Nat /\ i + 1 \in DOMAIN queue /\ i + 1 # 1
                                  /\ queue'[i] = queue[i + 1]
      /\ \A j \in DOMAIN queue :
           j # 1 => j - 1 \in DOMAIN queue' /\ queue[j] = queue'[j - 1]
      /\ queue[1] = r /\ 1 \in DOMAIN queue
  BY <1>0, TailFacts
<1>2. Queued'
  BY <1>0, QueuedAnswered
<1>3. ASSUME ~torn', ~torn PROVE LastMinute'
  <2>1. ASSUME NEW j \in DOMAIN queue, j # 1
        PROVE  /\ IsMinute(j) = IsMinute(j - 1)'
               /\ Command(queue[j]) = Command(queue[j - 1])'
    <3>1. queue[j] # r /\ queue[j] \in Request
      <4>1. queue[j] # r
        BY <1>0, <1>1, <2>1 DEF Queued
      <4>2. QED BY <1>0, <4>1, QueueFacts
    <3>2. queue[j] = queue'[j - 1]
      BY <1>1, <2>1
    <3>3. QED BY <3>1, <3>2 DEF IsMinute, Command
  <2>2. ASSUME NEW i \in DOMAIN queue', IsMinute(i)',
               \A j \in DOMAIN queue' : j > i => ~IsMinute(j)'
        PROVE  (Command(queue[i]).value = ddc["hour"])'
    <3>1. /\ i \in Nat /\ i + 1 \in DOMAIN queue /\ i + 1 # 1 /\ (i + 1) - 1 = i
      BY <1>1
    <3>2. IsMinute(i + 1)
      BY <2>1, <2>2, <3>1
    <3>3. ASSUME NEW j \in DOMAIN queue, j > i + 1 PROVE ~IsMinute(j)
      <4>1. j \in Nat /\ j # 1 /\ j - 1 > i
        BY <1>0, <3>1, <3>3, QueueFacts
      <4>2. QED BY <1>1, <2>1, <2>2, <4>1
    <3>4. Command(queue[i + 1]).value = ddc["hour"]
      BY <1>0, <1>3, <3>1, <3>2, <3>3 DEF LastMinute
    <3>5. Command(queue[i + 1]) = Command(queue[i])'
      BY <2>1, <3>1
    <3>6. QED BY <1>3, <3>4, <3>5
  <2>3. ASSUME \A i \in DOMAIN queue' : ~IsMinute(i)'
        PROVE  ddc'["hour"] = ddc'["minute"]
    <3>1. \A j \in DOMAIN queue : j # 1 => ~IsMinute(j)
      BY <1>1, <2>1, <2>3
    <3>2. CASE at[r] = "minute"
      <4>1. IsMinute(1) /\ \A j \in DOMAIN queue : j > 1 => ~IsMinute(j)
        BY <1>1, <3>1, <3>2 DEF IsMinute
      <4>2. Command(queue[1]).value = ddc["hour"]
        BY <1>0, <1>1, <1>3, <4>1 DEF LastMinute
      <4>3. QED BY <1>1, <1>3, <3>2, <4>2
    <3>3. CASE at[r] # "minute"
      <4>1. \A j \in DOMAIN queue : ~IsMinute(j)
        BY <1>1, <3>1, <3>3 DEF IsMinute
      <4>2. QED BY <1>0, <1>3, <3>3, <4>1 DEF LastMinute
    <3>4. QED BY <3>2, <3>3
  <2>4. ((\A i \in DOMAIN queue : ~IsMinute(i)) => ddc["hour"] = ddc["minute"])'
    BY <2>3
  <2>5. QED BY <2>2, <2>4 DEF LastMinute
<1>4. LastMinute'
  BY <1>0, <1>3 DEF LastMinute
<1>5. QED BY <1>2, <1>4 DEF TimeInv

(* An HOUR write is answered: its MINUTE write is queued last.              *)
LEMMA TimeRequeued ==
  ASSUME TypeInv, commands' = commands, TimeInv, NEW r \in Request,
         queue # << >>, r = Head(queue), at[r] = "hour", at'[r] = "minute", cur'[r] = cur[r],
         queue' = Append(Tail(queue), r),
         \A q \in Request \ {r} : at'[q] = at[q] /\ cur'[q] = cur[q],
         torn' \/ ddc'["hour"] = Command(r).value
  PROVE  TimeInv'
<1>0. TypeOK /\ Queued
  BY DEF TypeInv, TimeInv
<1>1. PICK last \in DOMAIN queue :
        /\ DOMAIN queue' = DOMAIN queue /\ queue'[last] = r /\ queue[1] = r /\ 1 \in DOMAIN queue
        /\ \A i \in DOMAIN queue : i # last =>
             /\ i \in Nat /\ last > i /\ i + 1 \in DOMAIN queue /\ i + 1 # 1
             /\ queue'[i] = queue[i + 1]
        /\ \A j \in DOMAIN queue : j # 1 =>
             /\ j - 1 \in DOMAIN queue /\ j - 1 # last /\ queue[j] = queue'[j - 1]
  <2>1. /\ queue \in Seq(Request) /\ Len(queue) \in Nat \ {0} /\ DOMAIN queue = 1..Len(queue)
        /\ Tail(queue) \in Seq(Request) /\ Len(Tail(queue)) = Len(queue) - 1
    BY <1>0, QueueFacts, TailFacts
  <2>2. /\ DOMAIN queue' = DOMAIN Tail(queue) \cup {Len(queue)}
        /\ \A i \in DOMAIN Tail(queue) : i < Len(queue) /\ queue'[i] = Tail(queue)[i]
        /\ queue'[Len(queue)] = r
        /\ DOMAIN Tail(queue) = 1..(Len(queue) - 1)
    BY <2>1, AppendFacts
  <2>3. /\ \A i \in DOMAIN Tail(queue) :
             /\ i \in Nat /\ i + 1 \in DOMAIN queue /\ i + 1 # 1 /\ Tail(queue)[i] = queue[i + 1]
        /\ \A j \in DOMAIN queue :
             j # 1 => j - 1 \in DOMAIN Tail(queue) /\ queue[j] = Tail(queue)[j - 1]
        /\ queue[1] = r
    BY <1>0, TailFacts
  <2>4. Len(queue) \in DOMAIN queue /\ 1 \in DOMAIN queue
    BY <2>1
  <2>5. \A i \in DOMAIN queue : i # Len(queue) => i \in DOMAIN Tail(queue)
    BY <2>1, <2>2
  <2>6. DOMAIN queue' = DOMAIN queue
    BY <2>1, <2>2
  <2>7. \A i \in DOMAIN queue : i # Len(queue) =>
          /\ i \in Nat /\ Len(queue) > i /\ i + 1 \in DOMAIN queue /\ i + 1 # 1
          /\ queue'[i] = queue[i + 1]
    BY <2>1, <2>2, <2>3, <2>5
  <2>8. \A j \in DOMAIN queue : j # 1 =>
          /\ j - 1 \in DOMAIN queue /\ j - 1 # Len(queue) /\ queue[j] = queue'[j - 1]
    BY <2>1, <2>2, <2>3
  <2>9. QED BY <2>2, <2>3, <2>4, <2>6, <2>7, <2>8
<1>2. \A j \in DOMAIN queue : j # 1 => queue[j] # r
  BY <1>0, <1>1 DEF Queued
<1>3. \A i \in DOMAIN queue : i # last => queue'[i] # r
  BY <1>1, <1>2
<1>4. Queued'
  <2>1. ASSUME NEW i \in DOMAIN queue', NEW j \in DOMAIN queue', queue'[i] = queue'[j]
        PROVE  i = j
    <3>1. CASE i = last \/ j = last
      BY <1>1, <1>3, <2>1, <3>1
    <3>2. CASE i # last /\ j # last
      <4>1. /\ i \in Nat /\ j \in Nat /\ i + 1 \in DOMAIN queue /\ j + 1 \in DOMAIN queue
            /\ queue[i + 1] = queue[j + 1]
        BY <1>1, <2>1, <3>2
      <4>2. i + 1 = j + 1
        BY <1>0, <4>1 DEF Queued
      <4>3. QED BY <4>1, <4>2
    <3>3. QED BY <3>1, <3>2
  <2>2. ASSUME NEW i \in DOMAIN queue' PROVE at'[queue'[i]] \in InQueue
    <3>1. CASE i = last
      BY <1>1, <3>1 DEF InQueue
    <3>2. CASE i # last
      <4>1. i + 1 \in DOMAIN queue /\ queue'[i] = queue[i + 1] /\ queue'[i] # r
        BY <1>1, <1>3, <3>2
      <4>2. queue[i + 1] \in Request /\ at[queue[i + 1]] \in InQueue
        BY <1>0, <4>1, QueueFacts DEF Queued
      <4>3. QED BY <4>1, <4>2
    <3>3. QED BY <3>1, <3>2
  <2>3. ASSUME NEW q \in Request, at'[q] \in InQueue
        PROVE  \E i \in DOMAIN queue' : queue'[i] = q
    <3>1. CASE q = r
      BY <1>1, <3>1
    <3>2. CASE q # r
      <4>1. PICK j \in DOMAIN queue : queue[j] = q
        BY <1>0, <2>3, <3>2 DEF Queued
      <4>2. j # 1
        BY <1>1, <3>2, <4>1
      <4>3. QED BY <1>1, <4>1, <4>2
    <3>3. QED BY <3>1, <3>2
  <2>4. QED BY <2>1, <2>2, <2>3, Zenon DEF Queued
<1>5. LastMinute'
  <2>1. IsMinute(last)'
    BY <1>1 DEF IsMinute
  <2>2. Command(r)' = Command(r) /\ Command(queue[last])' = Command(r)'
    BY <1>1 DEF Command
  <2>3. ASSUME NEW i \in DOMAIN queue', \A j \in DOMAIN queue' : j > i => ~IsMinute(j)'
        PROVE  i = last
    BY <1>1, <2>1, <2>3
  <2>4. torn' \/ (Command(queue[last]).value = ddc["hour"])'
    BY <2>2
  <2>5. CASE torn'
    BY <2>5 DEF LastMinute
  <2>6. CASE ~torn'
    <3>1. ASSUME NEW i \in DOMAIN queue', IsMinute(i)',
                 \A j \in DOMAIN queue' : j > i => ~IsMinute(j)'
          PROVE  (Command(queue[i]).value = ddc["hour"])'
      BY <2>3, <2>4, <2>6, <3>1
    <3>2. ((\A i \in DOMAIN queue : ~IsMinute(i)) => ddc["hour"] = ddc["minute"])'
      BY <1>1, <2>1
    <3>3. QED BY <3>1, <3>2 DEF LastMinute
  <2>7. QED BY <2>5, <2>6
<1>6. QED BY <1>4, <1>5 DEF TimeInv

LEMMA RestartTime ==
  ASSUME TypeInv, commands' = commands, TimeInv, Restart
  PROVE  TimeInv'
<1>0. TypeOK
  BY DEF TypeInv
<1>1. queue' = << >> /\ ddc' = ddc
  BY DEF Restart
<1>2. \A q \in Request : at'[q] \notin InQueue
  BY <1>0 DEF Restart, Ended, InQueue
<1>3. Queued'
  BY <1>1, <1>2 DEF Queued
<1>4. ASSUME ~torn' PROVE ddc'["hour"] = ddc'["minute"]
  <2>1. ~torn /\ \A q \in Request : at[q] # "minute"
    BY <1>4 DEF Restart
  <2>2. \A i \in DOMAIN queue : ~IsMinute(i)
    BY <1>0, <2>1, QueueFacts DEF IsMinute
  <2>3. QED BY <1>1, <2>1, <2>2 DEF TimeInv, LastMinute
<1>5. LastMinute'
  BY <1>1, <1>4 DEF LastMinute
<1>6. QED BY <1>3, <1>5 DEF TimeInv

LEMMA ClearTime ==
  ASSUME TypeInv, commands' = commands, TimeInv, Clear
  PROVE  TimeInv'
<1>0. TypeOK /\ Queued
  BY DEF TypeInv, TimeInv
<1>1. UNCHANGED <<cur, ddc>>
  BY DEF Clear
<1>2. PICK kept \in {{}} \cup {{r} : r \in OnLine} :
        /\ queue' = IF queue # << >> /\ Head(queue) \in kept
                    THEN <<Head(queue)>> ELSE << >>
        /\ at' = [r \in Request |-> IF r \in Waiting \ kept THEN "lost" ELSE at[r]]
        /\ torn' = (torn \/ \E r \in Waiting \ kept : at[r] = "minute")
  BY DEF Clear
<1>3. \A q, p \in kept : q = p /\ q \in OnLine
  BY <1>2
<1>4. \A q \in Request : at[q] \in InQueue => q \in Waiting
  BY DEF Waiting
<1>5. \A q \in Request : at'[q] \in InQueue => q \in kept /\ at[q] \in InQueue /\ at'[q] = at[q]
  <2>1. "lost" \notin InQueue
    BY DEF InQueue
  <2>2. QED BY <1>2, <1>4, <2>1
(* A request that keeps its write had it on the line.                       *)
<1>6. ASSUME NEW q \in kept, q \in Request, at[q] \in InQueue
      PROVE  queue # << >> /\ q = Head(queue) /\ queue' = <<q>>
  <2>1. q = Head(queue)
    BY <1>3, <1>6 DEF OnLine, Waiting, InQueue, Reading
  <2>2. queue # << >>
    <3>1. \E i \in DOMAIN queue : queue[i] = q
      BY <1>0, <1>6 DEF Queued
    <3>2. QED BY <3>1
  <2>3. QED BY <1>2, <2>1, <2>2
<1>7. ASSUME queue' # << >>
      PROVE  /\ queue # << >> /\ Head(queue) \in Request /\ at[Head(queue)] \in InQueue
             /\ Head(queue) \in kept /\ queue' = <<Head(queue)>>
  <2>1. queue # << >> /\ Head(queue) \in kept /\ queue' = <<Head(queue)>>
    BY <1>2, <1>7
  <2>2. 1 \in DOMAIN queue /\ Head(queue) = queue[1]
    BY <1>0, <2>1, TailFacts
  <2>3. QED BY <1>0, <2>1, <2>2, QueueFacts DEF Queued
<1>8. Queued'
  <2>1. ASSUME NEW i \in DOMAIN queue' PROVE i = 1 /\ queue'[i] = Head(queue) /\ queue' # << >>
    BY <1>2
  <2>2. ASSUME NEW i \in DOMAIN queue' PROVE at'[queue'[i]] \in InQueue
    <3>1. at[Head(queue)] \in InQueue /\ Head(queue) \in kept /\ Head(queue) \in Request
      BY <1>7, <2>1
    <3>2. at'[Head(queue)] = at[Head(queue)]
      BY <1>2, <3>1
    <3>3. QED BY <2>1, <3>1, <3>2
  <2>3. ASSUME NEW q \in Request, at'[q] \in InQueue
        PROVE  \E i \in DOMAIN queue' : queue'[i] = q
    <3>1. queue' = <<q>>
      BY <1>5, <1>6, <2>3
    <3>2. 1 \in DOMAIN queue' /\ queue'[1] = q
      BY <3>1
    <3>3. QED BY <3>2
  <2>4. \A i, j \in DOMAIN queue' : queue'[i] = queue'[j] => i = j
    BY <2>1
  <2>5. QED BY <2>2, <2>3, <2>4, Zenon DEF Queued
<1>9. ASSUME ~torn' PROVE LastMinute'
  <2>1. ~torn /\ \A q \in Request : at[q] = "minute" => q \in kept
    BY <1>2, <1>4, <1>9 DEF InQueue
  <2>2. \A j \in DOMAIN queue : IsMinute(j) => queue[j] \in kept /\ queue[j] \in Request
    BY <1>0, <2>1, QueueFacts DEF IsMinute
  <2>3. \A j \in DOMAIN queue : IsMinute(j) => j = 1 /\ queue # << >> /\ queue' = <<queue[1]>>
    <3>1. SUFFICES ASSUME NEW j \in DOMAIN queue, IsMinute(j)
                   PROVE  j = 1 /\ queue # << >> /\ queue' = <<queue[1]>>
      BY Zenon
    <3>2. queue # << >> /\ queue[j] = Head(queue) /\ queue' = <<queue[j]>>
      BY <1>6, <2>2, <3>1 DEF IsMinute, InQueue
    <3>3. 1 \in DOMAIN queue /\ Head(queue) = queue[1]
      BY <1>0, <3>2, TailFacts
    <3>4. QED BY <1>0, <3>2, <3>3 DEF Queued
  <2>4. CASE \E j \in DOMAIN queue : IsMinute(j)
    <3>1. 1 \in DOMAIN queue /\ IsMinute(1) /\ queue' = <<queue[1]>>
      BY <2>3, <2>4
    <3>2. \A j \in DOMAIN queue : j > 1 => ~IsMinute(j)
      BY <1>0, <2>3, QueueFacts
    <3>3. Command(queue[1]).value = ddc["hour"]
      BY <2>1, <3>1, <3>2 DEF TimeInv, LastMinute
    <3>4. /\ DOMAIN queue' = {1} /\ queue'[1] = queue[1]
      BY <3>1
    <3>5. IsMinute(1)' /\ (Command(queue[1]).value = ddc["hour"])'
      <4>1. queue[1] \in Request /\ queue[1] \in kept
        BY <2>2, <3>1
      <4>2. at'[queue[1]] = at[queue[1]]
        BY <1>2, <4>1
      <4>3. QED BY <1>1, <3>1, <3>3, <3>4, <4>2 DEF IsMinute, Command
    <3>6. \A i \in DOMAIN queue' : i = 1
      BY <3>4
    <3>7. QED BY <3>4, <3>5, <3>6 DEF LastMinute
  <2>5. CASE \A j \in DOMAIN queue : ~IsMinute(j)
    <3>1. ddc'["hour"] = ddc'["minute"]
      BY <1>1, <2>1, <2>5 DEF TimeInv, LastMinute
    <3>2. ASSUME NEW i \in DOMAIN queue' PROVE ~IsMinute(i)'
      <4>1. queue' # << >> /\ queue'[i] = Head(queue)
        BY <1>2
      <4>2. Head(queue) \in Request /\ Head(queue) \in kept /\ queue # << >>
        BY <1>7, <4>1
      <4>3. 1 \in DOMAIN queue /\ Head(queue) = queue[1]
        BY <1>0, <4>2, TailFacts
      <4>4. at'[Head(queue)] = at[Head(queue)]
        BY <1>2, <4>2
      <4>5. QED BY <2>5, <4>1, <4>3, <4>4 DEF IsMinute
    <3>3. QED BY <3>1, <3>2 DEF LastMinute
  <2>6. QED BY <2>4, <2>5
<1>10. LastMinute'
  BY <1>9 DEF LastMinute
<1>11. QED BY <1>8, <1>10 DEF TimeInv

(* A step of a handler that is not about a write.                           *)
LEMMA TimeElsewhere ==
  ASSUME TypeInv, commands' = commands, TimeInv, NEW r \in Request,
         \A q \in Request \ {r} : Alone(q), UNCHANGED <<queue, ddc, torn>>,
         at[r] \notin InQueue, at'[r] \notin InQueue
  PROVE  TimeInv'
<1>1. \A q \in Request : at[q] \in InQueue \/ at'[q] \in InQueue
                           => at'[q] = at[q] /\ cur'[q] = cur[q]
  BY DEF Alone
<1>2. QED BY <1>1, TimeKept

LEMMA HandlerTime ==
  ASSUME TypeInv, commands' = commands, TimeInv, NEW r \in Request,
         \/ Post(r) \/ CreateLog(r) \/ Skip(r) \/ Begin(r) \/ BeginTime(r)
         \/ Reject(r) \/ AnswerWrite(r) \/ AnswerHour(r) \/ AnswerMinute(r)
         \/ AnswerRead(r) \/ LogSuccess(r) \/ Store(r) \/ LogFail(r)
  PROVE  TimeInv'
<1>0. TypeOK /\ Stages(r)
  BY DEF TypeInv, StageInv
<1>1. \A q \in Request \ {r} : Alone(q)
  BY OthersAlone, Zenon
<1>2. \A q \in Request \ {r} : at'[q] = at[q] /\ cur'[q] = cur[q]
  BY <1>1 DEF Alone
<1>3. ASSUME NEW stage, Goto(r, stage) PROVE at'[r] = stage /\ cur'[r] = cur[r]
  BY <1>0, <1>3 DEF Goto, TypeOK
<1>4. ASSUME NextCommand(r) PROVE at'[r] \notin InQueue
  BY <1>0, <1>4 DEF NextCommand, TypeOK, InQueue
<1>5. CASE Post(r)
  <2>1. at[r] \notin InQueue /\ at'[r] \notin InQueue
    BY <1>3, <1>5 DEF Post, InQueue
  <2>2. UNCHANGED <<queue, ddc, torn>>
    BY <1>5 DEF Post, history
  <2>3. QED BY <1>1, <2>1, <2>2, TimeElsewhere
<1>6. CASE CreateLog(r)
  <2>1. at[r] \notin InQueue /\ at'[r] \notin InQueue
    BY <1>0, <1>6 DEF CreateLog, TypeOK, InQueue
  <2>2. UNCHANGED <<queue, ddc, torn>>
    BY <1>6 DEF CreateLog, history
  <2>3. QED BY <1>1, <2>1, <2>2, TimeElsewhere
<1>7. CASE Skip(r)
  <2>1. at[r] \notin InQueue /\ at'[r] \notin InQueue
    BY <1>4, <1>7 DEF Skip, InQueue
  <2>2. UNCHANGED <<queue, ddc, torn>>
    BY <1>7 DEF Skip, history
  <2>3. QED BY <1>1, <2>1, <2>2, TimeElsewhere
<1>8. CASE Begin(r)
  <2>1. at[r] \notin InQueue /\ UNCHANGED <<ddc, torn>>
    BY <1>8 DEF Begin, history, InQueue
  <2>2. CASE queue' = Append(queue, r) /\ Goto(r, "write")
    <3>1. at'[r] \in {"write", "hour"}
      BY <1>3, <2>2
    <3>2. QED BY <1>2, <2>1, <2>2, <3>1, TimeQueued
  <2>3. CASE queue' = queue /\ (Goto(r, "read") \/ Goto(r, "failing"))
    <3>1. at'[r] \notin InQueue
      BY <1>3, <2>3 DEF InQueue
    <3>2. QED BY <1>1, <2>1, <2>3, <3>1, TimeElsewhere
  <2>4. QED BY <1>8, <2>2, <2>3 DEF Begin, Fail
<1>9. CASE BeginTime(r)
  <2>1. at[r] \notin InQueue /\ UNCHANGED <<ddc, torn>>
    BY <1>9 DEF BeginTime, history, InQueue
  <2>2. CASE queue' = Append(queue, r) /\ Goto(r, "hour")
    <3>1. at'[r] \in {"write", "hour"}
      BY <1>3, <2>2
    <3>2. QED BY <1>2, <2>1, <2>2, <3>1, TimeQueued
  <2>3. CASE queue' = queue /\ Goto(r, "readHour")
    <3>1. at'[r] \notin InQueue
      BY <1>3, <2>3 DEF InQueue
    <3>2. QED BY <1>1, <2>1, <2>3, <3>1, TimeElsewhere
  <2>4. QED BY <1>9, <2>2, <2>3 DEF BeginTime
<1>10. CASE Reject(r)
  <2>1. at[r] \notin InQueue /\ at'[r] \notin InQueue
    BY <1>3, <1>10 DEF Reject, Fail, InQueue
  <2>2. UNCHANGED <<queue, ddc, torn>>
    BY <1>10 DEF Reject, history
  <2>3. QED BY <1>1, <2>1, <2>2, TimeElsewhere
<1>11. CASE AnswerWrite(r)
  <2>1. /\ queue # << >> /\ r = Head(queue) /\ at[r] = "write" /\ queue' = Tail(queue)
        /\ torn' = torn
    BY <1>11 DEF AnswerWrite
  <2>2. at'[r] \notin InQueue
    BY <1>3, <1>11 DEF AnswerWrite, Fail, InQueue
  <2>3. ddc'["hour"] = ddc["hour"] /\ ddc'["minute"] = ddc["minute"]
    BY <1>0, <1>11 DEF AnswerWrite, Take, TypeOK, Registers, Register
  <2>4. QED BY <1>2, <2>1, <2>2, <2>3, TimeAnswered
<1>12. CASE AnswerHour(r)
  <2>1. /\ queue # << >> /\ r = Head(queue) /\ at[r] = "hour"
        /\ queue' = Append(Tail(queue), r)
        /\ Goto(r, "minute")
        /\ Take(r, "hour") \/ torn'
    BY <1>12 DEF AnswerHour
  <2>2. at'[r] = "minute" /\ cur'[r] = cur[r]
    BY <1>3, <2>1
  <2>3. torn' \/ ddc'["hour"] = Command(r).value
    BY <1>0, <2>1 DEF Take, TypeOK, Registers, Register
  <2>4. QED BY <1>2, <2>1, <2>2, <2>3, TimeRequeued
<1>13. CASE AnswerMinute(r)
  <2>1. /\ queue # << >> /\ r = Head(queue) /\ at[r] = "minute" /\ queue' = Tail(queue)
        /\ Goto(r, "logging")
        /\ (Take(r, "minute") /\ torn' = torn) \/ torn'
    BY <1>13 DEF AnswerMinute
  <2>2. at'[r] \notin InQueue
    BY <1>3, <2>1 DEF InQueue
  <2>3. \/ torn'
        \/ /\ torn' = torn /\ ddc'["hour"] = ddc["hour"]
           /\ ddc'["minute"] = IF at[r] = "minute" THEN Command(r).value ELSE ddc["minute"]
    BY <1>0, <2>1 DEF Take, TypeOK, Registers, Register
  <2>4. QED BY <1>2, <2>1, <2>2, <2>3, TimeAnswered
<1>14. CASE AnswerRead(r)
  <2>1. at[r] \notin InQueue /\ at'[r] \notin InQueue
    BY <1>3, <1>14 DEF AnswerRead, Fail, InQueue
  <2>2. UNCHANGED <<queue, ddc, torn>>
    BY <1>14 DEF AnswerRead, history
  <2>3. QED BY <1>1, <2>1, <2>2, TimeElsewhere
<1>15. CASE LogSuccess(r)
  <2>1. at[r] \notin InQueue /\ at'[r] \notin InQueue
    BY <1>3, <1>4, <1>15 DEF LogSuccess, InQueue
  <2>2. UNCHANGED <<queue, ddc, torn>>
    BY <1>15 DEF LogSuccess
  <2>3. QED BY <1>1, <2>1, <2>2, TimeElsewhere
<1>16. CASE Store(r)
  <2>1. at[r] \notin InQueue /\ at'[r] \notin InQueue
    BY <1>4, <1>16 DEF Store, InQueue
  <2>2. UNCHANGED <<queue, ddc, torn>>
    BY <1>16 DEF Store, history
  <2>3. QED BY <1>1, <2>1, <2>2, TimeElsewhere
<1>17. CASE LogFail(r)
  <2>1. at[r] \notin InQueue
    BY <1>17 DEF LogFail, InQueue
  <2>2. at'[r] \notin InQueue
    BY <1>4, <1>17, <2>1 DEF LogFail
  <2>3. UNCHANGED <<queue, ddc, torn>>
    BY <1>17 DEF LogFail
  <2>4. QED BY <1>1, <2>1, <2>2, <2>3, TimeElsewhere
<1>18. QED BY <1>5, <1>6, <1>7, <1>8, <1>9, <1>10, <1>11, <1>12, <1>13, <1>14, <1>15,
              <1>16, <1>17, Zenon

LEMMA TimeStep == TypeInv /\ TimeInv /\ [Next]_vars => TimeInv'
<1> SUFFICES ASSUME TypeInv, TimeInv, [Next]_vars PROVE TimeInv'
  OBVIOUS
<1>1. commands' = commands
  BY Steps
<1>2. CASE PollRead \/ PollStore \/ UNCHANGED vars
  <2>1. UNCHANGED <<queue, ddc, torn, at, cur>>
    BY <1>2 DEF PollRead, PollStore, request, history, vars
  <2>2. \A q \in Request : at[q] \in InQueue \/ at'[q] \in InQueue
                           => at'[q] = at[q] /\ cur'[q] = cur[q]
    BY <2>1
  <2>3. QED BY <1>1, <2>1, <2>2, TimeKept
<1>3. QED BY <1>1, <1>2, Steps, HandlerTime, ClearTime, RestartTime, Zenon

(* The DDC's hour and minute are of one time whenever no MINUTE write is    *)
(* waiting, as long as every part of a time was taken: the last MINUTE of   *)
(* the queue belongs to the HOUR taken last.                                *)
THEOREM TimeStaysWhole == Spec => []TimeIsWhole
<1>1. Init => TypeInv /\ TimeInv
  BY TypeInit, TimeInit
<1>2. TypeInv /\ TimeInv /\ [Next]_vars => TypeInv' /\ TimeInv'
  BY TypeStep, TimeStep
<1>3. TypeInv /\ TimeInv => TimeIsWhole
  <2> SUFFICES ASSUME TypeInv, TimeInv, ~torn, \A r \in Request : at[r] # "minute"
               PROVE  ddc["hour"] = ddc["minute"]
    BY DEF TimeIsWhole
  <2>1. \A i \in DOMAIN queue : ~IsMinute(i)
    BY QueueFacts DEF TypeInv, IsMinute
  <2>2. QED BY <2>1 DEF TimeInv, LastMinute
<1>4. QED BY <1>1, <1>2, <1>3, PTL DEF Spec

=============================================================================
