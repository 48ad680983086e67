---------------------------- MODULE PeopleCounter ----------------------------
(***************************************************************************)
(* One APC100 people counter: the job queue of its serial line             *)
(* (PeopleCounterQueueService, PeopleCounterService), the poller that      *)
(* turns its cumulative count into increments (PeopleCounterPollerService) *)
(* and the reset at midnight (PeopleCounterResetSchedulerService).  Several*)
(* counters have a line and a queue each.                                  *)
(*                                                                         *)
(* Only the count of people entering is modelled, without its six digits.  *)
(* A job is named by its owner, who waits for it.  Polls do not wait for   *)
(* each other: the timer starts a new one every ten seconds.  Whether the  *)
(* polling is on only decides whether a poll is made at all; stop is called*)
(* at shutdown only.  That the database drops increments after 35 days is  *)
(* left out.                                                               *)
(***************************************************************************)
EXTENDS Naturals, Sequences

CONSTANTS Tick,         \* polls that may be under way, each again and again
          midnight,     \* the reset scheduler
          Hand,         \* requests: SET_RESET, a frame (POST .../apc-test), or
                        \* POST .../reset-data
          Nobody, None,
          StartCounts,  \* counts the device may have at the start
          MaxEntered,   \* bound on the people who enter
          MaxDay        \* bound on the days

Owner == Tick \cup Hand \cup {midnight}
Day == 0..MaxDay + 1

ASSUME CounterAssumption ==
  /\ Tick \cap Hand = {} /\ midnight \notin Tick \cup Hand
  /\ Nobody \notin Owner /\ None \notin Nat
  /\ StartCounts \subseteq Nat /\ MaxEntered \in Nat /\ MaxDay \in Nat

VARIABLES inCount,      \* device: its cumulative count
          asked,        \* line: a status request it has not answered
          answer,       \* line: an answer on its way, one at most
          entered,      \* history: people who entered
          day,          \* the clock's date (KST)
          jobs,         \* the queue: owners of waiting jobs
          running,      \* the job being processed, or Nobody
          drainDue,     \* a setImmediate(drain) is scheduled
          at,           \* where each owner is
          reading,      \* the count a poll was answered, and when; then
                        \* the count of the day that it is storing
          carry,        \* the increment that it is saving
          lastIn,       \* lastRawPollInCumulative
          todayKey, todayInCount,
          raw,          \* database: sum of the increments stored per day
          doc,          \* database: the unit in the Data collection
          counted,      \* history: sum of all increments stored
          missing,      \* history: increments per day that could not be
                        \* stored, or were deleted again by reset-data
          raced,        \* history: a poll was answered while another was saving
          stage, first, \* where the start of the poller is; its first document
          nextRun, lastRun  \* the scheduler's next and last day

lineVars == <<inCount, asked, answer>>
worldVars == <<entered, day, raced>>
queueVars == <<jobs, running, drainDue>>
pollVars == <<reading, carry>>
unitVars == <<lastIn, todayKey, todayInCount>>
dbVars == <<raw, doc, counted, missing>>
startVars == <<stage, first>>
runVars == <<nextRun, lastRun>>
vars == <<lineVars, worldVars, queueVars, at, pollVars, unitVars, dbVars, startVars, runVars>>

Point == {"idle", "waiting", "clear", "save", "store",  \* a poll
          "again", "retry", "zero", "zeroed",           \* the scheduler
          "erased"}                                     \* reset-data
Card == [day : Day, count : Nat]
NoReading == [day |-> 0, count |-> 0]

TypeOK ==
  /\ inCount \in Nat /\ asked \in BOOLEAN /\ answer \in Nat \cup {None}
  /\ entered \in 0..MaxEntered /\ day \in 0..MaxDay
  /\ jobs \in Seq(Owner) /\ running \in Owner \cup {Nobody} /\ drainDue \in BOOLEAN
  /\ at \in [Owner -> Point]
  /\ reading \in [Tick -> Card] /\ carry \in [Tick -> Nat]
  /\ lastIn \in Nat \cup {None}
  /\ todayKey \in Day \cup {None} /\ todayInCount \in Nat
  /\ raw \in [Day -> Nat] /\ doc \in Card \cup {None}
  /\ counted \in Nat /\ missing \in [Day -> Nat] /\ raced \in BOOLEAN
  /\ stage \in {"begin", "sum", "store", "on"} /\ first \in Card
  /\ nextRun \in Day /\ lastRun \in Day \cup {None}

(* What a newly started process has in memory.                             *)
Fresh ==
  /\ jobs = << >> /\ running = Nobody /\ drainDue = FALSE
  /\ at = [o \in Owner |-> "idle"]
  /\ reading = [k \in Tick |-> NoReading] /\ carry = [k \in Tick |-> 0]
  /\ lastIn = None /\ todayKey = None /\ todayInCount = 0
  /\ stage = "begin" /\ first = NoReading
  /\ nextRun = day + 1 /\ lastRun = None

Init ==
  /\ inCount \in StartCounts /\ asked = FALSE /\ answer = None
  /\ entered = 0 /\ day = 0
  /\ raw = [d \in Day |-> 0] /\ doc = None
  /\ counted = 0 /\ missing = [d \in Day |-> 0] /\ raced = FALSE
  /\ Fresh

Goto(o, point) == at' = [at EXCEPT ![o] = point]

-----------------------------------------------------------------------------
(* The queue of the line.                                                  *)

(* What a job of o does at once: a poll sends its request, a frame sent by *)
(* hand may be one; the line may lose it.                                  *)
Starts(o) == asked' \in IF o = midnight THEN {asked} ELSE {asked, TRUE}

(* drain, with the queue as the caller leaves it.                          *)
Drain(queue) ==
  IF running # Nobody \/ queue = << >>
  THEN jobs' = queue /\ UNCHANGED <<running, asked>>
  ELSE /\ jobs' = Tail(queue)
       /\ running' = Head(queue)
       /\ Starts(Head(queue))

(* enqueueQuery, enqueueReset, enqueueManualApc                            *)
Enqueue(o) == Drain(Append(jobs, o)) /\ UNCHANGED drainDue

(* The finally block of a job.                                             *)
EndJob ==
  /\ running' = Nobody
  /\ drainDue' = (drainDue \/ jobs # << >>)
  /\ UNCHANGED jobs

(* Defect: the job at the head is not looked for again.                    *)
DrainNothing ==
  /\ drainDue /\ drainDue' = FALSE
  /\ UNCHANGED <<lineVars, worldVars, jobs, running, at, pollVars, unitVars, dbVars, startVars, runVars>>

(* The setImmediate callback.                                              *)
DrainAgain ==
  /\ drainDue /\ drainDue' = FALSE
  /\ Drain(jobs)
  /\ UNCHANGED <<inCount, answer, worldVars, at, pollVars, unitVars, dbVars, startVars, runVars>>

-----------------------------------------------------------------------------
(* External: people, the clock, the device and its line.                   *)

Enter ==
  /\ entered < MaxEntered
  /\ entered' = entered + 1 /\ inCount' = inCount + 1
  /\ UNCHANGED <<asked, answer, day, raced, queueVars, at, pollVars, unitVars, dbVars, startVars, runVars>>

DayTurns ==
  /\ day < MaxDay /\ day' = day + 1
  /\ UNCHANGED <<lineVars, entered, raced, queueVars, at, pollVars, unitVars, dbVars, startVars, runVars>>

Respond ==
  /\ asked /\ answer = None
  /\ asked' = FALSE /\ answer' = inCount
  /\ UNCHANGED <<inCount, worldVars, queueVars, at, pollVars, unitVars, dbVars, startVars, runVars>>

(* The line loses an answer, or it comes while nobody listens.             *)
LoseAnswer ==
  /\ asked \/ answer # None
  /\ asked' = FALSE /\ answer' = None
  /\ UNCHANGED <<inCount, worldVars, queueVars, at, pollVars, unitVars, dbVars, startVars, runVars>>

(* A job that may hold a reset command is on the line: the device obeys.   *)
Zero ==
  /\ running \in Hand \cup {midnight} /\ inCount # 0
  /\ inCount' = 0
  /\ UNCHANGED <<asked, answer, worldVars, queueVars, at, pollVars, unitVars, dbVars, startVars, runVars>>

-----------------------------------------------------------------------------
(* A poll.                                                                 *)

(* The timer fires, polling is on: the query is enqueued.                  *)
TickFires(k) ==
  /\ stage = "on" /\ at[k] = "idle"
  /\ Goto(k, "waiting")
  /\ Enqueue(k)
  /\ UNCHANGED <<inCount, answer, worldVars, pollVars, unitVars, dbVars, startVars, runVars>>

(* A poll is over; what it read is gone with it.                           *)
Ends(k) ==
  /\ Goto(k, "idle")
  /\ reading' = [reading EXCEPT ![k] = NoReading] /\ carry' = [carry EXCEPT ![k] = 0]

Saving(k) == at[k] \in {"clear", "save"}

(* What arrives on the line, whichever request it answers, is taken as the *)
(* answer to the query; it is dated now.                                   *)
Answered(k) ==
  /\ running = k /\ answer # None
  /\ Goto(k, "clear")
  /\ reading' = [reading EXCEPT ![k] = [day |-> day, count |-> answer]]
  /\ answer' = None
  /\ raced' = (raced \/ \E m \in Tick : Saving(m))
  /\ EndJob
  /\ UNCHANGED <<inCount, asked, entered, day, carry, unitVars, dbVars, startVars, runVars>>

(* No port, an error, an unreadable answer, or none within a second.       *)
Unanswered(k) ==
  /\ running = k
  /\ Goto(k, "idle")
  /\ EndJob
  /\ UNCHANGED <<lineVars, worldVars, pollVars, unitVars, dbVars, startVars, runVars>>

(* Defect: a count that was reset gives a negative increment.              *)
DeltaSigned(prev, now) == IF prev = None THEN 0 ELSE now - prev

(* Defect: after a start, everything on the counter is new.                *)
DeltaFromZero(prev, now) == IF prev = None \/ now < prev THEN now ELSE now - prev

(* computePollInDelta: a count that went down was reset in between.        *)
Delta(prev, now) == IF prev = None THEN 0 ELSE IF now < prev THEN now ELSE now - prev

(* The communication error is cleared: the increment is computed.          *)
Clear(k) ==
  /\ at[k] = "clear"
  /\ Goto(k, "save")
  /\ carry' = [carry EXCEPT ![k] = Delta(lastIn, reading[k].count)]
  /\ UNCHANGED <<lineVars, worldVars, queueVars, reading, unitVars, dbVars, startVars, runVars>>

(* savePollRaw stores the increment, or swallows the error.                *)
SavePollRaw(k) ==
  \/ /\ raw' = [raw EXCEPT ![reading[k].day] = @ + carry[k]]
     /\ counted' = counted + carry[k] /\ UNCHANGED missing
  \/ /\ missing' = [missing EXCEPT ![reading[k].day] = @ + carry[k]]
     /\ UNCHANGED <<raw, counted>>

(* It returned; in the same turn, the unit's count of the day.  It is      *)
(* stored if it changed.                                                   *)
Save(k) ==
  LET today == reading[k].day
      newDay == todayKey # today IN
  /\ at[k] = "save"
  /\ SavePollRaw(k)
  /\ lastIn' = reading[k].count
  /\ todayKey' = today
  /\ todayInCount' = (IF newDay THEN 0 ELSE todayInCount) + carry[k]
  /\ IF newDay \/ carry[k] # 0
     THEN /\ Goto(k, "store") /\ carry' = [carry EXCEPT ![k] = 0]
          /\ reading' = [reading EXCEPT ![k] = [day |-> today, count |-> todayInCount']]
     ELSE Ends(k)
  /\ UNCHANGED <<lineVars, worldVars, queueVars, doc, startVars, runVars>>

(* upsertData; an error is logged.                                         *)
Store(k) ==
  /\ at[k] = "store"
  /\ doc' \in {doc, reading[k]}
  /\ Ends(k)
  /\ UNCHANGED <<lineVars, worldVars, queueVars, unitVars, raw, counted, missing,
                 startVars, runVars>>

-----------------------------------------------------------------------------
(* Requests: resets and frames sent by hand, the deletion of the data.     *)

(* A reset or a frame is enqueued.                                         *)
Ask(h) ==
  /\ at[h] = "idle"
  /\ Goto(h, "waiting")
  /\ Enqueue(h)
  /\ UNCHANGED <<inCount, answer, worldVars, pollVars, unitVars, dbVars, startVars, runVars>>

(* A reset has sent its commands, up to three, which the device does not   *)
(* answer, or could not.  A frame, which may be a reset too, has what came *)
(* on the line, or its time is over.                                       *)
HandEnds(h) ==
  /\ running = h
  /\ Goto(h, "idle")
  /\ answer' \in {answer, None}
  /\ EndJob
  /\ UNCHANGED <<inCount, asked, worldVars, pollVars, unitVars, dbVars, startVars, runVars>>

(* reset-data deletes the increments, of the unit or of all; what the      *)
(* poller has in memory stays.                                             *)
EraseRaw(h) ==
  /\ at[h] = "idle"
  /\ Goto(h, "erased")
  /\ raw' = [d \in Day |-> 0]
  /\ missing' = [d \in Day |-> missing[d] + raw[d]]
  /\ UNCHANGED <<lineVars, worldVars, queueVars, pollVars, unitVars, doc, counted, startVars, runVars>>

(* Then the unit, if it is there, shows 0 for the day, or the document is  *)
(* deleted; either may fail.                                               *)
EraseDoc(h) ==
  /\ at[h] = "erased"
  /\ Goto(h, "idle")
  /\ doc' \in {doc, None} \cup (IF doc = None THEN {} ELSE {[day |-> day, count |-> 0]})
  /\ UNCHANGED <<lineVars, worldVars, queueVars, pollVars, unitVars, raw, counted, missing,
                 startVars, runVars>>

-----------------------------------------------------------------------------
(* The scheduler.                                                          *)

(* The timer fires at midnight, by its own clock perhaps a moment early.   *)
(* A day that was done is not done again.                                  *)
MidnightFires ==
  /\ at[midnight] = "idle"
  /\ nextRun <= day \/ (nextRun = day + 1 /\ day < MaxDay)
  /\ IF lastRun = nextRun
     THEN /\ nextRun' = day + 1
          /\ UNCHANGED <<asked, queueVars, at>>
     ELSE Goto(midnight, "waiting") /\ Enqueue(midnight) /\ UNCHANGED nextRun
  /\ UNCHANGED <<inCount, answer, worldVars, pollVars, unitVars, dbVars, startVars, lastRun>>

(* runOnceAtMidnight is over, and the next one is scheduled.               *)
Rescheduled == Goto(midnight, "idle") /\ lastRun' = nextRun /\ nextRun' = day + 1

MidnightResets ==
  /\ running = midnight
  /\ EndJob
  /\ \/ Goto(midnight, "zero") /\ UNCHANGED runVars
     \/ at[midnight] = "waiting" /\ Goto(midnight, "retry") /\ UNCHANGED runVars
     \/ at[midnight] = "again" /\ Rescheduled
  /\ UNCHANGED <<lineVars, worldVars, pollVars, unitVars, dbVars, startVars>>

(* The second try, after a second.                                         *)
Retry ==
  /\ at[midnight] = "retry"
  /\ Goto(midnight, "again")
  /\ Enqueue(midnight)
  /\ UNCHANGED <<inCount, answer, worldVars, pollVars, unitVars, dbVars, startVars, runVars>>

(* Data.updateOne: the unit, if it is there, shows 0 for the new day.      *)
ZeroDoc ==
  /\ at[midnight] = "zero"
  /\ Goto(midnight, "zeroed")
  /\ doc' \in {doc} \cup (IF doc = None THEN {} ELSE {[day |-> nextRun, count |-> 0]})
  /\ UNCHANGED <<lineVars, worldVars, queueVars, pollVars, unitVars, raw, counted, missing,
                 startVars, runVars>>

(* resetTodayInCountRuntime                                                *)
ZeroUnit ==
  /\ at[midnight] = "zeroed"
  /\ todayKey' = nextRun /\ todayInCount' = 0
  /\ Rescheduled
  /\ UNCHANGED <<lineVars, worldVars, queueVars, pollVars, lastIn, dbVars, startVars>>

-----------------------------------------------------------------------------
(* The start of the poller; its timer is set at the end, also when polling *)
(* is off or the first document cannot be stored.                          *)

BeginSum ==
  /\ stage = "begin"
  /\ \/ stage' = "sum" /\ first' = [day |-> day, count |-> 0]
     \/ stage' = "on" /\ UNCHANGED first
  /\ UNCHANGED <<lineVars, worldVars, queueVars, at, pollVars, unitVars, dbVars, runVars>>

(* Defect: what the days before have counted is added in.                  *)
SumAll ==
  /\ stage = "sum" /\ stage' = "store"
  /\ first' = [first EXCEPT !.count = counted]
  /\ todayKey' = first.day /\ todayInCount' = counted
  /\ UNCHANGED <<lineVars, worldVars, queueVars, at, pollVars, lastIn, dbVars, runVars>>

(* The increments of the day are summed; 0 if that fails.                  *)
Sum ==
  /\ stage = "sum" /\ stage' = "store"
  /\ todayInCount' \in {0, raw[first.day]} /\ todayKey' = first.day
  /\ first' = [first EXCEPT !.count = todayInCount']
  /\ UNCHANGED <<lineVars, worldVars, queueVars, at, pollVars, lastIn, dbVars, runVars>>

StoreFirst ==
  /\ stage = "store" /\ stage' = "on" /\ first' = NoReading
  /\ doc' \in {doc, first}
  /\ UNCHANGED <<lineVars, worldVars, queueVars, at, pollVars, unitVars, raw, counted, missing,
                 runVars>>

(* External: the process stops and starts again; the line goes on.         *)
Restart ==
  /\ jobs' = << >> /\ running' = Nobody /\ drainDue' = FALSE
  /\ at' = [o \in Owner |-> "idle"]
  /\ reading' = [k \in Tick |-> NoReading] /\ carry' = [k \in Tick |-> 0]
  /\ lastIn' = None /\ todayKey' = None /\ todayInCount' = 0
  /\ stage' = "begin" /\ first' = NoReading
  /\ nextRun' = day + 1 /\ lastRun' = None
  /\ UNCHANGED <<lineVars, worldVars, dbVars>>

-----------------------------------------------------------------------------
Poll(k) == \/ Answered(k) \/ Unanswered(k)
           \/ Clear(k) \/ Save(k) \/ Store(k)

Schedule == MidnightResets \/ Retry \/ ZeroDoc \/ ZeroUnit

Start == BeginSum \/ Sum \/ StoreFirst

Next ==
  \/ Enter \/ DayTurns \/ Respond \/ LoseAnswer \/ Zero
  \/ DrainAgain
  \/ \E k \in Tick : TickFires(k) \/ Poll(k)
  \/ \E h \in Hand : Ask(h) \/ HandEnds(h) \/ EraseRaw(h) \/ EraseDoc(h)
  \/ MidnightFires \/ Schedule
  \/ Start
  \/ Restart

Spec == Init /\ [][Next]_vars

-----------------------------------------------------------------------------
Waits(o) == at[o] \in {"waiting", "again"}
InQueue(o) == \E i \in 1..Len(jobs) : jobs[i] = o

(* Every owner that waits has its job once in the queue or on the line,    *)
(* and nobody else has one: no answer goes to a poll that is not waiting,  *)
(* and no promise is forgotten, whoever adds, ends and drains.             *)
JobsMatch ==
  /\ \A i, j \in 1..Len(jobs) : jobs[i] = jobs[j] => i = j
  /\ \A o \in Owner : ~(InQueue(o) /\ running = o)
  /\ \A o \in Owner : Waits(o) <=> InQueue(o) \/ running = o

(* A queue with jobs is being processed or about to be.                    *)
NoLostDrain == jobs # << >> /\ running = Nobody => drainDue

(* The queue serves every job, once: whoever waits has its job on the way  *)
(* to the line, nobody else has one, and the way is not blocked.           *)
JobsServed == JobsMatch /\ NoLostDrain

(* The increments stored never add up to more people than have entered:    *)
(* nobody is counted twice, although answers come late, counts are reset   *)
(* at any moment and the poller loses its reference at a restart.  It      *)
(* holds until a poll is answered while another has yet to store its       *)
(* increment, which no line of the code prevents.                          *)
CountedOnce == ~raced => counted <= entered

(* The unit card never shows more people than were counted for its day:    *)
(* neither a late poll, nor midnight, nor a restart carries people of one  *)
(* day over to another.  They are those stored for the day and those that  *)
(* are not in the database, because savePollRaw failed or reset-data has   *)
(* deleted them: the poller goes on from its own count, and shows these    *)
(* again with the next person.                                             *)
ShownWasStored == doc # None => doc.count <= raw[doc.day] + missing[doc.day]
=============================================================================
