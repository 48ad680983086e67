------------------------- MODULE PeopleCounterProofs -------------------------
(***************************************************************************)
(* Proofs about PeopleCounter for every number of polls and requests under *)
(* way and whatever people, clock, device and line do: type correctness,   *)
(* the queue of the line, the count shown for a day, and that nobody is    *)
(* counted twice while polls are saved one by one.                         *)
(***************************************************************************)
EXTENDS PeopleCounter, TLAPS

USE CounterAssumption

(* The disjuncts of the next-state relation, for the case analyses below.  *)
LEMMA Steps ==
  ASSUME Next
  PROVE  \/ Enter \/ DayTurns \/ Respond \/ LoseAnswer \/ Zero
         \/ DrainAgain
         \/ \E k \in Tick : TickFires(k) \/ Answered(k) \/ Unanswered(k)
                            \/ Clear(k) \/ Save(k) \/ Store(k)
         \/ \E h \in Hand : Ask(h) \/ HandEnds(h) \/ EraseRaw(h) \/ EraseDoc(h)
         \/ MidnightFires \/ MidnightResets \/ Retry \/ ZeroDoc \/ ZeroUnit
         \/ BeginSum \/ Sum \/ StoreFirst
         \/ Restart
  BY Zenon DEF Next, Poll, Schedule, Start

-----------------------------------------------------------------------------
(* Types.                                                                  *)

LEMMA OwnerType ==
  /\ \A k \in Tick : k \in Owner /\ k # midnight
  /\ \A h \in Hand : h \in Owner /\ h # midnight
  /\ midnight \in Owner
  BY DEF Owner

LEMMA CardType ==
  /\ NoReading \in Card
  /\ \A d \in Day, n \in Nat : [day |-> d, count |-> n] \in Card
  /\ \A c \in Card : c.day \in Day /\ c.count \in Nat
  /\ \A c \in Card, n \in Nat : [c EXCEPT !.count = n] \in Card
  /\ \A c \in Card, n \in Nat : [c EXCEPT !.count = n].day = c.day
                                /\ [c EXCEPT !.count = n].count = n
  BY DEF Card, NoReading, Day

LEMMA FreshType ==
  /\ [o \in Owner |-> "idle"] \in [Owner -> Point]
  /\ [k \in Tick |-> NoReading] \in [Tick -> Card]
  /\ [k \in Tick |-> 0] \in [Tick -> Nat]
  BY CardType DEF Point

LEMMA DeltaType ==
  ASSUME NEW p \in Nat \cup {None}, NEW n \in Nat
  PROVE  Delta(p, n) \in Nat
  BY DEF Delta

(* drain keeps the types of the queue.                                     *)
LEMMA DrainType ==
  ASSUME TypeOK, NEW queue \in Seq(Owner), Drain(queue)
  PROVE  jobs' \in Seq(Owner) /\ running' \in Owner \cup {Nobody} /\ asked' \in BOOLEAN
<1>1. CASE running # Nobody \/ queue = << >>
  BY <1>1 DEF Drain, TypeOK
<1>2. CASE ~(running # Nobody \/ queue = << >>)
  <2>1. Tail(queue) \in Seq(Owner) /\ Head(queue) \in Owner
    BY <1>2
  <2> QED BY <1>2, <2>1 DEF Drain, Starts, TypeOK
<1> QED BY <1>1, <1>2

LEMMA EnqueueType ==
  ASSUME TypeOK, NEW o \in Owner, Enqueue(o)
  PROVE  /\ jobs' \in Seq(Owner) /\ running' \in Owner \cup {Nobody} /\ asked' \in BOOLEAN
         /\ drainDue' \in BOOLEAN
<1>1. Append(jobs, o) \in Seq(Owner)
  BY DEF TypeOK
<1> QED BY <1>1, DrainType DEF Enqueue, TypeOK

LEMMA EndsType ==
  ASSUME TypeOK, NEW k \in Tick, Ends(k)
  PROVE  at' \in [Owner -> Point] /\ reading' \in [Tick -> Card] /\ carry' \in [Tick -> Nat]
  BY CardType, OwnerType DEF Ends, Goto, Point, TypeOK

(* An increment is added to the count of a day.                            *)
LEMMA DayAdded ==
  ASSUME NEW f \in [Day -> Nat], NEW e \in Day, NEW c \in Nat
  PROVE  /\ [f EXCEPT ![e] = @ + c] \in [Day -> Nat]
         /\ [f EXCEPT ![e] = @ + c][e] = f[e] + c
         /\ \A d \in Day \ {e} : [f EXCEPT ![e] = @ + c][d] = f[d]
  OBVIOUS

(* TypeOK by the groups of variables that the steps leave alone.           *)
LineType == inCount \in Nat /\ asked \in BOOLEAN /\ answer \in Nat \cup {None}
WorldType == entered \in 0..MaxEntered /\ day \in 0..MaxDay /\ raced \in BOOLEAN
QueueType == jobs \in Seq(Owner) /\ running \in Owner \cup {Nobody} /\ drainDue \in BOOLEAN
PlaceType == at \in [Owner -> Point]
PollType == reading \in [Tick -> Card] /\ carry \in [Tick -> Nat]
UnitType == lastIn \in Nat \cup {None} /\ todayKey \in Day \cup {None} /\ todayInCount \in Nat
DbType ==
  /\ raw \in [Day -> Nat] /\ doc \in Card \cup {None}
  /\ counted \in Nat /\ missing \in [Day -> Nat]
StartType == stage \in {"begin", "sum", "store", "on"} /\ first \in Card
RunType == nextRun \in Day /\ lastRun \in Day \cup {None}

LEMMA TypeParts ==
  TypeOK <=> /\ LineType /\ WorldType /\ QueueType /\ PlaceType /\ PollType
             /\ UnitType /\ DbType /\ StartType /\ RunType
  BY Zenon DEF TypeOK, LineType, WorldType, QueueType, PlaceType, PollType, UnitType, DbType,
               StartType, RunType

LEMMA TypePartsNext ==
  ASSUME LineType', WorldType', QueueType', PlaceType', PollType', UnitType', DbType',
         StartType', RunType'
  PROVE  TypeOK'
  BY Zenon DEF TypeOK, LineType, WorldType, QueueType, PlaceType, PollType, UnitType, DbType,
               StartType, RunType

LEMMA PartsKept ==
  ASSUME TypeOK
  PROVE  /\ UNCHANGED lineVars => LineType'
         /\ UNCHANGED worldVars => WorldType'
         /\ UNCHANGED queueVars => QueueType'
         /\ UNCHANGED at => PlaceType'
         /\ UNCHANGED pollVars => PollType'
         /\ UNCHANGED unitVars => UnitType'
         /\ UNCHANGED dbVars => DbType'
         /\ UNCHANGED startVars => StartType'
         /\ UNCHANGED runVars => RunType'
<1>0. /\ LineType /\ WorldType /\ QueueType /\ PlaceType /\ PollType
      /\ UnitType /\ DbType /\ StartType /\ RunType
  BY TypeParts
<1>1. UNCHANGED lineVars => LineType'
  BY <1>0 DEF LineType, lineVars
<1>2. UNCHANGED worldVars => WorldType'
  BY <1>0 DEF WorldType, worldVars
<1>3. UNCHANGED queueVars => QueueType'
  BY <1>0 DEF QueueType, queueVars
<1>4. UNCHANGED at => PlaceType'
  BY <1>0 DEF PlaceType
<1>5. UNCHANGED pollVars => PollType'
  BY <1>0 DEF PollType, pollVars
<1>6. UNCHANGED unitVars => UnitType'
  BY <1>0 DEF UnitType, unitVars
<1>7. UNCHANGED dbVars => DbType'
  BY <1>0 DEF DbType, dbVars
<1>8. UNCHANGED startVars => StartType'
  BY <1>0 DEF StartType, startVars
<1>9. UNCHANGED runVars => RunType'
  BY <1>0 DEF RunType, runVars
<1> QED BY <1>1, <1>2, <1>3, <1>4, <1>5, <1>6, <1>7, <1>8, <1>9

(* Type correctness: a step keeps the type of every variable.              *)
LEMMA TypeStep == TypeOK /\ [Next]_vars => TypeOK'
<1> SUFFICES ASSUME TypeOK, [Next]_vars PROVE TypeOK'
  OBVIOUS
<1>t. /\ LineType /\ WorldType /\ QueueType /\ PlaceType /\ PollType
      /\ UnitType /\ DbType /\ StartType /\ RunType
  BY TypeParts
<1>d. day \in Day /\ day + 1 \in Day
  BY <1>t DEF WorldType, Day
<1>g. ASSUME NEW o \in Owner, NEW p \in Point, Goto(o, p) PROVE PlaceType'
  BY <1>t, <1>g DEF PlaceType, Goto
<1>e. ASSUME NEW o \in Owner, Enqueue(o), UNCHANGED <<inCount, answer>>
      PROVE  LineType' /\ QueueType'
  BY <1>t, <1>e, EnqueueType DEF LineType, QueueType
<1>j. ASSUME EndJob PROVE QueueType'
  BY <1>t, <1>j DEF EndJob, QueueType
<1>1. ASSUME Enter PROVE TypeOK'
  <2>1. LineType'
    BY <1>t, <1>1 DEF Enter, LineType
  <2>2. WorldType'
    BY <1>t, <1>1 DEF Enter, WorldType
  <2> QED BY <1>1, <2>1, <2>2, PartsKept, TypePartsNext DEF Enter
<1>2. ASSUME DayTurns PROVE TypeOK'
  <2>1. WorldType'
    BY <1>t, <1>2 DEF DayTurns, WorldType
  <2> QED BY <1>2, <2>1, PartsKept, TypePartsNext DEF DayTurns
<1>3. ASSUME Respond PROVE TypeOK'
  <2>1. LineType'
    BY <1>t, <1>3 DEF Respond, LineType
  <2> QED BY <1>3, <2>1, PartsKept, TypePartsNext DEF Respond
<1>4. ASSUME LoseAnswer PROVE TypeOK'
  <2>1. LineType'
    BY <1>t, <1>4 DEF LoseAnswer, LineType
  <2> QED BY <1>4, <2>1, PartsKept, TypePartsNext DEF LoseAnswer
<1>5. ASSUME Zero PROVE TypeOK'
  <2>1. LineType'
    BY <1>t, <1>5 DEF Zero, LineType
  <2> QED BY <1>5, <2>1, PartsKept, TypePartsNext DEF Zero
<1>6. ASSUME DrainAgain PROVE TypeOK'
  <2>1. jobs' \in Seq(Owner) /\ running' \in Owner \cup {Nobody} /\ asked' \in BOOLEAN
    BY <1>t, <1>6, DrainType DEF DrainAgain, QueueType
  <2>2. LineType' /\ QueueType'
    BY <1>t, <1>6, <2>1 DEF DrainAgain, LineType, QueueType
  <2> QED BY <1>6, <2>2, PartsKept, TypePartsNext DEF DrainAgain
<1>7. ASSUME NEW k \in Tick, TickFires(k) PROVE TypeOK'
  <2>1. LineType' /\ QueueType' /\ PlaceType'
    BY <1>7, <1>e, <1>g, OwnerType DEF TickFires, Point
  <2> QED BY <1>7, <2>1, PartsKept, TypePartsNext DEF TickFires
<1>8. ASSUME NEW k \in Tick, Answered(k) PROVE TypeOK'
  <2>1. answer \in Nat
    BY <1>t, <1>8 DEF Answered, LineType
  <2>2. [day |-> day, count |-> answer] \in Card
    BY <1>d, <2>1, CardType
  <2>3. PollType'
    BY <1>t, <1>8, <2>2 DEF Answered, PollType
  <2>4. raced' \in BOOLEAN
    BY <1>t, <1>8, Zenon DEF Answered, WorldType
  <2>5. WorldType'
    BY <1>t, <1>8, <2>4 DEF Answered, WorldType
  <2>6. LineType'
    BY <1>t, <1>8 DEF Answered, LineType
  <2>7. QueueType' /\ PlaceType'
    BY <1>8, <1>g, <1>j, OwnerType DEF Answered, Point
  <2> QED BY <1>8, <2>3, <2>5, <2>6, <2>7, PartsKept, TypePartsNext DEF Answered
<1>9. ASSUME NEW k \in Tick, Unanswered(k) PROVE TypeOK'
  <2>1. QueueType' /\ PlaceType'
    BY <1>9, <1>g, <1>j, OwnerType DEF Unanswered, Point
  <2> QED BY <1>9, <2>1, PartsKept, TypePartsNext DEF Unanswered
<1>10. ASSUME NEW k \in Tick, Clear(k) PROVE TypeOK'
  <2>1. reading[k].count \in Nat /\ lastIn \in Nat \cup {None}
    BY <1>t, CardType DEF PollType, UnitType
  <2>2. Delta(lastIn, reading[k].count) \in Nat
    BY <2>1, DeltaType
  <2>3. PollType'
    BY <1>t, <1>10, <2>2 DEF Clear, PollType
  <2>4. PlaceType'
    BY <1>10, <1>g, OwnerType DEF Clear, Point
  <2> QED BY <1>10, <2>3, <2>4, PartsKept, TypePartsNext DEF Clear
<1>11. ASSUME NEW k \in Tick, Save(k) PROVE TypeOK'
  <2>a. /\ reading[k].day \in Day /\ reading[k].count \in Nat /\ carry[k] \in Nat
        /\ counted + carry[k] \in Nat
    BY <1>t, CardType DEF PollType, DbType
  <2>1. DbType'
    <3>1. raw \in [Day -> Nat] /\ missing \in [Day -> Nat]
      BY <1>t DEF DbType
    <3>2. PICK r \in [Day -> Nat] : r = [raw EXCEPT ![reading[k].day] = @ + carry[k]]
      BY <2>a, <3>1, DayAdded
    <3>3. PICK m \in [Day -> Nat] : m = [missing EXCEPT ![reading[k].day] = @ + carry[k]]
      BY <2>a, <3>1, DayAdded
    <3>4. \/ raw' = r /\ counted' = counted + carry[k] /\ missing' = missing
          \/ missing' = m /\ raw' = raw /\ counted' = counted
      BY <1>11, <3>2, <3>3, Zenon DEF Save, SavePollRaw
    <3>5. doc' = doc
      BY <1>11 DEF Save
    <3> QED BY <1>t, <2>a, <3>4, <3>5 DEF DbType
  <2>2. todayInCount' \in Nat
    <3>1. todayInCount + carry[k] \in Nat /\ 0 + carry[k] \in Nat
      BY <1>t, <2>a DEF UnitType
    <3>2. todayInCount' \in {todayInCount + carry[k], 0 + carry[k]}
      BY <1>11 DEF Save
    <3> QED BY <3>1, <3>2
  <2>3. UnitType'
    BY <1>11, <2>a, <2>2 DEF Save, UnitType
  <2>4. PlaceType' /\ PollType'
    <3>1. CASE Ends(k)
      BY <3>1, EndsType DEF PlaceType, PollType
    <3>2. CASE /\ Goto(k, "store") /\ carry' = [carry EXCEPT ![k] = 0]
               /\ reading' = [reading EXCEPT ![k] = [day |-> reading[k].day, count |-> todayInCount']]
      <4>1. [day |-> reading[k].day, count |-> todayInCount'] \in Card
        BY <2>a, <2>2, CardType
      <4>2. PollType'
        BY <1>t, <3>2, <4>1 DEF PollType
      <4> QED BY <1>g, <3>2, <4>2, OwnerType DEF Point
    <3> QED BY <1>11, <3>1, <3>2 DEF Save
  <2> QED BY <1>11, <2>1, <2>3, <2>4, PartsKept, TypePartsNext DEF Save
<1>12. ASSUME NEW k \in Tick, Store(k) PROVE TypeOK'
  <2>1. PlaceType' /\ PollType'
    BY <1>12, EndsType DEF Store, PlaceType, PollType
  <2>2. reading[k] \in Card
    BY <1>t DEF PollType
  <2>3. DbType'
    BY <1>t, <1>12, <2>2 DEF Store, DbType
  <2> QED BY <1>12, <2>1, <2>3, PartsKept, TypePartsNext DEF Store
<1>13. ASSUME NEW h \in Hand, Ask(h) PROVE TypeOK'
  <2>1. LineType' /\ QueueType' /\ PlaceType'
    BY <1>13, <1>e, <1>g, OwnerType DEF Ask, Point
  <2> QED BY <1>13, <2>1, PartsKept, TypePartsNext DEF Ask
<1>14. ASSUME NEW h \in Hand, HandEnds(h) PROVE TypeOK'
  <2>1. QueueType' /\ PlaceType'
    BY <1>14, <1>g, <1>j, OwnerType DEF HandEnds, Point
  <2>2. LineType'
    BY <1>t, <1>14 DEF HandEnds, LineType
  <2> QED BY <1>14, <2>1, <2>2, PartsKept, TypePartsNext DEF HandEnds
<1>25. ASSUME NEW h \in Hand, EraseRaw(h) PROVE TypeOK'
  <2>1. raw \in [Day -> Nat] /\ missing \in [Day -> Nat]
    BY <1>t DEF DbType
  <2>2. \A d \in Day : missing[d] + raw[d] \in Nat
    BY <2>1
  <2>3. raw' = [d \in Day |-> 0] /\ missing' = [d \in Day |-> missing[d] + raw[d]]
    BY <1>25, Zenon DEF EraseRaw
  <2>4. raw' \in [Day -> Nat] /\ missing' \in [Day -> Nat]
    BY <2>2, <2>3
  <2>5. DbType'
    BY <1>t, <1>25, <2>4 DEF EraseRaw, DbType
  <2>6. PlaceType'
    BY <1>25, <1>g, OwnerType DEF EraseRaw, Point
  <2> QED BY <1>25, <2>5, <2>6, PartsKept, TypePartsNext DEF EraseRaw
<1>26. ASSUME NEW h \in Hand, EraseDoc(h) PROVE TypeOK'
  <2>1. [day |-> day, count |-> 0] \in Card
    BY <1>d, CardType
  <2>2. DbType'
    BY <1>t, <1>26, <2>1 DEF EraseDoc, DbType
  <2>3. PlaceType'
    BY <1>26, <1>g, OwnerType DEF EraseDoc, Point
  <2> QED BY <1>26, <2>2, <2>3, PartsKept, TypePartsNext DEF EraseDoc
<1>15. ASSUME MidnightFires PROVE TypeOK'
  <2>1. LineType' /\ QueueType' /\ PlaceType'
    <3>1. CASE UNCHANGED <<asked, queueVars, at>>
      <4>1. UNCHANGED lineVars
        BY <1>15, <3>1 DEF MidnightFires, lineVars
      <4> QED BY <3>1, <4>1, PartsKept
    <3>2. CASE Goto(midnight, "waiting") /\ Enqueue(midnight)
      BY <1>15, <1>e, <1>g, <3>2, OwnerType DEF MidnightFires, Point
    <3> QED BY <1>15, <3>1, <3>2 DEF MidnightFires
  <2>2. RunType'
    BY <1>t, <1>d, <1>15 DEF MidnightFires, RunType
  <2> QED BY <1>15, <2>1, <2>2, PartsKept, TypePartsNext DEF MidnightFires
<1>r. ASSUME Rescheduled PROVE PlaceType' /\ RunType'
  <2>1. PlaceType'
    BY <1>r, <1>g, OwnerType DEF Rescheduled, Point
  <2>2. RunType'
    BY <1>t, <1>d, <1>r DEF Rescheduled, RunType
  <2> QED BY <2>1, <2>2
<1>16. ASSUME MidnightResets PROVE TypeOK'
  <2>1. PlaceType' /\ RunType'
    <3>1. CASE Rescheduled
      BY <1>r, <3>1
    <3>2. CASE Goto(midnight, "zero") /\ UNCHANGED runVars
      BY <1>g, <3>2, OwnerType, PartsKept DEF Point
    <3>3. CASE Goto(midnight, "retry") /\ UNCHANGED runVars
      BY <1>g, <3>3, OwnerType, PartsKept DEF Point
    <3> QED BY <1>16, <3>1, <3>2, <3>3 DEF MidnightResets
  <2>2. QueueType'
    BY <1>16, <1>j DEF MidnightResets
  <2> QED BY <1>16, <2>1, <2>2, PartsKept, TypePartsNext DEF MidnightResets
<1>17. ASSUME Retry PROVE TypeOK'
  <2>1. LineType' /\ QueueType' /\ PlaceType'
    BY <1>17, <1>e, <1>g, OwnerType DEF Retry, Point
  <2> QED BY <1>17, <2>1, PartsKept, TypePartsNext DEF Retry
<1>18. ASSUME ZeroDoc PROVE TypeOK'
  <2>1. [day |-> nextRun, count |-> 0] \in Card
    BY <1>t, CardType DEF RunType
  <2>2. DbType'
    BY <1>t, <1>18, <2>1 DEF ZeroDoc, DbType
  <2>3. PlaceType'
    BY <1>18, <1>g, OwnerType DEF ZeroDoc, Point
  <2> QED BY <1>18, <2>2, <2>3, PartsKept, TypePartsNext DEF ZeroDoc
<1>19. ASSUME ZeroUnit PROVE TypeOK'
  <2>1. PlaceType' /\ RunType'
    BY <1>r, <1>19 DEF ZeroUnit
  <2>2. UnitType'
    BY <1>t, <1>19 DEF ZeroUnit, UnitType, RunType
  <2> QED BY <1>19, <2>1, <2>2, PartsKept, TypePartsNext DEF ZeroUnit
<1>20. ASSUME BeginSum PROVE TypeOK'
  <2>1. [day |-> day, count |-> 0] \in Card
    BY <1>d, CardType
  <2>2. StartType'
    BY <1>t, <1>20, <2>1 DEF BeginSum, StartType
  <2> QED BY <1>20, <2>2, PartsKept, TypePartsNext DEF BeginSum
<1>21. ASSUME Sum PROVE TypeOK'
  <2>1. first.day \in Day
    BY <1>t, CardType DEF StartType
  <2>2. raw[first.day] \in Nat
    BY <1>t, <2>1 DEF DbType
  <2>3. todayInCount' \in Nat /\ todayKey' \in Day
    BY <1>21, <2>1, <2>2 DEF Sum
  <2>4. UnitType'
    BY <1>t, <1>21, <2>3 DEF Sum, UnitType
  <2>5. [first EXCEPT !.count = todayInCount'] \in Card
    BY <1>t, <2>3, CardType DEF StartType
  <2>6. StartType'
    BY <1>21, <2>5 DEF Sum, StartType
  <2> QED BY <1>21, <2>4, <2>6, PartsKept, TypePartsNext DEF Sum
<1>22. ASSUME StoreFirst PROVE TypeOK'
  <2>1. DbType'
    BY <1>t, <1>22 DEF StoreFirst, DbType, StartType
  <2>2. StartType'
    BY <1>22, CardType DEF StoreFirst, StartType
  <2> QED BY <1>22, <2>1, <2>2, PartsKept, TypePartsNext DEF StoreFirst
<1>23. ASSUME Restart PROVE TypeOK'
  <2>1. PlaceType' /\ PollType'
    BY <1>23, FreshType DEF Restart, PlaceType, PollType
  <2>a. jobs' = << >> /\ running' = Nobody /\ drainDue' = FALSE
    BY <1>23 DEF Restart
  <2>b. << >> \in Seq(Owner)
    OBVIOUS
  <2>2. QueueType'
    BY <2>a, <2>b DEF QueueType
  <2>3. UnitType'
    BY <1>23 DEF Restart, UnitType
  <2>4. StartType'
    BY <1>23, CardType DEF Restart, StartType
  <2>5. RunType'
    BY <1>d, <1>23 DEF Restart, RunType
  <2> QED BY <1>23, <2>1, <2>2, <2>3, <2>4, <2>5, PartsKept, TypePartsNext DEF Restart
<1>24. ASSUME UNCHANGED vars PROVE TypeOK'
  BY <1>24, PartsKept, TypePartsNext DEF vars
<1> QED
  BY <1>1, <1>2, <1>3, <1>4, <1>5, <1>6, <1>7, <1>8, <1>9, <1>10, <1>11, <1>12, <1>13, <1>14,
     <1>15, <1>16, <1>17, <1>18, <1>19, <1>20, <1>21, <1>22, <1>23, <1>24,
     <1>25, <1>26, Steps

(* Every variable keeps its type, whatever people and the line do.         *)
THEOREM TypeCorrect == Spec => []TypeOK
<1>1. Init => TypeOK
  <2> SUFFICES ASSUME Init PROVE TypeOK
    OBVIOUS
  <2>1. at \in [Owner -> Point] /\ reading \in [Tick -> Card] /\ carry \in [Tick -> Nat]
    BY FreshType DEF Init, Fresh
  <2>2. nextRun \in Day /\ lastRun \in Day \cup {None}
    BY DEF Init, Fresh, Day
  <2>3. jobs \in Seq(Owner) /\ raw \in [Day -> Nat] /\ missing \in [Day -> Nat]
    BY DEF Init, Fresh
  <2>4. inCount \in Nat /\ entered \in 0..MaxEntered /\ day \in 0..MaxDay
    BY DEF Init
  <2> QED BY <2>1, <2>2, <2>3, <2>4, CardType DEF Init, Fresh, TypeOK
<1> QED BY <1>1, TypeStep, PTL DEF Spec

-----------------------------------------------------------------------------
(* The queue.                                                              *)

Holds(queue, o) == \E i \in 1..Len(queue) : queue[i] = o
Distinct(queue) == \A i, j \in 1..Len(queue) : queue[i] = queue[j] => i = j

LEMMA AppendHolds ==
  ASSUME NEW queue \in Seq(Owner), NEW o \in Owner, Distinct(queue), ~Holds(queue, o)
  PROVE  /\ Distinct(Append(queue, o))
         /\ \A x \in Owner : Holds(Append(queue, o), x) <=> Holds(queue, x) \/ x = o
<1>1. /\ Len(Append(queue, o)) = Len(queue) + 1 /\ Len(queue) \in Nat
      /\ \A i \in 1..Len(queue) : Append(queue, o)[i] = queue[i]
      /\ Append(queue, o)[Len(queue) + 1] = o
  OBVIOUS
<1> QED BY <1>1 DEF Holds, Distinct

LEMMA TailHolds ==
  ASSUME NEW queue \in Seq(Owner), Distinct(queue), queue # << >>
  PROVE  /\ Distinct(Tail(queue)) /\ ~Holds(Tail(queue), Head(queue))
         /\ \A x \in Owner : Holds(queue, x) <=> Holds(Tail(queue), x) \/ x = Head(queue)
<1>1. /\ Len(Tail(queue)) = Len(queue) - 1 /\ Len(queue) \in Nat /\ Len(queue) > 0
      /\ \A i \in 1..Len(queue) - 1 : Tail(queue)[i] = queue[i + 1]
      /\ Head(queue) = queue[1]
  OBVIOUS
<1>2. Distinct(Tail(queue)) /\ ~Holds(Tail(queue), Head(queue))
  BY <1>1 DEF Holds, Distinct
<1>3. ASSUME NEW x \in Owner, Holds(queue, x), x # Head(queue) PROVE Holds(Tail(queue), x)
  <2>1. PICK i \in 1..Len(queue) : queue[i] = x
    BY <1>3 DEF Holds
  <2>2. i - 1 \in 1..Len(queue) - 1 /\ Tail(queue)[i - 1] = x
    BY <1>1, <1>3, <2>1
  <2> QED BY <1>1, <2>2 DEF Holds
<1>4. ASSUME NEW x \in Owner, Holds(Tail(queue), x) \/ x = Head(queue) PROVE Holds(queue, x)
  BY <1>1, <1>4 DEF Holds
<1> QED BY <1>2, <1>3, <1>4

(* drain moves a job from the queue to the line and drops none.            *)
LEMMA DrainKeeps ==
  ASSUME NEW queue \in Seq(Owner), Drain(queue), Distinct(queue),
         \A x \in Owner : ~(Holds(queue, x) /\ running = x)
  PROVE  /\ Distinct(jobs')
         /\ \A x \in Owner : ~(Holds(jobs', x) /\ running' = x)
         /\ \A x \in Owner : Holds(jobs', x) \/ running' = x <=> Holds(queue, x) \/ running = x
<1>1. CASE running # Nobody \/ queue = << >>
  BY <1>1 DEF Drain
<1>2. CASE running = Nobody /\ queue # << >>
  <2>1. jobs' = Tail(queue) /\ running' = Head(queue)
    BY <1>2 DEF Drain
  <2> QED BY <1>2, <2>1, TailHolds
<1> QED BY <1>1, <1>2

LEMMA MatchMeans ==
  JobsMatch <=> /\ Distinct(jobs)
                /\ \A x \in Owner : ~(Holds(jobs, x) /\ running = x)
                /\ \A x \in Owner : Waits(x) <=> Holds(jobs, x) \/ running = x
  BY DEF JobsMatch, InQueue, Holds, Distinct

LEMMA MatchMeansNext ==
  JobsMatch' <=> /\ Distinct(jobs')
                 /\ \A x \in Owner : ~(Holds(jobs', x) /\ running' = x)
                 /\ \A x \in Owner : Waits(x)' <=> Holds(jobs', x) \/ running' = x
  BY DEF JobsMatch, InQueue, Holds, Distinct

(* A job is added for an owner that did not wait and waits now.            *)
LEMMA EnqueueMatch ==
  ASSUME TypeOK, JobsMatch, NEW o \in Owner, ~Waits(o), Enqueue(o),
         NEW p \in {"waiting", "again"}, Goto(o, p)
  PROVE  JobsMatch'
<1>1. Append(jobs, o) \in Seq(Owner) /\ jobs \in Seq(Owner)
  BY DEF TypeOK
<1>2. /\ Distinct(jobs) /\ ~Holds(jobs, o) /\ running # o
      /\ \A x \in Owner : ~(Holds(jobs, x) /\ running = x)
      /\ \A x \in Owner : Waits(x) <=> Holds(jobs, x) \/ running = x
  BY MatchMeans
<1>3. /\ Distinct(Append(jobs, o))
      /\ \A x \in Owner : Holds(Append(jobs, o), x) <=> Holds(jobs, x) \/ x = o
  BY <1>1, <1>2, AppendHolds
<1>4. /\ Distinct(jobs')
      /\ \A x \in Owner : ~(Holds(jobs', x) /\ running' = x)
      /\ \A x \in Owner : Holds(jobs', x) \/ running' = x
                            <=> Holds(Append(jobs, o), x) \/ running = x
  BY <1>1, <1>2, <1>3, DrainKeeps DEF Enqueue
<1>5. \A x \in Owner : Waits(x)' <=> Waits(x) \/ x = o
  BY DEF Waits, Goto, TypeOK
<1> QED BY <1>2, <1>3, <1>4, <1>5, MatchMeansNext

(* The job on the line ends, and its owner does not wait any more.         *)
LEMMA EndMatch ==
  ASSUME TypeOK, JobsMatch, NEW o \in Owner, running = o, EndJob,
         NEW p \in Point \ {"waiting", "again"}, Goto(o, p)
  PROVE  JobsMatch'
<1>1. jobs' = jobs /\ running' = Nobody
  BY DEF EndJob
<1>2. \A x \in Owner : Waits(x)' <=> Waits(x) /\ x # o
  BY DEF Waits, Goto, TypeOK
<1> QED BY <1>1, <1>2, MatchMeans, MatchMeansNext

(* An owner moves from a point where it does not wait to another.          *)
LEMMA MoveMatch ==
  ASSUME TypeOK, JobsMatch, UNCHANGED <<jobs, running>>, NEW o \in Owner, ~Waits(o),
         NEW p \in Point \ {"waiting", "again"}, Goto(o, p)
  PROVE  JobsMatch'
<1>1. \A x \in Owner : Waits(x)' <=> Waits(x)
  BY DEF Waits, Goto, TypeOK
<1> QED BY <1>1, MatchMeans, MatchMeansNext

LEMMA StayMatch ==
  ASSUME JobsMatch, UNCHANGED <<jobs, running, at>>
  PROVE  JobsMatch'
  BY DEF JobsMatch, InQueue, Waits

LEMMA MatchStep == TypeOK /\ JobsMatch /\ [Next]_vars => JobsMatch'
<1> SUFFICES ASSUME TypeOK, JobsMatch, [Next]_vars PROVE JobsMatch'
  OBVIOUS
<1> USE OwnerType
<1>1. CASE Enter \/ DayTurns \/ Respond \/ LoseAnswer \/ Zero
  BY <1>1, StayMatch DEF Enter, DayTurns, Respond, LoseAnswer, Zero, queueVars
<1>2. CASE BeginSum \/ Sum \/ StoreFirst \/ UNCHANGED vars
  BY <1>2, StayMatch DEF BeginSum, Sum, StoreFirst, vars, queueVars
<1>3. CASE DrainAgain
  <2>1. Drain(jobs) /\ at' = at /\ jobs \in Seq(Owner)
    BY <1>3 DEF DrainAgain, TypeOK
  <2>2. \A x \in Owner : Waits(x)' <=> Waits(x)
    BY <2>1 DEF Waits
  <2> QED BY <2>1, <2>2, DrainKeeps, MatchMeans, MatchMeansNext
<1>4. ASSUME NEW k \in Tick, TickFires(k) PROVE JobsMatch'
  BY <1>4, EnqueueMatch DEF TickFires, Waits
<1>5. ASSUME NEW k \in Tick, Answered(k) PROVE JobsMatch'
  BY <1>5, EndMatch DEF Answered, Point
<1>6. ASSUME NEW k \in Tick, Unanswered(k) PROVE JobsMatch'
  BY <1>6, EndMatch DEF Unanswered, Point
<1>7. ASSUME NEW k \in Tick, Clear(k) PROVE JobsMatch'
  BY <1>7, MoveMatch DEF Clear, Point, Waits, queueVars
<1>8. ASSUME NEW k \in Tick, Save(k) PROVE JobsMatch'
  <2>1. ~Waits(k) /\ UNCHANGED <<jobs, running>> /\ (Goto(k, "store") \/ Goto(k, "idle"))
    BY <1>8 DEF Save, Ends, Waits, queueVars
  <2> QED BY <2>1, MoveMatch DEF Point
<1>9. ASSUME NEW k \in Tick, Store(k) PROVE JobsMatch'
  BY <1>9, MoveMatch DEF Store, Ends, Point, Waits, queueVars
<1>10. ASSUME NEW h \in Hand, Ask(h) PROVE JobsMatch'
  BY <1>10, EnqueueMatch DEF Ask, Waits
<1>11. ASSUME NEW h \in Hand, HandEnds(h) PROVE JobsMatch'
  BY <1>11, EndMatch DEF HandEnds, Point
<1>18. ASSUME NEW h \in Hand, EraseRaw(h) \/ EraseDoc(h) PROVE JobsMatch'
  <2>1. /\ ~Waits(h) /\ UNCHANGED <<jobs, running>>
        /\ Goto(h, "erased") \/ Goto(h, "idle")
    BY <1>18 DEF EraseRaw, EraseDoc, Waits, queueVars
  <2> QED BY <2>1, MoveMatch DEF Point
<1>12. CASE MidnightFires
  <2>1. CASE lastRun = nextRun
    BY <1>12, <2>1, StayMatch DEF MidnightFires, queueVars
  <2>2. CASE lastRun # nextRun
    <3>1. Enqueue(midnight) /\ Goto(midnight, "waiting") /\ ~Waits(midnight)
      BY <1>12, <2>2 DEF MidnightFires, Waits
    <3> QED BY <3>1, EnqueueMatch
  <2> QED BY <2>1, <2>2
<1>13. CASE MidnightResets
  <2>1. /\ running = midnight /\ EndJob
        /\ Goto(midnight, "zero") \/ Goto(midnight, "retry") \/ Goto(midnight, "idle")
    BY <1>13 DEF MidnightResets, Rescheduled
  <2> QED BY <2>1, EndMatch DEF Point
<1>14. CASE Retry
  BY <1>14, EnqueueMatch DEF Retry, Waits
<1>15. CASE ZeroDoc
  BY <1>15, MoveMatch DEF ZeroDoc, Point, Waits, queueVars
<1>16. CASE ZeroUnit
  BY <1>16, MoveMatch DEF ZeroUnit, Rescheduled, Point, Waits, queueVars
<1>17. CASE Restart
  <2>1. jobs' = << >> /\ running' = Nobody /\ \A x \in Owner : at'[x] = "idle"
    BY <1>17 DEF Restart
  <2> QED BY <2>1 DEF JobsMatch, InQueue, Waits
<1> QED
  BY <1>1, <1>2, <1>3, <1>4, <1>5, <1>6, <1>7, <1>8, <1>9, <1>10, <1>11, <1>12, <1>13,
     <1>14, <1>15, <1>16, <1>17, <1>18, Steps

(* Every owner that waits has its job once in the queue or on the line, and*)
(* no job is left of an owner that does not wait.                          *)
LEMMA JobsAlwaysMatch == Spec => []JobsMatch
<1>1. Init => JobsMatch
  BY DEF Init, Fresh, JobsMatch, InQueue, Waits
<1> QED BY <1>1, MatchStep, TypeCorrect, PTL DEF Spec

(* drain leaves the line idle only if nothing waits.                       *)
LEMMA DrainServes ==
  ASSUME NEW queue \in Seq(Owner), Drain(queue)
  PROVE  running' # Nobody \/ jobs' = << >>
<1>1. CASE running # Nobody \/ queue = << >>
  BY <1>1 DEF Drain
<1>2. CASE running = Nobody /\ queue # << >>
  <2>1. running' = Head(queue) /\ Head(queue) \in Owner
    BY <1>2 DEF Drain
  <2> QED BY <2>1
<1> QED BY <1>1, <1>2

LEMMA LostDrainStep == TypeOK /\ NoLostDrain /\ [Next]_vars => NoLostDrain'
<1> SUFFICES ASSUME TypeOK, NoLostDrain, [Next]_vars PROVE NoLostDrain'
  OBVIOUS
<1>0. jobs \in Seq(Owner) /\ \A o \in Owner : Append(jobs, o) \in Seq(Owner)
  BY DEF TypeOK
<1>1. ASSUME UNCHANGED <<jobs, running, drainDue>> PROVE NoLostDrain'
  BY <1>1 DEF NoLostDrain
<1>2. ASSUME NEW queue \in Seq(Owner), Drain(queue) PROVE NoLostDrain'
  BY <1>2, DrainServes DEF NoLostDrain
<1>3. ASSUME EndJob PROVE NoLostDrain'
  BY <1>3 DEF EndJob, NoLostDrain, TypeOK
<1>4. ASSUME NEW o \in Owner, Enqueue(o) PROVE NoLostDrain'
  BY <1>0, <1>2, <1>4 DEF Enqueue
<1>5. CASE Enter \/ DayTurns \/ Respond \/ LoseAnswer \/ Zero
  BY <1>1, <1>5 DEF Enter, DayTurns, Respond, LoseAnswer, Zero, queueVars
<1>6. CASE BeginSum \/ Sum \/ StoreFirst \/ ZeroDoc \/ ZeroUnit \/ UNCHANGED vars
  BY <1>1, <1>6 DEF BeginSum, Sum, StoreFirst, ZeroDoc, ZeroUnit, vars, queueVars
<1>7. CASE \E k \in Tick : Clear(k) \/ Save(k) \/ Store(k)
  BY <1>1, <1>7 DEF Clear, Save, Store, queueVars
<1>8. CASE DrainAgain
  BY <1>0, <1>2, <1>8 DEF DrainAgain
<1>9. CASE \E k \in Tick : Answered(k) \/ Unanswered(k)
  BY <1>3, <1>9 DEF Answered, Unanswered
<1>10. CASE \E k \in Tick : TickFires(k)
  BY <1>4, <1>10, OwnerType DEF TickFires
<1>15. CASE \E h \in Hand : EraseRaw(h) \/ EraseDoc(h)
  BY <1>1, <1>15 DEF EraseRaw, EraseDoc, queueVars
<1>11. CASE \E h \in Hand : Ask(h) \/ HandEnds(h)
  BY <1>3, <1>4, <1>11, OwnerType DEF Ask, HandEnds
<1>12. CASE MidnightFires
  BY <1>1, <1>4, <1>12, OwnerType DEF MidnightFires, queueVars
<1>13. CASE MidnightResets \/ Retry
  BY <1>3, <1>4, <1>13, OwnerType DEF MidnightResets, Retry
<1>14. CASE Restart
  BY <1>14 DEF Restart, NoLostDrain
<1> QED
  BY <1>5, <1>6, <1>7, <1>8, <1>9, <1>10, <1>11, <1>12, <1>13, <1>14, <1>15, Steps

(* No job waits before an idle line without a drain on its way.            *)
LEMMA DrainNeverLost == Spec => []NoLostDrain
<1>1. Init => NoLostDrain
  BY DEF Init, Fresh, NoLostDrain
<1> QED BY <1>1, LostDrainStep, TypeCorrect, PTL DEF Spec

(* The queue of the counter serves every job, once.                        *)
THEOREM JobsAreServed == Spec => []JobsServed
<1>1. JobsMatch /\ NoLostDrain => JobsServed
  BY DEF JobsServed
<1> QED BY <1>1, JobsAlwaysMatch, DrainNeverLost, PTL

-----------------------------------------------------------------------------
(* The count of the day.                                                   *)

(* What was counted for a day, in the database or not.                     *)
Counted(d) == raw[d] + missing[d]

(* Inductive form: every number on its way to the document is covered by   *)
(* what was counted for its day.                                           *)
Covered(d, n) == n <= Counted(d)

DayInv ==
  /\ doc # None => Covered(doc.day, doc.count)
  /\ todayKey # None => Covered(todayKey, todayInCount)
  /\ \A k \in Tick : at[k] = "store" => Covered(reading[k].day, reading[k].count)
  /\ stage = "store" => Covered(first.day, first.count)

(* A step that touches neither counts nor documents, and after which no    *)
(* other poll is about to store.                                           *)
LEMMA DayStays ==
  ASSUME TypeOK, DayInv,
         UNCHANGED <<raw, doc, missing, todayKey, todayInCount, stage, first>>,
         \A k \in Tick : at'[k] = "store" =>
           at[k] = "store" /\ reading'[k] = reading[k]
  PROVE  DayInv'
  BY DEF DayInv, Covered, Counted

LEMMA DayStep == TypeOK /\ DayInv /\ [Next]_vars => DayInv'
<1> SUFFICES ASSUME TypeOK, DayInv, [Next]_vars PROVE DayInv'
  OBVIOUS
<1> USE OwnerType
<1>1. CASE Enter \/ DayTurns \/ Respond \/ LoseAnswer \/ Zero \/ DrainAgain \/ UNCHANGED vars
  BY <1>1, DayStays DEF Enter, DayTurns, Respond, LoseAnswer, Zero, DrainAgain, vars,
                        dbVars, unitVars, startVars, pollVars
<1>2. ASSUME NEW o \in Owner, NEW p \in Point \ {"store"}, Goto(o, p),
             UNCHANGED <<raw, doc, missing, todayKey, todayInCount, stage, first>>,
             \A k \in Tick \ {o} : reading'[k] = reading[k]
      PROVE  DayInv'
  <2>1. \A k \in Tick : at'[k] = IF k = o THEN p ELSE at[k]
    BY <1>2 DEF Goto, TypeOK
  <2> QED BY <1>2, <2>1, DayStays
<1>3. ASSUME NEW k \in Tick, TickFires(k) PROVE DayInv'
  BY <1>2, <1>3 DEF TickFires, Point, dbVars, unitVars, startVars, pollVars
<1>4. ASSUME NEW k \in Tick, Answered(k) PROVE DayInv'
  <2>1. \A m \in Tick \ {k} : reading'[m] = reading[m]
    BY <1>4 DEF Answered, TypeOK
  <2> QED BY <1>2, <1>4, <2>1 DEF Answered, Point, dbVars, unitVars, startVars
<1>5. ASSUME NEW k \in Tick, Unanswered(k) PROVE DayInv'
  BY <1>2, <1>5 DEF Unanswered, Point, dbVars, unitVars, startVars, pollVars
<1>6. ASSUME NEW k \in Tick, Clear(k) PROVE DayInv'
  <2>1. \A m \in Tick \ {k} : reading'[m] = reading[m]
    BY <1>6 DEF Clear, TypeOK
  <2> QED BY <1>2, <1>6, <2>1 DEF Clear, Point, dbVars, unitVars, startVars
<1>7. ASSUME NEW k \in Tick, Save(k) PROVE DayInv'
  <2>i. reading[k].day \in Day /\ carry[k] \in Nat
    BY CardType DEF TypeOK
  <2>j. \A d \in Day : raw[d] \in Nat /\ missing[d] \in Nat
    BY DEF TypeOK
  <2>0. /\ reading[k].day \in Day /\ carry[k] \in Nat
        /\ \A d \in Day : raw[d] \in Nat /\ missing[d] \in Nat /\ Counted(d) \in Nat
    BY <2>i, <2>j DEF Counted
  <2>a. PICK e \in Day : e = reading[k].day
    BY <2>0
  <2>b. PICK c \in Nat : c = carry[k]
    BY <2>0
  <2>1. /\ doc' = doc /\ stage' = stage /\ first' = first
        /\ todayKey' = e
        /\ todayInCount' = (IF todayKey # e THEN 0 ELSE todayInCount) + c
    BY <1>7, <2>a, <2>b DEF Save, startVars
  <2>2. /\ Counted(e)' = Counted(e) + c
        /\ \A d \in Day : Counted(d)' \in Nat /\ Counted(d) <= Counted(d)'
    <3>1. CASE raw' = [raw EXCEPT ![e] = @ + c] /\ missing' = missing
      <4>1. raw'[e] = raw[e] + c /\ \A d \in Day \ {e} : raw'[d] = raw[d]
        BY <3>1, DayAdded DEF TypeOK
      <4> QED BY <2>0, <3>1, <4>1 DEF Counted
    <3>2. CASE missing' = [missing EXCEPT ![e] = @ + c] /\ raw' = raw
      <4>1. missing'[e] = missing[e] + c /\ \A d \in Day \ {e} : missing'[d] = missing[d]
        BY <3>2, DayAdded DEF TypeOK
      <4> QED BY <2>0, <3>2, <4>1 DEF Counted
    <3> QED BY <1>7, <2>a, <2>b, <3>1, <3>2 DEF Save, SavePollRaw
  <2>3. todayInCount' <= Counted(todayKey)'
    <3>0. Counted(todayKey)' = Counted(e)'
      BY <2>1 DEF Counted
    <3>1. CASE todayKey # e
      BY <2>0, <2>1, <2>2, <3>0, <3>1
    <3>2. CASE todayKey = e
      <4>1. todayInCount <= Counted(e) /\ todayInCount \in Nat
        BY <3>2, CounterAssumption DEF DayInv, Covered, Day, TypeOK
      <4> QED BY <2>0, <2>1, <2>2, <3>0, <3>2, <4>1
    <3> QED BY <3>1, <3>2
  <2>4. ASSUME NEW d \in Day, NEW n \in Nat, n <= Counted(d) PROVE n <= Counted(d)'
    BY <2>0, <2>2, <2>4
  <2>5. doc' # None => doc'.day \in Day /\ doc'.count <= Counted(doc.day)'
    BY <2>1, <2>4, CardType DEF DayInv, Covered, TypeOK
  <2>6. stage' = "store" => first'.count <= Counted(first.day)'
    BY <2>1, <2>4, CardType DEF DayInv, Covered, TypeOK
  <2>7. ASSUME NEW m \in Tick, at'[m] = "store" PROVE reading'[m].count <= Counted(reading[m].day)'
    <3>1. CASE m # k
      <4>1. at'[m] = at[m] /\ reading'[m] = reading[m]
        BY <1>7, <3>1 DEF Save, Ends, Goto, TypeOK
      <4>2. reading[m].count <= Counted(reading[m].day)
        BY <2>1, <2>7, <4>1 DEF DayInv, Covered
      <4>3. reading[m].day \in Day /\ reading[m].count \in Nat
        BY CardType DEF TypeOK
      <4> QED BY <2>4, <4>1, <4>2, <4>3
    <3>2. CASE m = k
      <4>1. ~Ends(k)
        BY <2>7, <3>2 DEF Ends, Goto, TypeOK
      <4>2. reading' = [reading EXCEPT ![k] = [day |-> reading[k].day, count |-> todayInCount']]
        BY <1>7, <4>1 DEF Save
      <4>3. reading'[m].count = todayInCount' /\ reading'[m].day = todayKey'
        BY <2>1, <2>a, <3>2, <4>2 DEF TypeOK
      <4> QED BY <2>3, <4>3 DEF Counted
    <3> QED BY <3>1, <3>2
  <2> QED BY <2>3, <2>5, <2>6, <2>7 DEF DayInv, Covered
<1>8. ASSUME NEW k \in Tick, Store(k) PROVE DayInv'
  <2>1. /\ at[k] = "store" /\ UNCHANGED <<raw, missing, todayKey, todayInCount, stage, first>>
        /\ doc' \in {doc, reading[k]}
    BY <1>8 DEF Store, unitVars, startVars
  <2>2. \A m \in Tick : at'[m] = "store" =>
          at[m] = "store" /\ reading'[m] = reading[m]
    BY <1>8 DEF Store, Ends, Goto, TypeOK
  <2> QED BY <2>1, <2>2 DEF DayInv, Covered, Counted
<1>9. ASSUME NEW h \in Hand, Ask(h) PROVE DayInv'
  BY <1>2, <1>9 DEF Ask, Point, dbVars, unitVars, startVars, pollVars
<1>10. ASSUME NEW h \in Hand, HandEnds(h) PROVE DayInv'
  BY <1>2, <1>10 DEF HandEnds, Point, dbVars, unitVars, startVars, pollVars
<1>11. CASE MidnightFires
  <2>1. CASE lastRun = nextRun
    BY <1>11, <2>1, DayStays DEF MidnightFires, dbVars, unitVars, startVars, pollVars
  <2>2. CASE lastRun # nextRun
    BY <1>2, <1>11, <2>2 DEF MidnightFires, Point, dbVars, unitVars, startVars, pollVars
  <2> QED BY <2>1, <2>2
<1>12. CASE MidnightResets
  BY <1>2, <1>12 DEF MidnightResets, Rescheduled, Point, dbVars, unitVars, startVars, pollVars
<1>13. CASE Retry
  BY <1>2, <1>13 DEF Retry, Point, dbVars, unitVars, startVars, pollVars
<1>14. CASE ZeroDoc
  <2>1. \A k \in Tick : at'[k] = at[k]
    BY <1>14 DEF ZeroDoc, Goto, TypeOK
  <2>2. /\ UNCHANGED <<raw, missing, todayKey, todayInCount, stage, first, reading, carry>>
        /\ doc' = doc \/ doc' = [day |-> nextRun, count |-> 0]
    BY <1>14 DEF ZeroDoc, unitVars, startVars, pollVars
  <2>3. 0 <= Counted(nextRun)
    BY DEF TypeOK, Counted
  <2> QED BY <2>1, <2>2, <2>3 DEF DayInv, Covered, Counted
<1>15. CASE ZeroUnit
  <2>1. \A k \in Tick : at'[k] = at[k]
    BY <1>15 DEF ZeroUnit, Rescheduled, Goto, TypeOK
  <2>2. /\ UNCHANGED <<raw, doc, missing, stage, first, reading, carry>>
        /\ todayKey' = nextRun /\ todayInCount' = 0
    BY <1>15 DEF ZeroUnit, dbVars, startVars, pollVars
  <2>3. 0 <= Counted(nextRun)
    BY DEF TypeOK, Counted
  <2> QED BY <2>1, <2>2, <2>3 DEF DayInv, Covered, Counted
<1>16. CASE BeginSum
  BY <1>16 DEF BeginSum, DayInv, Covered, Counted, unitVars, pollVars, dbVars
<1>17. CASE Sum
  <2>1. todayInCount' <= Counted(first.day) /\ todayInCount' \in Nat
    <3>1. raw[first.day] \in Nat /\ missing[first.day] \in Nat
      BY CardType DEF TypeOK
    <3> QED BY <1>17, <3>1 DEF Sum, Counted
  <2>2. first' = [first EXCEPT !.count = todayInCount'] /\ todayKey' = first.day
    BY <1>17 DEF Sum
  <2>3. first'.day = first.day /\ first'.count = todayInCount'
    BY <2>1, <2>2, CardType DEF TypeOK
  <2>4. UNCHANGED <<raw, doc, missing, at, reading, carry>>
    BY <1>17 DEF Sum, dbVars, pollVars
  <2> QED BY <2>1, <2>2, <2>3, <2>4 DEF DayInv, Covered, Counted
<1>18. CASE StoreFirst
  BY <1>18 DEF StoreFirst, DayInv, Covered, Counted, unitVars, pollVars
<1>19. CASE Restart
  BY <1>19 DEF Restart, DayInv, Covered, Counted, dbVars
<1>20. ASSUME NEW h \in Hand, EraseRaw(h) PROVE DayInv'
  <2>1. \A d \in Day : raw'[d] + missing'[d] = raw[d] + missing[d]
    BY <1>20 DEF EraseRaw, TypeOK
  <2>2. \A k \in Tick : at'[k] = at[k] /\ reading'[k] \in Card
    BY <1>20, CounterAssumption DEF EraseRaw, Goto, pollVars, TypeOK
  <2>3. UNCHANGED <<doc, todayKey, todayInCount, stage, first, reading>>
    BY <1>20 DEF EraseRaw, unitVars, startVars, pollVars
  <2> QED BY <2>1, <2>2, <2>3, CardType DEF DayInv, Covered, Counted, TypeOK
<1>21. ASSUME NEW h \in Hand, EraseDoc(h) PROVE DayInv'
  <2>1. \A k \in Tick : at'[k] = at[k]
    BY <1>21, CounterAssumption DEF EraseDoc, Goto, TypeOK
  <2>2. /\ UNCHANGED <<raw, missing, todayKey, todayInCount, stage, first, reading>>
        /\ doc' = doc \/ doc' = None \/ doc' = [day |-> day, count |-> 0]
    BY <1>21 DEF EraseDoc, unitVars, startVars, pollVars
  <2>3. 0 <= Counted(day)
    BY DEF TypeOK, Counted, Day
  <2> QED BY <2>1, <2>2, <2>3 DEF DayInv, Covered, Counted
<1> QED
  BY <1>1, <1>3, <1>4, <1>5, <1>6, <1>7, <1>8, <1>9, <1>10, <1>11, <1>12, <1>13, <1>14,
     <1>15, <1>16, <1>17, <1>18, <1>19, <1>20, <1>21, Steps

(* The unit card never shows more people than were counted for its day,    *)
(* and those are in the database unless savePollRaw failed or reset-data   *)
(* has deleted them.                                                       *)
THEOREM ShownAlwaysStored == Spec => []ShownWasStored
<1>1. Init => DayInv
  BY OwnerType DEF Init, Fresh, DayInv, Covered, Counted
<1>2. DayInv => ShownWasStored
  BY DEF DayInv, Covered, Counted, ShownWasStored
<1> QED BY <1>1, <1>2, DayStep, TypeCorrect, PTL DEF Spec

-----------------------------------------------------------------------------
(* Nobody twice.                                                           *)

(* What the counts still on their way can add, from a reference of prev.   *)
Left(prev) ==
  IF answer = None THEN Delta(prev, inCount) ELSE Delta(prev, answer) + Delta(answer, inCount)

(* Polls saved one by one: what is stored, what the poll being saved adds, *)
(* and what can still come.                                                *)
Counts ==
  /\ \A j, k \in Tick : Saving(j) /\ Saving(k) => j = k
  /\ \A k \in Tick : at[k] = "save" => carry[k] = Delta(lastIn, reading[k].count)
  /\ (\A k \in Tick : ~Saving(k)) => counted + Left(lastIn) <= entered
  /\ \A k \in Tick : Saving(k) =>
       counted + Delta(lastIn, reading[k].count) + Left(reading[k].count) <= entered

(* Inductive form: so they are, and these add up, until two have raced.    *)
CountInv == ~raced => Counts

Ref == Nat \cup {None}

(* A number left out in between never adds.                                *)
LEMMA Triangle ==
  ASSUME NEW p \in Ref, NEW a \in Nat, NEW n \in Nat
  PROVE  Delta(p, n) <= Delta(p, a) + Delta(a, n)
  BY DEF Delta, Ref

LEMMA DeltaGrows ==
  ASSUME NEW p \in Ref, NEW n \in Nat
  PROVE  /\ Delta(p, n + 1) <= Delta(p, n) + 1 /\ Delta(p, 0) = 0 /\ Delta(None, n) = 0
         /\ Delta(n, n) = 0
  BY DEF Delta, Ref

LEMMA LeftType ==
  ASSUME TypeOK, NEW p \in Ref
  PROVE  Left(p) \in Nat
<1>1. inCount \in Nat /\ Delta(p, inCount) \in Nat
  BY DeltaType DEF TypeOK, Ref
<1>2. CASE answer = None
  BY <1>1, <1>2 DEF Left
<1>3. CASE answer \in Nat
  <2>1. Delta(p, answer) \in Nat /\ Delta(answer, inCount) \in Nat
    BY <1>1, <1>3, DeltaType DEF Ref
  <2> QED BY <1>3, <2>1 DEF Left
<1> QED BY <1>2, <1>3 DEF TypeOK

(* An answer given adds nothing to what is left, and one lost takes away.  *)
LEMMA AnswerLeft ==
  ASSUME TypeOK, NEW p \in Ref, inCount' = inCount,
         answer' = answer \/ answer' = None \/ (answer = None /\ answer' = inCount)
  PROVE  Left(p)' <= Left(p)
<1> USE DEF Left
<1>1. CASE answer' = answer
  BY <1>1, LeftType
<1>2. CASE answer' = None /\ answer # None
  BY <1>2, Triangle DEF TypeOK
<1>3. CASE answer = None /\ answer' = inCount
  <2>1. Delta(inCount, inCount) = 0 /\ Delta(p, inCount) \in Nat /\ inCount # None
    BY DeltaGrows, DeltaType DEF TypeOK, Ref
  <2> QED BY <1>3, <2>1
<1> QED BY <1>1, <1>2, <1>3

(* A step that neither begins nor ends the saving of a poll.               *)
LEMMA CountStays ==
  ASSUME TypeOK, Counts, UNCHANGED <<lastIn, counted>>, entered' \in Nat,
         \A p \in Ref : Left(p)' \in Nat /\ Left(p)' + entered <= Left(p) + entered',
         \A k \in Tick : /\ Saving(k)' <=> Saving(k)
                         /\ Saving(k) => reading'[k] = reading[k]
                         /\ at'[k] = "save" => at[k] = "save" /\ carry'[k] = carry[k]
  PROVE  Counts'
<1>1. entered \in Nat /\ counted \in Nat /\ lastIn \in Ref
  BY DEF TypeOK, Ref
<1>2. \A k \in Tick : reading[k].count \in Nat
  BY CardType DEF TypeOK
<1>3. \A k \in Tick : Delta(lastIn, reading[k].count) \in Nat
  BY <1>2, DeltaType DEF TypeOK
<1>4. \A k \in Tick : reading[k].count \in Ref
  BY <1>2 DEF Ref
<1>5. \A p \in Ref : Left(p) \in Nat
  BY LeftType
<1>6. \A j, k \in Tick : Saving(j)' /\ Saving(k)' => j = k
  BY DEF Counts
<1>7. \A k \in Tick : at'[k] = "save" => carry'[k] = Delta(lastIn', reading'[k].count)
  BY DEF Counts, Saving
<1>8. (\A k \in Tick : ~Saving(k)') => counted' + Left(lastIn)' <= entered'
  <2> SUFFICES ASSUME \A k \in Tick : ~Saving(k)' PROVE counted' + Left(lastIn)' <= entered'
    OBVIOUS
  <2>1. counted + Left(lastIn) <= entered
    BY DEF Counts
  <2>2. Left(lastIn)' = Left(lastIn)' /\ lastIn' = lastIn /\ counted' = counted
    OBVIOUS
  <2> QED BY <1>1, <1>5, <2>1 DEF Left
<1>9. ASSUME NEW k \in Tick, Saving(k)'
      PROVE  counted' + Delta(lastIn, reading[k].count)' + Left(reading[k].count)' <= entered'
  <2>1. counted + Delta(lastIn, reading[k].count) + Left(reading[k].count) <= entered
    BY <1>9 DEF Counts
  <2>2. reading'[k] = reading[k]
    BY <1>9
  <2>3. Delta(lastIn, reading[k].count)' = Delta(lastIn, reading[k].count)
    BY <2>2
  <2> DEFINE v == reading[k].count
  <2>4. v \in Ref /\ v' = v
    BY <1>4, <2>2
  <2> QED BY <1>1, <1>3, <1>5, <2>1, <2>3, <2>4 DEF Left
<1> QED BY <1>6, <1>7, <1>8, <1>9 DEF Counts

(* Left depends on the line only.                                          *)
LEMMA LineStays ==
  ASSUME TypeOK, inCount' = inCount, entered' = entered,
         answer' = answer \/ answer' = None \/ (answer = None /\ answer' = inCount),
         TypeOK'
  PROVE  /\ entered' \in Nat
         /\ \A p \in Ref : Left(p)' \in Nat /\ Left(p)' + entered <= Left(p) + entered'
<1>1. entered \in Nat
  BY DEF TypeOK
<1> SUFFICES ASSUME NEW p \in Ref
             PROVE  Left(p)' \in Nat /\ Left(p)' + entered <= Left(p) + entered'
  BY <1>1
<1>2. Left(p) \in Nat /\ Left(p)' <= Left(p)
  BY AnswerLeft, LeftType
<1>3. Left(p)' \in Nat
  <2>1. /\ inCount' \in Nat /\ Delta(p, inCount') \in Nat
        /\ answer' \in Nat => Delta(p, answer') \in Nat /\ Delta(answer', inCount') \in Nat
        /\ answer' \in Nat \cup {None}
    BY DeltaType DEF TypeOK, Ref
  <2> QED BY <2>1 DEF Left
<1> QED BY <1>1, <1>2, <1>3

(* A race is not forgotten.                                                *)
LEMMA RaceStays == TypeOK /\ raced /\ [Next]_vars => raced'
<1> SUFFICES ASSUME TypeOK, raced, [Next]_vars PROVE raced'
  OBVIOUS
<1>1. ASSUME NEW k \in Tick, Answered(k) PROVE raced'
  BY <1>1, Zenon DEF Answered
<1>2. ASSUME UNCHANGED worldVars PROVE raced'
  BY <1>2, Zenon DEF worldVars
<1>3. ASSUME NEW k \in Tick,
             TickFires(k) \/ Unanswered(k) \/ Clear(k) \/ Save(k) \/ Store(k)
      PROVE  UNCHANGED worldVars
  BY <1>3 DEF TickFires, Unanswered, Clear, Save, Store
<1>4. ASSUME NEW h \in Hand, Ask(h) \/ HandEnds(h) \/ EraseRaw(h) \/ EraseDoc(h)
      PROVE  UNCHANGED worldVars
  BY <1>4 DEF Ask, HandEnds, EraseRaw, EraseDoc
<1>5. Enter \/ DayTurns => raced'
  BY Zenon DEF Enter, DayTurns
<1>6. \/ Respond \/ LoseAnswer \/ Zero \/ DrainAgain \/ MidnightFires \/ MidnightResets
      \/ Retry \/ ZeroDoc \/ ZeroUnit \/ BeginSum \/ Sum \/ StoreFirst \/ Restart
      \/ UNCHANGED vars
      => UNCHANGED worldVars
  BY DEF Respond, LoseAnswer, Zero, DrainAgain, MidnightFires, MidnightResets, Retry, ZeroDoc,
         ZeroUnit, BeginSum, Sum, StoreFirst, Restart, vars
<1> QED BY <1>1, <1>2, <1>3, <1>4, <1>5, <1>6, Steps

LEMMA CountStep == TypeOK /\ TypeOK' /\ JobsMatch /\ CountInv /\ [Next]_vars => CountInv'
<1> SUFFICES ASSUME TypeOK, TypeOK', JobsMatch, Counts, [Next]_vars, ~raced' PROVE Counts'
  <2> SUFFICES ASSUME TypeOK, TypeOK', JobsMatch, CountInv, [Next]_vars PROVE CountInv'
    OBVIOUS
  <2>1. CASE raced
    BY <2>1, RaceStays DEF CountInv
  <2>2. CASE ~raced
    BY <2>2 DEF CountInv
  <2> QED BY <2>1, <2>2
<1> USE OwnerType
<1>0. /\ counted \in Nat /\ entered \in Nat /\ lastIn \in Ref /\ inCount \in Nat
      /\ inCount + 1 \in Nat
  BY DEF TypeOK, Ref
<1>a. \A k \in Tick : reading[k].count \in Nat
  BY CardType DEF TypeOK
(* Steps that leave every poll where it is.                                *)
<1>1. ASSUME UNCHANGED <<lastIn, counted, at, reading, carry>>, entered' = entered, inCount' = inCount,
             answer' = answer \/ answer' = None \/ (answer = None /\ answer' = inCount)
      PROVE  Counts'
  BY <1>1, LineStays, CountStays DEF Saving
(* Steps of an owner that is not saving and does not begin to.             *)
<1>2. ASSUME NEW o \in Owner, NEW p \in Point \ {"clear", "save"}, Goto(o, p),
             at[o] \notin {"clear", "save"},
             UNCHANGED <<lastIn, counted, entered, inCount>>, answer' \in {answer, None},
             \A k \in Tick \ {o} : reading'[k] = reading[k] /\ carry'[k] = carry[k]
      PROVE  Counts'
  <2>1. \A k \in Tick : at'[k] = IF k = o THEN p ELSE at[k]
    BY <1>2 DEF Goto, TypeOK
  <2>2. \A k \in Tick : /\ Saving(k)' <=> Saving(k)
                        /\ Saving(k) => reading'[k] = reading[k]
                        /\ at'[k] = "save" => at[k] = "save" /\ carry'[k] = carry[k]
    BY <1>2, <2>1 DEF Saving
  <2> QED BY <1>2, <2>2, LineStays, CountStays
<1>3. CASE Enter
  <2>1. entered' \in Nat /\ entered' = entered + 1 /\ inCount' = inCount + 1
        /\ UNCHANGED <<answer, lastIn, counted, at, reading, carry>>
    BY <1>0, <1>3 DEF Enter, pollVars, unitVars, dbVars
  <2>2. ASSUME NEW p \in Ref PROVE Left(p)' \in Nat /\ Left(p)' + entered <= Left(p) + entered'
    <3>1. CASE answer = None
      <4>1. Delta(p, inCount) \in Nat /\ Delta(p, inCount + 1) \in Nat
        BY <1>0, DeltaType DEF Ref
      <4>2. Delta(p, inCount + 1) <= Delta(p, inCount) + 1
        BY <1>0, DeltaGrows
      <4>3. Left(p)' = Delta(p, inCount + 1) /\ Left(p) = Delta(p, inCount)
        BY <2>1, <3>1 DEF Left
      <4> QED BY <1>0, <2>1, <4>1, <4>2, <4>3
    <3>2. CASE answer \in Nat
      <4>1. /\ Delta(p, answer) \in Nat /\ Delta(answer, inCount) \in Nat
            /\ Delta(answer, inCount + 1) \in Nat
        BY <1>0, <3>2, DeltaType DEF Ref
      <4>2. Delta(answer, inCount + 1) <= Delta(answer, inCount) + 1
        BY <1>0, <3>2, DeltaGrows DEF Ref
      <4>3. /\ Left(p)' = Delta(p, answer) + Delta(answer, inCount + 1)
            /\ Left(p) = Delta(p, answer) + Delta(answer, inCount)
        BY <2>1, <3>2 DEF Left
      <4> QED BY <1>0, <2>1, <4>1, <4>2, <4>3
    <3> QED BY <3>1, <3>2 DEF TypeOK
  <2> QED BY <2>1, <2>2, CountStays DEF Saving
<1>4. CASE Zero
  <2>1. entered' \in Nat /\ entered' = entered /\ inCount' = 0
        /\ UNCHANGED <<answer, lastIn, counted, at, reading, carry>>
    BY <1>0, <1>4 DEF Zero, worldVars, pollVars, unitVars, dbVars
  <2>2. ASSUME NEW p \in Ref PROVE Left(p)' \in Nat /\ Left(p)' + entered <= Left(p) + entered'
    <3>1. CASE answer = None
      <4>1. Delta(p, inCount) \in Nat /\ Delta(p, 0) = 0
        BY <1>0, DeltaType, DeltaGrows DEF Ref
      <4>2. Left(p)' = Delta(p, 0) /\ Left(p) = Delta(p, inCount)
        BY <2>1, <3>1 DEF Left
      <4> QED BY <1>0, <2>1, <4>1, <4>2
    <3>2. CASE answer \in Nat
      <4>1. /\ Delta(p, answer) \in Nat /\ Delta(answer, inCount) \in Nat
            /\ Delta(answer, 0) = 0
        BY <1>0, <3>2, DeltaType, DeltaGrows DEF Ref
      <4>2. /\ Left(p)' = Delta(p, answer) + Delta(answer, 0)
            /\ Left(p) = Delta(p, answer) + Delta(answer, inCount)
        BY <2>1, <3>2 DEF Left
      <4> QED BY <1>0, <2>1, <4>1, <4>2
    <3> QED BY <3>1, <3>2 DEF TypeOK
  <2> QED BY <2>1, <2>2, CountStays DEF Saving
<1>5. CASE DayTurns \/ Respond \/ LoseAnswer \/ DrainAgain \/ UNCHANGED vars
  BY <1>1, <1>5 DEF DayTurns, Respond, LoseAnswer, DrainAgain, vars, lineVars, worldVars, pollVars,
                    unitVars, dbVars
<1>6. CASE BeginSum \/ Sum \/ StoreFirst
  BY <1>1, <1>6 DEF BeginSum, Sum, StoreFirst, lineVars, worldVars, pollVars, unitVars, dbVars
<1>7. ASSUME NEW k \in Tick, TickFires(k) PROVE Counts'
  BY <1>2, <1>7 DEF TickFires, Point, worldVars, pollVars, unitVars, dbVars
<1>8. ASSUME NEW k \in Tick, Unanswered(k) PROVE Counts'
  <2>1. at[k] \notin {"clear", "save"}
    BY <1>8 DEF Unanswered, JobsMatch, Waits
  <2> QED BY <1>2, <1>8, <2>1 DEF Unanswered, Point, lineVars, worldVars, pollVars, unitVars, dbVars
<1>9. ASSUME NEW k \in Tick, Answered(k) PROVE Counts'
  <2>1. /\ answer \in Nat /\ answer' = None /\ \A m \in Tick : ~Saving(m)
        /\ UNCHANGED <<inCount, entered, lastIn, counted, carry>>
    BY <1>9 DEF Answered, TypeOK, unitVars, dbVars
  <2>2. reading'[k].count = answer /\ \A m \in Tick : at'[m] = IF m = k THEN "clear" ELSE at[m]
    BY <1>9 DEF Answered, Goto, TypeOK
  <2>3. Saving(k)' /\ at'[k] = "clear" /\ \A m \in Tick \ {k} : ~Saving(m)'
    BY <2>1, <2>2 DEF Saving
  <2>4. counted + Delta(lastIn, answer) + Delta(answer, inCount) <= entered
    <3>1. counted + Left(lastIn) <= entered
      BY <2>1 DEF Counts
    <3>2. Delta(lastIn, answer) \in Nat /\ Delta(answer, inCount) \in Nat
      BY <1>0, <2>1, DeltaType DEF Ref
    <3>3. Left(lastIn) = Delta(lastIn, answer) + Delta(answer, inCount)
      BY <2>1 DEF Left
    <3> QED BY <1>0, <3>1, <3>2, <3>3
  <2>5. Left(reading[k].count)' = Delta(answer, inCount)
    BY <2>1, <2>2 DEF Left
  <2>6. Delta(lastIn, reading[k].count)' = Delta(lastIn, answer)
    BY <2>1, <2>2
  <2>7. \A m \in Tick : Saving(m)' => m = k
    BY <2>3
  <2>8. \A m \in Tick : at'[m] # "save"
    BY <2>3 DEF Saving
  <2>9. \A m \in Tick : Saving(m)' =>
          counted' + Delta(lastIn, reading[m].count)' + Left(reading[m].count)' <= entered'
    BY <2>1, <2>4, <2>5, <2>6, <2>7
  <2> QED BY <2>3, <2>7, <2>8, <2>9 DEF Counts
<1>10. ASSUME NEW k \in Tick, Clear(k) PROVE Counts'
  <2>1. UNCHANGED <<inCount, answer, entered, lastIn, counted, reading>> /\ Saving(k)
    BY <1>10 DEF Clear, Saving, lineVars, worldVars, unitVars, dbVars
  <2>2. /\ carry'[k] = Delta(lastIn, reading[k].count)
        /\ \A m \in Tick : at'[m] = IF m = k THEN "save" ELSE at[m]
        /\ \A m \in Tick \ {k} : ~Saving(m)
    BY <1>10, <2>1 DEF Clear, Goto, TypeOK, Counts
  <2>3. \A m \in Tick : (Saving(m)' <=> Saving(m)) /\ (at'[m] = "save" => m = k)
    BY <2>1, <2>2 DEF Saving
  <2>4. \A m \in Tick : at'[m] = "save" => carry'[m] = Delta(lastIn', reading'[m].count)
    BY <2>1, <2>2, <2>3
  <2>5. counted + Delta(lastIn, reading[k].count) + Left(reading[k].count) <= entered
    BY <2>1 DEF Counts
  <2>6. \A m \in Tick : Saving(m)' =>
          counted' + Delta(lastIn, reading[m].count)' + Left(reading[m].count)' <= entered'
    BY <2>1, <2>2, <2>3, <2>5 DEF Left
  <2> QED BY <2>1, <2>2, <2>3, <2>4, <2>6 DEF Counts
<1>11. ASSUME NEW k \in Tick, Save(k) PROVE Counts'
  <2> DEFINE v == reading[k].count
  <2>1. /\ UNCHANGED <<inCount, answer, entered>> /\ lastIn' = v /\ Saving(k)
        /\ counted' = counted + carry[k] \/ counted' = counted
    BY <1>11 DEF Save, SavePollRaw, Saving, lineVars, worldVars
  <2>x. /\ at'[k] \in {"store", "idle"}
        /\ \A m \in Tick \ {k} : at'[m] = at[m]
    BY <1>11 DEF Save, Ends, Goto, TypeOK
  <2>y. \A m \in Tick \ {k} : ~Saving(m)
    BY <2>1 DEF Counts
  <2>2. \A m \in Tick : ~Saving(m)'
    BY <2>x, <2>y DEF Saving
  <2>3. /\ carry[k] = Delta(lastIn, v) /\ carry[k] \in Nat
        /\ counted + Delta(lastIn, v) + Left(v) <= entered
    BY <1>11, <2>1 DEF Save, Counts, TypeOK
  <2>4. v \in Ref /\ Left(v) \in Nat
    BY <1>a, LeftType DEF Ref
  <2>5. Left(lastIn)' = Left(v)
    BY <2>1 DEF Left
  <2>6. counted' + Left(lastIn)' <= entered'
    <3> HIDE DEF v
    <3> QED BY <1>0, <2>1, <2>3, <2>4, <2>5
  <2> QED BY <2>2, <2>6 DEF Counts, Saving
<1>12. ASSUME NEW k \in Tick, Store(k) PROVE Counts'
  <2>1. \A m \in Tick \ {k} : reading'[m] = reading[m] /\ carry'[m] = carry[m]
    BY <1>12 DEF Store, Ends, TypeOK
  <2> QED BY <1>2, <1>12, <2>1 DEF Store, Ends, Point, lineVars, worldVars, unitVars
<1>13. ASSUME NEW h \in Hand, Ask(h) PROVE Counts'
  BY <1>2, <1>13 DEF Ask, Point, worldVars, pollVars, unitVars, dbVars
<1>14. ASSUME NEW h \in Hand, HandEnds(h) PROVE Counts'
  <2>1. at[h] \notin {"clear", "save"}
    BY <1>14 DEF HandEnds, JobsMatch, Waits
  <2> QED BY <1>2, <1>14, <2>1 DEF HandEnds, Point, worldVars, pollVars, unitVars, dbVars
<1>15. CASE MidnightFires
  <2>1. CASE lastRun = nextRun
    BY <1>1, <1>15, <2>1 DEF MidnightFires, worldVars, pollVars, unitVars, dbVars
  <2>2. CASE lastRun # nextRun
    BY <1>2, <1>15, <2>2 DEF MidnightFires, Point, worldVars, pollVars, unitVars, dbVars
  <2> QED BY <2>1, <2>2
<1>16. CASE MidnightResets
  <2>1. at[midnight] \notin {"clear", "save"}
    BY <1>16 DEF MidnightResets, JobsMatch, Waits
  <2>2. UNCHANGED <<lastIn, counted, entered, inCount, answer, reading, carry>>
    BY <1>16 DEF MidnightResets, lineVars, worldVars, pollVars, unitVars, dbVars
  <2>3. Goto(midnight, "zero") \/ Goto(midnight, "retry") \/ Goto(midnight, "idle")
    BY <1>16 DEF MidnightResets, Rescheduled
  <2> QED BY <1>2, <2>1, <2>2, <2>3 DEF Point
<1>17. CASE Retry
  BY <1>2, <1>17 DEF Retry, Point, worldVars, pollVars, unitVars, dbVars
<1>18. CASE ZeroDoc
  BY <1>2, <1>18 DEF ZeroDoc, Point, lineVars, worldVars, pollVars, unitVars
<1>19. CASE ZeroUnit
  BY <1>2, <1>19 DEF ZeroUnit, Rescheduled, Point, lineVars, worldVars, pollVars, dbVars
<1>20. CASE Restart
  <2>1. /\ UNCHANGED <<inCount, answer, entered, counted>> /\ lastIn' = None
        /\ \A m \in Tick : ~Saving(m)' /\ at'[m] = "idle"
    BY <1>20 DEF Restart, Saving, lineVars, worldVars, dbVars
  <2>2. counted + Left(None) <= entered
    <3>1. \A m \in Tick : Delta(lastIn, reading[m].count) \in Nat /\ reading[m].count \in Ref
      BY <1>0, <1>a, DeltaType DEF Ref
    <3>2. ASSUME NEW p \in Ref, counted + Left(p) <= entered PROVE counted + Left(None) <= entered
      <4>1. Left(p) \in Nat /\ None \in Ref /\ Left(None) \in Nat
        BY LeftType DEF Ref
      <4>2. Left(None) <= Left(p)
        <5>1. CASE answer = None
          <6>1. Left(None) = 0
            BY <1>0, <5>1, DeltaGrows DEF Left
          <6> QED BY <4>1, <6>1
        <5>2. CASE answer \in Nat
          <6>1. Delta(None, answer) = 0 /\ Delta(p, answer) \in Nat /\ Delta(answer, inCount) \in Nat
            BY <1>0, <5>2, DeltaGrows, DeltaType DEF Ref
          <6> QED BY <5>2, <6>1 DEF Left
        <5> QED BY <5>1, <5>2 DEF TypeOK
      <4> QED BY <1>0, <3>2, <4>1, <4>2
    <3>3. CASE \A m \in Tick : ~Saving(m)
      BY <1>0, <3>2, <3>3 DEF Counts
    <3>4. ASSUME NEW m \in Tick, Saving(m) PROVE counted + Left(None) <= entered
      <4> DEFINE v == reading[m].count
      <4>1. counted + Delta(lastIn, v) + Left(v) <= entered
        BY <3>4 DEF Counts
      <4>2. Left(v) \in Nat /\ Delta(lastIn, v) \in Nat /\ v \in Ref
        BY <3>1, LeftType
      <4> HIDE DEF v
      <4>3. counted + Left(v) <= entered
        BY <1>0, <4>1, <4>2
      <4> QED BY <3>2, <4>2, <4>3
    <3> QED BY <3>3, <3>4
  <2>3. Left(lastIn)' = Left(None)
    BY <2>1 DEF Left
  <2> QED BY <2>1, <2>2, <2>3 DEF Counts
<1>21. ASSUME NEW h \in Hand, EraseRaw(h) \/ EraseDoc(h) PROVE Counts'
  BY <1>2, <1>21 DEF EraseRaw, EraseDoc, Point, lineVars, worldVars, pollVars, unitVars
<1> QED
  BY <1>3, <1>4, <1>5, <1>6, <1>7, <1>8, <1>9, <1>10, <1>11, <1>12, <1>13, <1>14,
     <1>15, <1>16, <1>17, <1>18, <1>19, <1>20, <1>21, Steps

(* Until a poll is answered while another is being saved, the increments   *)
(* stored never add up to more people than have entered.                   *)
THEOREM NobodyTwice == Spec => []CountedOnce
<1>1. Init => CountInv
  <2> SUFFICES ASSUME Init PROVE Counts
    BY DEF CountInv
  <2>1. /\ \A k \in Tick : ~Saving(k) /\ at[k] = "idle"
        /\ counted = 0 /\ entered = 0 /\ answer = None /\ lastIn = None
    BY OwnerType DEF Init, Fresh, Saving
  <2>2. Left(lastIn) = 0
    BY <2>1 DEF Left, Delta
  <2> QED BY <2>1, <2>2 DEF Counts
<1>2. TypeOK /\ CountInv => CountedOnce
  <2> SUFFICES ASSUME TypeOK, Counts PROVE CountedOnce
    BY DEF CountInv, CountedOnce
  <2>1. counted \in Nat /\ entered \in Nat
    BY DEF TypeOK
  <2>2. CASE \A k \in Tick : ~Saving(k)
    <3>1. Left(lastIn) \in Nat /\ counted + Left(lastIn) <= entered
      BY <2>2, LeftType DEF Counts, TypeOK, Ref
    <3> QED BY <2>1, <3>1 DEF CountedOnce
  <2>3. ASSUME NEW k \in Tick, Saving(k) PROVE CountedOnce
    <3> DEFINE v == reading[k].count
    <3>1. v \in Nat
      BY CardType DEF TypeOK
    <3>2. Left(v) \in Nat /\ Delta(lastIn, v) \in Nat
      BY <3>1, LeftType, DeltaType DEF TypeOK, Ref
    <3>3. counted + Delta(lastIn, v) + Left(v) <= entered
      BY <2>3 DEF Counts
    <3> HIDE DEF v
    <3> QED BY <2>1, <3>2, <3>3 DEF CountedOnce
  <2> QED BY <2>2, <2>3
<1> QED BY <1>1, <1>2, CountStep, TypeCorrect, JobsAlwaysMatch, PTL DEF Spec
=============================================================================
