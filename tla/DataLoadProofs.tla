--------------------------- MODULE DataLoadProofs ---------------------------
(***************************************************************************)
(* Proofs about DataLoad for every number of devices, values, jobs,        *)
(* pollers and users: type correctness; that one job at most writes the    *)
(* DDC, crashes and database errors included; and that a device has one    *)
(* document, unless fillings of the collection overlapped, were cut short  *)
(* or a snapshot was taken in the middle of one.                           *)
(***************************************************************************)
EXTENDS DataLoad, TLAPS

USE DataAssumption DEF Job, Writer

(* The disjuncts of the next-state relation, for the case analyses below.  *)
LEMMA Steps ==
  ASSUME Next
  PROVE  \/ \E p \in Load : BeginLoad(p) \/ DeleteAll(p) \/ Insert(p)
         \/ \E p \in Registration : \/ Register(p) \/ Create(p)
                                    \/ BeginReset(p) \/ ClearPort(p) \/ EndReset(p)
         \/ \E p \in Job : \/ BeginApply(p) \/ ReadBack(p) \/ WriteOut(p) \/ Finish(p)
                           \/ Lose(p)
         \/ \E u \in User : Command(u)
         \/ \E q \in Poller, d \in Device : Poll(q, d)
         \/ \E w \in Writer : Store(w) \/ StoreFails(w)
         \/ TakeSnapshot \/ Crash
<1>1. ASSUME NEW p \in Job, Proceed(p)
      PROVE  \/ \E q \in Load : DeleteAll(q) \/ Insert(q)
             \/ \E q \in Registration : Create(q) \/ BeginReset(q) \/ ClearPort(q) \/ EndReset(q)
             \/ BeginApply(p) \/ ReadBack(p) \/ WriteOut(p) \/ Finish(p)
  BY <1>1, Zenon DEF Proceed
<1> QED BY <1>1, Zenon DEF Next, Copy

-----------------------------------------------------------------------------
(* Parts of a document.                                                    *)
LEMMA DocumentType ==
  /\ \A d \in Document : d.device \in Device /\ d.value \in Value /\ d.made \in 0..MaxMade
  /\ \A x \in Device, v \in Value, n \in 0..MaxMade :
       [device |-> x, value |-> v, made |-> n] \in Document
  /\ \A x \in Device, v \in Value : [device |-> x, value |-> v] \in Reading
  /\ \A r \in Reading : r.device \in Device /\ r.value \in Value
  /\ \A D \in SUBSET Document : Written(D) \subseteq D
  BY DEF Document, Reading, Written

(* What the helpers do to the job that calls them and to the others.       *)
LEMMA GotoOther ==
  ASSUME TypeOK, NEW p \in Job, NEW point \in Point, Goto(p, point)
  PROVE  /\ at'[p] = point /\ at' \in [Job -> Point]
         /\ \A q \in Job \ {p} : at'[q] = at[q]
  BY DEF Goto, TypeOK

LEMMA ReturnEffect ==
  ASSUME TypeOK, NEW p \in Job, Return(p)
  PROVE  /\ at'[p] = "idle" /\ docs'[p] = {} /\ todo'[p] = {}
         /\ \A q \in Job \ {p} : at'[q] = at[q] /\ docs'[q] = docs[q] /\ todo'[q] = todo[q]
         /\ at' \in [Job -> Point]
         /\ docs' \in [Job -> SUBSET Document] /\ todo' \in [Job -> SUBSET Document]
<1>1. "idle" \in Point
  BY DEF Point
<1> QED BY <1>1, GotoOther DEF Return, TypeOK

(* What they do to the history.                                            *)
LEMMA EmptiedEffect ==
  ASSUME TypeOK, NEW p \in Job, NEW events \in SUBSET Event, Emptied(p, events)
  PROVE  /\ past' \in [{"data", "snapshot"} \cup Load -> SUBSET Event]
         /\ past'["snapshot"] = past["snapshot"]
         /\ \A q \in Load : past'[q] = past[q]
         /\ events \subseteq past'["data"]
         /\ "overlap" \notin past'["data"] => \A q \in Job \ {p} : at[q] \notin Filling
<1>1. PICK E \in SUBSET Event :
        /\ past' = [past EXCEPT !["data"] = E] /\ events \subseteq E
        /\ "overlap" \notin E => \A q \in Job \ {p} : at[q] \notin Filling
  <2>1. CASE \E q \in Job \ {p} : at[q] \in Filling
    <3>1. past' = [past EXCEPT !["data"] = past["data"] \cup events \cup {"overlap"}]
      BY <2>1 DEF Emptied
    <3>2. past["data"] \cup events \cup {"overlap"} \in SUBSET Event
      BY DEF Event, TypeOK
    <3> QED BY <3>1, <3>2
  <2>2. CASE ~ \E q \in Job \ {p} : at[q] \in Filling
    BY <2>2 DEF Emptied
  <2> QED BY <2>1, <2>2
<1> QED BY <1>1 DEF TypeOK

LEMMA CutShortEffect ==
  ASSUME TypeOK, CutShort
  PROVE  /\ past' \in [{"data", "snapshot"} \cup Load -> SUBSET Event]
         /\ past'["data"] = past["data"] \cup {"unfinished"}
         /\ past'["snapshot"] = past["snapshot"]
         /\ \A q \in Load : past'[q] = past[q]
  BY DEF CutShort, TypeOK, Event

(* Type correctness: a step keeps the type of every variable.              *)
LEMMA TypeStep == TypeOK /\ [Next]_vars => TypeOK'
<1> SUFFICES ASSUME TypeOK, [Next]_vars PROVE TypeOK'
  OBVIOUS
<1>1. ASSUME NEW p \in Load, BeginLoad(p) PROVE TypeOK'
  BY <1>1 DEF BeginLoad, Goto, Point, Inside, TypeOK
<1>2. ASSUME NEW p \in Registration, Register(p) PROVE TypeOK'
  <2>1. made' \in 0..MaxMade
    BY <1>2 DEF Register, TypeOK
  <2>2. [device : Device, value : {Fresh}, made : {made'}] \subseteq Document
    BY <2>1 DEF Document
  <2>3. /\ at' \in [Job -> Point]
        /\ docs' \in [Job -> SUBSET Document] /\ todo' \in [Job -> SUBSET Document]
    <3>1. CASE Goto(p, "create") /\ docs' = [docs EXCEPT ![p] = [device : Device, value : {Fresh}, made : {made'}]]
               /\ todo' = [todo EXCEPT ![p] = docs'[p]]
      <4>1. docs' \in [Job -> SUBSET Document]
        BY <2>2, <3>1 DEF TypeOK
      <4>2. todo' \in [Job -> SUBSET Document]
        BY <3>1, <4>1 DEF TypeOK
      <4> QED BY <3>1, <4>1, <4>2, GotoOther DEF Point
    <3> QED BY <1>2, <3>1 DEF Register, jobVars, TypeOK
  <2>4. past' \in [{"data", "snapshot"} \cup Load -> SUBSET Event]
    BY <1>2, EmptiedEffect DEF Register, Event
  <2> QED BY <1>2, <2>1, <2>3, <2>4 DEF Register, TypeOK
<1>3. ASSUME NEW p \in Load, DeleteAll(p) PROVE TypeOK'
  <2>1. past[p] \in SUBSET Event /\ "insert" \in Point
    BY DEF TypeOK, Point
  <2>2. past' \in [{"data", "snapshot"} \cup Load -> SUBSET Event]
    BY <1>3, <2>1, EmptiedEffect DEF DeleteAll, TypeOK
  <2>3. data' \subseteq Document
    BY <1>3 DEF DeleteAll, TypeOK
  <2>4. /\ at' \in [Job -> Point]
        /\ docs' \in [Job -> SUBSET Document] /\ todo' \in [Job -> SUBSET Document]
    <3>1. CASE Return(p)
      BY <3>1, ReturnEffect
    <3>2. CASE Goto(p, "insert") /\ UNCHANGED <<docs, todo>>
      BY <3>2, <2>1, GotoOther DEF TypeOK
    <3> QED BY <1>3, <3>1, <3>2 DEF DeleteAll
  <2> QED BY <1>3, <2>2, <2>3, <2>4 DEF DeleteAll, TypeOK
<1>4. ASSUME NEW p \in Load, Insert(p) PROVE TypeOK'
  <2>1. data' \subseteq data \cup docs[p]
    BY <1>4 DEF Insert
  <2>2. past' \in [{"data", "snapshot"} \cup Load -> SUBSET Event]
    BY <1>4, CutShortEffect DEF Insert, TypeOK
  <2>3. /\ at' \in [Job -> Point]
        /\ docs' \in [Job -> SUBSET Document] /\ todo' \in [Job -> SUBSET Document]
    <3>1. CASE Return(p)
      BY <3>1, ReturnEffect
    <3>2. CASE Goto(p, "apply") /\ docs' = [docs EXCEPT ![p] = {}] /\ UNCHANGED todo
      BY <3>2, GotoOther DEF TypeOK, Point
    <3> QED BY <1>4, <3>1, <3>2 DEF Insert
  <2> QED BY <1>4, <2>1, <2>2, <2>3 DEF Insert, TypeOK
<1>5. ASSUME NEW p \in Registration, Create(p) PROVE TypeOK'
  <2>1. data' \subseteq data \cup todo[p]
    BY <1>5 DEF Create
  <2>2. at' \in [Job -> Point]
    BY <1>5 DEF Create, Goto, Point, TypeOK
  <2>3. past' \in [{"data", "snapshot"} \cup Load -> SUBSET Event]
    BY <1>5, CutShortEffect DEF Create, TypeOK
  <2>4. todo' \in [Job -> SUBSET Document]
    BY <1>5 DEF Create, TypeOK
  <2> QED BY <1>5, <2>1, <2>2, <2>3, <2>4 DEF Create, TypeOK
<1>6. ASSUME NEW p \in Registration, BeginReset(p) PROVE TypeOK'
  <2>1. Written(docs[p]) \subseteq Document
    BY DocumentType DEF TypeOK
  <2>2. todo' \in [Job -> SUBSET Document] /\ docs' \in [Job -> SUBSET Document]
    BY <1>6, <2>1 DEF BeginReset, TypeOK
  <2>3. at' \in [Job -> Point]
    BY <1>6 DEF BeginReset, Goto, Point, Inside, TypeOK
  <2> QED BY <1>6, <2>2, <2>3 DEF BeginReset, TypeOK
<1>7. ASSUME NEW p \in Registration, ClearPort(p) PROVE TypeOK'
  BY <1>7, DocumentType DEF ClearPort, TypeOK
<1>8. ASSUME NEW p \in Registration, EndReset(p) PROVE TypeOK'
  BY <1>8 DEF EndReset, Goto, Point, TypeOK
<1>9. ASSUME NEW p \in Job, BeginApply(p) PROVE TypeOK'
  <2>1. CASE applying
    BY <1>9, <2>1, ReturnEffect DEF BeginApply, TypeOK
  <2>2. CASE ~applying
    BY <1>9, <2>2 DEF BeginApply, Goto, Point, Inside, TypeOK
  <2> QED BY <2>1, <2>2
<1>10. ASSUME NEW p \in Job, ReadBack(p) PROVE TypeOK'
  <2>1. Written(data) \subseteq Document
    BY DocumentType DEF TypeOK
  <2>2. CASE Return(p) /\ applying' = FALSE
    BY <1>10, <2>2, ReturnEffect DEF ReadBack, TypeOK
  <2>3. CASE Goto(p, "write") /\ UNCHANGED <<docs, applying>> /\ todo' = [todo EXCEPT ![p] = Written(data)]
    BY <1>10, <2>1, <2>3 DEF ReadBack, Goto, Point, Inside, TypeOK
  <2> QED BY <1>10, <2>2, <2>3 DEF ReadBack
<1>11. ASSUME NEW p \in Job, WriteOut(p) PROVE TypeOK'
  BY <1>11, DocumentType DEF WriteOut, TypeOK
<1>12. ASSUME NEW p \in Job, Finish(p) PROVE TypeOK'
  BY <1>12, ReturnEffect DEF Finish, TypeOK
<1>13. ASSUME NEW p \in Job, Lose(p) PROVE TypeOK'
  BY <1>13 DEF Lose, Goto, Point, Inside, TypeOK
<1>14. ASSUME NEW u \in User, Command(u) PROVE TypeOK'
  <2>1. PICK r \in Reading : /\ register' = [register EXCEPT ![r.device] = r.value]
                             /\ carry' = [carry EXCEPT ![u] = r]
    BY <1>14 DEF Command
  <2>2. register' \in [Device -> Value]
    BY <2>1, DocumentType DEF TypeOK
  <2>3. carry' \in [Writer -> Reading \cup {Nothing}]
    BY <2>1 DEF TypeOK
  <2> QED BY <1>14, <2>2, <2>3 DEF Command, jobVars, TypeOK
<1>15. ASSUME NEW q \in Poller, NEW d \in Device, Poll(q, d) PROVE TypeOK'
  <2>1. [device |-> d, value |-> register[d]] \in Reading
    BY DocumentType DEF TypeOK
  <2>2. carry' \in [Writer -> Reading \cup {Nothing}]
    BY <1>15, <2>1 DEF Poll, TypeOK
  <2> QED BY <1>15, <2>2 DEF Poll, jobVars, TypeOK
<1>16. ASSUME NEW w \in Writer, Store(w) PROVE TypeOK'
  <2>1. carry[w] \in Reading
    BY <1>16 DEF Store, TypeOK
  <2>2. made' \in 0..MaxMade /\ data' \subseteq Document
    BY <1>16, <2>1, DocumentType DEF Store, TypeOK
  <2> QED BY <1>16, <2>2 DEF Store, jobVars, TypeOK
<1>17. ASSUME NEW w \in Writer, StoreFails(w) PROVE TypeOK'
  BY <1>17 DEF StoreFails, jobVars, TypeOK
<1>18. ASSUME TakeSnapshot PROVE TypeOK'
  <2>1. past' \in [{"data", "snapshot"} \cup Load -> SUBSET Event]
    BY <1>18 DEF TakeSnapshot, TypeOK, Event
  <2> QED BY <1>18, <2>1 DEF TakeSnapshot, jobVars, TypeOK
<1>19. ASSUME Crash PROVE TypeOK'
  <2>1. past' \in [{"data", "snapshot"} \cup Load -> SUBSET Event]
    BY <1>19, CutShortEffect DEF Crash, TypeOK
  <2> QED BY <1>19, <2>1 DEF Crash, Point, TypeOK
<1>20. ASSUME UNCHANGED vars PROVE TypeOK'
  BY <1>20 DEF vars, jobVars, TypeOK
<1> QED
  BY <1>1, <1>2, <1>3, <1>4, <1>5, <1>6, <1>7, <1>8, <1>9, <1>10, <1>11, <1>12,
     <1>13, <1>14, <1>15, <1>16, <1>17, <1>18, <1>19, <1>20, Steps, Zenon

(* Every variable keeps its type, whatever the jobs, pollers and users do. *)
THEOREM Typing == Safety => []TypeOK
<1>1. Init => TypeOK
  <2>1. [device : Device, value : {Fresh}, made : {0}] \subseteq Document
    BY DEF Document
  <2> SUFFICES ASSUME Init PROVE TypeOK
    OBVIOUS
  <2>2. data \subseteq Document /\ snapshot \subseteq Document /\ made \in 0..MaxMade
    BY <2>1 DEF Init
  <2>3. at \in [Job -> Point]
    BY DEF Init, Point
  <2>4. docs \in [Job -> SUBSET Document] /\ todo \in [Job -> SUBSET Document]
    BY DEF Init
  <2>5. carry \in [Writer -> Reading \cup {Nothing}]
    BY DEF Init
  <2>6. past \in [{"data", "snapshot"} \cup Load -> SUBSET Event]
    BY DEF Init
  <2> QED BY <2>2, <2>3, <2>4, <2>5, <2>6 DEF Init, TypeOK
<1> QED BY <1>1, TypeStep, PTL DEF Safety

-----------------------------------------------------------------------------
(* A job enters the service only when nobody is inside and sets the flag;  *)
(* it leaves it in the step that clears the flag.                          *)
LEMMA ApplicationStep == TypeOK /\ OneApplication /\ [Next]_vars => OneApplication'
<1> SUFFICES ASSUME TypeOK, OneApplication, [Next]_vars PROVE OneApplication'
  OBVIOUS
<1> USE DEF Point, Inside
(* A step that keeps everybody inside or outside, and the flag.            *)
<1>0. ASSUME applying' = applying,
             \A q \in Job : (at'[q] \in Inside) <=> (at[q] \in Inside)
      PROVE  OneApplication'
  BY <1>0 DEF OneApplication
(* A step in which p, and it alone, comes to be inside.                    *)
<1>00. ASSUME NEW p \in Job, ~applying, applying', at'[p] \in Inside,
              \A q \in Job \ {p} : at'[q] = at[q]
       PROVE  OneApplication'
  BY <1>00 DEF OneApplication
(* A step in which p, which was inside, comes out.                         *)
<1>000. ASSUME NEW p \in Job, at[p] \in Inside, ~applying', at'[p] \notin Inside,
               \A q \in Job \ {p} : at'[q] = at[q]
        PROVE  OneApplication'
  BY <1>000 DEF OneApplication
<1>1. ASSUME NEW p \in Load, BeginLoad(p) PROVE OneApplication'
  BY <1>1, <1>0, GotoOther DEF BeginLoad
<1>2. ASSUME NEW p \in Registration, Register(p) PROVE OneApplication'
  <2>1. CASE Goto(p, "create")
    BY <1>2, <2>1, <1>0, GotoOther DEF Register
  <2>2. CASE UNCHANGED jobVars
    BY <1>2, <2>2, <1>0 DEF Register, jobVars
  <2> QED BY <1>2, <2>1, <2>2 DEF Register
<1>3. ASSUME NEW p \in Load, DeleteAll(p) PROVE OneApplication'
  BY <1>3, <1>0, GotoOther, ReturnEffect DEF DeleteAll
<1>4. ASSUME NEW p \in Load, Insert(p) PROVE OneApplication'
  BY <1>4, <1>0, GotoOther, ReturnEffect DEF Insert
<1>5. ASSUME NEW p \in Registration, Create(p) PROVE OneApplication'
  BY <1>5, <1>0, GotoOther DEF Create
<1>6. ASSUME NEW p \in Registration, BeginReset(p) PROVE OneApplication'
  BY <1>6, <1>0, <1>00, GotoOther DEF BeginReset
<1>7. ASSUME NEW p \in Registration, ClearPort(p) PROVE OneApplication'
  BY <1>7, <1>0 DEF ClearPort
<1>8. ASSUME NEW p \in Registration, EndReset(p) PROVE OneApplication'
  BY <1>8, <1>000, GotoOther DEF EndReset
<1>9. ASSUME NEW p \in Job, BeginApply(p) PROVE OneApplication'
  BY <1>9, <1>0, <1>00, GotoOther, ReturnEffect DEF BeginApply
<1>10. ASSUME NEW p \in Job, ReadBack(p) PROVE OneApplication'
  BY <1>10, <1>0, <1>000, GotoOther, ReturnEffect DEF ReadBack
<1>11. ASSUME NEW p \in Job, WriteOut(p) PROVE OneApplication'
  BY <1>11, <1>0 DEF WriteOut
<1>12. ASSUME NEW p \in Job, Finish(p) PROVE OneApplication'
  BY <1>12, <1>000, ReturnEffect DEF Finish
<1>13. ASSUME NEW p \in Job, Lose(p) PROVE OneApplication'
  BY <1>13, <1>0, GotoOther DEF Lose
<1>14. ASSUME NEW u \in User, Command(u) PROVE OneApplication'
  BY <1>14, <1>0 DEF Command, jobVars
<1>15. ASSUME NEW q \in Poller, NEW d \in Device, Poll(q, d) PROVE OneApplication'
  BY <1>15, <1>0 DEF Poll, jobVars
<1>16. ASSUME NEW w \in Writer, Store(w) \/ StoreFails(w) PROVE OneApplication'
  BY <1>16, <1>0 DEF Store, StoreFails, jobVars
<1>17. ASSUME TakeSnapshot PROVE OneApplication'
  BY <1>17, <1>0 DEF TakeSnapshot, jobVars
<1>18. ASSUME Crash PROVE OneApplication'
  BY <1>18 DEF Crash, OneApplication
<1>19. ASSUME UNCHANGED vars PROVE OneApplication'
  BY <1>19, <1>0 DEF vars, jobVars
<1> QED
  BY <1>1, <1>2, <1>3, <1>4, <1>5, <1>6, <1>7, <1>8, <1>9, <1>10, <1>11, <1>12,
     <1>13, <1>14, <1>15, <1>16, <1>17, <1>18, <1>19, Steps, Zenon

(* However many loads and registrations overlap, one at most writes the    *)
(* DDC, and the flag says whether one does.                                *)
THEOREM ApplicationsExclude == Safety => []OneApplication
<1>1. Init => OneApplication
  BY DEF Init, OneApplication, Inside
<1> QED BY <1>1, Typing, ApplicationStep, PTL DEF Safety

-----------------------------------------------------------------------------
(* A registration whose write was dropped from the queue keeps every other  *)
(* job out of the service until the process is restarted: each load is      *)
(* refused and each registration leaves the DDC as it is (isApplying, which *)
(* only the finally block of that registration clears).                     *)
LostBlocks ==
  [][\A p \in Job : at[p] = "lost" /\ ~Crash =>
       /\ at'[p] = "lost" /\ applying'
       /\ \A q \in Job \ {p} : at'[q] \notin Inside]_vars

LEMMA LostStep ==
  ASSUME TypeOK, NEW p \in Job, at[p] = "lost", [Next]_vars, ~Crash
  PROVE  at'[p] = "lost"
<1> USE DEF Point, Inside
(* The steps of another job, and those of none.                            *)
<1>0. ASSUME NEW q \in Job, q # p, NEW point \in Point, Goto(q, point) \/ Return(q)
      PROVE  at'[p] = "lost"
  BY <1>0, GotoOther, ReturnEffect
<1>00. ASSUME UNCHANGED at PROVE at'[p] = "lost"
  BY <1>00
<1>1. ASSUME NEW q \in Load, BeginLoad(q) \/ DeleteAll(q) \/ Insert(q)
      PROVE  at'[p] = "lost"
  BY <1>0, <1>1 DEF BeginLoad, DeleteAll, Insert
<1>2. ASSUME NEW q \in Registration, Register(q) PROVE at'[p] = "lost"
  BY <1>0, <1>00, <1>2 DEF Register, jobVars
<1>3. ASSUME NEW q \in Registration, Create(q) \/ BeginReset(q) PROVE at'[p] = "lost"
  BY <1>0, <1>00, <1>3 DEF Create, BeginReset
<1>4. ASSUME NEW q \in Registration, ClearPort(q) \/ EndReset(q) PROVE at'[p] = "lost"
  BY <1>0, <1>00, <1>4 DEF ClearPort, EndReset
<1>5. ASSUME NEW q \in Job, BeginApply(q) \/ ReadBack(q) PROVE at'[p] = "lost"
  BY <1>0, <1>5 DEF BeginApply, ReadBack
<1>6. ASSUME NEW q \in Job, WriteOut(q) \/ Finish(q) PROVE at'[p] = "lost"
  BY <1>0, <1>00, <1>6 DEF WriteOut, Finish
<1>7. ASSUME NEW q \in Job, Lose(q) PROVE at'[p] = "lost"
  BY <1>0, <1>7 DEF Lose
<1>8. ASSUME \/ \E u \in User : Command(u)
             \/ \E q \in Poller, d \in Device : Poll(q, d)
             \/ \E w \in Writer : Store(w) \/ StoreFails(w)
             \/ TakeSnapshot \/ UNCHANGED vars
      PROVE  UNCHANGED at
  BY <1>8, Zenon DEF Command, Poll, Store, StoreFails, TakeSnapshot, vars, jobVars
<1> QED
  BY <1>00, <1>1, <1>2, <1>3, <1>4, <1>5, <1>6, <1>7, <1>8, Steps, Zenon

THEOREM LostWriteBlocks == Safety => LostBlocks
<1>1. TypeOK /\ OneApplication /\ OneApplication' /\ [Next]_vars =>
        [\A p \in Job : at[p] = "lost" /\ ~Crash =>
           /\ at'[p] = "lost" /\ applying'
           /\ \A q \in Job \ {p} : at'[q] \notin Inside]_vars
  <2> SUFFICES ASSUME TypeOK, OneApplication', [Next]_vars,
                      NEW p \in Job, at[p] = "lost", ~Crash
               PROVE  /\ at'[p] = "lost" /\ applying'
                      /\ \A q \in Job \ {p} : at'[q] \notin Inside
    OBVIOUS
  <2>1. at'[p] = "lost"
    BY LostStep
  <2>2. at'[p] \in Inside
    BY <2>1 DEF Inside
  <2> QED BY <2>1, <2>2 DEF OneApplication
<1> QED BY <1>1, Typing, ApplicationsExclude, PTL DEF Safety, LostBlocks

-----------------------------------------------------------------------------
(* A step of p that neither empties nor fills the collection.              *)
Elsewhere(p) ==
  /\ data' = data /\ snapshot' = snapshot /\ made' = made /\ past' = past
  /\ \A q \in Job \ {p} : at'[q] = at[q] /\ docs'[q] = docs[q] /\ todo'[q] = todo[q]
  /\ at[p] \notin Filling /\ at'[p] \notin Filling \cup {"delete"}
  /\ docs'[p] \subseteq docs[p] /\ todo'[p] \subseteq docs[p] \cup todo[p] \cup data

(* A step that has nothing to do with a job or a document.                 *)
Untouched ==
  data' = data /\ snapshot' = snapshot /\ made' = made /\ past' = past
  /\ at' = at /\ docs' = docs /\ todo' = todo

(* The steps that matter to the documents, and the others.                 *)
LEMMA DocumentSteps ==
  ASSUME TypeOK, [Next]_vars
  PROVE  \/ \E p \in Load : BeginLoad(p) \/ DeleteAll(p) \/ Insert(p)
         \/ \E p \in Registration : Register(p) \/ Create(p)
         \/ \E p \in Job : Elsewhere(p)
         \/ Untouched
         \/ \E w \in Writer : Store(w)
         \/ TakeSnapshot \/ Crash
<1> USE DEF Point, Inside, Filling
<1>1. ASSUME NEW p \in Registration, BeginReset(p) PROVE Elsewhere(p)
  <2>1. \A q \in Job \ {p} : at'[q] = at[q] /\ docs'[q] = docs[q] /\ todo'[q] = todo[q]
    BY <1>1, GotoOther DEF BeginReset, TypeOK
  <2>2. at'[p] \in {"apply", "clear"} /\ docs'[p] = {}
    BY <1>1, GotoOther DEF BeginReset, TypeOK
  <2>3. todo'[p] \subseteq docs[p] \cup todo[p]
    BY <1>1 DEF BeginReset, TypeOK, Written
  <2> QED BY <1>1, <2>1, <2>2, <2>3 DEF BeginReset, Elsewhere
<1>2. ASSUME NEW p \in Registration, ClearPort(p) PROVE Elsewhere(p)
  BY <1>2 DEF ClearPort, Elsewhere, TypeOK
<1>3. ASSUME NEW p \in Registration, EndReset(p) PROVE Elsewhere(p)
  BY <1>3, GotoOther DEF EndReset, Elsewhere
<1>4. ASSUME NEW p \in Job, BeginApply(p) PROVE Elsewhere(p)
  BY <1>4, GotoOther, ReturnEffect DEF BeginApply, Elsewhere
<1>5. ASSUME NEW p \in Job, ReadBack(p) PROVE Elsewhere(p)
  <2>1. CASE Return(p)
    BY <1>5, <2>1, ReturnEffect DEF ReadBack, Elsewhere
  <2>2. CASE Goto(p, "write") /\ docs' = docs /\ todo' = [todo EXCEPT ![p] = Written(data)]
    <3>1. todo'[p] \subseteq data /\ \A q \in Job \ {p} : todo'[q] = todo[q]
      BY <2>2 DEF TypeOK, Written
    <3> QED BY <1>5, <2>2, <3>1, GotoOther DEF ReadBack, Elsewhere
  <2> QED BY <1>5, <2>1, <2>2 DEF ReadBack
<1>6. ASSUME NEW p \in Job, WriteOut(p) PROVE Elsewhere(p)
  BY <1>6 DEF WriteOut, Elsewhere, TypeOK
<1>7. ASSUME NEW p \in Job, Finish(p) PROVE Elsewhere(p)
  BY <1>7, ReturnEffect DEF Finish, Elsewhere
<1>8. ASSUME NEW p \in Job, Lose(p) PROVE Elsewhere(p)
  BY <1>8, GotoOther DEF Lose, Elsewhere
<1>9. ASSUME NEW u \in User, Command(u) PROVE Untouched
  BY <1>9 DEF Command, jobVars, Untouched
<1>10. ASSUME NEW q \in Poller, NEW d \in Device, Poll(q, d) PROVE Untouched
  BY <1>10 DEF Poll, jobVars, Untouched
<1>11. ASSUME NEW w \in Writer, StoreFails(w) PROVE Untouched
  BY <1>11 DEF StoreFails, jobVars, Untouched
<1>12. CASE UNCHANGED vars
  BY <1>12 DEF vars, jobVars, Untouched
<1>13. CASE Next
  BY <1>13, <1>1, <1>2, <1>3, <1>4, <1>5, <1>6, <1>7, <1>8, <1>9, <1>10, <1>11, Steps, Zenon
<1> QED BY <1>12, <1>13

-----------------------------------------------------------------------------
(* Two jobs fill the collection at once only after an overlap.             *)
Overlapped(s) == "overlap" \in past[s]

OneFilling ==
  ~Overlapped("data") =>
    \A p, q \in Job : at[p] \in Filling /\ at[q] \in Filling => p = q

LEMMA OneFillingStep == TypeOK /\ OneFilling /\ [Next]_vars => OneFilling'
<1> SUFFICES ASSUME TypeOK, OneFilling, [Next]_vars, ~Overlapped("data")'
             PROVE  \A p, q \in Job : at'[p] \in Filling /\ at'[q] \in Filling => p = q
  BY DEF OneFilling
<1> USE DEF Overlapped
(* The others are not filling, or nobody begins to.                        *)
<1>0. ASSUME NEW p \in Job, \A q \in Job \ {p} : at[q] \notin Filling,
             \A q \in Job \ {p} : at'[q] = at[q]
      PROVE  \A q, r \in Job : at'[q] \in Filling /\ at'[r] \in Filling => q = r
  BY <1>0
<1>00. ASSUME ~Overlapped("data"), \A q \in Job : at'[q] \in Filling => at[q] \in Filling
       PROVE  \A q, r \in Job : at'[q] \in Filling /\ at'[r] \in Filling => q = r
  BY <1>00 DEF OneFilling
<1> DEFINE Goal == \A q, r \in Job : at'[q] \in Filling /\ at'[r] \in Filling => q = r
<1>1. ASSUME NEW p \in Load, BeginLoad(p) PROVE Goal
  BY <1>1, <1>00, GotoOther DEF BeginLoad, TypeOK, Point, Filling
<1>2. ASSUME NEW p \in Load, DeleteAll(p) PROVE Goal
  <2>1. CASE Return(p) /\ past' = past
    BY <2>1, <1>00, ReturnEffect DEF Filling
  <2>2. CASE Goto(p, "insert") /\ Emptied(p, past[p])
    <3>1. past[p] \in SUBSET Event
      BY DEF TypeOK
    <3>2. \A q \in Job \ {p} : at[q] \notin Filling
      BY <2>2, <3>1, EmptiedEffect
    <3> QED BY <2>2, <3>2, <1>0, GotoOther DEF Point
  <2> QED BY <1>2, <2>1, <2>2 DEF DeleteAll
<1>3. ASSUME NEW p \in Load, Insert(p) PROVE Goal
  <2>1. ~Overlapped("data")
    BY <1>3, CutShortEffect DEF Insert
  <2>2. at'[p] \notin Filling /\ \A q \in Job \ {p} : at'[q] = at[q]
    BY <1>3, GotoOther, ReturnEffect DEF Insert, Filling, Point
  <2> QED BY <2>1, <2>2, <1>00
<1>4. ASSUME NEW p \in Registration, Register(p) PROVE Goal
  <2>1. PICK events \in SUBSET Event : Emptied(p, events)
    BY <1>4 DEF Register, Event
  <2>2. \A q \in Job \ {p} : at[q] \notin Filling
    BY <2>1, EmptiedEffect
  <2>3. \A q \in Job \ {p} : at'[q] = at[q]
    BY <1>4, GotoOther DEF Register, jobVars, Point
  <2> QED BY <2>2, <2>3, <1>0
<1>5. ASSUME NEW p \in Registration, Create(p) PROVE Goal
  <2>1. ~Overlapped("data")
    BY <1>5, CutShortEffect DEF Create
  <2>2. at[p] \in Filling /\ \A q \in Job \ {p} : at'[q] = at[q]
    BY <1>5, GotoOther DEF Create, Filling, Point
  <2> QED BY <2>1, <2>2, <1>00
<1>6. ASSUME NEW p \in Job, Elsewhere(p) PROVE Goal
  BY <1>6, <1>00 DEF Elsewhere
<1>7. ASSUME Untouched PROVE Goal
  BY <1>7, <1>00 DEF Untouched
<1>8. ASSUME NEW w \in Writer, Store(w) PROVE Goal
  BY <1>8, <1>00 DEF Store, jobVars
<1>9. ASSUME TakeSnapshot PROVE Goal
  BY <1>9, <1>00 DEF TakeSnapshot, jobVars, TypeOK
<1>10. ASSUME Crash PROVE Goal
  BY <1>10 DEF Crash, Filling
<1> QED
  BY <1>1, <1>2, <1>3, <1>4, <1>5, <1>6, <1>7, <1>8, <1>9, <1>10, DocumentSteps, Zenon

-----------------------------------------------------------------------------
(* No DDC device has two documents: neither in the collection, nor in a    *)
(* snapshot or in what a job is to put in, each unless it has come about   *)
(* by an overlap; and what a job is to put in is not there yet.            *)
Single(D) == \A d, e \in D : d.device = e.device /\ d.device \notin Counter => d = e

EachOnce ==
  /\ ~Overlapped("snapshot") => Single(snapshot)
  /\ \A p \in Load : at[p] \in {"delete", "insert"} /\ ~Overlapped(p) => Single(docs[p])
  /\ ~Overlapped("data") =>
       /\ Single(data)
       /\ \A p \in Load : at[p] = "insert" =>
            ~Overlapped(p) /\ \A d \in data : d.device \in Counter
       /\ \A p \in Registration : at[p] = "create" =>
            /\ Single(todo[p])
            /\ \A d \in data, e \in todo[p] : d.device = e.device => d.device \in Counter

(* What Store does to the collection: it replaces a document by one of the *)
(* same device and _id, inserts one of the people counter, or nothing.     *)
LEMMA StoreEffect ==
  ASSUME TypeOK, NEW w \in Writer, Store(w)
  PROVE  \/ \E d \in data, e \in Document :
              /\ e.device = d.device /\ e.made = d.made
              /\ data' = (data \ {d}) \cup {e} /\ made' = made
         \/ \E e \in Document :
              /\ e.device \in Counter /\ e.made = made + 1
              /\ data' = data \cup {e} /\ made' = made + 1
         \/ data' = data /\ made' = made
<1> DEFINE r == carry[w]
           new(id) == [device |-> r.device, value |-> r.value, made |-> id]
<1>1. r \in Reading
  BY DEF Store, TypeOK
<1>2. r.device \in Device /\ r.value \in Value
  BY <1>1, DocumentType
<1>3. ASSUME NEW d \in data, d.device = r.device, data' = (data \ {d}) \cup {new(d.made)}
      PROVE  /\ new(d.made) \in Document
             /\ new(d.made).device = d.device /\ new(d.made).made = d.made
  <2>1. d.made \in 0..MaxMade
    BY DocumentType DEF TypeOK
  <2> QED BY <1>2, <1>3, <2>1, DocumentType
<1>4. ASSUME r.device \in Counter, made < MaxMade, made' = made + 1
      PROVE  /\ new(made') \in Document
             /\ new(made').device \in Counter /\ new(made').made = made + 1
  <2>1. made' \in 0..MaxMade
    BY <1>4 DEF TypeOK
  <2> QED BY <1>2, <1>4, <2>1, DocumentType
<1> QED BY <1>3, <1>4 DEF Store, Upserts

(* A store leaves single what was single.                                  *)
LEMMA StoreSingle ==
  ASSUME TypeOK, EachOnce, NEW w \in Writer, Store(w)
  PROVE  EachOnce'
<1> USE DEF Overlapped
<1>1. /\ snapshot' = snapshot /\ at' = at /\ docs' = docs /\ todo' = todo /\ past' = past
  BY DEF Store, jobVars
<1>2. ASSUME NEW d \in data, NEW e \in Document, e.device = d.device,
             data' = (data \ {d}) \cup {e}
      PROVE  EachOnce'
  <2>1. Single(data) => Single(data')
    BY <1>2 DEF Single
  <2>2. ASSUME NEW c \in data' PROVE \E b \in data : b.device = c.device
    BY <1>2
  <2> QED BY <1>1, <2>1, <2>2 DEF EachOnce
<1>3. ASSUME NEW e \in Document, e.device \in Counter, data' = data \cup {e}
      PROVE  EachOnce'
  BY <1>1, <1>3 DEF EachOnce, Single
<1>4. ASSUME data' = data PROVE EachOnce'
  BY <1>1, <1>4 DEF EachOnce
<1> QED BY <1>2, <1>3, <1>4, StoreEffect

LEMMA EachOnceStep ==
  TypeOK /\ OneFilling /\ EachOnce /\ [Next]_vars => EachOnce'
<1> SUFFICES ASSUME TypeOK, OneFilling, EachOnce, [Next]_vars PROVE EachOnce'
  OBVIOUS
<1> USE DEF Overlapped
<1>1. ASSUME NEW p \in Load, BeginLoad(p) PROVE EachOnce'
  <2>1. at'[p] = "delete" /\ docs'[p] = snapshot /\ past'[p] = past["snapshot"]
    BY <1>1, GotoOther DEF BeginLoad, TypeOK, Point
  <2>2. \A q \in Job \ {p} : at'[q] = at[q] /\ docs'[q] = docs[q]
    BY <1>1, GotoOther DEF BeginLoad, TypeOK, Point
  <2>3. /\ past'["data"] = past["data"] /\ past'["snapshot"] = past["snapshot"]
        /\ \A q \in Load \ {p} : past'[q] = past[q]
    BY <1>1 DEF BeginLoad, TypeOK
  <2>4. data' = data /\ snapshot' = snapshot /\ todo' = todo
    BY <1>1 DEF BeginLoad
  <2> QED BY <2>1, <2>2, <2>3, <2>4 DEF EachOnce
<1>2. ASSUME NEW p \in Load, DeleteAll(p) PROVE EachOnce'
  <2>1. CASE Return(p) /\ UNCHANGED <<data, past>>
    <3>1. snapshot' = snapshot
      BY <1>2 DEF DeleteAll
    <3> QED BY <2>1, <3>1, ReturnEffect DEF EachOnce
  <2>2. CASE data' = {} /\ Goto(p, "insert") /\ UNCHANGED <<docs, todo>> /\ Emptied(p, past[p])
    <3>1. at'[p] = "insert" /\ at[p] = "delete" /\ \A q \in Job \ {p} : at'[q] = at[q]
      BY <1>2, <2>2, GotoOther DEF DeleteAll, Point
    <3>2. past[p] \in SUBSET Event
      BY DEF TypeOK
    <3>3. /\ past'["snapshot"] = past["snapshot"] /\ \A q \in Load : past'[q] = past[q]
          /\ past[p] \subseteq past'["data"]
          /\ "overlap" \notin past'["data"] => \A q \in Job \ {p} : at[q] \notin Filling
      BY <2>2, <3>2, EmptiedEffect
    <3>4. snapshot' = snapshot /\ Single(data')
      BY <1>2, <2>2 DEF DeleteAll, Single
    <3>5. "overlap" \notin past'["data"] =>
            \A q \in Job \ {p} : at'[q] \notin {"insert", "create"}
      BY <3>1, <3>3 DEF Filling
    <3> QED BY <2>2, <3>1, <3>3, <3>4, <3>5 DEF EachOnce
  <2> QED BY <1>2, <2>1, <2>2 DEF DeleteAll
<1>3. ASSUME NEW p \in Load, Insert(p) PROVE EachOnce'
  <2>1. at[p] = "insert" /\ snapshot' = snapshot /\ data' \subseteq data \cup docs[p]
    BY <1>3 DEF Insert
  <2>2. /\ at'[p] \in {"apply", "idle"}
        /\ \A q \in Job \ {p} : at'[q] = at[q] /\ docs'[q] = docs[q] /\ todo'[q] = todo[q]
    BY <1>3, GotoOther, ReturnEffect DEF Insert, TypeOK, Point
  <2>3. /\ past'["snapshot"] = past["snapshot"] /\ \A q \in Load : past'[q] = past[q]
        /\ past["data"] \subseteq past'["data"]
    BY <1>3, CutShortEffect DEF Insert
  <2>4. ASSUME "overlap" \notin past["data"]
        PROVE  /\ \A q \in Job \ {p} : at[q] \notin {"insert", "create"}
               /\ Single(data')
    <3>1. \A q \in Job \ {p} : at[q] \notin {"insert", "create"}
      BY <2>1, <2>4 DEF OneFilling, Filling
    <3>2. Single(docs[p]) /\ \A d \in data : d.device \in Counter
      BY <2>1, <2>4 DEF EachOnce
    <3> QED BY <2>1, <3>1, <3>2 DEF Single
  <2> QED BY <2>1, <2>2, <2>3, <2>4 DEF EachOnce
<1>4. ASSUME NEW p \in Registration, Register(p) PROVE EachOnce'
  <2>1. data' = {} /\ snapshot' = snapshot /\ Single(data')
    BY <1>4 DEF Register, Single
  <2>2. PICK events \in SUBSET Event : Emptied(p, events)
    BY <1>4 DEF Register, Event
  <2>3. /\ past'["snapshot"] = past["snapshot"] /\ \A q \in Load : past'[q] = past[q]
        /\ "overlap" \notin past'["data"] => \A q \in Job \ {p} : at[q] \notin Filling
    BY <2>2, EmptiedEffect
  <2>4. /\ at'[p] \in {"idle", "create"}
        /\ \A q \in Job \ {p} : at'[q] = at[q] /\ docs'[q] = docs[q] /\ todo'[q] = todo[q]
    BY <1>4, GotoOther DEF Register, jobVars, TypeOK, Point
  <2>5. at'[p] = "create" => Single(todo'[p])
    <3>1. CASE at' = at
      BY <1>4, <3>1 DEF Register
    <3>2. CASE docs' = [docs EXCEPT ![p] = [device : Device, value : {Fresh}, made : {made'}]]
               /\ todo' = [todo EXCEPT ![p] = docs'[p]]
      <4>1. todo'[p] = [device : Device, value : {Fresh}, made : {made'}]
        BY <3>2 DEF TypeOK
      <4> QED BY <4>1 DEF Single
    <3> QED BY <1>4, <3>1, <3>2 DEF Register, jobVars
  <2>6. "overlap" \notin past'["data"] =>
          \A q \in Job \ {p} : at'[q] \notin {"insert", "create"}
    BY <2>3, <2>4 DEF Filling
  <2>7. \A q \in Load : q # p
    OBVIOUS
  <2> QED BY <2>1, <2>3, <2>4, <2>5, <2>6, <2>7 DEF EachOnce
<1>5. ASSUME NEW p \in Registration, Create(p) PROVE EachOnce'
  <2>1. PICK d \in todo[p] : /\ data' \subseteq data \cup {d}
                             /\ todo' = [todo EXCEPT ![p] = @ \ {d}]
    BY <1>5 DEF Create
  <2>2. snapshot' = snapshot /\ docs' = docs /\ at[p] = "create" /\ todo'[p] = todo[p] \ {d}
    BY <1>5, <2>1 DEF Create, TypeOK
  <2>3. /\ at'[p] \in {"create", "reset"}
        /\ \A q \in Job \ {p} : at'[q] = at[q] /\ todo'[q] = todo[q]
    BY <1>5, <2>1, <2>2, GotoOther DEF Create, Point, TypeOK
  <2>4. /\ past'["snapshot"] = past["snapshot"] /\ \A q \in Load : past'[q] = past[q]
        /\ past["data"] \subseteq past'["data"]
    BY <1>5, CutShortEffect DEF Create
  <2>5. ASSUME "overlap" \notin past["data"]
        PROVE  /\ \A q \in Job \ {p} : at[q] \notin {"insert", "create"}
               /\ Single(data') /\ Single(todo'[p])
               /\ \A c \in data', e \in todo'[p] : c.device = e.device => c.device \in Counter
    <3>1. \A q \in Job \ {p} : at[q] \notin {"insert", "create"}
      BY <2>2, <2>5 DEF OneFilling, Filling
    <3>2. /\ Single(data) /\ Single(todo[p])
          /\ \A c \in data, e \in todo[p] : c.device = e.device => c.device \in Counter
      BY <2>2, <2>5 DEF EachOnce
    <3>3. Single(data') /\ Single(todo'[p])
      BY <2>1, <2>2, <3>2 DEF Single
    <3>4. \A c \in data', e \in todo'[p] : c.device = e.device => c.device \in Counter
      BY <2>1, <2>2, <3>2 DEF Single
    <3> QED BY <3>1, <3>3, <3>4
  <2>6. \A q \in Load : q # p
    OBVIOUS
  <2> QED BY <2>2, <2>3, <2>4, <2>5, <2>6 DEF EachOnce
<1>6. ASSUME NEW p \in Job, Elsewhere(p) PROVE EachOnce'
  <2>1. at'[p] \notin {"delete", "insert", "create"}
    BY <1>6 DEF Elsewhere, Filling
  <2> QED BY <1>6, <2>1 DEF Elsewhere, EachOnce
<1>7. ASSUME Untouched PROVE EachOnce'
  BY <1>7 DEF Untouched, EachOnce
<1>8. ASSUME NEW w \in Writer, Store(w) PROVE EachOnce'
  BY <1>8, StoreSingle
<1>9. ASSUME TakeSnapshot PROVE EachOnce'
  <2>1. /\ past["data"] \subseteq past'["snapshot"] /\ past'["data"] = past["data"]
        /\ \A q \in Load : past'[q] = past[q]
    BY <1>9 DEF TakeSnapshot, TypeOK
  <2> QED BY <1>9, <2>1 DEF TakeSnapshot, jobVars, EachOnce
<1>10. ASSUME Crash PROVE EachOnce'
  <2>1. /\ past["data"] \subseteq past'["data"] /\ past'["snapshot"] = past["snapshot"]
        /\ \A q \in Load : past'[q] = past[q]
    BY <1>10, CutShortEffect DEF Crash
  <2> QED BY <1>10, <2>1 DEF Crash, EachOnce
<1> QED
  BY <1>1, <1>2, <1>3, <1>4, <1>5, <1>6, <1>7, <1>8, <1>9, <1>10, DocumentSteps, Zenon

LEMMA OneFillingInit == Init => OneFilling
  BY DEF Init, OneFilling, Filling

(* Unless fillings of the collection overlapped, no DDC device has two     *)
(* documents, crashes, database errors and lost jobs included.             *)
THEOREM OneDocumentEach == Safety => []OneDocument
<1>1. Init => EachOnce
  BY DEF Init, EachOnce, Single
<1>2. EachOnce => OneDocument
  BY DEF EachOnce, Single, OneDocument, Written, Overlapped
<1> QED BY <1>1, <1>2, OneFillingInit, OneFillingStep, EachOnceStep, Typing, PTL DEF Safety

-----------------------------------------------------------------------------
(* Unless something came in between, no device is left without a document: *)
(* what is in the collection and what a job is still to put there make up  *)
(* all devices; and an insertion meets no _id, because what the people     *)
(* counter's poller inserts meanwhile is newer than any document under way.*)
Covers(D) == \A x \in Device : \E d \in D : d.device = x

(* Every _id is of a generation there has been.                            *)
MadeBefore ==
  /\ \A d \in data \cup snapshot : d.made <= made
  /\ \A p \in Job : \A d \in docs[p] \cup todo[p] : d.made <= made

NoneLost ==
  /\ past["snapshot"] = {} => Covers(snapshot)
  /\ \A p \in Load : at[p] \in {"delete", "insert"} /\ past[p] = {} => Covers(docs[p])
  /\ past["data"] = {} =>
       /\ \A p \in Load : at[p] = "insert" =>
            past[p] = {} /\ \A d \in data, e \in docs[p] : d.made > e.made
       /\ \A p \in Registration : at[p] = "create" => Covers(data \cup todo[p])
       /\ (\A p \in Job : at[p] \notin Filling) => Covers(data)

LEMMA MadeTypes ==
  ASSUME TypeOK
  PROVE  /\ made \in Nat
         /\ \A d \in data \cup snapshot : d.made \in Nat
         /\ \A p \in Job : \A d \in docs[p] \cup todo[p] : d.made \in Nat
<1>1. \A d \in Document : d.made \in Nat
  BY DocumentType
<1> QED BY <1>1 DEF TypeOK

LEMMA MadeBeforeStep == TypeOK /\ MadeBefore /\ [Next]_vars => MadeBefore'
<1> SUFFICES ASSUME TypeOK, MadeBefore, [Next]_vars PROVE MadeBefore'
  OBVIOUS
(* No document comes about, or only such as are of the generation made'.   *)
<1>0. ASSUME made' = made, data' \cup snapshot' \subseteq data \cup snapshot,
             \A p \in Job : docs'[p] \cup todo'[p] \subseteq
                              docs[p] \cup todo[p] \cup data \cup snapshot
      PROVE  MadeBefore'
  BY <1>0 DEF MadeBefore
<1>1. ASSUME NEW p \in Load, BeginLoad(p) PROVE MadeBefore'
  <2>1. \A q \in Job : docs'[q] \cup todo'[q] \subseteq docs[q] \cup todo[q] \cup snapshot
    BY <1>1 DEF BeginLoad, TypeOK
  <2> QED BY <1>1, <2>1, <1>0 DEF BeginLoad
<1>2. ASSUME NEW p \in Load, DeleteAll(p) PROVE MadeBefore'
  <2>1. \A q \in Job : docs'[q] \cup todo'[q] \subseteq docs[q] \cup todo[q]
    BY <1>2, ReturnEffect DEF DeleteAll
  <2> QED BY <1>2, <2>1, <1>0 DEF DeleteAll
<1>3. ASSUME NEW p \in Load, Insert(p) PROVE MadeBefore'
  <2>1. \A q \in Job : docs'[q] \cup todo'[q] \subseteq docs[q] \cup todo[q]
    BY <1>3, ReturnEffect DEF Insert, TypeOK
  <2>2. data' \subseteq data \cup docs[p] /\ snapshot' = snapshot /\ made' = made
    BY <1>3 DEF Insert
  <2> QED BY <2>1, <2>2 DEF MadeBefore
<1>4. ASSUME NEW p \in Registration, Register(p) PROVE MadeBefore'
  <2>1. data' = {} /\ snapshot' = snapshot /\ made' = made + 1
    BY <1>4 DEF Register
  <2>2. \A q \in Job : \A d \in docs'[q] \cup todo'[q] :
          d \in docs[q] \cup todo[q] \/ d.made = made'
    <3>1. CASE UNCHANGED jobVars
      BY <3>1 DEF jobVars
    <3>2. CASE /\ docs' = [docs EXCEPT ![p] = [device : Device, value : {Fresh}, made : {made'}]]
               /\ todo' = [todo EXCEPT ![p] = docs'[p]]
      <4>1. /\ docs'[p] = [device : Device, value : {Fresh}, made : {made'}] /\ todo'[p] = docs'[p]
            /\ \A q \in Job \ {p} : docs'[q] = docs[q] /\ todo'[q] = todo[q]
        BY <3>2 DEF TypeOK
      <4>2. \A d \in docs'[p] : d.made = made'
        BY <4>1
      <4> QED BY <4>1, <4>2
    <3> QED BY <1>4, <3>1, <3>2 DEF Register
  <2>3. \A d \in data \cup snapshot : d.made <= made'
    BY <2>1, MadeTypes DEF MadeBefore
  <2>4. \A q \in Job : \A d \in docs[q] \cup todo[q] : d.made <= made'
    BY <2>1, MadeTypes DEF MadeBefore
  <2>5. \A q \in Job : \A d \in docs'[q] \cup todo'[q] : d.made <= made'
    <3> SUFFICES ASSUME NEW q \in Job, NEW d \in docs'[q] \cup todo'[q] PROVE d.made <= made'
      OBVIOUS
    <3>1. CASE d \in docs[q] \cup todo[q]
      BY <2>4, <3>1
    <3>2. CASE d.made = made'
      <4>1. made' \in Nat
        BY <2>1, MadeTypes
      <4> QED BY <3>2, <4>1
    <3> QED BY <2>2, <3>1, <3>2
  <2> QED BY <2>1, <2>3, <2>5 DEF MadeBefore
<1>5. ASSUME NEW p \in Registration, Create(p) PROVE MadeBefore'
  <2>1. data' \subseteq data \cup todo[p] /\ snapshot' = snapshot /\ made' = made
    BY <1>5 DEF Create
  <2>2. \A q \in Job : docs'[q] \cup todo'[q] \subseteq docs[q] \cup todo[q]
    BY <1>5 DEF Create, TypeOK
  <2> QED BY <2>1, <2>2 DEF MadeBefore
<1>6. ASSUME NEW p \in Job, Elsewhere(p) PROVE MadeBefore'
  BY <1>6, <1>0 DEF Elsewhere
<1>7. ASSUME Untouched PROVE MadeBefore'
  BY <1>7, <1>0 DEF Untouched
<1>8. ASSUME NEW w \in Writer, Store(w) PROVE MadeBefore'
  <2>1. snapshot' = snapshot /\ docs' = docs /\ todo' = todo
    BY <1>8 DEF Store, jobVars
  <2>2. \/ made' = made /\ \A c \in data' : \E b \in data : b.made = c.made
        \/ made' = made + 1 /\ \A c \in data' : c \in data \/ c.made = made + 1
    BY <1>8, StoreEffect
  <2> QED BY <2>1, <2>2, MadeTypes DEF MadeBefore
<1>9. ASSUME TakeSnapshot PROVE MadeBefore'
  BY <1>9, <1>0 DEF TakeSnapshot, jobVars
<1>10. ASSUME Crash PROVE MadeBefore'
  BY <1>10, <1>0 DEF Crash
<1> QED
  BY <1>1, <1>2, <1>3, <1>4, <1>5, <1>6, <1>7, <1>8, <1>9, <1>10, DocumentSteps, Zenon

LEMMA StoreCovers ==
  ASSUME TypeOK, MadeBefore, NoneLost, NEW w \in Writer, Store(w)
  PROVE  NoneLost'
<1>1. /\ snapshot' = snapshot /\ at' = at /\ docs' = docs /\ todo' = todo /\ past' = past
  BY DEF Store, jobVars
<1>2. ASSUME NEW d \in data, NEW e \in Document, e.device = d.device, e.made = d.made,
             data' = (data \ {d}) \cup {e}
      PROVE  NoneLost'
  <2>1. \A c \in data' : \E b \in data : b.made = c.made
    BY <1>2
  <2>2. \A b \in data : \E c \in data' : c.device = b.device
    BY <1>2
  <2>3. \A D \in SUBSET Document : Covers(data \cup D) => Covers(data' \cup D)
    BY <2>2 DEF Covers
  <2>4. Covers(data) => Covers(data')
    BY <2>2 DEF Covers
  <2>5. \A p \in Job : todo[p] \in SUBSET Document
    BY DEF TypeOK
  <2>6. past'["data"] = {} => \A p \in Registration : at'[p] = "create" => Covers(data' \cup todo'[p])
    BY <1>1, <2>3, <2>5 DEF NoneLost
  <2>7. past'["data"] = {} => \A p \in Load : at'[p] = "insert" =>
          past'[p] = {} /\ \A c \in data', b \in docs'[p] : c.made > b.made
    BY <1>1, <2>1 DEF NoneLost
  <2> QED BY <1>1, <2>4, <2>6, <2>7 DEF NoneLost
<1>3. ASSUME NEW e \in Document, e.made = made + 1, data' = data \cup {e}
      PROVE  NoneLost'
  <2>1. past'["data"] = {} => \A p \in Load : at'[p] = "insert" =>
          past'[p] = {} /\ \A c \in data', b \in docs'[p] : c.made > b.made
    BY <1>1, <1>3, MadeTypes DEF NoneLost, MadeBefore
  <2>2. past'["data"] = {} => \A p \in Registration : at'[p] = "create" => Covers(data' \cup todo'[p])
    BY <1>1, <1>3 DEF NoneLost, Covers
  <2>3. Covers(data) => Covers(data')
    BY <1>3 DEF Covers
  <2> QED BY <1>1, <2>1, <2>2, <2>3 DEF NoneLost
<1>4. ASSUME data' = data PROVE NoneLost'
  BY <1>1, <1>4 DEF NoneLost
<1> QED BY <1>2, <1>3, <1>4, StoreEffect

LEMMA NoneLostStep ==
  TypeOK /\ OneFilling /\ MadeBefore /\ NoneLost /\ [Next]_vars => NoneLost'
<1> SUFFICES ASSUME TypeOK, OneFilling, MadeBefore, NoneLost, [Next]_vars PROVE NoneLost'
  OBVIOUS
<1> USE DEF Filling
(* While nothing has come in between, one job at most is filling.          *)
<1>0. ASSUME past["data"] = {}, NEW p \in Job, at[p] \in Filling
      PROVE  \A q \in Job \ {p} : at[q] \notin Filling
  BY <1>0 DEF OneFilling, Overlapped
<1>1. ASSUME NEW p \in Load, BeginLoad(p) PROVE NoneLost'
  <2>1. at[p] = "idle" /\ at'[p] = "delete" /\ docs'[p] = snapshot /\ past'[p] = past["snapshot"]
    BY <1>1, GotoOther DEF BeginLoad, TypeOK, Point
  <2>2. \A q \in Job \ {p} : at'[q] = at[q] /\ docs'[q] = docs[q]
    BY <1>1, GotoOther DEF BeginLoad, TypeOK, Point
  <2>3. /\ past'["data"] = past["data"] /\ past'["snapshot"] = past["snapshot"]
        /\ \A q \in Load \ {p} : past'[q] = past[q]
    BY <1>1 DEF BeginLoad, TypeOK
  <2>4. data' = data /\ snapshot' = snapshot /\ todo' = todo
    BY <1>1 DEF BeginLoad
  <2>5. (\A q \in Job : at'[q] \notin Filling) => \A q \in Job : at[q] \notin Filling
    BY <2>1, <2>2
  <2> QED BY <2>1, <2>2, <2>3, <2>4, <2>5 DEF NoneLost
<1>2. ASSUME NEW p \in Load, DeleteAll(p) PROVE NoneLost'
  <2>1. CASE Return(p) /\ UNCHANGED <<data, past>>
    <3>1. snapshot' = snapshot /\ at[p] = "delete"
      BY <1>2 DEF DeleteAll
    <3>2. /\ at'[p] = "idle"
          /\ \A q \in Job \ {p} : at'[q] = at[q] /\ docs'[q] = docs[q] /\ todo'[q] = todo[q]
      BY <2>1, ReturnEffect
    <3>3. (\A q \in Job : at'[q] \notin Filling) => \A q \in Job : at[q] \notin Filling
      BY <3>1, <3>2
    <3> QED BY <2>1, <3>1, <3>2, <3>3 DEF NoneLost
  <2>2. CASE data' = {} /\ Goto(p, "insert") /\ UNCHANGED <<docs, todo>> /\ Emptied(p, past[p])
    <3>1. at'[p] = "insert" /\ at[p] = "delete" /\ \A q \in Job \ {p} : at'[q] = at[q]
      BY <1>2, <2>2, GotoOther DEF DeleteAll, Point
    <3>2. past[p] \in SUBSET Event
      BY DEF TypeOK
    <3>3. /\ past'["snapshot"] = past["snapshot"] /\ \A q \in Load : past'[q] = past[q]
          /\ past[p] \subseteq past'["data"]
          /\ "overlap" \notin past'["data"] => \A q \in Job \ {p} : at[q] \notin Filling
      BY <2>2, <3>2, EmptiedEffect
    <3>4. snapshot' = snapshot
      BY <1>2 DEF DeleteAll
    <3>5. past'["data"] = {} =>
            past'[p] = {} /\ \A q \in Job \ {p} : at'[q] \notin {"insert", "create"}
      BY <3>1, <3>3
    <3>6. \A q \in Registration : q # p
      OBVIOUS
    <3> QED BY <2>2, <3>1, <3>3, <3>4, <3>5, <3>6 DEF NoneLost
  <2> QED BY <1>2, <2>1, <2>2 DEF DeleteAll
<1>3. ASSUME NEW p \in Load, Insert(p) PROVE NoneLost'
  <2> DEFINE clashing == {d \in docs[p] : \E e \in data : Id(e) = Id(d)}
  <2>1. at[p] = "insert" /\ snapshot' = snapshot
    BY <1>3 DEF Insert
  <2>2. /\ at'[p] \in {"apply", "idle"}
        /\ \A q \in Job \ {p} : at'[q] = at[q] /\ docs'[q] = docs[q] /\ todo'[q] = todo[q]
    BY <1>3, GotoOther, ReturnEffect DEF Insert, TypeOK, Point
  <2>3. /\ past'["snapshot"] = past["snapshot"] /\ \A q \in Load : past'[q] = past[q]
        /\ past["data"] \subseteq past'["data"]
    BY <1>3, CutShortEffect DEF Insert
  <2>4. ASSUME past'["data"] = {}
        PROVE  /\ \A q \in Job \ {p} : at[q] \notin {"insert", "create"}
               /\ Covers(data')
    <3>1. past["data"] = {}
      BY <2>3, <2>4
    <3>2. \A q \in Job \ {p} : at[q] \notin {"insert", "create"}
      BY <2>1, <3>1, <1>0
    <3>3. past[p] = {} /\ Covers(docs[p]) /\ \A d \in data, e \in docs[p] : d.made > e.made
      BY <2>1, <3>1 DEF NoneLost
    <3>4. \A d \in docs[p], e \in data : Id(e) # Id(d)
      BY <3>3, MadeTypes DEF Id
    <3>5. clashing = {}
      BY <3>4
    <3>6. ~CutShort
      BY <2>4, CutShortEffect
    <3>7. data' = data \cup docs[p]
      BY <1>3, <3>5, <3>6 DEF Insert
    <3> QED BY <3>2, <3>3, <3>7 DEF Covers
  <2> QED BY <2>1, <2>2, <2>3, <2>4 DEF NoneLost
<1>4. ASSUME NEW p \in Registration, Register(p) PROVE NoneLost'
  <2>1. data' = {} /\ snapshot' = snapshot
    BY <1>4 DEF Register
  <2>2. PICK events \in SUBSET Event : Emptied(p, events)
    BY <1>4 DEF Register, Event
  <2>3. /\ past'["snapshot"] = past["snapshot"] /\ \A q \in Load : past'[q] = past[q]
        /\ "overlap" \notin past'["data"] => \A q \in Job \ {p} : at[q] \notin Filling
    BY <2>2, EmptiedEffect
  <2>4. /\ at'[p] \in {"idle", "create"}
        /\ \A q \in Job \ {p} : at'[q] = at[q] /\ docs'[q] = docs[q] /\ todo'[q] = todo[q]
    BY <1>4, GotoOther DEF Register, jobVars, TypeOK, Point
  <2>5. \A q \in Load : q # p
    OBVIOUS
  <2>6. ASSUME past'["data"] = {}
        PROVE  /\ at'[p] = "create" /\ Covers(data' \cup todo'[p])
               /\ \A q \in Job \ {p} : at'[q] \notin {"insert", "create"}
    <3>1. ~Emptied(p, {"unfinished"})
      BY <2>6, EmptiedEffect DEF Event
    <3>2. /\ docs' = [docs EXCEPT ![p] = [device : Device, value : {Fresh}, made : {made'}]]
          /\ todo' = [todo EXCEPT ![p] = docs'[p]] /\ Goto(p, "create")
      BY <1>4, <3>1 DEF Register
    <3>3. todo'[p] = [device : Device, value : {Fresh}, made : {made'}] /\ at'[p] = "create"
      BY <3>2, GotoOther DEF TypeOK, Point
    <3>4. \A x \in Device : [device |-> x, value |-> Fresh, made |-> made'] \in todo'[p]
      BY <3>3
    <3>5. Covers(data' \cup todo'[p])
      <4> SUFFICES ASSUME NEW x \in Device PROVE \E d \in data' \cup todo'[p] : d.device = x
        BY DEF Covers
      <4>1. [device |-> x, value |-> Fresh, made |-> made'].device = x
        OBVIOUS
      <4> QED BY <3>4, <4>1
    <3> QED BY <2>3, <2>4, <2>6, <3>3, <3>5
  <2> QED BY <2>1, <2>3, <2>4, <2>5, <2>6 DEF NoneLost
<1>5. ASSUME NEW p \in Registration, Create(p) PROVE NoneLost'
  <2>1. PICK d \in todo[p] : /\ data' = data \cup {d} \/ CutShort
                             /\ todo' = [todo EXCEPT ![p] = @ \ {d}]
                             /\ IF todo'[p] = {} THEN Goto(p, "reset") ELSE UNCHANGED at
    BY <1>5 DEF Create
  <2>2. snapshot' = snapshot /\ docs' = docs /\ at[p] = "create" /\ todo'[p] = todo[p] \ {d}
    BY <1>5, <2>1 DEF Create, TypeOK
  <2>3. /\ at'[p] = IF todo'[p] = {} THEN "reset" ELSE "create"
        /\ \A q \in Job \ {p} : at'[q] = at[q] /\ todo'[q] = todo[q]
    BY <2>1, <2>2, GotoOther DEF TypeOK, Point
  <2>4. /\ past'["snapshot"] = past["snapshot"] /\ \A q \in Load : past'[q] = past[q]
        /\ past["data"] \subseteq past'["data"]
    BY <1>5, CutShortEffect DEF Create
  <2>5. \A q \in Load : q # p
    OBVIOUS
  <2>6. ASSUME past'["data"] = {}
        PROVE  /\ \A q \in Job \ {p} : at'[q] \notin {"insert", "create"}
               /\ Covers(data' \cup todo'[p])
    <3>1. past["data"] = {}
      BY <2>4, <2>6
    <3>2. data' \cup todo'[p] = data \cup todo[p]
      BY <2>1, <2>2, <2>6, CutShortEffect
    <3>3. Covers(data \cup todo[p])
      BY <2>2, <3>1 DEF NoneLost
    <3>4. \A q \in Job \ {p} : at'[q] \notin {"insert", "create"}
      BY <2>2, <2>3, <3>1, <1>0
    <3> QED BY <3>2, <3>3, <3>4
  <2>7. todo'[p] = {} => data' \cup todo'[p] = data'
    OBVIOUS
  <2> QED BY <2>2, <2>3, <2>4, <2>5, <2>6, <2>7 DEF NoneLost
<1>6. ASSUME NEW p \in Job, Elsewhere(p) PROVE NoneLost'
  <2>1. at'[p] \notin {"delete", "insert", "create"} /\ at[p] \notin {"insert", "create"}
    BY <1>6 DEF Elsewhere
  <2>2. (\A q \in Job : at'[q] \notin Filling) => \A q \in Job : at[q] \notin Filling
    BY <1>6 DEF Elsewhere
  <2> QED BY <1>6, <2>1, <2>2 DEF Elsewhere, NoneLost
<1>7. ASSUME Untouched PROVE NoneLost'
  BY <1>7 DEF Untouched, NoneLost
<1>8. ASSUME NEW w \in Writer, Store(w) PROVE NoneLost'
  BY <1>8, StoreCovers
<1>9. ASSUME TakeSnapshot PROVE NoneLost'
  <2>1. /\ past'["data"] = past["data"] /\ \A q \in Load : past'[q] = past[q]
        /\ past'["snapshot"] = past["data"] \cup {"unfinished" : p \in {q \in Job : at[q] \in Filling}}
    BY <1>9 DEF TakeSnapshot, TypeOK
  <2>2. past'["snapshot"] = {} => past["data"] = {} /\ \A q \in Job : at[q] \notin Filling
    BY <2>1
  <2>3. past'["snapshot"] = {} => Covers(data)
    BY <2>2 DEF NoneLost
  <2> QED BY <1>9, <2>1, <2>3 DEF TakeSnapshot, jobVars, NoneLost
<1>10. ASSUME Crash PROVE NoneLost'
  <2>1. /\ past'["snapshot"] = past["snapshot"]
        /\ past'["data"] = {} => past["data"] = {} /\ \A q \in Job : at[q] \notin Filling
    BY <1>10, CutShortEffect DEF Crash
  <2>2. past'["data"] = {} => Covers(data)
    BY <2>1 DEF NoneLost
  <2> QED BY <1>10, <2>1, <2>2 DEF Crash, NoneLost
<1> QED
  BY <1>1, <1>2, <1>3, <1>4, <1>5, <1>6, <1>7, <1>8, <1>9, <1>10, DocumentSteps, Zenon

(* Unless fillings overlapped, were cut short or a snapshot was taken in   *)
(* the middle of one, every device has its document when none is under way.*)
THEOREM NoneMissingAtRest == Safety => []NoneMissing
<1>1. Init => NoneLost /\ MadeBefore
  <2> SUFFICES ASSUME Init PROVE NoneLost /\ MadeBefore
    OBVIOUS
  <2>1. \A x \in Device : [device |-> x, value |-> Fresh, made |-> 0] \in data
    BY DEF Init
  <2>2. Covers(data) /\ snapshot = data /\ made = 0 /\ \A d \in data : d.made = 0
    BY <2>1 DEF Init, Covers
  <2>3. \A p \in Job : at[p] = "idle" /\ docs[p] = {} /\ todo[p] = {}
    BY DEF Init
  <2> QED BY <2>2, <2>3 DEF NoneLost, MadeBefore
<1>2. TypeOK /\ NoneLost => NoneMissing
  <2> SUFFICES ASSUME TypeOK, NoneLost, past["data"] = {}, \A p \in Job : at[p] \notin Filling
               PROVE  {d.device : d \in data} = Device
    BY DEF NoneMissing
  <2>1. Covers(data)
    BY DEF NoneLost
  <2>2. \A d \in data : d.device \in Device
    BY DocumentType DEF TypeOK
  <2> QED BY <2>1, <2>2 DEF Covers
<1> QED
  BY <1>1, <1>2, OneFillingInit, OneFillingStep, MadeBeforeStep, NoneLostStep, Typing, PTL
  DEF Safety

(* Both together: what deletions, insertions and upserts leave behind is   *)
(* one document of every DDC device, from one undisturbed job to the next  *)
(* overlap or cut.                                                         *)
THEOREM OneEachAtRest == Safety => []OneEach
<1>1. OneDocument /\ NoneMissing => OneEach
  BY DEF OneEach
<1> QED BY <1>1, OneDocumentEach, NoneMissingAtRest, PTL
=============================================================================
