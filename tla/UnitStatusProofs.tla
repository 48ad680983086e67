-------------------------- MODULE UnitStatusProofs --------------------------
(***************************************************************************)
(* Proofs about UnitStatus for any number of units, ticks and faults: type *)
(* correctness, and that the Status and the Error documents agree between  *)
(* reports that did not overlap.                                           *)
(***************************************************************************)
EXTENDS UnitStatus, TLAPS

USE StatusAssumption

LEMMA Actions ==
  ASSUME [Next]_vars
  PROVE  \/ Change \/ ResetLink \/ StartCycle \/ Turn
         \/ \E r \in Monitor : Tick(r) \/ Probe(r)
         \/ \E r \in Counter : Count(r)
         \/ \E r \in Reporter : \/ ReadStatus(r) \/ Replace(r) \/ ReadError(r)
                                \/ Create(r) \/ Save(r) \/ Delete(r) \/ Fault(r)
         \/ UNCHANGED vars
  BY Zenon DEF Next, Report

Resting == {"idle", "turn", "probe", "status"}

LEMMA StageSets ==
  /\ Saving \subseteq InReport /\ Resting \cap InReport = {}
  /\ {"idle", "turn", "probe", "status"} \cup InReport = Resting \cup InReport
  BY DEF Saving, InReport, Resting

LEMMA ReporterSets == Cycle \in Reporter /\ Monitor \subseteq Reporter /\ Counter \subseteq Reporter
  BY DEF Reporter

LEMMA FirstDocuments == << >> \in Seq(SUBSET Unit) /\ <<{}>> \in Seq(SUBSET Unit)
  OBVIOUS

LEMMA TypeInit == Init => TypeOK
<1> SUFFICES ASSUME Init PROVE TypeOK
  OBVIOUS
<1>1. unit \in [Reporter -> Unit]
  BY DEF Init, Unit
<1>2. status \in Statuses /\ NoStatus \in Statuses
  BY DEF Init, Statuses, NoStatus, Fine, Absent, Failing
<1>3. seen \in [Reporter -> Statuses]
  BY <1>2 DEF Init
<1>4. /\ at \in [Reporter -> {"idle", "turn", "probe", "status"} \cup InReport]
      /\ good \in [Reporter -> BOOLEAN] /\ stale \in [Reporter -> {"fresh", "changed", "gone"}]
      /\ errors \in Seq(SUBSET Unit)
  BY FirstDocuments DEF Init
<1>5. /\ kind \in {"ddc", "counter"} /\ connected \in BOOLEAN /\ answering \in SUBSET Unit
      /\ changes \in 0..MaxChange /\ down \in BOOLEAN /\ outcome \in SUBSET Unit
      /\ stored \in BOOLEAN /\ faults \in 0..MaxFault /\ disturbed \in BOOLEAN
  <2>1. connected \in BOOLEAN /\ down \in BOOLEAN /\ stored \in BOOLEAN /\ disturbed \in BOOLEAN
    BY Zenon DEF Init
  <2>2. answering \in SUBSET Unit /\ outcome \in SUBSET Unit /\ kind \in {"ddc", "counter"}
    BY Zenon DEF Init
  <2>3. changes \in 0..MaxChange /\ faults \in 0..MaxFault
    <3>1. changes = 0 /\ faults = 0
      BY DEF Init
    <3>2. QED BY <3>1
  <2>4. QED BY <2>1, <2>2, <2>3
<1>6. QED BY <1>1, <1>2, <1>3, <1>4, <1>5 DEF TypeOK

(* What a step may do to the stages of the reporters other than r.          *)
LEMMA Goes ==
  ASSUME TypeOK, NEW r \in Reporter, NEW stage \in Resting \cup InReport, Goto(r, stage)
  PROVE  /\ at'[r] = stage
         /\ at' \in [Reporter -> {"idle", "turn", "probe", "status"} \cup InReport]
         /\ \A q \in Reporter \ {r} : at'[q] = at[q]
  BY StageSets DEF Goto, TypeOK, Resting

LEMMA Finishes ==
  ASSUME TypeOK, NEW r \in Reporter, Finish(r)
  PROVE  /\ at'[r] \in Resting
         /\ at' \in [Reporter -> {"idle", "turn", "probe", "status"} \cup InReport]
         /\ unit' \in [Reporter -> Unit] /\ seen' \in [Reporter -> Statuses]
         /\ \A q \in Reporter \ {r} : at'[q] = at[q] /\ unit'[q] = unit[q] /\ seen'[q] = seen[q]
<1>1. After(r) \in Resting /\ Goto(r, After(r))
  BY DEF After, Finish, Resting
<1>2. /\ at'[r] = After(r)
      /\ at' \in [Reporter -> {"idle", "turn", "probe", "status"} \cup InReport]
      /\ \A q \in Reporter \ {r} : at'[q] = at[q]
  BY <1>1, Goes
<1>3. unit' \in [Reporter -> Unit] /\ \A q \in Reporter \ {r} : unit'[q] = unit[q]
  <2>1. unit[r] \in Unit /\ (unit[r] # NUnits => unit[r] + 1 \in Unit) /\ 1 \in Unit
    BY DEF TypeOK, Unit
  <2>2. QED BY <2>1 DEF Finish, TypeOK
<1>4. seen' \in [Reporter -> Statuses] /\ \A q \in Reporter \ {r} : seen'[q] = seen[q]
  <2>1. NoStatus \in Statuses
    BY DEF NoStatus, Statuses, Absent
  <2>2. QED BY <2>1 DEF Finish, TypeOK
<1>5. QED BY <1>1, <1>2, <1>3, <1>4

(* The steps outside of reports.                                            *)
Outside(r) ==
  /\ r \in Reporter
  /\ at[r] \in Resting /\ at'[r] \in Resting
  /\ \A q \in Reporter \ {r} : /\ at'[q] = at[q] /\ unit'[q] = unit[q]
                               /\ good'[q] = good[q] /\ seen'[q] = seen[q]
  /\ UNCHANGED <<stale, stored, status, errors, disturbed>>

LEMMA TurnOutside == ASSUME TypeOK, Turn PROVE Outside(Cycle) /\ TypeOK'
<1>0. TypeOK /\ Cycle \in Reporter
  BY ReporterSets DEF TypeOK
<1>1. /\ at[Cycle] \in Resting
      /\ UNCHANGED <<kind, connected, answering, changes, down, outcome, stale, stored,
                     status, errors, faults, disturbed>>
  BY DEF Turn, environment, documents, Resting
<1>2. CASE Finish(Cycle) /\ UNCHANGED good
  BY <1>0, <1>1, <1>2, Finishes DEF Outside, TypeOK
<1>3. CASE /\ good' = [good EXCEPT ![Cycle] = unit[Cycle] \in outcome]
           /\ Goto(Cycle, "status") /\ UNCHANGED <<unit, seen>>
  <2>1. good' \in [Reporter -> BOOLEAN] /\ \A q \in Reporter \ {Cycle} : good'[q] = good[q]
    BY <1>0, <1>3 DEF TypeOK
  <2>2. /\ at'[Cycle] \in Resting
        /\ at' \in [Reporter -> {"idle", "turn", "probe", "status"} \cup InReport]
        /\ \A q \in Reporter \ {Cycle} : at'[q] = at[q]
    BY <1>0, <1>3, Goes DEF Resting
  <2>3. QED BY <1>0, <1>1, <1>3, <2>1, <2>2 DEF Outside, TypeOK
<1>4. QED BY <1>2, <1>3 DEF Turn

LEMMA MonitorOutside ==
  ASSUME TypeOK, NEW r \in Monitor, Tick(r) \/ Probe(r)
  PROVE  Outside(r) /\ TypeOK'
<1>0. TypeOK /\ r \in Reporter
  BY ReporterSets DEF TypeOK
<1>1. /\ at[r] \in Resting
      /\ UNCHANGED <<kind, connected, answering, changes, outcome, unit, seen, stale, stored,
                     status, errors, faults, disturbed>>
  BY DEF Tick, Probe, environment, documents, Resting
<1>2. /\ at'[r] \in Resting
      /\ at' \in [Reporter -> {"idle", "turn", "probe", "status"} \cup InReport]
      /\ \A q \in Reporter \ {r} : at'[q] = at[q]
  <2>1. PICK stage \in Resting : Goto(r, stage)
    BY DEF Tick, Probe, Resting
  <2>2. QED BY <1>0, <2>1, Goes
<1>3. /\ down' \in BOOLEAN /\ good' \in [Reporter -> BOOLEAN]
      /\ \A q \in Reporter \ {r} : good'[q] = good[q]
  BY <1>0 DEF Tick, Probe, TypeOK
<1>4. QED BY <1>0, <1>1, <1>2, <1>3 DEF Outside, TypeOK

LEMMA CountOutside ==
  ASSUME TypeOK, NEW r \in Counter, Count(r)
  PROVE  Outside(r) /\ TypeOK'
<1>0. TypeOK /\ r \in Reporter
  BY ReporterSets DEF TypeOK
<1>1. /\ at[r] \in Resting /\ Goto(r, "status")
      /\ UNCHANGED <<kind, connected, answering, changes, down, outcome, unit, seen, stale,
                     stored, status, errors, faults, disturbed>>
  BY DEF Count, environment, documents, Resting
<1>2. /\ at'[r] \in Resting
      /\ at' \in [Reporter -> {"idle", "turn", "probe", "status"} \cup InReport]
      /\ \A q \in Reporter \ {r} : at'[q] = at[q]
  BY <1>0, <1>1, Goes DEF Resting
<1>3. /\ good' \in [Reporter -> BOOLEAN]
      /\ \A q \in Reporter \ {r} : good'[q] = good[q]
  BY <1>0 DEF Count, TypeOK
<1>4. QED BY <1>0, <1>1, <1>2, <1>3 DEF Outside, TypeOK

LEMMA StartOutside == ASSUME TypeOK, StartCycle PROVE Outside(Cycle) /\ TypeOK'
<1>0. TypeOK /\ Cycle \in Reporter
  BY ReporterSets DEF TypeOK
<1>1. /\ at[Cycle] \in Resting /\ Goto(Cycle, "turn")
      /\ UNCHANGED <<kind, connected, answering, changes, down, unit, good, seen, stale,
                     stored, status, errors, faults, disturbed>>
  BY DEF StartCycle, environment, documents, Resting
<1>2. /\ at'[Cycle] \in Resting
      /\ at' \in [Reporter -> {"idle", "turn", "probe", "status"} \cup InReport]
      /\ \A q \in Reporter \ {Cycle} : at'[q] = at[q]
  BY <1>0, <1>1, Goes DEF Resting
<1>3. outcome' \in SUBSET Unit
  BY <1>0 DEF StartCycle, Readable, TypeOK
<1>4. QED BY <1>0, <1>1, <1>2, <1>3 DEF Outside, TypeOK

(* The line and the DDC change, or nothing does.                            *)
LEMMA ChangeOutside ==
  ASSUME TypeOK, Change \/ ResetLink \/ UNCHANGED vars
  PROVE  TypeOK' /\ UNCHANGED <<at, unit, good, seen, stale, stored, status, errors, disturbed>>
<1>1. TypeOK
  BY DEF TypeOK
<1>2. UNCHANGED <<kind, outcome, at, unit, good, seen, stale, stored, status, errors, faults,
                  disturbed>>
  BY DEF Change, ResetLink, vars, environment, reports, documents
<1>3. /\ connected' \in BOOLEAN /\ answering' \in SUBSET Unit /\ down' \in BOOLEAN
      /\ changes' \in 0..MaxChange
  <2>1. CASE Change
    <3>1. connected' \in BOOLEAN /\ answering' \in SUBSET Unit /\ down' \in BOOLEAN
      BY <1>1, <2>1, Zenon DEF Change, TypeOK
    <3>2. changes' \in 0..MaxChange
      BY <1>1, <2>1 DEF Change, TypeOK
    <3>3. QED BY <3>1, <3>2
  <2>2. CASE ResetLink
    <3>1. connected' \in BOOLEAN /\ answering' \in SUBSET Unit /\ down' \in BOOLEAN
      BY <1>1, <2>2, Zenon DEF ResetLink, TypeOK
    <3>2. changes' \in 0..MaxChange
      BY <1>1, <2>2 DEF ResetLink, TypeOK
    <3>3. QED BY <3>1, <3>2
  <2>3. CASE UNCHANGED vars
    BY <1>1, <2>3 DEF vars, environment, TypeOK
  <2>4. QED BY <2>1, <2>2, <2>3
<1>4. QED BY <1>1, <1>2, <1>3 DEF TypeOK

-----------------------------------------------------------------------------
(* The steps of a report.                                                   *)
LEMMA ReadStatusType ==
  ASSUME TypeOK, NEW r \in Reporter, ReadStatus(r)
  PROVE  TypeOK'
<1>1. UNCHANGED <<kind, connected, answering, changes, down, outcome, unit, good, stale, stored,
                  status, errors, faults>>
  BY DEF ReadStatus, environment, documents
<1>2. PICK stage \in {"error", "replace"} : Goto(r, stage)
  BY DEF ReadStatus
<1>3. /\ at'[r] = stage
      /\ at' \in [Reporter -> {"idle", "turn", "probe", "status"} \cup InReport]
      /\ \A q \in Reporter \ {r} : at'[q] = at[q]
  BY <1>2, Goes DEF InReport
<1>4. seen' \in [Reporter -> Statuses]
  BY DEF ReadStatus, TypeOK
<1>5. disturbed' \in BOOLEAN
  BY Zenon DEF ReadStatus, TypeOK
<1>6. QED BY <1>1, <1>3, <1>4, <1>5 DEF TypeOK

LEMMA ReplaceType ==
  ASSUME TypeOK, NEW r \in Reporter, Replace(r)
  PROVE  TypeOK'
<1>1. UNCHANGED <<kind, connected, answering, changes, down, outcome, unit, good, seen, stale,
                  errors, faults, disturbed>>
  BY DEF Replace, environment
<1>2. /\ at'[r] = "error"
      /\ at' \in [Reporter -> {"idle", "turn", "probe", "status"} \cup InReport]
      /\ \A q \in Reporter \ {r} : at'[q] = at[q]
  BY Goes DEF Replace, InReport
<1>3. stored' \in BOOLEAN /\ status' \in Statuses
  <2>1. seen[r] \in Statuses /\ (IF good[r] THEN Fine ELSE Failing) \in {Fine, Absent, Failing}
    BY DEF TypeOK
  <2>2. status' = [seen[r] EXCEPT ![unit[r]] = IF good[r] THEN Fine ELSE Failing]
    BY DEF Replace
  <2>3. status' \in Statuses
    BY <2>1, <2>2 DEF Statuses
  <2>4. QED BY <2>3 DEF Replace
<1>4. QED BY <1>1, <1>2, <1>3 DEF TypeOK

LEMMA FirstError ==
  ASSUME TypeOK, errors # << >>
  PROVE  /\ Head(errors) = errors[1] /\ errors[1] \in SUBSET Unit
         /\ Len(errors) \in Nat \ {0} /\ DOMAIN errors = 1..Len(errors)
  BY DEF TypeOK

LEMMA ReadErrorType ==
  ASSUME TypeOK, NEW r \in Reporter, ReadError(r)
  PROVE  TypeOK'
<1>1. UNCHANGED <<kind, connected, answering, changes, down, outcome, good, stored, status,
                  errors, faults, disturbed>>
  BY DEF ReadError, environment, documents
<1>2. stale' \in [Reporter -> {"fresh", "changed", "gone"}]
      /\ stale'[r] = "fresh" /\ \A q \in Reporter \ {r} : stale'[q] = stale[q]
  BY DEF ReadError, TypeOK
<1>3. CASE Found(r) = "none"
  <2>1. Finish(r)
    BY <1>3 DEF ReadError
  <2>2. QED BY <1>1, <1>2, <2>1, Finishes DEF TypeOK
<1>4. CASE Found(r) # "none"
  <2>1. Found(r) \in Saving /\ Goto(r, Found(r)) /\ UNCHANGED <<unit, seen>>
    BY <1>4 DEF ReadError, Found, Saving
  <2>2. /\ at'[r] = Found(r)
        /\ at' \in [Reporter -> {"idle", "turn", "probe", "status"} \cup InReport]
        /\ \A q \in Reporter \ {r} : at'[q] = at[q]
    BY <2>1, Goes, StageSets
  <2>3. QED BY <1>1, <1>2, <2>1, <2>2 DEF TypeOK
<1>5. QED BY <1>3, <1>4

LEMMA CreateType ==
  ASSUME TypeOK, NEW r \in Reporter, Create(r)
  PROVE  TypeOK'
<1>1. UNCHANGED <<kind, connected, answering, changes, down, outcome, good, stale, stored, status,
                  faults, disturbed>>
  BY DEF Create, environment
<1>2. errors' \in Seq(SUBSET Unit)
  <2>1. {unit[r]} \in SUBSET Unit /\ errors \in Seq(SUBSET Unit)
    BY DEF TypeOK
  <2>2. QED BY <2>1 DEF Create
<1>3. Finish(r)
  BY DEF Create
<1>4. QED BY <1>1, <1>2, <1>3, Finishes DEF TypeOK

LEMMA TouchType ==
  ASSUME TypeOK, NEW state \in {"changed", "gone"}, Touch(state)
  PROVE  stale' \in [Reporter -> {"fresh", "changed", "gone"}]
  BY DEF Touch, TypeOK

LEMMA SaveType ==
  ASSUME TypeOK, NEW r \in Reporter, Save(r)
  PROVE  TypeOK'
<1>1. UNCHANGED <<kind, connected, answering, changes, down, outcome, good, stored, status,
                  faults, disturbed>> /\ Finish(r) /\ at[r] \in {"push", "set"}
  BY DEF Save, environment
<1>2. CASE UNCHANGED <<errors, stale>>
  BY <1>1, <1>2, Finishes DEF TypeOK
<1>3. CASE /\ Saves(r) /\ Touch("changed")
           /\ errors' = [errors EXCEPT ![1] = IF at[r] = "push" THEN @ \cup {unit[r]}
                                                              ELSE @ \ {unit[r]}]
  <2>1. errors \in Seq(SUBSET Unit) /\ unit[r] \in Unit
    BY DEF TypeOK
  <2>2. CASE errors = << >>
    <3>1. errors' = << >>
      BY <1>3, <2>2
    <3>2. errors' \in Seq(SUBSET Unit)
      BY <3>1, FirstDocuments
    <3>3. QED BY <1>1, <1>3, <3>2, Finishes, TouchType DEF TypeOK
  <2>3. CASE errors # << >>
    <3>1. PICK units \in SUBSET Unit :
            units = IF at[r] = "push" THEN errors[1] \cup {unit[r]} ELSE errors[1] \ {unit[r]}
      BY <2>1, <2>3, FirstError
    <3>2. errors' = [errors EXCEPT ![1] = units]
      BY <1>3, <3>1
    <3>3. errors' \in Seq(SUBSET Unit)
      BY <2>1, <2>3, <3>2
    <3>4. QED BY <1>1, <1>3, <3>3, Finishes, TouchType DEF TypeOK
  <2>4. QED BY <2>2, <2>3
<1>4. QED BY <1>2, <1>3 DEF Save

LEMMA DeleteType ==
  ASSUME TypeOK, NEW r \in Reporter, Delete(r)
  PROVE  TypeOK'
<1>1. UNCHANGED <<kind, connected, answering, changes, down, outcome, good, stored, status,
                  faults, disturbed>> /\ Finish(r) /\ at[r] = "delete"
  BY DEF Delete, environment
<1>2. CASE UNCHANGED <<errors, stale>>
  BY <1>1, <1>2, Finishes DEF TypeOK
<1>3. CASE errors # << >> /\ errors' = Tail(errors) /\ Touch("gone")
  <2>1. errors' \in Seq(SUBSET Unit)
    BY <1>3 DEF TypeOK
  <2>2. QED BY <1>1, <1>3, <2>1, Finishes, TouchType DEF TypeOK
<1>4. QED BY <1>2, <1>3 DEF Delete

LEMMA FaultType ==
  ASSUME TypeOK, NEW r \in Reporter, Fault(r)
  PROVE  TypeOK'
<1>1. /\ UNCHANGED <<kind, connected, answering, changes, down, outcome, good, stale, stored,
                     status, errors>> /\ Finish(r)
      /\ disturbed' \in BOOLEAN
  BY DEF Fault, environment, documents
<1>2. faults' \in 0..MaxFault
  BY DEF Fault, TypeOK
<1>3. QED BY <1>1, <1>2, Finishes DEF TypeOK

LEMMA TypeStep == TypeOK /\ [Next]_vars => TypeOK'
  BY Actions, ChangeOutside, TurnOutside, StartOutside, MonitorOutside, CountOutside, ReadStatusType,
     ReplaceType, ReadErrorType, CreateType, SaveType, DeleteType, FaultType, Zenon

(* Every variable keeps its type; in particular the cycle and the ticks     *)
(* never report on a unit that the device does not have.                    *)
THEOREM Typing == Spec => []TypeOK
  BY TypeInit, TypeStep, PTL DEF Spec

-----------------------------------------------------------------------------
(* While no two reports have overlapped, at most one is under way, and what *)
(* it has read is what there is: how far it has come says for which units   *)
(* the two collections agree.                                               *)
List == IF errors = << >> THEN {} ELSE errors[1]
Together(u) == u \in List <=> status[u] = Failing

Phase(r) ==
  /\ at[r] = "replace" => seen[r] = status /\ \A u \in Unit : Together(u)
  /\ at[r] \in {"error"} \cup Saving =>
       /\ \A u \in Unit \ {unit[r]} : Together(u)
       /\ status[unit[r]] = Failing <=> ~good[r]
  /\ at[r] = "create" => ~good[r] /\ errors = << >>
  /\ at[r] = "push" => ~good[r] /\ errors # << >> /\ stale[r] = "fresh"
  /\ at[r] = "set" => good[r] /\ errors # << >> /\ stale[r] = "fresh"
  /\ at[r] = "delete" => good[r] /\ errors # << >> /\ errors[1] \subseteq {unit[r]}

Calm ==
  /\ \A r, q \in Reporter : at[r] \in InReport /\ at[q] \in InReport => r = q
  /\ Len(errors) <= 1
  /\ \A r \in Reporter : Phase(r)
  /\ (\A r \in Reporter : at[r] \notin InReport) => \A u \in Unit : Together(u)

QuietInv == (~stored => status = NoStatus) /\ (disturbed \/ Calm)

LEMMA ListedFirst ==
  ASSUME TypeOK, Len(errors) <= 1
  PROVE  \A u \in Unit : Listed(u) <=> u \in List
<1>1. errors \in Seq(SUBSET Unit)
  BY DEF TypeOK
<1>2. CASE errors = << >>
  BY <1>2 DEF Listed, List
<1>3. CASE errors # << >>
  <2>1. DOMAIN errors = {1}
    <3>1. Len(errors) \in Nat \ {0} /\ DOMAIN errors = 1..Len(errors)
      BY <1>3, FirstError
    <3>2. Len(errors) = 1
      BY <3>1
    <3>3. QED BY <3>1, <3>2
  <2>2. QED BY <1>3, <2>1 DEF Listed, List
<1>4. QED BY <1>2, <1>3

LEMMA QuietInit == Init => QuietInv
<1> SUFFICES ASSUME Init PROVE QuietInv
  OBVIOUS
<1>1. List = {} /\ Len(errors) <= 1 /\ \A r \in Reporter : at[r] = "idle"
  <2>1. errors = << >> \/ errors = <<{}>>
    BY DEF Init
  <2>2. List = {} /\ Len(errors) <= 1
    <3>1. CASE errors = << >>
      BY <3>1 DEF List
    <3>2. CASE errors = <<{}>>
      <4>1. errors # << >> /\ errors[1] = {} /\ Len(errors) = 1
        BY <3>2
      <4>2. QED BY <4>1 DEF List
    <3>3. QED BY <2>1, <3>1, <3>2
  <2>3. QED BY <2>2 DEF Init
<1>2. \A u \in Unit : status[u] # Failing
  BY DEF Init, NoStatus, Fine, Absent, Failing
<1>3. \A u \in Unit : Together(u)
  BY <1>1, <1>2 DEF Together
<1>4. Calm
  BY <1>1, <1>3 DEF Calm, Phase, InReport, Saving
<1>5. ~stored => status = NoStatus
  BY DEF Init
<1>6. QED BY <1>4, <1>5 DEF QuietInv

LEMMA OutsideQuiet ==
  ASSUME TypeOK, QuietInv, NEW r, Outside(r)
  PROVE  QuietInv'
<1>1. at[r] \notin InReport /\ at'[r] \notin InReport
  BY StageSets DEF Outside
<1>2. \A u \in Unit : Together(u)' <=> Together(u)
  BY DEF Outside, Together, List
<1>3. ASSUME Calm, NEW q \in Reporter PROVE Phase(q)'
  <2>1. CASE q = r
    BY <1>1, <2>1 DEF Phase, InReport, Saving
  <2>2. CASE q # r
    BY <1>2, <1>3, <2>2 DEF Outside, Calm, Phase
  <2>3. QED BY <2>1, <2>2
<1>4. ASSUME Calm PROVE Calm'
  <2>1. \A q \in Reporter : at[q] \in InReport <=> at'[q] \in InReport
    BY <1>1 DEF Outside
  <2>2. QED BY <1>2, <1>3, <1>4, <2>1 DEF Outside, Calm
<1>5. QED BY <1>4 DEF QuietInv, Outside

LEMMA ChangeQuiet ==
  ASSUME TypeOK, QuietInv, Change \/ ResetLink \/ UNCHANGED vars
  PROVE  QuietInv'
<1>1. UNCHANGED <<at, unit, good, seen, stale, stored, status, errors, disturbed>>
  BY ChangeOutside
<1>2. QED BY <1>1 DEF QuietInv, Calm, Phase, Together, List

(* A report under way is the only one.                                      *)
LEMMA CalmAlone ==
  ASSUME NEW r \in Reporter, \A q \in Reporter \ {r} : at'[q] \notin InReport,
         Len(errors') <= 1, Phase(r)',
         at'[r] \notin InReport => \A u \in Unit : Together(u)'
  PROVE  Calm'
<1>1. ASSUME NEW q \in Reporter \ {r} PROVE Phase(q)'
  BY <1>1 DEF Phase, InReport, Saving
<1>2. QED BY <1>1 DEF Calm

LEMMA Ended ==
  ASSUME TypeOK, Calm, NEW r \in Reporter, at[r] \in InReport, Finish(r),
         Len(errors') <= 1, \A u \in Unit : Together(u)'
  PROVE  Calm'
<1>1. at'[r] \in Resting /\ \A q \in Reporter \ {r} : at'[q] = at[q]
  BY Finishes DEF TypeOK
<1>2. \A q \in Reporter \ {r} : at'[q] \notin InReport
  BY <1>1 DEF Calm
<1>3. at'[r] \notin InReport /\ Phase(r)'
  BY <1>1, StageSets DEF Phase, Resting, InReport, Saving
<1>4. QED BY <1>2, <1>3, CalmAlone

LEMMA ReadStatusQuiet ==
  ASSUME TypeOK, QuietInv, NEW r \in Reporter, ReadStatus(r)
  PROVE  QuietInv'
<1>1. UNCHANGED <<unit, good, stale, stored, status, errors>> /\ at[r] = "status"
  BY DEF ReadStatus, documents
<1>2. ASSUME ~disturbed' PROVE Calm'
  <2>1. ~disturbed /\ \A q \in Reporter \ {r} : at[q] \notin InReport
    BY <1>2 DEF ReadStatus
  <2>2. Calm /\ \A u \in Unit : Together(u)
    BY <1>1, <2>1, StageSets DEF QuietInv, Calm, Resting
  <2>3. \A u \in Unit : Together(u)'
    BY <1>1, <2>2 DEF Together, List
  <2>4. Goto(r, IF good[r] /\ ~stored THEN "error" ELSE "replace")
    BY DEF ReadStatus
  <2>5. /\ at'[r] = IF good[r] /\ ~stored THEN "error" ELSE "replace"
        /\ \A q \in Reporter \ {r} : at'[q] = at[q]
    BY <2>4, Goes DEF InReport
  <2>6. seen'[r] = status
    BY DEF ReadStatus, TypeOK
  <2>7. good[r] /\ ~stored => status[unit[r]] # Failing
    BY DEF QuietInv, NoStatus, TypeOK, Absent, Failing
  <2>8. Phase(r)'
    BY <1>1, <2>3, <2>5, <2>6, <2>7 DEF Phase, Saving
  <2>9. at'[r] \in InReport /\ \A q \in Reporter \ {r} : at'[q] \notin InReport
    BY <2>1, <2>5 DEF InReport
  <2>10. Len(errors') <= 1
    BY <1>1, <2>2 DEF Calm
  <2>11. QED BY <2>8, <2>9, <2>10, CalmAlone
<1>3. QED BY <1>1, <1>2 DEF QuietInv

LEMMA ReplaceQuiet ==
  ASSUME TypeOK, QuietInv, NEW r \in Reporter, Replace(r)
  PROVE  QuietInv'
<1>1. UNCHANGED <<unit, good, seen, stale, errors, disturbed>> /\ at[r] = "replace" /\ stored'
  BY DEF Replace
<1>2. ASSUME Calm PROVE Calm'
  <2>1. at'[r] = "error" /\ \A q \in Reporter \ {r} : at'[q] = at[q]
    BY Goes DEF Replace, InReport
  <2>2. \A q \in Reporter \ {r} : at'[q] \notin InReport
    BY <1>1, <1>2, <2>1 DEF Calm, InReport
  <2>3. seen[r] = status /\ \A u \in Unit : Together(u)
    BY <1>1, <1>2 DEF Calm, Phase
  <2>4. status' = [status EXCEPT ![unit[r]] = IF good[r] THEN Fine ELSE Failing]
    BY <2>3 DEF Replace
  <2>5. /\ \A u \in Unit \ {unit[r]} : status'[u] = status[u]
        /\ status'[unit[r]] = IF good[r] THEN Fine ELSE Failing
    BY <2>4 DEF TypeOK, Statuses
  <2>6. \A u \in Unit \ {unit[r]} : Together(u)'
    BY <1>1, <2>3, <2>5 DEF Together, List
  <2>7. status'[unit[r]] = Failing <=> ~good[r]
    BY <2>5 DEF Fine, Failing
  <2>8. Phase(r)'
    BY <1>1, <2>1, <2>6, <2>7 DEF Phase, Saving
  <2>9. at'[r] \in InReport /\ Len(errors') <= 1
    BY <1>1, <1>2, <2>1 DEF InReport, Calm
  <2>10. QED BY <2>2, <2>8, <2>9, CalmAlone
<1>3. QED BY <1>1, <1>2 DEF QuietInv

LEMMA ReadErrorQuiet ==
  ASSUME TypeOK, QuietInv, NEW r \in Reporter, ReadError(r)
  PROVE  QuietInv'
<1>1. UNCHANGED <<good, stored, status, errors, disturbed>> /\ at[r] = "error" /\ at[r] \in InReport
  BY DEF ReadError, documents, InReport
<1>2. ASSUME Calm PROVE Calm'
  <2>1. /\ \A u \in Unit \ {unit[r]} : Together(u)
        /\ status[unit[r]] = Failing <=> ~good[r]
    BY <1>1, <1>2 DEF Calm, Phase
  <2>2. \A u \in Unit : Together(u)' <=> Together(u)
    BY <1>1 DEF Together, List
  <2>3. errors # << >> => List = Head(errors) /\ errors[1] = Head(errors)
    BY FirstError DEF List
  <2>4. CASE Found(r) = "none"
    <3>1. Finish(r)
      BY <2>4 DEF ReadError
    <3>2. Together(unit[r])
      BY <2>1, <2>3, <2>4 DEF Found, Together, List
    <3>3. \A u \in Unit : Together(u)'
      BY <2>1, <2>2, <3>2
    <3>4. Len(errors') <= 1
      BY <1>1, <1>2 DEF Calm
    <3>5. QED BY <1>1, <1>2, <3>1, <3>3, <3>4, Ended
  <2>5. CASE Found(r) # "none"
    <3>1. Found(r) \in Saving /\ Goto(r, Found(r)) /\ UNCHANGED <<unit, seen>>
      BY <2>5 DEF ReadError, Found, Saving
    <3>2. at'[r] = Found(r) /\ \A q \in Reporter \ {r} : at'[q] = at[q]
      BY <3>1, Goes, StageSets
    <3>3. stale'[r] = "fresh"
      BY DEF ReadError, TypeOK
    <3>4. /\ Found(r) = "create" => ~good[r] /\ errors = << >>
          /\ Found(r) = "push" => ~good[r] /\ errors # << >>
          /\ Found(r) = "set" => good[r] /\ errors # << >>
          /\ Found(r) = "delete" => good[r] /\ errors # << >> /\ errors[1] \subseteq {unit[r]}
      BY <2>3 DEF Found
    <3>5. Phase(r)'
      BY <1>1, <2>1, <2>2, <3>1, <3>2, <3>3, <3>4 DEF Phase, Saving
    <3>6. at'[r] \in InReport /\ Len(errors') <= 1
      BY <1>1, <1>2, <3>1, <3>2, StageSets DEF Calm
    <3>7. \A q \in Reporter \ {r} : at'[q] \notin InReport
      BY <1>1, <1>2, <3>2 DEF Calm
    <3>8. QED BY <3>5, <3>6, <3>7, CalmAlone
  <2>6. QED BY <2>4, <2>5
<1>3. QED BY <1>1, <1>2 DEF QuietInv

LEMMA CreateQuiet ==
  ASSUME TypeOK, QuietInv, NEW r \in Reporter, Create(r)
  PROVE  QuietInv'
<1>1. /\ UNCHANGED <<good, stale, stored, status, disturbed>> /\ at[r] = "create"
      /\ at[r] \in InReport /\ at[r] \in Saving /\ Finish(r)
      /\ errors' = Append(errors, {unit[r]})
  BY DEF Create, InReport, Saving
<1>2. ASSUME Calm PROVE Calm'
  <2>1. errors = << >> /\ ~good[r] /\ status[unit[r]] = Failing
    BY <1>1, <1>2 DEF Calm, Phase
  <2>2. \A u \in Unit \ {unit[r]} : Together(u)
    BY <1>1, <1>2 DEF Calm, Phase
  <2>3. errors' = <<{unit[r]}>>
    BY <1>1, <2>1
  <2>4. List = {} /\ List' = {unit[r]} /\ Len(errors') <= 1
    BY <2>1, <2>3 DEF List
  <2>5. \A u \in Unit : Together(u)'
    BY <1>1, <2>1, <2>2, <2>4 DEF Together
  <2>6. QED BY <1>1, <1>2, <2>4, <2>5, Ended
<1>3. QED BY <1>1, <1>2 DEF QuietInv

LEMMA SaveQuiet ==
  ASSUME TypeOK, QuietInv, NEW r \in Reporter, Save(r)
  PROVE  QuietInv'
<1>1. /\ UNCHANGED <<good, stored, status, disturbed>> /\ at[r] \in {"push", "set"}
      /\ at[r] \in InReport /\ at[r] \in Saving /\ Finish(r)
  BY DEF Save, InReport, Saving
<1>2. ASSUME Calm PROVE Calm'
  <2>1. /\ errors # << >> /\ stale[r] = "fresh"
        /\ good[r] <=> at[r] = "set"
        /\ status[unit[r]] = Failing <=> ~good[r]
        /\ \A u \in Unit \ {unit[r]} : Together(u)
        /\ Len(errors) <= 1
    BY <1>1, <1>2 DEF Calm, Phase
  <2>2. errors' = [errors EXCEPT ![1] = IF at[r] = "push" THEN @ \cup {unit[r]}
                                                         ELSE @ \ {unit[r]}]
    BY <2>1 DEF Save, Saves
  <2>3. errors \in Seq(SUBSET Unit) /\ 1 \in DOMAIN errors
    BY <2>1, FirstError DEF TypeOK
  <2>4. /\ errors' # << >> /\ Len(errors') = Len(errors)
        /\ errors'[1] = IF at[r] = "push" THEN errors[1] \cup {unit[r]}
                                          ELSE errors[1] \ {unit[r]}
    BY <2>2, <2>3
  <2>5. \A u \in Unit : Together(u)'
    BY <1>1, <2>1, <2>4 DEF Together, List
  <2>6. Len(errors') <= 1
    BY <2>1, <2>4
  <2>7. QED BY <1>1, <1>2, <2>5, <2>6, Ended
<1>3. QED BY <1>1, <1>2 DEF QuietInv

LEMMA DeleteQuiet ==
  ASSUME TypeOK, QuietInv, NEW r \in Reporter, Delete(r)
  PROVE  QuietInv'
<1>1. /\ UNCHANGED <<good, stored, status, disturbed>> /\ at[r] = "delete"
      /\ at[r] \in InReport /\ at[r] \in Saving /\ Finish(r)
  BY DEF Delete, InReport, Saving
<1>2. ASSUME Calm PROVE Calm'
  <2>1. /\ errors # << >> /\ errors[1] \subseteq {unit[r]} /\ good[r] /\ Len(errors) <= 1
        /\ status[unit[r]] # Failing
        /\ \A u \in Unit \ {unit[r]} : Together(u)
    BY <1>1, <1>2 DEF Calm, Phase
  <2>2. errors' = Tail(errors) /\ errors \in Seq(SUBSET Unit)
    BY <2>1 DEF Delete, TypeOK
  <2>3. errors' = << >> /\ Len(errors') <= 1
    BY <2>1, <2>2
  <2>4. \A u \in Unit : Together(u)'
    BY <1>1, <2>1, <2>3 DEF Together, List
  <2>5. QED BY <1>1, <1>2, <2>3, <2>4, Ended
<1>3. QED BY <1>1, <1>2 DEF QuietInv

LEMMA QuietStep == TypeOK /\ QuietInv /\ [Next]_vars => QuietInv'
<1> SUFFICES ASSUME TypeOK, QuietInv, [Next]_vars PROVE QuietInv'
  OBVIOUS
<1>1. CASE Turn
  BY <1>1, TurnOutside, OutsideQuiet
<1>2. CASE StartCycle
  BY <1>2, StartOutside, OutsideQuiet
<1>3. ASSUME NEW r \in Monitor, Tick(r) \/ Probe(r) PROVE QuietInv'
  BY <1>3, MonitorOutside, OutsideQuiet
<1>4. ASSUME NEW r \in Counter, Count(r) PROVE QuietInv'
  BY <1>4, CountOutside, OutsideQuiet
<1>5. ASSUME NEW r \in Reporter, Fault(r) PROVE QuietInv'
  BY <1>5 DEF Fault, documents, QuietInv
<1>6. QED BY <1>1, <1>2, <1>3, <1>4, <1>5, Actions, ChangeQuiet, ReadStatusQuiet, ReplaceQuiet,
             ReadErrorQuiet, CreateQuiet, SaveQuiet, DeleteQuiet, Zenon

(* Between reports that did not overlap and did not fail, a unit is listed  *)
(* in the device's one Error document exactly when its status is 2.         *)
THEOREM CollectionsAgree == Spec => []AgreeUnlessDisturbed
<1>1. Init => TypeOK /\ QuietInv
  BY TypeInit, QuietInit
<1>2. TypeOK /\ QuietInv /\ [Next]_vars => TypeOK' /\ QuietInv'
  BY TypeStep, QuietStep
<1>3. TypeOK /\ QuietInv => AgreeUnlessDisturbed
  BY ListedFirst DEF QuietInv, Calm, Together, AgreeUnlessDisturbed
<1>4. QED BY <1>1, <1>2, <1>3, PTL DEF Spec

=============================================================================
