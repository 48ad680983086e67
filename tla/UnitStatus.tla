----------------------------- MODULE UnitStatus -----------------------------
(***************************************************************************)
(* What the backend says of the communication with the units of one        *)
(* device: a Status document with an entry for each unit, 0 or 2, and      *)
(* Error documents that list the units whose communication fails.          *)
(*                                                                         *)
(* A report of a unit, good or bad, reads the Status document, replaces it *)
(* as a whole, reads the first Error document, and creates, saves or       *)
(* deletes one: four database calls with an await after each.  A device of *)
(* the DDC is reported on by the polling cycle, unit after unit, and by    *)
(* the ticks of the link monitor; the people counter by one task for each  *)
(* unit, all started at once.                                              *)
(*                                                                         *)
(* Mongoose checks a version when a whole array is saved and none when an  *)
(* entry is pushed; saving a deleted document fails.  stale says what      *)
(* became of the Error document that a report has read.                    *)
(***************************************************************************)
EXTENDS Naturals, Sequences

CONSTANTS NUnits,       \* the units of the device
          Cycle,        \* the polling cycle
          Monitor,      \* the ticks of the link monitor that may overlap
          Counter,      \* the tasks of the people counter's tick
          UnitOf,       \* the unit of each of them
          MaxChange,    \* bound on the changes of the line and the DDC
          MaxFault      \* bound on the database calls that fail

Unit == 1..NUnits
Reporter == {Cycle} \cup Monitor \cup Counter

ASSUME StatusAssumption ==
  /\ NUnits \in Nat \ {0}
  /\ Cycle \notin Monitor \cup Counter
  /\ Monitor \cap Counter = {}
  /\ UnitOf \in [Counter -> Unit]
  /\ MaxChange \in Nat
  /\ MaxFault \in Nat

VARIABLES kind,         \* a device of the DDC, or the people counter
          connected,    \* isConnected of the serial line
          answering,    \* the units whose registers can be read
          changes,
          down,         \* linkDownActive
          outcome,      \* the units the cycle's reads were good for
          at,           \* where each reporter is
          unit,         \* the unit it reports on
          good,         \* what it reports
          seen,         \* the Status document it has read
          stale,        \* what became of the Error document it has read
          stored,       \* whether there is a Status document
          status,       \* its entries
          errors,       \* the Error documents of the device, oldest first
          faults,
          disturbed     \* history: two reports overlapped, or one failed

environment == <<kind, connected, answering, changes>>
reports == <<at, unit, good, seen, stale>>
documents == <<stored, status, errors>>
vars == <<environment, down, outcome, reports, documents, faults, disturbed>>

(* 0 and 2 as the source has them; 1 stands for no entry.                   *)
Fine == 0
Absent == 1
Failing == 2
Statuses == [Unit -> {Fine, Absent, Failing}]

Saving == {"create", "push", "set", "delete"}
InReport == {"replace", "error"} \cup Saving

TypeOK ==
  /\ kind \in {"ddc", "counter"}
  /\ connected \in BOOLEAN
  /\ answering \in SUBSET Unit
  /\ changes \in 0..MaxChange
  /\ down \in BOOLEAN
  /\ outcome \in SUBSET Unit
  /\ at \in [Reporter -> {"idle", "turn", "probe", "status"} \cup InReport]
  /\ unit \in [Reporter -> Unit]
  /\ good \in [Reporter -> BOOLEAN]
  /\ seen \in [Reporter -> Statuses]
  /\ stale \in [Reporter -> {"fresh", "changed", "gone"}]
  /\ stored \in BOOLEAN
  /\ status \in Statuses
  /\ errors \in Seq(SUBSET Unit)
  /\ faults \in 0..MaxFault
  /\ disturbed \in BOOLEAN

NoStatus == [u \in Unit |-> Absent]

(* Registration creates a document of each kind without entries, and goes   *)
(* on when it cannot.  The status of the device itself, which each report   *)
(* computes from its units', is left out.                                   *)
Init ==
  /\ kind \in {"ddc", "counter"}
  /\ connected = TRUE
  /\ answering = Unit
  /\ changes = 0
  /\ down = FALSE
  /\ outcome = {}
  /\ at = [r \in Reporter |-> "idle"]
  /\ unit = [r \in Reporter |-> IF r \in Counter THEN UnitOf[r] ELSE 1]
  /\ good = [r \in Reporter |-> TRUE]
  /\ seen = [r \in Reporter |-> NoStatus]
  /\ stale = [r \in Reporter |-> "fresh"]
  /\ stored \in BOOLEAN
  /\ status \in {NoStatus} \cup IF stored THEN {[u \in Unit |-> Fine]} ELSE {}
  /\ errors \in {<< >>, <<{}>>}
  /\ faults = 0
  /\ disturbed = FALSE

(* The units whose registers a read returns now.                            *)
Readable == IF connected THEN answering ELSE {}

Goto(r, stage) == at' = [at EXCEPT ![r] = stage]

(* Definitions whose comment starts with "Defect" are not part of the       *)
(* model: each is a plausible mistake in the definition after it, used to   *)
(* see that a property depends on that definition.                          *)

(* Where the cycle and a tick go on to the next unit.                       *)
After(r) ==
  IF r \in Counter \/ unit[r] = NUnits THEN "idle"
  ELSE IF r = Cycle THEN "turn" ELSE "status"

(* Defect: the loop over the units does not begin at the first one again.   *)
FinishOnward(r) ==
  /\ Goto(r, After(r))
  /\ unit' = [unit EXCEPT ![r] = IF r \in Counter THEN @ ELSE @ + 1]
  /\ seen' = [seen EXCEPT ![r] = NoStatus]

(* The end of a report.                                                     *)
Finish(r) ==
  /\ Goto(r, After(r))
  /\ unit' = [unit EXCEPT ![r] = IF r \in Counter THEN @
                                 ELSE IF @ = NUnits THEN 1 ELSE @ + 1]
  /\ seen' = [seen EXCEPT ![r] = NoStatus]

-----------------------------------------------------------------------------
(* The line and the DDC.                                                    *)
Change ==
  /\ changes < MaxChange
  /\ changes' = changes + 1
  /\ \/ connected' = ~connected /\ UNCHANGED answering
     \/ answering' \in (SUBSET Unit) \ {answering} /\ UNCHANGED connected
  /\ UNCHANGED <<kind, down, outcome, reports, documents, faults, disturbed>>

(* executeMappedPollingForAllDevices: the bulk reads, and then the units.   *)
StartCycle ==
  /\ kind = "ddc"
  /\ at[Cycle] = "idle"
  /\ outcome' = Readable
  /\ Goto(Cycle, "turn")
  /\ UNCHANGED <<environment, down, unit, good, seen, stale, documents, faults,
                 disturbed>>

(* Defect: the good report is dropped for as long as the unit is failing.   *)
TurnLatched ==
  /\ at[Cycle] = "turn"
  /\ \/ /\ unit[Cycle] \in outcome /\ (down \/ status[unit[Cycle]] = Failing)
        /\ Finish(Cycle)
        /\ UNCHANGED good
     \/ /\ ~(unit[Cycle] \in outcome /\ (down \/ status[unit[Cycle]] = Failing))
        /\ good' = [good EXCEPT ![Cycle] = unit[Cycle] \in outcome]
        /\ Goto(Cycle, "status")
        /\ UNCHANGED <<unit, seen>>
  /\ UNCHANGED <<environment, down, outcome, stale, documents, faults, disturbed>>

(* applyUnitCommunicationStatusFromPolling: a good outcome is not reported  *)
(* while the link is known to be down.                                      *)
Turn ==
  /\ at[Cycle] = "turn"
  /\ \/ /\ unit[Cycle] \in outcome /\ down
        /\ Finish(Cycle)
        /\ UNCHANGED good
     \/ /\ ~(unit[Cycle] \in outcome /\ down)
        /\ good' = [good EXCEPT ![Cycle] = unit[Cycle] \in outcome]
        /\ Goto(Cycle, "status")
        /\ UNCHANGED <<unit, seen>>
  /\ UNCHANGED <<environment, down, outcome, stale, documents, faults, disturbed>>

(* runLinkMonitorTick up to its first await.                                *)
Tick(r) ==
  /\ kind = "ddc"
  /\ at[r] = "idle"
  /\ \/ /\ ~connected /\ ~down
        /\ down' = TRUE
        /\ good' = [good EXCEPT ![r] = FALSE]
        /\ Goto(r, "status")
     \/ connected /\ down /\ Goto(r, "probe") /\ UNCHANGED <<down, good>>
  /\ UNCHANGED <<environment, outcome, unit, seen, stale, documents, faults,
                 disturbed>>

(* The probe reads one register of the DDC.                                 *)
Probe(r) ==
  /\ at[r] = "probe"
  /\ \/ /\ Readable # {}
        /\ down' = FALSE
        /\ good' = [good EXCEPT ![r] = TRUE]
        /\ Goto(r, "status")
     \/ Readable # Unit /\ Goto(r, "idle") /\ UNCHANGED <<down, good>>
  /\ UNCHANGED <<environment, outcome, unit, seen, stale, documents, faults,
                 disturbed>>

(* Polling is turned off and on: stopLinkMonitor and startLinkMonitor.      *)
ResetLink ==
  /\ kind = "ddc" /\ down
  /\ changes < MaxChange
  /\ changes' = changes + 1
  /\ down' = FALSE
  /\ UNCHANGED <<kind, connected, answering, outcome, reports, documents, faults,
                 disturbed>>

(* PeopleCounterPoller.tick: the answer of each unit, or its failure.       *)
Count(r) ==
  /\ kind = "counter"
  /\ at[r] = "idle"
  /\ good' = [good EXCEPT ![r] = unit[r] \in answering]
  /\ Goto(r, "status")
  /\ UNCHANGED <<environment, down, outcome, unit, seen, stale, documents, faults,
                 disturbed>>

-----------------------------------------------------------------------------
(* setCommunicationErrorForDevice and clearCommunicationErrorForDevice of   *)
(* StatusService.  Without a document there is nothing to clear.            *)
ReadStatus(r) ==
  /\ at[r] = "status"
  /\ seen' = [seen EXCEPT ![r] = status]
  /\ Goto(r, IF good[r] /\ ~stored THEN "error" ELSE "replace")
  /\ disturbed' = (disturbed \/ \E q \in Reporter \ {r} : at[q] \in InReport)
  /\ UNCHANGED <<environment, down, outcome, unit, good, stale, documents, faults>>

(* Defect: only the units the document has already are changed.             *)
ReplaceKnown(r) ==
  /\ at[r] = "replace"
  /\ stored' = TRUE
  /\ status' = IF seen[r] = NoStatus
               THEN [u \in Unit |-> IF u = unit[r] THEN Failing ELSE Absent]
               ELSE [seen[r] EXCEPT ![unit[r]] =
                       IF @ = Absent THEN Absent
                       ELSE IF good[r] THEN Fine ELSE Failing]
  /\ Goto(r, "error")
  /\ UNCHANGED <<environment, down, outcome, unit, good, seen, stale, errors,
                 faults, disturbed>>

(* upsertStatus: findOneAndReplace of the whole document; a unit without an *)
(* entry gets one, the first report of a device after its registration.     *)
Replace(r) ==
  /\ at[r] = "replace"
  /\ stored' = TRUE
  /\ status' = [seen[r] EXCEPT ![unit[r]] = IF good[r] THEN Fine ELSE Failing]
  /\ Goto(r, "error")
  /\ UNCHANGED <<environment, down, outcome, unit, good, seen, stale, errors,
                 faults, disturbed>>

(* createCommunicationErrorForDevice and clearCommunicationErrorForDevice   *)
(* of ErrorService: findOne, and what it makes them do.  A good report      *)
(* deletes the document if no unit but its own is in it, also if none is.   *)
(* A document saved without a change is not written.                        *)
Found(r) ==
  IF good[r]
  THEN IF errors = << >> THEN "none"
       ELSE IF Head(errors) \subseteq {unit[r]} THEN "delete"
       ELSE IF unit[r] \in Head(errors) THEN "set" ELSE "none"
  ELSE IF errors = << >> THEN "create"
       ELSE IF unit[r] \in Head(errors) THEN "none" ELSE "push"

ReadError(r) ==
  /\ at[r] = "error"
  /\ stale' = [stale EXCEPT ![r] = "fresh"]
  /\ IF Found(r) = "none" THEN Finish(r)
     ELSE Goto(r, Found(r)) /\ UNCHANGED <<unit, seen>>
  /\ UNCHANGED <<environment, down, outcome, good, documents, faults, disturbed>>

Create(r) ==
  /\ at[r] = "create"
  /\ errors' = Append(errors, {unit[r]})
  /\ Finish(r)
  /\ UNCHANGED <<environment, down, outcome, good, stale, stored, status, faults,
                 disturbed>>

(* The first document, as the reports that have read it will find it.       *)
Touch(state) ==
  stale' = [q \in Reporter |-> IF at[q] \notin Saving \/ stale[q] = "gone"
                               THEN stale[q] ELSE state]

(* Whether the save finds the document, and in the version it was read.     *)
Saves(r) == stale[r] = "fresh" \/ (stale[r] = "changed" /\ at[r] = "push")

(* Saving an entry pushed, or an array without one.                         *)
Save(r) ==
  /\ at[r] \in {"push", "set"}
  /\ \/ /\ Saves(r)
        /\ errors' = [errors EXCEPT ![1] = IF at[r] = "push"
                                           THEN @ \cup {unit[r]}
                                           ELSE @ \ {unit[r]}]
        /\ Touch("changed")
     \/ ~Saves(r) /\ UNCHANGED <<errors, stale>>
  /\ Finish(r)
  /\ UNCHANGED <<environment, down, outcome, good, stored, status, faults,
                 disturbed>>

(* deleteOne by device: the first document, whatever is in it by now.       *)
Delete(r) ==
  /\ at[r] = "delete"
  /\ \/ errors # << >> /\ errors' = Tail(errors) /\ Touch("gone")
     \/ errors = << >> /\ UNCHANGED <<errors, stale>>
  /\ Finish(r)
  /\ UNCHANGED <<environment, down, outcome, good, stored, status, faults,
                 disturbed>>

(* A database call fails: the rest of the report is skipped.                *)
Fault(r) ==
  /\ at[r] \in InReport \cup {"status"}
  /\ faults < MaxFault
  /\ faults' = faults + 1
  /\ disturbed' = TRUE
  /\ Finish(r)
  /\ UNCHANGED <<environment, down, outcome, good, stale, documents>>

Report(r) ==
  ReadStatus(r) \/ Replace(r) \/ ReadError(r) \/ Create(r) \/ Save(r) \/ Delete(r)

Next ==
  \/ Change \/ ResetLink \/ StartCycle \/ Turn
  \/ \E r \in Monitor : Tick(r) \/ Probe(r)
  \/ \E r \in Counter : Count(r)
  \/ \E r \in Reporter : Report(r) \/ Fault(r)

Spec == Init /\ [][Next]_vars

(* Timers go on, database calls and queued reads return.                    *)
FairSpec ==
  /\ Spec
  /\ WF_vars(StartCycle) /\ WF_vars(Turn)
  /\ \A r \in Monitor : WF_vars(Tick(r)) /\ WF_vars(Probe(r))
  /\ \A r \in Counter : WF_vars(Count(r))
  /\ \A r \in Reporter : WF_vars(Report(r))

-----------------------------------------------------------------------------
Listed(u) == \E i \in DOMAIN errors : u \in errors[i]

(* As long as no two reports overlapped and none failed, the two            *)
(* collections agree between reports: a unit is listed in an Error document *)
(* exactly when its status is 2, and the device has one Error document at   *)
(* most, though the two services update their documents one after another   *)
(* and each report by a find and a save of its own.                         *)
AgreeUnlessDisturbed ==
  \/ disturbed
  \/ \E r \in Reporter : at[r] \in InReport
  \/ Len(errors) <= 1 /\ \A u \in Unit : Listed(u) <=> status[u] = Failing

(* What is shown of a device of the DDC follows the line, whatever          *)
(* overlapped or failed on the way.  Once all units can be read for good,   *)
(* no unit has status 2, no Error document is left and the link is not held *)
(* to be down; once a unit cannot be read any more its status is 2 and it   *)
(* is listed: the cycle and the monitor repeat their reports.               *)
StatusFollows ==
  kind = "ddc" =>
    /\ <>[](connected /\ answering = Unit)
         => <>[](~down /\ errors = << >> /\ \A u \in Unit : status[u] # Failing)
    /\ \A u \in Unit :
         <>[](u \notin Readable) => <>[](status[u] = Failing /\ Listed(u))
=============================================================================
