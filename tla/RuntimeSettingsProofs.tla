----------------------- MODULE RuntimeSettingsProofs -----------------------
(***************************************************************************)
(* Proofs about RuntimeSettings for every number of processes, prompts and *)
(* polling gaps: type correctness; that an update undoes no other unless   *)
(* two reads-then-writes overlapped; that the lock is set as long as a     *)
(* load applies, and only then, and the polling flag frozen meanwhile,     *)
(* unless an overlap, a crash, a stored document or a failed release of    *)
(* the lock came in between since no call was under way.                   *)
(***************************************************************************)
EXTENDS RuntimeSettings, TLAPS

SettingsField == Flag \cup {"pollingInterval", "recoveryPrompt", "seasonal"}

(* The document has the listed fields, each with its type.                  *)
LEMMA SettingsShape ==
  ASSUME NEW r \in Settings
  PROVE  /\ DOMAIN r = SettingsField
         /\ \A f \in SettingsField : r[f] \in Value(f)
  BY SMTT(30) DEF Settings, SettingsField, Flag, Switch, Value

(* A function on the fields with their types is a document.                 *)
LEMMA SettingsMake ==
  ASSUME NEW r, r = [f \in SettingsField |-> r[f]],
         \A f \in SettingsField : r[f] \in Value(f)
  PROVE  r \in Settings
<1>1. /\ r.pollingEnabled \in BOOLEAN /\ r.applyInProgress \in BOOLEAN
      /\ r.exhibitionMode \in BOOLEAN /\ r.peopleCounterEnabled \in BOOLEAN
      /\ r.pollingInterval \in Gap /\ r.recoveryPrompt \in Prompt \cup {NoPrompt}
      /\ r.seasonal \in Season
  BY SMTT(30) DEF SettingsField, Flag, Switch, Value
<1>2. DOMAIN r = {"pollingEnabled", "applyInProgress", "exhibitionMode",
                  "peopleCounterEnabled", "pollingInterval", "recoveryPrompt", "seasonal"}
  BY SMTT(30) DEF SettingsField, Flag, Switch
<1> QED BY <1>1, <1>2, SMTT(30) DEF Settings, SettingsField, Flag, Switch

(* updateSettings of the repository keeps the document's type.              *)
LEMMA PatchedType ==
  ASSUME NEW doc \in Settings, NEW new \in Settings
  PROVE  /\ Patched(doc, new) \in Settings
         /\ \A f \in SettingsField :
              Patched(doc, new)[f] = IF f \in Persisted THEN new[f] ELSE doc[f]
<1>1. DOMAIN doc = SettingsField
  BY SettingsShape
<1>2. \A f \in SettingsField : Patched(doc, new)[f] = IF f \in Persisted THEN new[f] ELSE doc[f]
  BY <1>1 DEF Patched
<1>3. \A f \in SettingsField : Patched(doc, new)[f] \in Value(f)
  BY <1>2, SettingsShape, Zenon
<1>4. Patched(doc, new) = [f \in SettingsField |-> Patched(doc, new)[f]]
  BY <1>1 DEF Patched
<1> QED BY <1>2, <1>3, <1>4, SettingsMake, Zenon

(* So does the one new value of an update.                                  *)
LEMMA WithType ==
  ASSUME NEW r \in Settings, NEW g \in SettingsField, NEW v \in Value(g)
  PROVE  /\ With(r, g, v) \in Settings
         /\ \A f \in SettingsField : With(r, g, v)[f] = IF f = g THEN v ELSE r[f]
<1>1. DOMAIN r = SettingsField
  BY SettingsShape
<1>2. \A f \in SettingsField : With(r, g, v)[f] = IF f = g THEN v ELSE r[f]
  BY <1>1 DEF With
<1>3. \A f \in SettingsField : With(r, g, v)[f] \in Value(f)
  BY <1>2, SettingsShape, Zenon
<1>4. With(r, g, v) = [f \in SettingsField |-> With(r, g, v)[f]]
  BY <1>1 DEF With
<1> QED BY <1>2, <1>3, <1>4, SettingsMake, Zenon

(* A new server's settings are well-typed.                                  *)
LEMMA DefaultsType == Defaults \in Settings
  BY SettingsAssumption DEF Defaults, Settings

-----------------------------------------------------------------------------
AnyField == Flag \cup {"pollingInterval", "recoveryPrompt"}
AnyValue == BOOLEAN \cup Gap \cup Prompt \cup {NoPrompt}
PastEvent == {"overlap", "overwrite", "left"}

(* The parts of a process's state have their types.                         *)
ProcType ==
  /\ at \in [Proc -> Point]
  /\ field \in [Proc -> AnyField]
  /\ value \in [Proc -> AnyValue]
  /\ \A p \in Proc : value[p] \in Value(field[p])
  /\ copy \in [Proc -> Settings]

LEMMA TypeParts ==
  TypeOK <=> /\ settings \in Settings
             /\ ProcType
             /\ prompt \in [Prompt -> {"new", "issuing", "shown"}]
             /\ saved \in Settings \cup {NoSnapshot}
             /\ past \subseteq PastEvent
  BY DEF TypeOK, ProcType, AnyField, AnyValue, PastEvent

LEMMA TypePartsNext ==
  ASSUME settings' \in Settings, ProcType',
         prompt' \in [Prompt -> {"new", "issuing", "shown"}],
         saved' \in Settings \cup {NoSnapshot}, past' \subseteq PastEvent
  PROVE  TypeOK'
  BY DEF TypeOK, ProcType, AnyField, AnyValue, PastEvent

LEMMA NoteType ==
  ASSUME past \subseteq PastEvent, NEW events \in SUBSET PastEvent, Note(events)
  PROVE  past' \subseteq PastEvent
BY DEF Note, PastEvent

(* Every step notes in the history what it is.                              *)
LEMMA Noted ==
  ASSUME [Next]_vars
  PROVE  \/ UNCHANGED vars
         \/ \E events \in SUBSET PastEvent : Note(events)
<1>0. {} \in SUBSET PastEvent /\ {"left"} \in SUBSET PastEvent
  BY DEF PastEvent
<1>1. ASSUME NEW p \in Proc, BeginUpdate(p) \/ BeginToggle(p) \/ BeginLoad(p) \/ BeginPrompt(p)
      PROVE  Note({})
  BY <1>1 DEF BeginUpdate, BeginToggle, BeginLoad, BeginPrompt, Call
<1>2. ASSUME NEW p \in Proc, Step(p) PROVE Note({})
  BY <1>2 DEF Step, Admit, Refuse, Read, Write, Unlock
<1>3. ASSUME NEW p \in Proc, NEW i \in Prompt, Answer(p, i) PROVE Note({})
  BY <1>3 DEF Answer
<1>8. ASSUME NEW p \in Proc, Fail(p) PROVE Note({}) \/ Note({"left"})
  <2>1. CASE Holds(p)
    BY <1>8, <2>1 DEF Fail
  <2>2. CASE ~Holds(p)
    BY <1>8, <2>2 DEF Fail
  <2> QED BY <2>1, <2>2
<1>4. ASSUME (\E s \in Season : SetSeasonal(s)) \/ TakeSnapshot PROVE Note({})
  BY <1>4 DEF SetSeasonal, TakeSnapshot
<1>5. ASSUME NEW new, Overwrite(new) PROVE \E events \in SUBSET PastEvent : Note(events)
  <2> DEFINE events == {"overwrite"} \cup {"overlap" : p \in {q \in Proc : at[q] \in Updating}}
  <2>1. events \in SUBSET PastEvent
    BY DEF PastEvent
  <2>2. Note(events)
    BY <1>5 DEF Overwrite
  <2> HIDE DEF events
  <2> QED BY <2>1, <2>2
<1>6. CASE Restore \/ Initialise
  BY <1>5, <1>6 DEF Restore, Initialise
<1>7. CASE Crash
  BY <1>0, <1>7 DEF Crash
<1> QED BY <1>0, <1>1, <1>2, <1>3, <1>4, <1>6, <1>7, <1>8 DEF Next

LEMMA PastType ==
  ASSUME past \subseteq PastEvent, [Next]_vars
  PROVE  past' \subseteq PastEvent
BY Noted, NoteType DEF vars

LEMMA FlagValue == \A f \in Flag : Value(f) = BOOLEAN
  BY DEF Value

(* A returning call leaves well-typed locals behind.                        *)
LEMMA ReturnType ==
  ASSUME ProcType, NEW p \in Proc, Return(p)
  PROVE  ProcType'
<1>1. /\ at' \in [Proc -> Point]
      /\ field' \in [Proc -> AnyField]
      /\ value' \in [Proc -> AnyValue] /\ copy' \in [Proc -> Settings]
  BY DefaultsType DEF ProcType, Return, Goto, Point, AnyField, Flag, AnyValue
<1>2. \A q \in Proc : value'[q] \in Value(field'[q])
  <2>1. FALSE \in Value("applyInProgress")
    BY FlagValue DEF Flag
  <2>2. TAKE q \in Proc
  <2>3. CASE q = p
    BY <2>1, <2>3 DEF ProcType, Return
  <2>4. CASE q # p
    <3>1. value'[q] = value[q] /\ field'[q] = field[q]
      BY <2>4 DEF ProcType, Return
    <3> QED BY <3>1, Zenon DEF ProcType
  <2> QED BY <2>3, <2>4
<1> QED BY <1>1, <1>2 DEF ProcType

(* So does a call, if its value is one of its field.                        *)
LEMMA CallType ==
  ASSUME ProcType, NEW p \in Proc, NEW f \in AnyField, NEW v \in Value(f),
         NEW point \in Point, Call(p, f, v, point)
  PROVE  ProcType'
<1>1. /\ at' \in [Proc -> Point]
      /\ field' \in [Proc -> AnyField]
      /\ value' \in [Proc -> AnyValue] /\ copy' \in [Proc -> Settings]
  BY SMTT(30) DEF ProcType, Call, Goto, AnyField, AnyValue, Value
<1>2. \A q \in Proc : value'[q] \in Value(field'[q])
  BY SMTT(30) DEF ProcType, Call, Goto
<1> QED BY <1>1, <1>2 DEF ProcType

LEMMA TypeInit == Init => TypeOK
<1> SUFFICES ASSUME Init PROVE TypeOK
  OBVIOUS
<1>1. settings \in Settings
  BY DefaultsType DEF Init
<1>2. ProcType
  BY DefaultsType, SMTT(30) DEF Init, ProcType, Point, AnyField, AnyValue, Flag, Value
<1>3. /\ prompt \in [Prompt -> {"new", "issuing", "shown"}]
      /\ saved \in Settings \cup {NoSnapshot}
      /\ past \subseteq PastEvent
  BY DEF Init
<1> QED BY <1>1, <1>2, <1>3, TypeParts

(* A write patches the document and notes the value in the history.         *)
LEMMA WriteType ==
  ASSUME TypeOK, NEW p \in Proc, Write(p)
  PROVE  /\ settings' \in Settings
         /\ \A f \in SettingsField :
              settings'[f] = IF f \in Persisted
                             THEN IF f = field[p] THEN value[p] ELSE copy[p][f]
                             ELSE settings[f]
<1>1. /\ field[p] \in SettingsField /\ value[p] \in Value(field[p])
      /\ copy[p] \in Settings /\ settings \in Settings
  BY TypeParts DEF ProcType, AnyField, SettingsField
<1> DEFINE new == With(copy[p], field[p], value[p])
<1>2. /\ new \in Settings
      /\ \A f \in SettingsField : new[f] = IF f = field[p] THEN value[p] ELSE copy[p][f]
  BY <1>1, WithType
<1>4. settings' = Patched(settings, new)
  BY DEF Write
<1> HIDE DEF new
<1>5. /\ settings' \in Settings
      /\ \A f \in SettingsField :
           settings'[f] = IF f \in Persisted THEN new[f] ELSE settings[f]
  BY <1>1, <1>2, <1>4, PatchedType
<1> QED BY <1>2, <1>5, Zenon

LEMMA TypeNext == TypeOK /\ [Next]_vars => TypeOK'
<1> SUFFICES ASSUME TypeOK, [Next]_vars PROVE TypeOK'
  OBVIOUS
<1> DEFINE PromptType == prompt \in [Prompt -> {"new", "issuing", "shown"}]
<1> DEFINE RestType == /\ settings \in Settings
                       /\ PromptType
                       /\ saved \in Settings \cup {NoSnapshot}
<1>0. ProcType /\ RestType /\ past \subseteq PastEvent
  BY TypeParts
<1>t. RestType' /\ ProcType' => TypeOK'
  BY <1>0, PastType, TypePartsNext
<1>s. UNCHANGED <<settings, prompt, saved>> => RestType'
  BY <1>0
<1>u. CASE UNCHANGED vars
  BY <1>u DEF TypeOK, vars, procVars
<1>1. ASSUME NEW p \in Proc, BeginUpdate(p) PROVE TypeOK'
  <2>1. PICK f \in Switch \cup {"pollingInterval"} : \E v \in Value(f) : Call(p, f, v, "read")
    BY <1>1 DEF BeginUpdate
  <2>2. PICK v \in Value(f) : Call(p, f, v, "read")
    BY <2>1
  <2>3. f \in AnyField /\ "read" \in Point
    BY DEF AnyField, Flag, Point
  <2>4. ProcType'
    BY <1>0, <2>2, <2>3, CallType
  <2>5. RestType'
    BY <1>1, <1>s, <2>2 DEF BeginUpdate, Call
  <2> QED BY <1>t, <2>4, <2>5
<1>2. ASSUME NEW p \in Proc, BeginToggle(p) PROVE TypeOK'
  <2>1. PICK v \in BOOLEAN : Call(p, "pollingEnabled", v, "route")
    BY <1>2 DEF BeginToggle
  <2>2. "pollingEnabled" \in AnyField /\ v \in Value("pollingEnabled") /\ "route" \in Point
    BY DEF AnyField, Flag, Point, Value
  <2>3. ProcType'
    BY <1>0, <2>1, <2>2, CallType
  <2>4. RestType'
    BY <1>2, <1>s, <2>1 DEF BeginToggle, Call
  <2> QED BY <1>t, <2>3, <2>4
<1>3. ASSUME NEW p \in Proc, BeginLoad(p) PROVE TypeOK'
  <2>1. Call(p, "applyInProgress", TRUE, "check")
    BY <1>3 DEF BeginLoad
  <2>2. "applyInProgress" \in AnyField /\ TRUE \in Value("applyInProgress") /\ "check" \in Point
    BY DEF AnyField, Flag, Point, Value
  <2>3. ProcType'
    BY <1>0, <2>1, <2>2, CallType
  <2>4. RestType'
    BY <1>3, <1>s, <2>1 DEF BeginLoad, Call
  <2> QED BY <1>t, <2>3, <2>4
<1>4. ASSUME NEW p \in Proc, BeginPrompt(p) PROVE TypeOK'
  <2>1. PICK i \in Prompt : /\ Call(p, "recoveryPrompt", i, "check")
                            /\ prompt' = [prompt EXCEPT ![i] = "issuing"]
    BY <1>4 DEF BeginPrompt
  <2>2. "recoveryPrompt" \in AnyField /\ i \in Value("recoveryPrompt") /\ "check" \in Point
    BY DEF AnyField, Flag, Switch, Point, Value
  <2>3. ProcType'
    BY <1>0, <2>1, <2>2, CallType
  <2>4. RestType'
    BY <1>0, <2>1 DEF Call
  <2> QED BY <1>t, <2>3, <2>4
<1>5. ASSUME NEW p \in Proc, Admit(p) PROVE TypeOK'
  <2>1. ProcType'
    BY <1>0, <1>5, SMTT(30) DEF Admit, Goto, ProcType, Point
  <2> QED BY <1>5, <1>s, <1>t, <2>1 DEF Admit
<1>6. ASSUME NEW p \in Proc, Refuse(p) PROVE TypeOK'
  <2>1. ProcType'
    BY <1>0, <1>6, ReturnType DEF Refuse
  <2>2. RestType'
    BY <1>0, <1>6 DEF Refuse
  <2> QED BY <1>t, <2>1, <2>2
<1>17. ASSUME NEW p \in Proc, Fail(p) PROVE TypeOK'
  <2>1. ProcType'
    BY <1>0, <1>17, ReturnType DEF Fail
  <2>2. RestType'
    BY <1>0, <1>17 DEF Fail
  <2> QED BY <1>t, <2>1, <2>2
<1>7. ASSUME NEW p \in Proc, Read(p) PROVE TypeOK'
  <2>1. ProcType'
    BY <1>0, <1>7, SMTT(30) DEF Read, Goto, ProcType, Point
  <2> QED BY <1>7, <1>s, <1>t, <2>1 DEF Read
<1>8. ASSUME NEW p \in Proc, Write(p) PROVE TypeOK'
  <2>1. settings' \in Settings
    BY <1>8, WriteType
  <2>2. RestType'
    BY <1>0, <1>8, <2>1 DEF Write
  <2>3. ProcType'
    <3>1. CASE field[p] = "applyInProgress" /\ value[p]
      BY <1>0, <1>8, <3>1, DefaultsType, SMTT(30) DEF Write, Goto, ProcType, Point
    <3>2. CASE ~(field[p] = "applyInProgress" /\ value[p])
      <4>1. Return(p)
        BY <1>8, <3>2 DEF Write
      <4> QED BY <1>0, <4>1, ReturnType
    <3> QED BY <3>1, <3>2
  <2> QED BY <1>t, <2>2, <2>3
<1>9. ASSUME NEW p \in Proc, Unlock(p) PROVE TypeOK'
  <2>1. /\ at' \in [Proc -> Point] /\ field' \in [Proc -> AnyField]
        /\ value' \in [Proc -> AnyValue] /\ copy' \in [Proc -> Settings]
    BY <1>0, <1>9 DEF Unlock, Goto, ProcType, Point, AnyField, AnyValue, Flag
  <2>2. \A q \in Proc : value'[q] \in Value(field'[q])
    <3>1. FALSE \in Value("applyInProgress")
      BY FlagValue DEF Flag
    <3>2. TAKE q \in Proc
    <3>3. CASE value'[q] = value[q] /\ field'[q] = field[q]
      BY <1>0, <3>3, Zenon DEF ProcType
    <3>4. CASE ~(value'[q] = value[q] /\ field'[q] = field[q])
      BY <1>0, <1>9, <3>1, <3>4 DEF Unlock, ProcType
    <3> QED BY <3>3, <3>4
  <2>3. ProcType'
    BY <2>1, <2>2 DEF ProcType
  <2> QED BY <1>9, <1>s, <1>t, <2>3 DEF Unlock
<1>10. ASSUME NEW p \in Proc, NEW i \in Prompt, Answer(p, i) PROVE TypeOK'
  <2>1. /\ at' \in [Proc -> Point] /\ field' \in [Proc -> AnyField]
        /\ value' \in [Proc -> AnyValue] /\ copy' \in [Proc -> Settings]
    BY <1>0, <1>10 DEF Answer, Goto, procVars, ProcType, Point, AnyField, AnyValue, Flag
  <2>2. \A q \in Proc : value'[q] \in Value(field'[q])
    <3>1. TRUE \in Value("pollingEnabled")
      BY FlagValue DEF Flag
    <3>2. TAKE q \in Proc
    <3>3. CASE value'[q] = value[q] /\ field'[q] = field[q]
      BY <1>0, <3>3, Zenon DEF ProcType
    <3>4. CASE ~(value'[q] = value[q] /\ field'[q] = field[q])
      BY <1>0, <1>10, <3>1, <3>4 DEF Answer, procVars, ProcType
    <3> QED BY <3>3, <3>4
  <2>3. ProcType'
    BY <2>1, <2>2 DEF ProcType
  <2>4. RestType'
    BY <1>0, <1>10 DEF Answer
  <2> QED BY <1>t, <2>3, <2>4
<1>11. ASSUME NEW s \in Season, SetSeasonal(s) PROVE TypeOK'
  <2>1. "seasonal" \in SettingsField /\ s \in Value("seasonal")
    BY DEF SettingsField, Value, Flag, Switch
  <2>2. settings' \in Settings
    BY <1>0, <1>11, <2>1, WithType DEF SetSeasonal
  <2>3. RestType'
    BY <1>0, <1>11, <2>2 DEF SetSeasonal
  <2>4. ProcType'
    BY <1>0, <1>11 DEF SetSeasonal, procVars, ProcType
  <2> QED BY <1>t, <2>3, <2>4
<1>12. ASSUME TakeSnapshot PROVE TypeOK'
  <2>1. ProcType'
    BY <1>0, <1>12 DEF TakeSnapshot, procVars, ProcType
  <2>2. RestType'
    BY <1>0, <1>12 DEF TakeSnapshot
  <2> QED BY <1>t, <2>1, <2>2
<1>13. ASSUME NEW new \in Settings, Overwrite(new) PROVE TypeOK'
  <2>1. settings' \in Settings
    BY <1>0, <1>13, PatchedType DEF Overwrite
  <2>2. RestType'
    BY <1>0, <1>13, <2>1 DEF Overwrite
  <2>3. ProcType'
    BY <1>0, <1>13 DEF Overwrite, procVars, ProcType
  <2> QED BY <1>t, <2>2, <2>3
<1>14. ASSUME Restore PROVE TypeOK'
  BY <1>0, <1>13, <1>14 DEF Restore
<1>15. ASSUME Initialise PROVE TypeOK'
  BY <1>13, <1>15, DefaultsType DEF Initialise
<1>16. ASSUME Crash PROVE TypeOK'
  <2>1. ProcType'
    BY <1>16, DefaultsType, SMTT(30) DEF Crash, ProcType, Point, AnyField, AnyValue, Flag, Value
  <2>2. RestType'
    BY <1>0, <1>16 DEF Crash
  <2> QED BY <1>t, <2>1, <2>2
<1> QED
  BY <1>u, <1>1, <1>2, <1>3, <1>4, <1>5, <1>6, <1>7, <1>8, <1>9, <1>10, <1>11,
     <1>12, <1>14, <1>15, <1>16, <1>17 DEF Next, Step

(* The types of RuntimeSettings, for every value of the constants.          *)
THEOREM Typing == Spec => []TypeOK
  BY TypeInit, TypeNext, PTL DEF Spec

-----------------------------------------------------------------------------
(* The history: while a call is under way it only grows, and it says so     *)
(* when two reads-then-writes overlap.                                      *)
LEMMA PastGrows ==
  ASSUME [Next]_vars, ~Quiet'
  PROVE  past \subseteq past' /\ (UNCHANGED vars \/ (Overlapping' => "overlap" \in past'))
<1>1. ASSUME NEW events, Note(events)
      PROVE  past \subseteq past' /\ (Overlapping' => "overlap" \in past')
  BY <1>1 DEF Note
<1> QED BY <1>1, Noted DEF vars

(* With an empty history and the lock set, nothing has come in between.     *)
LEMMA PastClean ==
  ASSUME NEW events, Note(events), past' = {}, settings'.applyInProgress
  PROVE  past = {} /\ events = {}
BY DEF Note

(* No update is lost: at most one process is between its check and its      *)
(* write, so what it has read is what the document still says.              *)
OneUpdates ==
  \A p, q \in Proc : at[p] \in Updating /\ at[q] \in Updating => p = q
FreshCopy ==
  \A p \in Proc : at[p] = "write" => \A f \in Persisted : copy[p][f] = settings[f]
UpdateInv == OneUpdates /\ FreshCopy

(* That is so unless updates overlapped since no call was under way.        *)
UpdateKept == "overlap" \notin past => UpdateInv

LEMMA PersistedFields == Persisted \subseteq SettingsField
  BY DEF Persisted, SettingsField

(* A patch without runtime fields leaves them alone.                        *)
LEMMA SeasonalKeeps ==
  ASSUME TypeOK, NEW s \in Season, SetSeasonal(s)
  PROVE  /\ \A f \in Persisted : settings'[f] = settings[f]
         /\ settings'.applyInProgress = settings.applyInProgress
         /\ settings'.pollingEnabled = settings.pollingEnabled
         /\ UNCHANGED procVars
<1>1. "seasonal" \in SettingsField /\ s \in Value("seasonal")
  BY DEF SettingsField, Value, Flag, Switch
<1>2. settings \in Settings
  BY DEF TypeOK
<1>3. \A f \in Persisted : f \in SettingsField /\ f # "seasonal"
  BY DEF Persisted, SettingsField, Flag, Switch
<1>4. \A f \in Persisted : settings'[f] = settings[f]
  BY <1>1, <1>2, <1>3, WithType DEF SetSeasonal
<1>5. "applyInProgress" \in Persisted /\ "pollingEnabled" \in Persisted
  BY DEF Persisted, Flag
<1> QED BY <1>4, <1>5 DEF SetSeasonal

(* When no call is under way there is nothing to overlap and no copy.       *)
LEMMA QuietUpdates == Quiet => UpdateInv
  BY DEF Quiet, UpdateInv, OneUpdates, FreshCopy, Updating

LEMMA UpdateInit == Init => UpdateKept
  BY QuietUpdates DEF Init, UpdateKept, Quiet

(* A step that reads nothing and writes nothing keeps copies fresh.         *)
LEMMA StillFresh ==
  ASSUME FreshCopy, UNCHANGED settings,
         \A q \in Proc : at'[q] = "write" => at[q] = "write" /\ copy'[q] = copy[q]
  PROVE  FreshCopy'
  BY DEF FreshCopy

LEMMA UpdateNext == TypeOK /\ UpdateKept /\ [Next]_vars => UpdateKept'
<1> SUFFICES ASSUME TypeOK, UpdateKept, [Next]_vars, "overlap" \notin past'
             PROVE  UpdateInv'
  BY DEF UpdateKept
<1>q. CASE Quiet'
  BY <1>q DEF Quiet, UpdateInv, OneUpdates, FreshCopy, Updating
<1>n. CASE ~Quiet'
  <2>u. CASE UNCHANGED vars
    BY <2>u DEF vars, procVars, UpdateKept, UpdateInv, OneUpdates, FreshCopy
  <2>v. CASE ~UNCHANGED vars
    <3>0. "overlap" \notin past /\ ~Overlapping'
      BY <1>n, <2>v, PastGrows
    <3>o. OneUpdates'
      BY <3>0 DEF OneUpdates, Overlapping
    <3>i. OneUpdates /\ FreshCopy
      BY <3>0 DEF UpdateKept, UpdateInv
    <3>1. ASSUME NEW p \in Proc, BeginUpdate(p) \/ BeginToggle(p) \/ BeginLoad(p) \/ BeginPrompt(p)
          PROVE  FreshCopy'
      <4>1. UNCHANGED <<settings, copy>> /\ \E point \in {"route", "check", "read"} : Goto(p, point)
        BY <3>1 DEF BeginUpdate, BeginToggle, BeginLoad, BeginPrompt, Call
      <4> QED BY <3>i, <4>1, StillFresh DEF Goto, TypeOK
    <3>2. ASSUME NEW p \in Proc, Admit(p) PROVE FreshCopy'
      BY <3>i, <3>2, StillFresh DEF Admit, Goto, TypeOK
    <3>3. ASSUME NEW p \in Proc, Refuse(p) \/ Fail(p) PROVE FreshCopy'
      BY <3>i, <3>3, StillFresh DEF Refuse, Fail, Return, Goto, TypeOK
    <3>4. ASSUME NEW p \in Proc, Read(p) PROVE FreshCopy'
      <4>1. \A q \in Proc : at'[q] = "write" => q = p
        BY <3>4, <3>o DEF OneUpdates, Read, Goto, TypeOK, Updating
      <4>2. copy'[p] = settings /\ settings' = settings
        BY <3>4 DEF Read, TypeOK
      <4> QED BY <4>1, <4>2 DEF FreshCopy
    <3>5. ASSUME NEW p \in Proc, Write(p) PROVE FreshCopy'
      <4>1. PICK point \in {"apply", "idle"} : Goto(p, point)
        BY <3>5 DEF Write, Return
      <4>2. \A q \in Proc : at'[q] # "write"
        BY <3>5, <3>i, <4>1 DEF OneUpdates, Write, Goto, TypeOK, Updating
      <4> QED BY <4>2 DEF FreshCopy
    <3>6. ASSUME NEW p \in Proc, Unlock(p) PROVE FreshCopy'
      BY <3>i, <3>6, StillFresh DEF Unlock, Goto, TypeOK
    <3>7. ASSUME NEW p \in Proc, NEW i \in Prompt, Answer(p, i) PROVE FreshCopy'
      BY <3>i, <3>7, StillFresh DEF Answer, Goto, TypeOK, procVars
    <3>8. ASSUME NEW s \in Season, SetSeasonal(s) PROVE FreshCopy'
      <4>1. (\A f \in Persisted : settings'[f] = settings[f]) /\ UNCHANGED procVars
        BY <3>8, SeasonalKeeps
      <4> QED BY <3>i, <4>1 DEF procVars, FreshCopy
    <3>9. ASSUME TakeSnapshot PROVE FreshCopy'
      BY <3>i, <3>9 DEF TakeSnapshot, procVars, FreshCopy
    <3>10. ASSUME NEW new, Overwrite(new) PROVE FreshCopy'
      <4>1. \A p \in Proc : at[p] \notin Updating
        BY <1>n, <3>10 DEF Overwrite, Note
      <4> QED BY <3>10, <4>1 DEF Overwrite, procVars, FreshCopy, Updating
    <3>11. ~Crash
      BY <1>n DEF Crash, Quiet
    <3>12. FreshCopy'
      BY <2>v, <3>1, <3>2, <3>3, <3>4, <3>5, <3>6, <3>7, <3>8, <3>9, <3>10, <3>11
      DEF Next, Step, Restore, Initialise
    <3> QED BY <3>o, <3>12 DEF UpdateInv
  <2> QED BY <2>u, <2>v
<1> QED BY <1>q, <1>n

(* A write that overlaps no other changes the field it is about, and no     *)
(* other (SystemService.ts: "the other runtime settings are kept"),         *)
(* whatever crashes, restored snapshots and client assignments come in      *)
(* between.                                                                 *)
THEOREM UpdatesKept == Spec => NoLostUpdate
<1>1. ASSUME TypeOK, UpdateKept, NEW p \in Proc, Write(p), "overlap" \notin past,
             NEW f \in Persisted
      PROVE  settings'[f] = IF f = field[p] THEN value[p] ELSE settings[f]
  <2>1. settings'[f] = IF f = field[p] THEN value[p] ELSE copy[p][f]
    BY <1>1, WriteType, PersistedFields
  <2>2. copy[p][f] = settings[f]
    BY <1>1 DEF UpdateKept, UpdateInv, FreshCopy, Write
  <2> QED BY <2>1, <2>2
<1>2. TypeOK /\ UpdateKept =>
        [\A p \in Proc : Write(p) /\ "overlap" \notin past =>
           \A f \in Persisted :
             settings'[f] = IF f = field[p] THEN value[p] ELSE settings[f]]_vars
  BY <1>1
<1>3. TypeOK /\ UpdateKept /\ [Next]_vars => UpdateKept'
  BY UpdateNext
<1> QED BY <1>2, <1>3, Typing, UpdateInit, PTL DEF Spec, NoLostUpdate

-----------------------------------------------------------------------------
(* The lock: a load that is about to set it, or a toggle that is about to   *)
(* write, has seen it free; and from its locking write to its unlocking one *)
(* a load is the only one to have it.                                       *)
Asks(p) ==
  /\ at[p] \in {"read", "write"}
  /\ field[p] = "pollingEnabled" \/ (field[p] = "applyInProgress" /\ value[p])

LockShape ==
  \A p \in Proc :
    /\ at[p] = "apply" => field[p] = "applyInProgress" /\ value[p]
    /\ field[p] = "applyInProgress" /\ at[p] \in {"route", "check"} => value[p]
LockKnown ==
  \A p \in Proc :
    /\ Holds(p) => settings.applyInProgress
    /\ Asks(p) => ~settings.applyInProgress
OneHolds == \A p, q \in Proc : Holds(p) /\ Holds(q) => p = q
LockInv == LockShape /\ LockKnown /\ OneHolds

(* All of it holds unless updates overlapped or the document was            *)
(* overwritten since no call was under way.                                 *)
LockKept == past \cap {"overlap", "overwrite"} = {} => LockInv

LEMMA QuietLock == Quiet => LockInv
  BY DEF Quiet, LockInv, LockShape, LockKnown, OneHolds, Holds, Asks

LEMMA LockInit == Init => LockKept
  BY QuietLock DEF Init, LockKept, Quiet

(* A step of one process that leaves the lock alone keeps the invariant, if *)
(* the process does not become a holder, and asks only for a free lock.     *)
LEMMA LockUntouched ==
  ASSUME LockInv, NEW p \in Proc,
         \A q \in Proc \ {p} : /\ at'[q] = at[q]
                               /\ field'[q] = field[q] /\ value'[q] = value[q],
         settings'.applyInProgress = settings.applyInProgress,
         /\ at'[p] = "apply" => field'[p] = "applyInProgress" /\ value'[p]
         /\ field'[p] = "applyInProgress" /\ at'[p] \in {"route", "check"} => value'[p],
         Holds(p)' => Holds(p),
         Asks(p)' => ~settings.applyInProgress
  PROVE  LockInv'
<1>1. \A q \in Proc : Holds(q)' => Holds(q)
  BY DEF Holds
<1>2. \A q \in Proc : Asks(q)' => Asks(q) \/ ~settings.applyInProgress
  BY DEF Asks
<1>3. LockShape'
  BY DEF LockInv, LockShape
<1>4. LockKnown'
  BY <1>1, <1>2 DEF LockInv, LockKnown
<1>5. OneHolds'
  BY <1>1 DEF LockInv, OneHolds
<1> QED BY <1>3, <1>4, <1>5 DEF LockInv

(* A write changes the lock only if the lock is what it is about.           *)
LEMMA WroteLock ==
  ASSUME TypeOK, UpdateInv, NEW p \in Proc, Write(p)
  PROVE  settings'.applyInProgress
           = IF field[p] = "applyInProgress" THEN value[p] ELSE settings.applyInProgress
<1>1. "applyInProgress" \in SettingsField /\ "applyInProgress" \in Persisted
  BY DEF SettingsField, Persisted, Flag
<1>2. copy[p].applyInProgress = settings.applyInProgress
  BY <1>1 DEF Write, UpdateInv, FreshCopy
<1>3. settings'.applyInProgress
        = IF "applyInProgress" = field[p] THEN value[p] ELSE copy[p].applyInProgress
  BY <1>1, WriteType
<1> QED BY <1>2, <1>3

LEMMA LockNext == TypeOK /\ UpdateKept /\ LockKept /\ [Next]_vars => LockKept'
<1> SUFFICES ASSUME TypeOK, UpdateKept, LockKept, [Next]_vars,
                    past' \cap {"overlap", "overwrite"} = {}, ~Quiet'
             PROVE  LockInv'
  <2>1. Quiet' => LockInv'
    BY DEF Quiet, LockInv, LockShape, LockKnown, OneHolds, Holds, Asks
  <2> QED BY <2>1 DEF LockKept
<1>p. past \cap {"overlap", "overwrite"} = {}
  BY PastGrows
<1>l. LockInv /\ UpdateInv
  BY <1>p DEF LockKept, UpdateKept
<1>t. /\ at \in [Proc -> Point] /\ field \in [Proc -> AnyField]
      /\ value \in [Proc -> AnyValue]
  BY DEF TypeOK, AnyField, AnyValue
<1>i. LockShape /\ LockKnown /\ OneHolds
  BY <1>l DEF LockInv
<1>u. CASE UNCHANGED <<settings, at, field, value>>
  BY <1>u, <1>i DEF LockInv, LockShape, LockKnown, OneHolds, Holds, Asks
<1>c. ASSUME NEW p \in Proc, NEW f, NEW v, NEW point,
             Call(p, f, v, point),
             \/ f \notin {"applyInProgress", "pollingEnabled"} /\ point \in {"check", "read"}
             \/ f = "pollingEnabled" /\ point = "route"
             \/ v = TRUE /\ point = "check"
      PROVE  LockInv'
  <2>1. /\ \A q \in Proc \ {p} : /\ at'[q] = at[q]
                                 /\ field'[q] = field[q] /\ value'[q] = value[q]
        /\ at'[p] = point /\ field'[p] = f /\ value'[p] = v
        /\ settings'.applyInProgress = settings.applyInProgress
    BY <1>t, <1>c DEF Call, Goto
  <2>2. ~Holds(p)' /\ ~Asks(p)'
    BY <1>c, <2>1 DEF Holds, Asks
  <2> QED BY <1>c, <2>1, <2>2, <1>l, LockUntouched
<1>r. ASSUME NEW p \in Proc, Return(p), settings'.applyInProgress = settings.applyInProgress
      PROVE  LockInv'
  <2>1. /\ \A q \in Proc \ {p} : /\ at'[q] = at[q]
                                 /\ field'[q] = field[q] /\ value'[q] = value[q]
        /\ at'[p] = "idle"
    BY <1>t, <1>r DEF Return, Goto
  <2>2. ~Holds(p)' /\ ~Asks(p)'
    BY <2>1 DEF Holds, Asks
  <2> QED BY <1>r, <2>1, <2>2, <1>l, LockUntouched
<1>1. ASSUME NEW p \in Proc, BeginUpdate(p) PROVE LockInv'
  <2>1. PICK f \in Switch \cup {"pollingInterval"} : \E v \in Value(f) : Call(p, f, v, "read")
    BY <1>1 DEF BeginUpdate
  <2> QED BY <1>c, <2>1 DEF Switch
<1>2. ASSUME NEW p \in Proc, BeginToggle(p) PROVE LockInv'
  BY <1>2, <1>c DEF BeginToggle
<1>3. ASSUME NEW p \in Proc, BeginLoad(p) PROVE LockInv'
  BY <1>3, <1>c DEF BeginLoad
<1>4. ASSUME NEW p \in Proc, BeginPrompt(p) PROVE LockInv'
  BY <1>4, <1>c DEF BeginPrompt
<1>5. ASSUME NEW p \in Proc, Admit(p) PROVE LockInv'
  <2>1. /\ \A q \in Proc \ {p} : /\ at'[q] = at[q]
                                 /\ field'[q] = field[q] /\ value'[q] = value[q]
        /\ at'[p] \in {"check", "read"} /\ at[p] \in {"route", "check"}
        /\ field'[p] = field[p] /\ value'[p] = value[p]
        /\ settings'.applyInProgress = settings.applyInProgress
    BY <1>t, <1>5 DEF Admit, Goto
  <2>2. /\ field[p] = "applyInProgress" => value[p]
        /\ field[p] # "recoveryPrompt" => ~settings.applyInProgress
    BY <1>i, <1>5, <2>1 DEF LockShape, Admit, MayGo
  <2>3. ~Holds(p)' /\ (Asks(p)' => ~settings.applyInProgress)
    BY <2>1, <2>2 DEF Holds, Asks
  <2>4. field'[p] = "applyInProgress" => value'[p]
    BY <2>1, <2>2
  <2> QED BY <2>1, <2>3, <2>4, <1>l, LockUntouched
<1>6. ASSUME NEW p \in Proc, Refuse(p) \/ Fail(p) PROVE LockInv'
  BY <1>6, <1>r DEF Refuse, Fail
<1>7. ASSUME NEW p \in Proc, Read(p) PROVE LockInv'
  <2>1. /\ \A q \in Proc \ {p} : /\ at'[q] = at[q]
                                 /\ field'[q] = field[q] /\ value'[q] = value[q]
        /\ at'[p] = "write" /\ at[p] = "read"
        /\ field'[p] = field[p] /\ value'[p] = value[p]
        /\ settings'.applyInProgress = settings.applyInProgress
    BY <1>t, <1>7 DEF Read, Goto
  <2>2. (Holds(p)' => Holds(p)) /\ (Asks(p)' => ~settings.applyInProgress)
    BY <1>i, <2>1 DEF Holds, Asks, LockKnown
  <2> QED BY <2>1, <2>2, <1>l, LockUntouched
<1>8. ASSUME NEW p \in Proc, Write(p) PROVE LockInv'
  <2>0. at[p] = "write"
    BY <1>8 DEF Write
  <2>1. settings'.applyInProgress
          = IF field[p] = "applyInProgress" THEN value[p] ELSE settings.applyInProgress
    BY <1>8, <1>l, WroteLock
  <2>2. CASE field[p] # "applyInProgress"
    BY <1>8, <1>r, <2>1, <2>2 DEF Write
  <2>3. CASE field[p] = "applyInProgress" /\ value[p]
    <3>1. /\ \A q \in Proc : field'[q] = field[q] /\ value'[q] = value[q]
          /\ \A q \in Proc \ {p} : at'[q] = at[q]
          /\ at'[p] = "apply"
      BY <1>8, <1>t, <2>3 DEF Write, Goto
    <3>2. \A q \in Proc : ~Holds(q)
      BY <1>i, <2>0, <2>3 DEF LockKnown, Asks
    <3>3. \A q \in Proc : Holds(q)' => q = p
      BY <3>1, <3>2 DEF Holds
    <3>4. \A q \in Proc : ~Asks(q)'
      <4> SUFFICES ASSUME NEW q \in Proc, Asks(q)' PROVE FALSE
        OBVIOUS
      <4>1. q # p /\ at[q] \in {"read", "write"}
        BY <3>1 DEF Asks
      <4> QED BY <1>l, <2>0, <4>1 DEF UpdateInv, OneUpdates, Updating
    <3>5. settings'.applyInProgress
      BY <2>1, <2>3
    <3>6. LockShape'
      BY <1>i, <2>3, <3>1 DEF LockShape
    <3> QED BY <3>3, <3>4, <3>5, <3>6 DEF LockInv, LockKnown, OneHolds
  <2>4. CASE field[p] = "applyInProgress" /\ ~value[p]
    <3>1. Return(p)
      BY <1>8, <2>4 DEF Write
    <3>2. /\ \A q \in Proc \ {p} : /\ at'[q] = at[q]
                                   /\ field'[q] = field[q] /\ value'[q] = value[q]
          /\ at'[p] = "idle"
      BY <1>t, <3>1 DEF Return, Goto
    <3>3. Holds(p)
      BY <2>0, <2>4 DEF Holds
    <3>4. \A q \in Proc : ~Holds(q)'
      <4>1. ~Holds(p)'
        BY <3>2 DEF Holds
      <4>2. \A q \in Proc \ {p} : Holds(q)' => Holds(q)
        BY <3>2 DEF Holds
      <4> QED BY <1>i, <3>3, <4>1, <4>2 DEF OneHolds
    <3>5. settings'.applyInProgress = FALSE
      <4>1. value[p] \in BOOLEAN
        BY <2>4, FlagValue DEF TypeOK, Flag
      <4> QED BY <2>1, <2>4, <4>1
    <3>6. LockShape'
      BY <1>i, <3>2 DEF LockShape
    <3> QED BY <3>4, <3>5, <3>6 DEF LockInv, LockKnown, OneHolds
  <2> QED BY <2>2, <2>3, <2>4
<1>9. ASSUME NEW p \in Proc, Unlock(p) PROVE LockInv'
  <2>1. /\ \A q \in Proc \ {p} : /\ at'[q] = at[q]
                                 /\ field'[q] = field[q] /\ value'[q] = value[q]
        /\ at'[p] = "read" /\ at[p] = "apply"
        /\ field'[p] = "applyInProgress" /\ value'[p] = FALSE
        /\ settings'.applyInProgress = settings.applyInProgress
    BY <1>t, <1>9 DEF Unlock, Goto
  <2>2. Holds(p)
    BY <1>i, <2>1 DEF LockShape, Holds
  <2>3. ~Asks(p)'
    BY <2>1 DEF Asks
  <2> QED BY <2>1, <2>2, <2>3, <1>l, LockUntouched
<1>10. ASSUME NEW p \in Proc, NEW i \in Prompt, Answer(p, i) PROVE LockInv'
  <2>1. CASE settings.recoveryPrompt = i
    <3>1. /\ \A q \in Proc \ {p} : /\ at'[q] = at[q]
                                   /\ field'[q] = field[q] /\ value'[q] = value[q]
          /\ at'[p] = "check" /\ field'[p] = "pollingEnabled"
          /\ settings'.applyInProgress = settings.applyInProgress
      BY <1>t, <1>10, <2>1 DEF Answer, Goto
    <3>2. ~Holds(p)' /\ ~Asks(p)'
      BY <3>1 DEF Holds, Asks
    <3> QED BY <3>1, <3>2, <1>l, LockUntouched
  <2>2. CASE settings.recoveryPrompt # i
    BY <1>10, <1>u, <2>2 DEF Answer, procVars
  <2> QED BY <2>1, <2>2
<1>11. ASSUME NEW s \in Season, SetSeasonal(s) PROVE LockInv'
  <2>1. settings'.applyInProgress = settings.applyInProgress /\ UNCHANGED procVars
    BY <1>11, SeasonalKeeps
  <2> QED
    BY <1>i, <2>1 DEF procVars, LockInv, LockShape, LockKnown, OneHolds, Holds, Asks
<1>12. ~Restore /\ ~Initialise
  BY DEF Restore, Initialise, Overwrite, Note
<1>15. CASE TakeSnapshot
  BY <1>u, <1>15 DEF TakeSnapshot, procVars
<1>13. ~Crash
  BY DEF Crash, Quiet
<1>14. CASE UNCHANGED vars
  BY <1>u, <1>14 DEF vars, procVars
<1> QED
  BY <1>1, <1>2, <1>3, <1>4, <1>5, <1>6, <1>7, <1>8, <1>9, <1>10, <1>11, <1>12,
     <1>13, <1>14, <1>15 DEF Next, Step

(* Nobody but the holder unlocks, and the holder stays one until it does.   *)
LEMMA LockMeansNext ==
  TypeOK /\ UpdateKept /\ LockKept /\ LockMeansApplying /\ [Next]_vars => LockMeansApplying'
<1> SUFFICES ASSUME TypeOK, UpdateKept, LockKept, LockMeansApplying, [Next]_vars,
                    past' = {}, settings'.applyInProgress
             PROVE  \E p \in Proc : Holds(p)'
  BY DEF LockMeansApplying
<1>t. /\ at \in [Proc -> Point] /\ field \in [Proc -> AnyField]
      /\ value \in [Proc -> AnyValue]
  BY DEF TypeOK, AnyField, AnyValue
<1>l. past = {}
  BY Noted, PastClean DEF vars
<1>w. UpdateInv
  BY <1>l DEF UpdateKept
<1>i. LockShape /\ LockKnown /\ OneHolds
  BY <1>l DEF LockKept, LockInv
(* A step of p that does not touch the lock, nor p's holding it. *)
<1>k. ASSUME NEW p \in Proc,
             settings'.applyInProgress = settings.applyInProgress,
             \A q \in Proc \ {p} : /\ at'[q] = at[q]
                                   /\ field'[q] = field[q] /\ value'[q] = value[q],
             Holds(p) => Holds(p)'
      PROVE  \E q \in Proc : Holds(q)'
  <2>1. PICK q \in Proc : Holds(q)
    BY <1>k, <1>l DEF LockMeansApplying
  <2>2. Holds(q)'
    BY <1>k, <2>1 DEF Holds
  <2> QED BY <2>2
<1>u. CASE UNCHANGED <<settings, at, field, value>>
  BY <1>l, <1>u DEF LockMeansApplying, Holds
<1>c. ASSUME NEW p \in Proc, NEW f, NEW v, NEW point, Call(p, f, v, point)
      PROVE  \E q \in Proc : Holds(q)'
  <2>1. /\ settings'.applyInProgress = settings.applyInProgress
        /\ \A q \in Proc \ {p} : /\ at'[q] = at[q]
                                 /\ field'[q] = field[q] /\ value'[q] = value[q]
        /\ ~Holds(p)
    BY <1>c, <1>t DEF Call, Goto, Holds
  <2> QED BY <1>k, <2>1
<1>1. ASSUME NEW p \in Proc, BeginUpdate(p) PROVE \E q \in Proc : Holds(q)'
  BY <1>1, <1>c DEF BeginUpdate
<1>2. ASSUME NEW p \in Proc, BeginToggle(p) PROVE \E q \in Proc : Holds(q)'
  BY <1>2, <1>c DEF BeginToggle
<1>3. ASSUME NEW p \in Proc, BeginLoad(p) PROVE \E q \in Proc : Holds(q)'
  BY <1>3, <1>c DEF BeginLoad
<1>4. ASSUME NEW p \in Proc, BeginPrompt(p) PROVE \E q \in Proc : Holds(q)'
  BY <1>4, <1>c DEF BeginPrompt
<1>5. ASSUME NEW p \in Proc, Admit(p) \/ Refuse(p) PROVE \E q \in Proc : Holds(q)'
  <2>1. /\ settings'.applyInProgress = settings.applyInProgress
        /\ \A q \in Proc \ {p} : /\ at'[q] = at[q]
                                 /\ field'[q] = field[q] /\ value'[q] = value[q]
        /\ ~Holds(p)
    BY <1>5, <1>t DEF Admit, Refuse, Return, Goto, Holds
  <2> QED BY <1>k, <2>1
<1>6. ASSUME NEW p \in Proc, Fail(p) PROVE \E q \in Proc : Holds(q)'
  <2>1. /\ settings'.applyInProgress = settings.applyInProgress
        /\ \A q \in Proc \ {p} : /\ at'[q] = at[q]
                                 /\ field'[q] = field[q] /\ value'[q] = value[q]
    BY <1>6, <1>t DEF Fail, Return, Goto
  <2>2. ~Holds(p)
    <3>1. Holds(p) => Note({"left"})
      BY <1>6 DEF Fail
    <3> QED BY <3>1, PastClean
  <2> QED BY <1>k, <2>1, <2>2
<1>7. ASSUME NEW p \in Proc, Read(p) PROVE \E q \in Proc : Holds(q)'
  <2>1. /\ settings'.applyInProgress = settings.applyInProgress
        /\ \A q \in Proc \ {p} : /\ at'[q] = at[q]
                                 /\ field'[q] = field[q] /\ value'[q] = value[q]
        /\ at'[p] = "write" /\ at[p] = "read"
        /\ field'[p] = field[p] /\ value'[p] = value[p]
    BY <1>7, <1>t DEF Read, Goto
  <2>2. Holds(p) => Holds(p)'
    BY <2>1 DEF Holds
  <2> QED BY <1>k, <2>1, <2>2
<1>8. ASSUME NEW p \in Proc, Write(p) PROVE \E q \in Proc : Holds(q)'
  <2>1. settings'.applyInProgress
          = IF field[p] = "applyInProgress" THEN value[p] ELSE settings.applyInProgress
    BY <1>8, <1>w, WroteLock
  <2>2. CASE field[p] = "applyInProgress"
    <3>1. value[p]
      BY <2>1, <2>2
    <3>2. at'[p] = "apply" /\ field'[p] = field[p]
      BY <1>8, <1>t, <2>2, <3>1 DEF Write, Goto
    <3> QED BY <2>2, <3>2 DEF Holds
  <2>3. CASE field[p] # "applyInProgress"
    <3>1. /\ settings'.applyInProgress = settings.applyInProgress
          /\ \A q \in Proc \ {p} : /\ at'[q] = at[q]
                                   /\ field'[q] = field[q] /\ value'[q] = value[q]
          /\ ~Holds(p)
      BY <1>8, <1>t, <2>1, <2>3 DEF Write, Return, Goto, Holds
    <3> QED BY <1>k, <3>1
  <2> QED BY <2>2, <2>3
<1>9. ASSUME NEW p \in Proc, Unlock(p) PROVE \E q \in Proc : Holds(q)'
  <2>1. at'[p] = "read" /\ field'[p] = "applyInProgress" /\ value'[p] = FALSE
    BY <1>9, <1>t DEF Unlock, Goto
  <2> QED BY <2>1 DEF Holds
<1>10. ASSUME NEW p \in Proc, NEW i \in Prompt, Answer(p, i) PROVE \E q \in Proc : Holds(q)'
  <2>1. /\ settings'.applyInProgress = settings.applyInProgress
        /\ \A q \in Proc \ {p} : /\ at'[q] = at[q]
                                 /\ field'[q] = field[q] /\ value'[q] = value[q]
        /\ ~Holds(p)
    BY <1>10, <1>t DEF Answer, Goto, procVars, Holds
  <2> QED BY <1>k, <2>1
<1>11. ASSUME NEW s \in Season, SetSeasonal(s) PROVE \E q \in Proc : Holds(q)'
  <2>1. settings'.applyInProgress = settings.applyInProgress
    BY <1>11, SeasonalKeeps, Zenon
  <2>2. UNCHANGED procVars
    BY <1>11, SeasonalKeeps, Zenon
  <2>3. PICK q \in Proc : Holds(q)
    BY <1>l, <2>1 DEF LockMeansApplying
  <2> QED BY <2>2, <2>3 DEF Holds, procVars
<1>12. ~Restore /\ ~Initialise /\ ~Crash
  <2>1. ASSUME NEW new, Overwrite(new) PROVE FALSE
    <3> DEFINE events == {"overwrite"} \cup {"overlap" : p \in {q \in Proc : at[q] \in Updating}}
    <3>1. Note(events) /\ events # {}
      BY <2>1 DEF Overwrite
    <3> HIDE DEF events
    <3> QED BY <3>1, PastClean
  <2>2. ~Crash
    BY PastClean DEF Crash
  <2> QED BY <2>1, <2>2 DEF Restore, Initialise
<1>15. CASE TakeSnapshot
  BY <1>u, <1>15 DEF TakeSnapshot, procVars
<1>14. CASE UNCHANGED vars
  BY <1>u, <1>14 DEF vars, procVars
<1> QED
  BY <1>1, <1>2, <1>3, <1>4, <1>5, <1>6, <1>7, <1>8, <1>9, <1>10, <1>11, <1>12,
     <1>14, <1>15 DEF Next, Step

(* While a load applies a snapshot the lock is set (snapshots.ts: lock,     *)
(* apply, finally unlock), and the 409 of a refused request is the truth:   *)
(* the lock is set only while a load has it, unless an overlap, a crash, a  *)
(* stored document or an unlocking update that failed came in between       *)
(* since no call was under way.  Any other call may fail.                   *)
THEOREM LockIsExact == Spec => []LockExact
<1>1. Init => LockMeansApplying
  BY DEF Init, LockMeansApplying, Defaults
<1>2. LockKept /\ LockMeansApplying => LockExact
  BY DEF LockKept, LockInv, LockShape, LockKnown, LockExact, LockHeld, Applying, Holds
<1> QED
  BY <1>1, <1>2, Typing, UpdateInit, UpdateNext, LockInit, LockNext, LockMeansNext, PTL
  DEF Spec

(* No toggle gets past the checks while a load applies.                     *)
THEOREM FlagIsFrozen == Spec => FlagFrozen
<1>1. ASSUME TypeOK, UpdateKept, LockKept, [Next]_vars
      PROVE  [Applying /\ Applying' /\ past' \cap {"overlap", "overwrite"} = {}
                => UNCHANGED settings.pollingEnabled]_vars
  <2> SUFFICES ASSUME Applying, Applying', past' \cap {"overlap", "overwrite"} = {}
               PROVE  settings'.pollingEnabled = settings.pollingEnabled
    OBVIOUS
  <2>q. ~Quiet'
    BY DEF Applying, Quiet
  <2>l. LockInv /\ UpdateInv
    BY <1>1, <2>q, PastGrows DEF LockKept, UpdateKept
  <2>1. settings.applyInProgress
    BY <2>l DEF Applying, LockInv, LockShape, LockKnown, Holds
  <2>2. ASSUME NEW p \in Proc, Write(p)
        PROVE  settings'.pollingEnabled = settings.pollingEnabled
    <3>1. field[p] # "pollingEnabled"
      BY <2>l, <2>1, <2>2 DEF Write, LockInv, LockKnown, Asks
    <3>2. "pollingEnabled" \in SettingsField /\ "pollingEnabled" \in Persisted
      BY DEF SettingsField, Persisted, Flag
    <3>3. copy[p].pollingEnabled = settings.pollingEnabled
      BY <2>l, <2>2, <3>2 DEF Write, UpdateInv, FreshCopy
    <3>4. settings'.pollingEnabled
            = IF "pollingEnabled" = field[p] THEN value[p] ELSE copy[p].pollingEnabled
      BY <1>1, <2>2, <3>2, WriteType
    <3> QED BY <3>1, <3>3, <3>4
  <2>3. ASSUME NEW s \in Season, SetSeasonal(s)
        PROVE  settings'.pollingEnabled = settings.pollingEnabled
    BY <1>1, <2>3, SeasonalKeeps
  <2>4. CASE UNCHANGED settings
    BY <2>4
  <2>5. ~Restore /\ ~Initialise
    BY <2>q DEF Restore, Initialise, Overwrite, Note
  <2> QED
    BY <1>1, <2>2, <2>3, <2>4, <2>5
    DEF Next, Step, BeginUpdate, BeginToggle, BeginLoad, BeginPrompt, Call, Admit,
        Refuse, Fail, Read, Unlock, Answer, TakeSnapshot, Crash, vars
<1> QED
  BY <1>1, Typing, UpdateInit, UpdateNext, LockInit, LockNext, PTL DEF Spec, FlagFrozen
-----------------------------------------------------------------------------
(* The lock left behind.  Nobody is past its check with a lock to set or    *)
(* release, or with a toggle, and whoever has read the document has read    *)
(* the lock in it.                                                          *)
Harmless(p) ==
  /\ at[p] # "apply"
  /\ at[p] \in {"read", "write"} => field[p] \notin {"applyInProgress", "pollingEnabled"}
  /\ at[p] = "write" => /\ copy[p].applyInProgress
                        /\ copy[p].pollingEnabled = settings.pollingEnabled
LockStuck == settings.applyInProgress /\ \A p \in Proc : Harmless(p)

(* A lock that is set while no call is under way stays, and the polling     *)
(* flag with it, through every later update, toggle, load, prompt, failing  *)
(* call and restart of the server: only a restored system snapshot or the   *)
(* assignment of a client ends it (applyInProgress is in the database, and  *)
(* nothing resets it at the start-up).                                      *)
LeftLockStays ==
  /\ [](Quiet /\ settings.applyInProgress => LockStuck)
  /\ [][LockStuck /\ ~Restore /\ ~Initialise
          => LockStuck' /\ UNCHANGED settings.pollingEnabled]_vars

(* A step of p alone that leaves the document as it is.                     *)
LEMMA OthersStuck ==
  ASSUME TypeOK, LockStuck, UNCHANGED settings, NEW p \in Proc, Harmless(p)',
         \A q \in Proc \ {p} : at'[q] = at[q] /\ field'[q] = field[q] /\ copy'[q] = copy[q]
  PROVE  LockStuck'
<1>1. ASSUME NEW q \in Proc \ {p} PROVE Harmless(q)'
  BY <1>1 DEF LockStuck, Harmless
<1> QED BY <1>1 DEF LockStuck

LEMMA StuckStep ==
  ASSUME TypeOK, LockStuck, [Next]_vars, ~Restore, ~Initialise
  PROVE  LockStuck' /\ settings'.pollingEnabled = settings.pollingEnabled
<1>0. ASSUME UNCHANGED settings, LockStuck'
      PROVE  LockStuck' /\ settings'.pollingEnabled = settings.pollingEnabled
  BY <1>0
<1>1. ASSUME NEW p \in Proc, BeginUpdate(p) \/ BeginToggle(p) \/ BeginLoad(p) \/ BeginPrompt(p)
      PROVE  LockStuck' /\ UNCHANGED settings
  <2>1. PICK f \in Field, point \in {"route", "check", "read"} :
          /\ Goto(p, point) /\ field' = [field EXCEPT ![p] = f]
          /\ UNCHANGED <<settings, copy>>
          /\ point = "read" => f \in Switch \cup {"pollingInterval"}
    BY <1>1 DEF BeginUpdate, BeginToggle, BeginLoad, BeginPrompt, Call
  <2>2. Harmless(p)'
    BY <2>1 DEF Harmless, Goto, TypeOK, Switch
  <2> QED BY <2>1, <2>2, OthersStuck DEF Goto, TypeOK
<1>2. ASSUME NEW p \in Proc, Admit(p) PROVE LockStuck' /\ UNCHANGED settings
  <2>1. field[p] = "recoveryPrompt"
    BY <1>2 DEF Admit, MayGo, LockStuck
  <2>2. PICK point \in {"check", "read"} :
          Goto(p, point) /\ UNCHANGED <<settings, field, copy>>
    BY <1>2 DEF Admit
  <2>3. Harmless(p)'
    BY <2>1, <2>2 DEF Harmless, Goto, TypeOK
  <2> QED BY <2>2, <2>3, OthersStuck DEF Goto, TypeOK
<1>3. ASSUME NEW p \in Proc, Return(p), UNCHANGED settings PROVE LockStuck'
  <2>1. Harmless(p)'
    BY <1>3 DEF Harmless, Return, Goto, TypeOK
  <2> QED BY <1>3, <2>1, OthersStuck DEF Return, Goto, TypeOK
<1>4. ASSUME NEW p \in Proc, Read(p) PROVE LockStuck' /\ UNCHANGED settings
  <2>1. /\ Goto(p, "write") /\ copy' = [copy EXCEPT ![p] = settings]
        /\ UNCHANGED <<settings, field>> /\ at[p] = "read"
    BY <1>4 DEF Read
  <2>2. Harmless(p)'
    BY <2>1 DEF Harmless, LockStuck, Goto, TypeOK
  <2> QED BY <2>1, <2>2, OthersStuck DEF Goto, TypeOK
<1>5. ASSUME NEW p \in Proc, Write(p)
      PROVE  LockStuck' /\ settings'.pollingEnabled = settings.pollingEnabled
  <2>1. /\ at[p] = "write" /\ field[p] \notin {"applyInProgress", "pollingEnabled"}
        /\ copy[p].applyInProgress /\ copy[p].pollingEnabled = settings.pollingEnabled
    BY <1>5 DEF LockStuck, Harmless, Write
  <2>2. /\ "applyInProgress" \in SettingsField /\ "applyInProgress" \in Persisted
        /\ "pollingEnabled" \in SettingsField /\ "pollingEnabled" \in Persisted
    BY DEF SettingsField, Persisted, Flag
  <2>3. /\ settings'.applyInProgress
        /\ settings'.pollingEnabled = settings.pollingEnabled
    BY <1>5, <2>1, <2>2, WriteType
  <2>4. Return(p)
    BY <1>5, <2>1 DEF Write
  <2>5. ASSUME NEW q \in Proc PROVE Harmless(q)'
    <3>1. CASE q = p
      BY <2>4, <3>1 DEF Harmless, Return, Goto, TypeOK
    <3>2. CASE q # p
      <4>1. at'[q] = at[q] /\ field'[q] = field[q] /\ copy'[q] = copy[q]
        BY <2>4, <3>2 DEF Return, Goto, TypeOK
      <4> QED BY <2>3, <4>1 DEF LockStuck, Harmless
    <3> QED BY <3>1, <3>2
  <2> QED BY <2>3, <2>5 DEF LockStuck
<1>6. ASSUME NEW p \in Proc, Unlock(p) PROVE FALSE
  BY <1>6 DEF Unlock, LockStuck, Harmless
<1>7. ASSUME NEW p \in Proc, NEW i \in Prompt, Answer(p, i)
      PROVE  LockStuck' /\ UNCHANGED settings
  <2>1. CASE UNCHANGED procVars
    BY <1>7, <2>1 DEF Answer, procVars, LockStuck, Harmless
  <2>2. CASE Goto(p, "check") /\ field' = [field EXCEPT ![p] = "pollingEnabled"]
             /\ UNCHANGED copy
    <3>1. Harmless(p)'
      BY <2>2 DEF Harmless, Goto, TypeOK
    <3> QED BY <1>7, <2>2, <3>1, OthersStuck DEF Answer, Goto, TypeOK
  <2> QED BY <1>7, <2>1, <2>2 DEF Answer
<1>8. ASSUME NEW s \in Season, SetSeasonal(s)
      PROVE  LockStuck' /\ settings'.pollingEnabled = settings.pollingEnabled
  BY <1>8, SeasonalKeeps DEF LockStuck, Harmless, procVars
<1>9. CASE TakeSnapshot \/ UNCHANGED vars
  BY <1>9 DEF TakeSnapshot, vars, procVars, LockStuck, Harmless
<1>10. CASE Crash
  BY <1>10 DEF Crash, LockStuck, Harmless
<1> QED
  BY <1>0, <1>1, <1>2, <1>3, <1>4, <1>5, <1>6, <1>7, <1>8, <1>9, <1>10
  DEF Next, Step, Refuse, Fail

THEOREM LeftLockIsFinal == Spec => LeftLockStays
<1>1. Quiet /\ settings.applyInProgress => LockStuck
  BY DEF Quiet, LockStuck, Harmless
<1>2. TypeOK /\ [Next]_vars =>
        [LockStuck /\ ~Restore /\ ~Initialise
           => LockStuck' /\ UNCHANGED settings.pollingEnabled]_vars
  BY StuckStep
<1> QED BY <1>1, <1>2, Typing, PTL DEF Spec, LeftLockStays
=============================================================================
