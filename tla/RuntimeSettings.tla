--------------------------- MODULE RuntimeSettings ---------------------------
(***************************************************************************)
(* The system settings document and everything that writes its runtime     *)
(* part: the polling toggle, the polling gap, the exhibition and people-   *)
(* counter switches, the lock a data-snapshot load holds while it applies, *)
(* the recovery prompt, a restored system snapshot and the assignment of a *)
(* client.  Most writers read the document, await, and write ALL runtime   *)
(* fields back (SystemService.ts); the repository then persists a fixed    *)
(* list of them (MongoSystemRepository.ts).                                *)
(*                                                                         *)
(* The document exists: ServerInitializer.ensureSystemSettingsDocument     *)
(* creates it with the defaults.  "seasonal" stands for every setting that *)
(* is not under "runtime".  What the toggle then does to the poller is in  *)
(* PollingLifecycle.                                                       *)
(***************************************************************************)
CONSTANTS Proc,             \* requests and service ticks, each again and again
          Gap, DefaultGap,  \* polling intervals
          Season, DefaultSeason,
          Prompt,           \* identifiers of recovery prompts, used again
          NoPrompt,         \* runtime.recoveryPrompt is absent
          NoSnapshot,
          Field             \* the fields the processes of an instance update

Switch == {"exhibitionMode", "peopleCounterEnabled"}
Flag == Switch \cup {"pollingEnabled", "applyInProgress"}

Value(f) == IF f \in Flag THEN BOOLEAN
            ELSE IF f = "pollingInterval" THEN Gap
            ELSE IF f = "recoveryPrompt" THEN Prompt \cup {NoPrompt}
            ELSE Season

Settings == [pollingEnabled : BOOLEAN, applyInProgress : BOOLEAN,
             exhibitionMode : BOOLEAN, peopleCounterEnabled : BOOLEAN,
             pollingInterval : Gap, recoveryPrompt : Prompt \cup {NoPrompt},
             seasonal : Season]

ASSUME SettingsAssumption ==
  /\ DefaultGap \in Gap /\ DefaultSeason \in Season
  /\ NoPrompt \notin Prompt /\ NoSnapshot \notin Settings
  /\ Field \subseteq Flag \cup {"pollingInterval", "recoveryPrompt"}

VARIABLES settings,     \* the document in the database
          at,           \* where each process is
          field, value, \* what it updates, and to what
          copy,         \* the document it has read
          prompt,       \* how far each recovery prompt is
          saved,        \* the stored system snapshot
          past          \* history: what has come in between (Note)

procVars == <<at, field, value, copy>>
vars == <<settings, procVars, prompt, saved, past>>

Point == {"idle", "route", "check", "read", "write", "apply"}

TypeOK ==
  /\ settings \in Settings
  /\ at \in [Proc -> Point]
  /\ field \in [Proc -> Flag \cup {"pollingInterval", "recoveryPrompt"}]
  /\ value \in [Proc -> BOOLEAN \cup Gap \cup Prompt \cup {NoPrompt}]
  /\ \A p \in Proc : value[p] \in Value(field[p])
  /\ copy \in [Proc -> Settings]
  /\ prompt \in [Prompt -> {"new", "issuing", "shown"}]
  /\ saved \in Settings \cup {NoSnapshot}
  /\ past \subseteq {"overlap", "overwrite", "left"}

Defaults == [pollingEnabled |-> FALSE, applyInProgress |-> FALSE,
             exhibitionMode |-> FALSE, peopleCounterEnabled |-> FALSE,
             pollingInterval |-> DefaultGap, recoveryPrompt |-> NoPrompt,
             seasonal |-> DefaultSeason]

Init ==
  /\ settings = Defaults
  /\ at = [p \in Proc |-> "idle"]
  /\ field = [p \in Proc |-> "applyInProgress"]
  /\ value = [p \in Proc |-> FALSE]
  /\ copy = [p \in Proc |-> Defaults]
  /\ prompt = [i \in Prompt |-> "new"]
  /\ saved = NoSnapshot
  /\ past = {}

-----------------------------------------------------------------------------
(* The runtime fields the repository stores. *)
Persisted == Flag \cup {"pollingInterval"}

(* Defect: the document is replaced. *)
Replaced(doc, new) == [f \in Persisted |-> new[f]]

(* Defect: one field is left out of the list. *)
PatchedWithoutInterval(doc, new) ==
  [f \in DOMAIN doc |-> IF f \in Persisted \ {"pollingInterval"} THEN new[f] ELSE doc[f]]

(* A patch that has runtime fields sets the listed ones and nothing else.   *)
Patched(doc, new) == [f \in DOMAIN doc |-> IF f \in Persisted THEN new[f] ELSE doc[f]]

(* { ...runtime, one field } *)
With(doc, f, v) == [doc EXCEPT ![f] = v]

Updating == {"route", "check", "read", "write"}

(* A load is applying its snapshot. *)
Applying == \E p \in Proc : at[p] = "apply"

(* It has the lock, from its locking write to its unlocking one. *)
Holds(p) ==
  /\ field[p] = "applyInProgress"
  /\ at[p] = "apply" \/ (at[p] \in {"read", "write"} /\ ~value[p])

(* The history since a moment at which no call was under way: two reads-    *)
(* then-writes overlapped; the document was overwritten; the lock was left  *)
(* behind in the database when one of these, a crash or an unlocking write  *)
(* that failed came in between.                                             *)
Quiet == \A p \in Proc : at[p] = "idle"
Overlapping == \E p, q \in Proc : p # q /\ at[p] \in Updating /\ at[q] \in Updating

Note(events) ==
  LET all == past \cup events \cup (IF Overlapping' THEN {"overlap"} ELSE {})
  IN past' = IF ~Quiet' THEN all
             ELSE IF all # {} /\ settings'.applyInProgress THEN {"left"} ELSE {}

Goto(p, point) == at' = [at EXCEPT ![p] = point]

(* The call returns and its local variables are gone. *)
Return(p) ==
  /\ Goto(p, "idle")
  /\ field' = [field EXCEPT ![p] = "applyInProgress"]
  /\ value' = [value EXCEPT ![p] = FALSE]
  /\ copy' = [copy EXCEPT ![p] = Defaults]

Call(p, f, v, point) ==
  /\ at[p] = "idle" /\ f \in Field
  /\ Goto(p, point)
  /\ field' = [field EXCEPT ![p] = f]
  /\ value' = [value EXCEPT ![p] = v]
  /\ UNCHANGED <<settings, copy, saved>>
  /\ Note({})

(* updatePollingInterval, updatePeopleCounterState, the exhibition route. *)
BeginUpdate(p) ==
  /\ \E f \in Switch \cup {"pollingInterval"} : \E v \in Value(f) : Call(p, f, v, "read")
  /\ UNCHANGED prompt

(* POST /system/polling. *)
BeginToggle(p) ==
  /\ \E v \in BOOLEAN : Call(p, "pollingEnabled", v, "route")
  /\ UNCHANGED prompt

(* POST of a data snapshot's load. *)
BeginLoad(p) == Call(p, "applyInProgress", TRUE, "check") /\ UNCHANGED prompt

(* The half-hourly check for a polling that is off. *)
BeginPrompt(p) ==
  \E i \in Prompt :
    /\ prompt[i] = "new"
    /\ Call(p, "recoveryPrompt", i, "check")
    /\ prompt' = [prompt EXCEPT ![i] = "issuing"]

-----------------------------------------------------------------------------
(* Defect: the toggle is not checked. *)
MayGoUnchecked(p) ==
  \/ field[p] = "pollingEnabled"
  \/ field[p] = "recoveryPrompt" /\ ~settings.pollingEnabled
  \/ field[p] = "applyInProgress" /\ ~settings.applyInProgress

(* A prompt needs the polling off and none pending; the others, no lock. *)
MayGo(p) ==
  IF field[p] = "recoveryPrompt"
  THEN ~settings.pollingEnabled /\ settings.recoveryPrompt = NoPrompt
  ELSE ~settings.applyInProgress

(* The toggle is checked by its route and again by applyPollingEnabled.  Its *)
(* route also clears a stored prompt; none is ever stored (Persisted).        *)
Admit(p) ==
  /\ at[p] \in {"route", "check"} /\ MayGo(p)
  /\ Goto(p, IF at[p] = "route" THEN "check" ELSE "read")
  /\ UNCHANGED <<settings, field, value, copy, prompt, saved>>
  /\ Note({})

Refuse(p) ==
  /\ at[p] \in {"route", "check"} /\ ~MayGo(p)
  /\ Return(p)
  /\ prompt' = [i \in Prompt |-> IF field[p] = "recoveryPrompt" /\ value[p] = i
                                 THEN "new" ELSE prompt[i]]
  /\ UNCHANGED <<settings, saved>>
  /\ Note({})

(* Defect: the fields are taken from the defaults, not from the document. *)
ReadDefaults(p) ==
  /\ at[p] = "read"
  /\ Goto(p, "write")
  /\ UNCHANGED <<settings, field, value, copy, prompt, saved>>
  /\ Note({})

(* getSettings *)
Read(p) ==
  /\ at[p] = "read"
  /\ Goto(p, "write")
  /\ copy' = [copy EXCEPT ![p] = settings]
  /\ UNCHANGED <<settings, field, value, prompt, saved>>
  /\ Note({})

(* updateSettings with the copied runtime and the one new value in it; the  *)
(* load goes on to apply the snapshot, the prompt is broadcast.             *)
Write(p) ==
  /\ at[p] = "write"
  /\ settings' = Patched(settings, With(copy[p], field[p], value[p]))
  /\ prompt' = [i \in Prompt |-> IF field[p] = "recoveryPrompt" /\ value[p] = i
                                 THEN "shown" ELSE prompt[i]]
  /\ IF field[p] = "applyInProgress" /\ value[p]
     THEN /\ Goto(p, "apply")
          /\ copy' = [copy EXCEPT ![p] = Defaults]
          /\ UNCHANGED <<field, value>>
     ELSE Return(p)
  /\ UNCHANGED saved
  /\ Note({})

(* Defect: the load returns without its finally block. *)
UnlockForgotten(p) ==
  /\ at[p] = "apply"
  /\ Return(p)
  /\ UNCHANGED <<settings, prompt, saved>>
  /\ Note({})

(* The application has ended, well or not: finally { setApplyLock(false) }. *)
Unlock(p) ==
  /\ at[p] = "apply"
  /\ Goto(p, "read")
  /\ field' = [field EXCEPT ![p] = "applyInProgress"]
  /\ value' = [value EXCEPT ![p] = FALSE]
  /\ UNCHANGED <<settings, copy, prompt, saved>>
  /\ Note({})

(* A call to the database rejects: the update ends there and nothing tries  *)
(* it again.  A load whose unlocking update fails leaves the lock set.      *)
Fail(p) ==
  /\ at[p] \in Updating
  /\ Return(p)
  /\ prompt' = [i \in Prompt |-> IF field[p] = "recoveryPrompt" /\ value[p] = i
                                 THEN "new" ELSE prompt[i]]
  /\ UNCHANGED <<settings, saved>>
  /\ Note(IF Holds(p) THEN {"left"} ELSE {})

(* An operator's answer to a prompt, and its 30 s timer, look it up in the  *)
(* document; only then do they switch the polling on.                       *)
Answer(p, i) ==
  /\ prompt[i] = "shown" /\ at[p] = "idle"
  /\ prompt' = [prompt EXCEPT ![i] = "new"]
  /\ IF settings.recoveryPrompt = i
     THEN /\ Goto(p, "check")
          /\ field' = [field EXCEPT ![p] = "pollingEnabled"]
          /\ value' = [value EXCEPT ![p] = TRUE]
          /\ UNCHANGED copy
     ELSE UNCHANGED procVars
  /\ UNCHANGED <<settings, saved>>
  /\ Note({})

-----------------------------------------------------------------------------
(* POST of the seasonal settings: a patch without runtime fields. *)
SetSeasonal(s) ==
  /\ settings' = With(settings, "seasonal", s)
  /\ UNCHANGED <<procVars, prompt, saved>>
  /\ Note({})

(* A system snapshot, daily or by hand, is a copy of the document. *)
TakeSnapshot ==
  /\ saved' = settings
  /\ UNCHANGED <<settings, procVars, prompt>>
  /\ Note({})

Overwrite(new) ==
  /\ settings' = Patched(settings, new)
  /\ UNCHANGED <<procVars, prompt, saved>>
  /\ Note({"overwrite"} \cup {"overlap" : p \in {q \in Proc : at[q] \in Updating}})

(* Loading it: one patch, with the runtime fields in it and no check. *)
Restore == saved # NoSnapshot /\ Overwrite(saved)

(* Assigning a client patches the document with the defaults. *)
Initialise == Overwrite(Defaults)

(* The server process stops and starts again; the database keeps its state. *)
Crash ==
  /\ at' = [p \in Proc |-> "idle"]
  /\ field' = [p \in Proc |-> "applyInProgress"]
  /\ value' = [p \in Proc |-> FALSE]
  /\ copy' = [p \in Proc |-> Defaults]
  /\ prompt' = [i \in Prompt |-> IF prompt[i] = "issuing" THEN "new" ELSE prompt[i]]
  /\ UNCHANGED <<settings, saved>>
  /\ Note({"left"})

Step(p) ==
  \/ Admit(p) \/ Refuse(p)
  \/ Read(p) \/ Write(p) \/ Unlock(p)

Next ==
  \/ \E p \in Proc :
       \/ BeginUpdate(p) \/ BeginToggle(p) \/ BeginLoad(p) \/ BeginPrompt(p)
       \/ Step(p) \/ Fail(p)
       \/ \E i \in Prompt : Answer(p, i)
  \/ \E s \in Season : SetSeasonal(s)
  \/ TakeSnapshot \/ Restore \/ Initialise
  \/ Crash

Spec == Init /\ [][Next]_vars

(* Every continuation of an await is run, or its call fails; an application *)
(* ends.                                                                    *)
FairSpec == Spec /\ \A p \in Proc : WF_vars(Step(p))

-----------------------------------------------------------------------------
(* While a load applies its snapshot the lock is set, so that no polling    *)
(* can start on the registers it is writing (setApplyLock).                 *)
LockHeld ==
  past \cap {"overlap", "overwrite"} = {} /\ Applying => settings.applyInProgress

(* The lock is set only while a load holds it, from its locking write to    *)
(* its unlocking write: the 409 that refuses a toggle or a load ("an        *)
(* application is in progress") is then the truth.                          *)
LockMeansApplying == past = {} /\ settings.applyInProgress => \E p \in Proc : Holds(p)

(* The lock is set exactly as long as a load holds it, as far as nothing    *)
(* came in between since no call was under way: overlapping updates, a      *)
(* restored system snapshot or an assigned client may take or set it, and   *)
(* these, a crash and an unlocking update that fails (the await in the      *)
(* finally of the load) leave it set, until the document is overwritten.    *)
LockExact == LockHeld /\ LockMeansApplying

(* An update of one setting stores its value and undoes no update of        *)
(* another (updatePollingState: the other runtime settings are kept),       *)
(* unless another was between its check and its write at the same time.     *)
NoLostUpdate ==
  [][\A p \in Proc : Write(p) /\ "overlap" \notin past =>
       \A f \in Persisted :
         settings'[f] = IF f = field[p] THEN value[p] ELSE settings[f]]_vars

(* The polling flag does not change under an application (POST              *)
(* /system/polling and applyPollingEnabled refuse), unless updates overlap, *)
(* or a system snapshot or an assigned client overwrites the document.      *)
FlagFrozen ==
  [][Applying /\ Applying' /\ past' \cap {"overlap", "overwrite"} = {}
       => UNCHANGED settings.pollingEnabled]_vars

(* The lock is always released again, unless something came in between:     *)
(* updates overlapped, the document was overwritten, the server stopped, or *)
(* the one call that releases the lock failed.                              *)
LockReleased == settings.applyInProgress ~> ~settings.applyInProgress \/ past # {}
=============================================================================
