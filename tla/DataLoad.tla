------------------------------ MODULE DataLoad ------------------------------
(***************************************************************************)
(* The Data collection, the DDC registers it mirrors, and the two jobs     *)
(* that replace the collection and then write it to the DDC: the load of a *)
(* data snapshot (DataApplyService.applySnapshotData) and the registration *)
(* of a client (POST /client with initialize).  Beside them the poller     *)
(* copies registers into the collection and users write registers.         *)
(*                                                                         *)
(* A document stands for one device with one writable field; "made" stands *)
(* for its _id: the generation that created it.  The people counter is on  *)
(* a line of its own; its count stands in "register" too, and its poller   *)
(* is one of Poller.  The database lock of a load is in RuntimeSettings:   *)
(* it keeps loads apart and is not here.  cancel() has no caller and is    *)
(* left out.                                                               *)
(***************************************************************************)
EXTENDS Naturals, FiniteSets

CONSTANTS Device, Value,
          Counter,             \* the people counter, if the client has one
          Off,                 \* what the DDC reset writes to a port
          Fresh,               \* the value in the documents of a new client
          Load, Registration,  \* requests of the two jobs, each again and again
          Poller,              \* polling loops: mapped and essential
          User,                \* control requests
          Nothing,             \* no value under way
          MaxMade              \* bound on the generations of _ids of a behaviour

Job == Load \cup Registration
Writer == Job \cup Poller \cup User
Document == [device : Device, value : Value, made : 0..MaxMade]
Reading == [device : Device, value : Value]

ASSUME DataAssumption ==
  /\ Off \in Value /\ Fresh \in Value /\ Counter \subseteq Device
  /\ Load \cap Registration = {} /\ Job \cap (Poller \cup User) = {}
  /\ Poller \cap User = {} /\ Nothing \notin Reading
  /\ Load \cap {"data", "snapshot"} = {} /\ MaxMade \in Nat

VARIABLES data,         \* the Data collection
          register,     \* the DDC
          snapshot,     \* the documents of the newest data snapshot
          applying,     \* DataApplyService.applying
          made,         \* generations of _ids so far
          at,           \* where each job is
          docs,         \* the documents a job is to put into the collection
          todo,         \* the documents it has yet to create, reset or write
          carry,        \* what a writer has on its way into the collection
          past          \* history: how data, snapshot and a load's docs came about

jobVars == <<at, docs, todo>>
vars == <<data, register, snapshot, applying, made, jobVars, carry, past>>

(* "read", "write" and "clear" are inside the service's try block; a job    *)
(* whose write was dropped from the queue stays in it as "lost".           *)
Inside == {"read", "write", "clear", "lost"}
Point == Inside \cup {"idle", "delete", "insert", "create", "reset", "apply"}

(* A job that has deleted the documents and is putting in its own.          *)
Filling == {"insert", "create"}

(* Two jobs were filling the collection at once; an error of the database   *)
(* or a crash cut a filling short, or a snapshot was taken in the middle.  *)
Event == {"overlap", "unfinished"}

TypeOK ==
  /\ data \subseteq Document /\ snapshot \subseteq Document
  /\ register \in [Device -> Value]
  /\ applying \in BOOLEAN /\ made \in 0..MaxMade
  /\ at \in [Job -> Point]
  /\ docs \in [Job -> SUBSET Document] /\ todo \in [Job -> SUBSET Document]
  /\ carry \in [Writer -> Reading \cup {Nothing}]
  /\ past \in [{"data", "snapshot"} \cup Load -> SUBSET Event]

Id(d) == <<d.device, d.made>>

(* The documents with fields the DDC can be written with.                  *)
Written(D) == {d \in D : d.device \notin Counter}

(* The DDC may have been set by hand or before the server started.         *)
Init ==
  /\ data = [device : Device, value : {Fresh}, made : {0}]
  /\ register \in [Device -> Value]
  /\ snapshot = data
  /\ applying = FALSE /\ made = 0
  /\ at = [p \in Job |-> "idle"]
  /\ docs = [p \in Job |-> {}] /\ todo = [p \in Job |-> {}]
  /\ carry = [w \in Writer |-> Nothing]
  /\ past = [s \in {"data", "snapshot"} \cup Load |-> {}]

Goto(p, point) == at' = [at EXCEPT ![p] = point]

(* The call returns and its local variables are gone.                       *)
Return(p) ==
  /\ Goto(p, "idle")
  /\ docs' = [docs EXCEPT ![p] = {}]
  /\ todo' = [todo EXCEPT ![p] = {}]

(* History: p has deleted every document and is to put in others, about     *)
(* which "events" is known.  Beside another job that is filling, too, this *)
(* is an overlap; alone, it is a new beginning.                            *)
Emptied(p, events) ==
  past' = [past EXCEPT !["data"] =
             IF \E q \in Job \ {p} : at[q] \in Filling
             THEN @ \cup events \cup {"overlap"} ELSE events]

CutShort == past' = [past EXCEPT !["data"] = @ \cup {"unfinished"}]

-----------------------------------------------------------------------------
(* The load of a data snapshot up to applyData.                            *)

(* applySnapshotData refuses while another job is inside; the deletion     *)
(* comes after an await.                                                   *)
BeginLoad(p) ==
  /\ at[p] = "idle" /\ ~applying
  /\ Goto(p, "delete")
  /\ docs' = [docs EXCEPT ![p] = snapshot]
  /\ past' = [past EXCEPT ![p] = past["snapshot"]]
  /\ UNCHANGED <<data, register, snapshot, applying, made, todo, carry>>

DeleteAll(p) ==
  /\ at[p] = "delete"
  /\ \/ data' = {} /\ Goto(p, "insert") /\ UNCHANGED <<docs, todo>> /\ Emptied(p, past[p])
     \/ Return(p) /\ UNCHANGED <<data, past>>
  /\ UNCHANGED <<register, snapshot, applying, made, carry>>

(* insertMany stops at the first document it cannot insert, one whose _id   *)
(* is there already for example, and the load fails with what was inserted *)
(* before it: nothing is rolled back.                                      *)
Insert(p) ==
  /\ at[p] = "insert"
  /\ LET clashing == {d \in docs[p] : \E e \in data : Id(e) = Id(d)} IN
     \/ /\ clashing = {} /\ data' = data \cup docs[p]
        /\ Goto(p, "apply") /\ docs' = [docs EXCEPT ![p] = {}]
        /\ UNCHANGED <<todo, past>>
     \/ /\ \E D \in SUBSET (docs[p] \ clashing) : data' = data \cup D
        /\ Return(p)
        /\ IF clashing = {} THEN CutShort ELSE UNCHANGED past
  /\ UNCHANGED <<register, snapshot, applying, made, carry>>

-----------------------------------------------------------------------------
(* The registration of a client up to applyData.                           *)

(* The documents are deleted, and the client is assigned or that fails.     *)
Register(p) ==
  /\ at[p] = "idle" /\ made < MaxMade
  /\ made' = made + 1
  /\ data' = {}
  /\ \/ /\ docs' = [docs EXCEPT ![p] = [device : Device, value : {Fresh}, made : {made'}]]
        /\ todo' = [todo EXCEPT ![p] = docs'[p]]
        /\ Goto(p, "create") /\ Emptied(p, {})
     \/ UNCHANGED jobVars /\ Emptied(p, {"unfinished"})
  /\ UNCHANGED <<register, snapshot, applying, carry>>

(* Defect: the loop over the devices ends one device early.                 *)
CreateShort(p) ==
  /\ at[p] = "create"
  /\ \E d \in todo[p] :
       /\ data' = data \cup {d}
       /\ todo' = [todo EXCEPT ![p] = @ \ {d}]
       /\ IF Cardinality(todo'[p]) <= 1 THEN Goto(p, "reset") ELSE UNCHANGED at
  /\ UNCHANGED <<register, snapshot, applying, made, docs, carry, past>>

(* A device whose documents cannot be created is skipped.                  *)
Create(p) ==
  /\ at[p] = "create"
  /\ \E d \in todo[p] :
       /\ \/ data' = data \cup {d} /\ UNCHANGED past
          \/ UNCHANGED data /\ CutShort
       /\ todo' = [todo EXCEPT ![p] = @ \ {d}]
       /\ IF todo'[p] = {} THEN Goto(p, "reset") ELSE UNCHANGED at
  /\ UNCHANGED <<register, snapshot, applying, made, docs, carry>>

(* initializeDDC; its refusal is logged and the registration goes on.      *)
BeginReset(p) ==
  /\ at[p] = "reset"
  /\ IF applying
     THEN Goto(p, "apply") /\ UNCHANGED <<applying, todo>>
     ELSE /\ applying' = TRUE
          /\ todo' = [todo EXCEPT ![p] = Written(docs[p])]
          /\ Goto(p, "clear")
  /\ docs' = [docs EXCEPT ![p] = {}]
  /\ UNCHANGED <<data, register, snapshot, made, carry, past>>

(* One port; a write that fails is logged and the next port follows.  The   *)
(* people counter has no port.                                             *)
ClearPort(p) ==
  /\ at[p] = "clear"
  /\ \E d \in todo[p] :
       /\ todo' = [todo EXCEPT ![p] = @ \ {d}]
       /\ \/ register' = [register EXCEPT ![d.device] = Off]
          \/ UNCHANGED register
  /\ UNCHANGED <<data, snapshot, applying, made, at, docs, carry, past>>

EndReset(p) ==
  /\ at[p] = "clear" /\ todo[p] = {}
  /\ applying' = FALSE
  /\ Goto(p, "apply")
  /\ UNCHANGED <<data, register, snapshot, made, docs, todo, carry, past>>

-----------------------------------------------------------------------------
(* applyData, the second half of both jobs.                                *)

(* Defect: the flag is not tested.                                         *)
BeginApplyUntested(p) ==
  /\ at[p] = "apply"
  /\ applying' = TRUE /\ Goto(p, "read")
  /\ UNCHANGED <<data, register, snapshot, made, docs, todo, carry, past>>

BeginApply(p) ==
  /\ at[p] = "apply"
  /\ IF applying THEN Return(p) /\ UNCHANGED applying
                 ELSE Goto(p, "read") /\ applying' = TRUE /\ UNCHANGED <<docs, todo>>
  /\ UNCHANGED <<data, register, snapshot, made, carry, past>>

(* The documents are read back from the collection; none is an error.      *)
ReadBack(p) ==
  /\ at[p] = "read"
  /\ \/ Return(p) /\ applying' = FALSE
     \/ /\ data # {} /\ Goto(p, "write") /\ UNCHANGED <<docs, applying>>
        /\ todo' = [todo EXCEPT ![p] = Written(data)]
  /\ UNCHANGED <<data, register, snapshot, made, carry, past>>

(* One document written to the DDC; a write that fails is logged and       *)
(* swallowed.                                                              *)
WriteOut(p) ==
  /\ at[p] = "write" /\ carry[p] = Nothing
  /\ \E d \in todo[p] :
       /\ todo' = [todo EXCEPT ![p] = @ \ {d}]
       /\ \/ /\ register' = [register EXCEPT ![d.device] = d.value]
             /\ carry' = [carry EXCEPT ![p] = [device |-> d.device, value |-> d.value]]
          \/ UNCHANGED <<register, carry>>
  /\ UNCHANGED <<data, snapshot, applying, made, at, docs, past>>

(* Defect: the finally block is missing.                                   *)
FinishHolding(p) ==
  /\ at[p] = "write" /\ todo[p] = {} /\ carry[p] = Nothing
  /\ Return(p)
  /\ UNCHANGED <<data, register, snapshot, applying, made, carry, past>>

(* The verification that precedes it only reads and logs.                  *)
Finish(p) ==
  /\ at[p] = "write" /\ todo[p] = {} /\ carry[p] = Nothing
  /\ applying' = FALSE
  /\ Return(p)
  /\ UNCHANGED <<data, register, snapshot, made, carry, past>>

(* Polling switched off clears the command queue with a write of p in it,  *)
(* whose answer never comes.  The switch is refused during a load, which   *)
(* has the lock; a registration has none.                                  *)
Lose(p) ==
  /\ p \in Registration /\ at[p] \in {"write", "clear"} /\ todo[p] # {}
  /\ carry[p] = Nothing
  /\ \A q \in Load : at[q] = "idle"
  /\ Goto(p, "lost")
  /\ UNCHANGED <<data, register, snapshot, applying, made, docs, todo, carry, past>>

-----------------------------------------------------------------------------
(* Pollers and users.                                                      *)

(* Defect: a read that failed is stored as well.                           *)
PollUnchecked(q, d) ==
  /\ carry[q] = Nothing
  /\ \E v \in {register[d], Nothing} :
       carry' = [carry EXCEPT ![q] = [device |-> d, value |-> v]]
  /\ UNCHANGED <<data, register, snapshot, applying, made, jobVars, past>>

(* A register read; a batch of them is stored at the end of the cycle.     *)
Poll(q, d) ==
  /\ carry[q] = Nothing
  /\ carry' = [carry EXCEPT ![q] = [device |-> d, value |-> register[d]]]
  /\ UNCHANGED <<data, register, snapshot, applying, made, jobVars, past>>

Command(u) ==
  /\ carry[u] = Nothing
  /\ \E r \in Reading :
       /\ r.device \notin Counter
       /\ register' = [register EXCEPT ![r.device] = r.value]
       /\ carry' = [carry EXCEPT ![u] = r]
  /\ UNCHANGED <<data, snapshot, applying, made, jobVars, past>>

(* Defect: every store inserts the document that is missing.               *)
UpsertsAlways(d) == TRUE

(* Only the store of the people counter inserts a document.                *)
Upserts(d) == d \in Counter

(* Defect: what the poller read is not stored.                             *)
StoreUnlessPolled(w) ==
  /\ carry[w] # Nothing /\ carry' = [carry EXCEPT ![w] = Nothing]
  /\ UNCHANGED <<data, register, snapshot, applying, made, jobVars, past>>

(* updateOne: the first document of the device, if there is one.            *)
Store(w) ==
  /\ carry[w] # Nothing
  /\ LET r == carry[w]
         hits == {d \in data : d.device = r.device}
         written(id) == [device |-> r.device, value |-> r.value, made |-> id] IN
     \/ \E d \in hits : data' = (data \ {d}) \cup {written(d.made)} /\ UNCHANGED made
     \/ /\ hits = {} /\ Upserts(r.device) /\ made < MaxMade
        /\ made' = made + 1
        /\ data' = data \cup {written(made')}
     \/ hits = {} /\ ~(Upserts(r.device) /\ made < MaxMade) /\ UNCHANGED <<data, made>>
  /\ carry' = [carry EXCEPT ![w] = Nothing]
  /\ UNCHANGED <<register, snapshot, applying, jobVars, past>>

(* An error of it is logged.                                               *)
StoreFails(w) ==
  /\ carry[w] # Nothing /\ carry' = [carry EXCEPT ![w] = Nothing]
  /\ UNCHANGED <<data, register, snapshot, applying, made, jobVars, past>>

TakeSnapshot ==
  /\ snapshot' = data
  /\ past' = [past EXCEPT !["snapshot"] = past["data"] \cup
                {"unfinished" : p \in {q \in Job : at[q] \in Filling}}]
  /\ UNCHANGED <<data, register, applying, made, jobVars, carry>>

(* External: the operating system restarts the process.                    *)
Crash ==
  /\ applying' = FALSE
  /\ at' = [p \in Job |-> "idle"]
  /\ docs' = [p \in Job |-> {}] /\ todo' = [p \in Job |-> {}]
  /\ carry' = [w \in Writer |-> Nothing]
  /\ IF \E p \in Job : at[p] \in Filling THEN CutShort ELSE UNCHANGED past
  /\ UNCHANGED <<data, register, snapshot, made>>

-----------------------------------------------------------------------------
Proceed(p) ==
  \/ p \in Load /\ (DeleteAll(p) \/ Insert(p))
  \/ p \in Registration /\ (Create(p) \/ BeginReset(p) \/ ClearPort(p) \/ EndReset(p))
  \/ BeginApply(p) \/ ReadBack(p) \/ WriteOut(p) \/ Finish(p)

Copy == \/ \E q \in Poller, d \in Device : Poll(q, d)
        \/ \E w \in Writer : Store(w)

Next ==
  \/ \E p \in Load : BeginLoad(p)
  \/ \E p \in Registration : Register(p)
  \/ \E p \in Job : Proceed(p) \/ Lose(p)
  \/ \E u \in User : Command(u)
  \/ Copy \/ TakeSnapshot \/ Crash
  \/ \E w \in Writer : StoreFails(w)

Safety == Init /\ [][Next]_vars

(* Every await of a job returns, every reading is stored, and a cycle of   *)
(* the poller reads every device in turn.                                  *)
Spec ==
  /\ Safety
  /\ \A p \in Job : WF_vars(Proceed(p))
  /\ \A w \in Writer : WF_vars(Store(w))
  /\ \A q \in Poller, d \in Device : SF_vars(Poll(q, d))

-----------------------------------------------------------------------------
(* One job at most is inside the service, and the flag says whether one    *)
(* is: two never write the DDC at a time (the flag is tested and set       *)
(* without an await, and again in applyData).                              *)
OneApplication ==
  /\ \A p, q \in Job : at[p] \in Inside /\ at[q] \in Inside => p = q
  /\ applying <=> \E p \in Job : at[p] \in Inside

(* A job that is inside comes out again and clears the flag, unless its    *)
(* write was dropped from the queue.                                       *)
ComesOut ==
  \A p \in Job : at[p] \in Inside ~> (~applying \/ at[p] = "lost")

(* Unless two jobs were filling the collection at once, or it is loaded     *)
(* from a snapshot of such a time, no DDC device has two documents,        *)
(* whatever is deleted, inserted and created while pollers and users store *)
(* (updateOne would refresh one of them only).  The people counter can     *)
(* have two: its poller inserts one between the deletion and the insertion *)
(* of a load.                                                              *)
OneDocument ==
  "overlap" \notin past["data"] =>
    \A d, e \in Written(data) : d.device = e.device => d = e

(* And unless a filling was cut short, or the snapshot it is loaded from    *)
(* was taken in the middle of one, every device has its document again     *)
(* when the collection has been filled: the poller would not bring a       *)
(* missing one back.                                                       *)
NoneMissing ==
  past["data"] = {} /\ (\A p \in Job : at[p] \notin Filling)
    => {d.device : d \in data} = Device

(* What deletions, insertions and upserts leave behind: one document of a   *)
(* device, neither two nor none.  A job that deletes everything alone is   *)
(* a new beginning.                                                        *)
OneEach == OneDocument /\ NoneMissing

(* Once nobody but the pollers writes and their stores succeed, a           *)
(* document that is its device's only one comes to show what the DDC       *)
(* holds, late stores of old readings included.                            *)
ShowsTheDevice ==
  <>[][Copy]_vars =>
    <>[](\A d \in Written(data) :
           (\A e \in data : e.device = d.device => e = d) => d.value = register[d.device])
=============================================================================
