----------------------------- MODULE SerialLine -----------------------------
(***************************************************************************)
(* The serial line of the DDC under the command queue: one service object  *)
(* with a Modbus client, a flag that says whether it is connected, and     *)
(* commands that open the port when it is found closed, and open it again, *)
(* once, when a read or a write finds it gone.                             *)
(*                                                                         *)
(* The queue executes one command at a time.  The hardware route executes  *)
(* its own without the queue, so that its commands overlap with the        *)
(* queue's and with one another.                                           *)
(*                                                                         *)
(* The device file is open in one port at most, as serialport locks it.  A *)
(* client whose port is opened again gets a new port object, and nothing   *)
(* refers to the one before.                                               *)
(*                                                                         *)
(* The start-up connects before anything else does.  Until that has        *)
(* succeeded, and for good if it fails, the service is in mock mode: it    *)
(* invents answers and leaves the line alone.                              *)
(***************************************************************************)
EXTENDS Naturals

CONSTANTS Queue,        \* the queue's command under way
          Direct,       \* the commands of the hardware route
          Client,       \* Modbus client objects
          NoClient,     \* null
          MaxChange,    \* bound on unplugging and plugging in
          MaxFault      \* bound on openings that fail for another reason,
                        \* or take longer than the test of the port waits

Command == {Queue} \cup Direct

ASSUME LineAssumption ==
  /\ Queue \notin Direct
  /\ NoClient \notin Client
  /\ {"free", "stray"} \cap (Client \cup Command \cup {NoClient}) = {}
  /\ Command \cap (Client \cup {NoClient}) = {}
  /\ MaxChange \in Nat /\ MaxFault \in Nat

VARIABLES real,         \* activeService: "real", or "mock"
          client,       \* modbusClient
          flag,         \* _isConnected
          held,         \* what has the device file open
          plugged,      \* the device file is there
          at,           \* the await each command is at
          mine,         \* the client a command opens, or waits on
          retried,      \* it has reconnected
          sent,         \* how often it has been on the wire
          late,         \* tests given up whose opening is under way
          changes, faults,
          overlapped    \* history: two commands were connecting at once, or
                        \* one beside the opening of a test it gave up

service == <<real, client, flag, held>>
commands == <<at, mine, retried, sent>>
environment == <<plugged, late, changes, faults>>
vars == <<service, commands, environment, overlapped>>

Connecting == {"close", "test", "testClose", "open"}

(* held: nothing, the port of a client, the test port of a command, or a    *)
(* port object that nothing refers to.                                      *)
TypeOK ==
  /\ real \in BOOLEAN
  /\ client \in Client \cup {NoClient}
  /\ flag \in BOOLEAN
  /\ held \in {"free", "stray"} \cup Client \cup Command
  /\ plugged \in BOOLEAN
  /\ at \in [Command -> {"idle", "wait"} \cup Connecting]
  /\ mine \in [Command -> Client \cup {NoClient}]
  /\ retried \in [Command -> BOOLEAN]
  /\ sent \in [Command -> 0..2]
  /\ changes \in 0..MaxChange
  /\ faults \in 0..MaxFault
  /\ late \in 0..faults
  /\ overlapped \in BOOLEAN

(* A new process connects, in the place of the queue's first command.       *)
Init ==
  /\ real = FALSE
  /\ client = NoClient
  /\ flag = FALSE
  /\ held = "free"
  /\ plugged \in BOOLEAN
  /\ at = [o \in Command |-> IF o = Queue THEN "test" ELSE "idle"]
  /\ mine = [o \in Command |-> NoClient]
  /\ retried = [o \in Command |-> FALSE]
  /\ sent = [o \in Command |-> 0]
  /\ late = 0
  /\ changes = 0
  /\ faults = 0
  /\ overlapped = FALSE

(* isConnected of RealModbusService; in mock mode nobody asks it.           *)
IsConnected == flag /\ client # NoClient

Goto(o, point) == at' = [at EXCEPT ![o] = point]

NotesOverlap(o) ==
  overlapped' = (overlapped \/ \E q \in Command \ {o} : at[q] \in Connecting)

(* A command goes on to connect or disconnect.                              *)
Connect(o, point) == Goto(o, point) /\ NotesOverlap(o)

(* The command is answered, well or not, and its locals are gone.           *)
End(o) ==
  /\ Goto(o, "idle")
  /\ mine' = [mine EXCEPT ![o] = NoClient]
  /\ retried' = [retried EXCEPT ![o] = FALSE]
  /\ sent' = [sent EXCEPT ![o] = 0]
  /\ UNCHANGED overlapped

-----------------------------------------------------------------------------
(* Definitions whose comment starts with "Defect" are not part of the       *)
(* model: each is a plausible mistake in the definition after it, used to   *)
(* see that a property depends on that definition.                          *)

(* executeRealRead and executeRealWrite up to the request on the wire, and  *)
(* the catch of runWithSerialReconnect.  Without a client the error is not  *)
(* a recoverable one; a closed port is, the first time.                     *)
Operate(o, holder) ==
  \/ /\ client = NoClient \/ (holder # client /\ retried[o])
     /\ End(o)
  \/ /\ client # NoClient /\ holder # client /\ ~retried[o]
     /\ Connect(o, "close")
     /\ retried' = [retried EXCEPT ![o] = TRUE]
     /\ mine' = [mine EXCEPT ![o] = NoClient]
     /\ UNCHANGED sent
  \/ /\ client # NoClient /\ holder = client
     /\ Goto(o, "wait")
     /\ mine' = [mine EXCEPT ![o] = client]
     /\ sent' = [sent EXCEPT ![o] = @ + 1]
     /\ UNCHANGED <<retried, overlapped>>

(* executeDirect, for the queue and for the hardware route.                 *)
Begin(o) ==
  /\ at[o] = "idle"
  /\ \/ ~real /\ UNCHANGED <<commands, overlapped>>
     \/ real /\ IsConnected /\ Operate(o, held)
     \/ /\ real /\ ~IsConnected
        /\ Connect(o, "test")
        /\ UNCHANGED <<mine, retried, sent>>
  /\ UNCHANGED <<service, environment>>

(* Defect: an unanswered request is sent again and again.                   *)
TimeoutRepeated(o) ==
  /\ at[o] = "wait"
  /\ sent' = [sent EXCEPT ![o] = @ + 1]
  /\ UNCHANGED <<at, mine, retried, overlapped, service, environment>>

(* Defect: an unanswered request is taken for a closed port.                *)
TimeoutRetried(o) ==
  /\ at[o] = "wait"
  /\ IF retried[o] THEN End(o)
     ELSE /\ Connect(o, "close")
          /\ retried' = [retried EXCEPT ![o] = TRUE]
          /\ mine' = [mine EXCEPT ![o] = NoClient]
          /\ UNCHANGED sent
  /\ UNCHANGED <<service, environment>>

(* No answer in time: not a recoverable error.                              *)
Timeout(o) ==
  /\ at[o] = "wait"
  /\ End(o)
  /\ UNCHANGED <<service, environment>>

Answer(o) ==
  /\ at[o] = "wait"
  /\ held = mine[o]
  /\ End(o)
  /\ UNCHANGED <<service, environment>>

(* Defect: the flag is left as it was.                                      *)
DisconnectFlagKept(o) ==
  /\ at[o] = "close"
  /\ client' = NoClient
  /\ Connect(o, "test")
  /\ UNCHANGED <<real, flag, held, mine, retried, sent, environment>>

(* disconnect, after the close of a port that is not open, which fails and  *)
(* is caught; then connect.                                                 *)
Disconnect(o) ==
  /\ at[o] = "close"
  /\ client' = NoClient
  /\ flag' = FALSE
  /\ Connect(o, "test")
  /\ UNCHANGED <<real, held, mine, retried, sent, environment>>

(* testPortAccess opens the port in a client of its own, and closes it.     *)
TestOpened(o) ==
  /\ at[o] = "test"
  /\ plugged /\ held = "free"
  /\ held' = o
  /\ Connect(o, "testClose")
  /\ UNCHANGED <<real, client, flag, mine, retried, sent, environment>>

(* Client objects that nothing refers to and that have no open port.        *)
Unused == Client \ ({client, held} \cup {mine[o] : o \in Command})

(* connect from the test to its own opening, with a new port object even if *)
(* the client has one.                                                      *)
StartOpen(o, holder) ==
  \E c \in (IF client = NoClient THEN Unused ELSE {client}) :
    /\ client' = c
    /\ held' = IF holder = c THEN "stray" ELSE holder
    /\ mine' = [q \in Command |-> IF q = o THEN c
                                  ELSE IF at[q] = "open" /\ mine[q] = c
                                  THEN NoClient ELSE mine[q]]
    /\ Goto(o, "open")
    /\ UNCHANGED <<real, flag, retried, sent, plugged, changes>>

(* Defect: the test port is not closed.                                     *)
TestClosedNot(o) ==
  /\ at[o] = "testClose"
  /\ StartOpen(o, held)
  /\ NotesOverlap(o)
  /\ UNCHANGED <<late, faults>>

TestClosed(o) ==
  /\ at[o] = "testClose"
  /\ StartOpen(o, IF held = o THEN "free" ELSE held)
  /\ NotesOverlap(o)
  /\ UNCHANGED <<late, faults>>

(* A test that fails is ignored.                                            *)
TestFailed(o) ==
  /\ at[o] = "test"
  /\ \/ (~plugged \/ held # "free") /\ UNCHANGED faults
     \/ faults < MaxFault /\ faults' = faults + 1
  /\ StartOpen(o, held)
  /\ NotesOverlap(o)
  /\ UNCHANGED late

(* So is one that is not done in five seconds.  Closing its port, which is  *)
(* not open yet, fails; the opening goes on.                                *)
TestTimeout(o) ==
  /\ at[o] = "test"
  /\ faults < MaxFault /\ faults' = faults + 1
  /\ late' = late + 1
  /\ StartOpen(o, held)
  /\ overlapped' = TRUE

(* It succeeds after all, in a client that nothing refers to, or fails.     *)
LateOpening ==
  /\ late > 0 /\ late' = late - 1
  /\ \/ plugged /\ held = "free" /\ held' = "stray"
     \/ UNCHANGED held
  /\ UNCHANGED <<real, client, flag, commands, plugged, changes, faults, overlapped>>

(* The port is open: the client gets its time limit, the flag is set, and   *)
(* the command is tried; the start-up takes the service out of mock mode.   *)
(* If the client was removed meanwhile, setting the limit throws.           *)
Opened(o) ==
  /\ at[o] = "open"
  /\ plugged /\ held = "free"
  /\ LET holder == IF mine[o] = NoClient THEN "stray" ELSE mine[o] IN
       /\ held' = holder
       /\ \/ client = NoClient /\ End(o) /\ UNCHANGED <<real, flag>>
          \/ client # NoClient /\ real /\ flag' = TRUE /\ Operate(o, holder) /\ UNCHANGED real
          \/ client # NoClient /\ ~real /\ flag' = TRUE /\ real' = TRUE /\ End(o)
  /\ UNCHANGED <<client, environment>>

(* connect throws, and what it throws is not recoverable; after the first   *)
(* connection the server goes on in mock mode.                              *)
OpenFailed(o) ==
  /\ at[o] = "open"
  /\ \/ (~plugged \/ held # "free") /\ UNCHANGED faults
     \/ faults < MaxFault /\ faults' = faults + 1
  /\ End(o)
  /\ UNCHANGED <<service, plugged, late, changes>>

(* The device is unplugged, which closes what is open, and plugged in.      *)
Plug ==
  /\ changes < MaxChange
  /\ changes' = changes + 1
  /\ plugged' = ~plugged
  /\ held' = "free"
  /\ UNCHANGED <<real, client, flag, commands, late, faults, overlapped>>

Step(o) ==
  \/ Timeout(o) \/ Answer(o) \/ Disconnect(o) \/ TestOpened(o) \/ TestClosed(o)
  \/ TestFailed(o) \/ TestTimeout(o) \/ Opened(o) \/ OpenFailed(o)

Next == (\E o \in Command : Begin(o) \/ Step(o)) \/ LateOpening \/ Plug

Spec == Init /\ [][Next]_vars

(* Calls of the port return, a request is answered or times out, and        *)
(* polling sends its reads again and again.                                 *)
FairSpec ==
  /\ Spec
  /\ \A o \in Command : WF_vars(Step(o))
  /\ WF_vars(LateOpening)
  /\ WF_vars(Begin(Queue))

-----------------------------------------------------------------------------
(* A command is on the wire at most once, although it is tried again after  *)
(* a reconnection: only what was not sent is (isRecoverableSerialError).    *)
SentOnce == \A o \in Command : sent[o] <= 1

(* As long as no two commands were connecting at the same time, and no test *)
(* of the port was given up while its opening went on, the device file is   *)
(* open in nothing but the service's client and a test under way: no port   *)
(* is left open that a later command cannot use and that keeps it from      *)
(* opening one.                                                             *)
NoneLeftOpen ==
  \/ overlapped
  \/ held = "free"
  \/ held = client /\ IsConnected
  \/ held \in Command /\ at[held] = "testClose"

(* "자동 재연결" (automatic reconnection): once the start-up has connected, the  *)
(* service comes to be connected and stays so when the device is there for  *)
(* good, unless commands were connecting at the same time or beside a test  *)
(* given up; when it is gone for good, isConnected, which the link monitor  *)
(* watches, comes to say so.                                                *)
LinkFollows ==
  /\ <>[](plugged /\ real) => <>[](overlapped \/ (IsConnected /\ held = client))
  /\ <>[](~plugged /\ real) => <>[]~IsConnected
=============================================================================
