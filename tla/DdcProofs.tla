------------------------------ MODULE DdcProofs ------------------------------
(***************************************************************************)
(* Proofs about the DDC as the server meets it: its serial line            *)
(* (SerialLine) and its clock (DdcTime).                                   *)
(*                                                                         *)
(* Of the line, for any number of commands of the hardware route, of       *)
(* client objects and of times the device is unplugged: type correctness;  *)
(* that no command is on the wire twice; and that no port is left open     *)
(* that nobody can close, while no two commands connect at once and no     *)
(* test of the port is given up while its opening goes on.                 *)
(*                                                                         *)
(* Of the clock, for any number of requests and of registers: type         *)
(* correctness, and that a time is set and read whole unless a carry or    *)
(* another job changed a part of it.                                       *)
(***************************************************************************)
EXTENDS SerialLine, DdcTime, TLAPS

Point == {"idle", "wait"} \cup Connecting

(* A command has been on the wire exactly if it waits for its answer there. *)
SentWaits == \A o \in Command : sent[o] = IF at[o] = "wait" THEN 1 ELSE 0

TypeInv == TypeOK /\ SentWaits

(* The parts of TypeOK that the steps of a command can disturb.             *)
CommandType ==
  /\ at \in [Command -> Point]
  /\ mine \in [Command -> Client \cup {NoClient}]
  /\ retried \in [Command -> BOOLEAN]
  /\ sent \in [Command -> 0..2]
  /\ overlapped \in BOOLEAN
  /\ SentWaits

RestType ==
  /\ real \in BOOLEAN
  /\ client \in Client \cup {NoClient}
  /\ flag \in BOOLEAN
  /\ held \in {"free", "stray"} \cup Client \cup Command
  /\ plugged \in BOOLEAN
  /\ changes \in 0..MaxChange
  /\ faults \in 0..MaxFault
  /\ late \in 0..faults

LEMMA TypeParts == TypeInv <=> CommandType /\ RestType
  BY DEF TypeInv, TypeOK, CommandType, RestType, Point

LEMMA TypePartsNext == CommandType' /\ RestType' => TypeInv'
  BY DEF TypeInv, TypeOK, CommandType, RestType, Point

LEMMA TypeInit == Init => TypeInv
<1> SUFFICES ASSUME Init PROVE TypeInv
  OBVIOUS
<1>1. CommandType
  <2>1. /\ at \in [Command -> Point] /\ sent \in [Command -> 0..2]
        /\ mine \in [Command -> Client \cup {NoClient}]
    BY DEF Init, Point, Connecting
  <2>2. retried \in [Command -> BOOLEAN] /\ overlapped \in BOOLEAN
    BY DEF Init
  <2>3. SentWaits
    <3>1. \A o \in Command : sent[o] = 0 /\ at[o] \in {"test", "idle"}
      BY DEF Init
    <3> QED BY <3>1 DEF SentWaits
  <2> QED BY <2>1, <2>2, <2>3 DEF CommandType
<1>2. RestType
  <2>1. /\ real = FALSE /\ client = NoClient /\ flag = FALSE /\ held = "free"
        /\ plugged \in BOOLEAN /\ changes = 0 /\ faults = 0 /\ late = 0
    BY DEF Init
  <2>2. 0 \in 0..MaxChange /\ 0 \in 0..MaxFault /\ 0 \in 0..0
    BY LineAssumption
  <2> QED BY <2>1, <2>2 DEF RestType
<1> QED BY <1>1, <1>2, TypeParts

(* A command that goes on connecting is not on the wire.                    *)
LEMMA ConnectType ==
  ASSUME CommandType, NEW o \in Command, NEW point \in Connecting,
         Connect(o, point), at[o] # "wait",
         UNCHANGED sent,
         mine' \in [Command -> Client \cup {NoClient}],
         retried' \in [Command -> BOOLEAN]
  PROVE  CommandType'
<1>1. at' \in [Command -> Point] /\ at'[o] = point
      /\ \A q \in Command \ {o} : at'[q] = at[q]
  BY DEF Connect, Goto, CommandType, Point
<1>2. overlapped' \in BOOLEAN
  BY Zenon DEF Connect, NotesOverlap, CommandType
<1>3. SentWaits'
  BY <1>1 DEF SentWaits, CommandType, Connecting
<1> QED BY <1>1, <1>2, <1>3 DEF CommandType

(* An answered command leaves well-typed locals behind.                     *)
LEMMA EndType ==
  ASSUME CommandType, NEW o \in Command, End(o)
  PROVE  CommandType'
<1>1. /\ at' \in [Command -> Point] /\ mine' \in [Command -> Client \cup {NoClient}]
      /\ retried' \in [Command -> BOOLEAN] /\ sent' \in [Command -> 0..2]
  BY DEF End, Goto, CommandType, Point
<1>2. overlapped' \in BOOLEAN
  BY DEF End, CommandType
<1>3. SentWaits'
  BY DEF End, Goto, SentWaits, CommandType
<1> QED BY <1>1, <1>2, <1>3 DEF CommandType

(* A command that is not on the wire is tried.                              *)
LEMMA OperateType ==
  ASSUME CommandType, NEW o \in Command, NEW holder, client \in Client \cup {NoClient},
         at[o] # "wait", Operate(o, holder)
  PROVE  CommandType'
<1>1. CASE End(o)
  BY <1>1, EndType
<1>2. CASE /\ Connect(o, "close")
           /\ retried' = [retried EXCEPT ![o] = TRUE]
           /\ mine' = [mine EXCEPT ![o] = NoClient]
           /\ UNCHANGED sent
  <2>1. /\ mine' \in [Command -> Client \cup {NoClient}]
        /\ retried' \in [Command -> BOOLEAN]
        /\ "close" \in Connecting
    BY <1>2 DEF CommandType, Connecting
  <2> QED BY <1>2, <2>1, ConnectType
<1>3. CASE /\ Goto(o, "wait")
           /\ mine' = [mine EXCEPT ![o] = client]
           /\ sent' = [sent EXCEPT ![o] = @ + 1]
           /\ UNCHANGED <<retried, overlapped>>
  <2>1. at' \in [Command -> Point] /\ mine' \in [Command -> Client \cup {NoClient}]
    BY <1>3 DEF Goto, CommandType, Point
  <2>2. sent[o] = 0 /\ sent'[o] = 1 /\ at'[o] = "wait"
    BY <1>3 DEF Goto, CommandType, SentWaits
  <2>3. \A q \in Command \ {o} : sent'[q] = sent[q] /\ at'[q] = at[q]
    BY <1>3 DEF Goto, CommandType
  <2>4. sent' \in [Command -> 0..2]
    BY <1>3, <2>2 DEF CommandType
  <2>5. SentWaits'
    BY <2>2, <2>3 DEF SentWaits, CommandType
  <2> QED BY <1>3, <2>1, <2>4, <2>5 DEF CommandType
<1> QED BY <1>1, <1>2, <1>3 DEF Operate

LEMMA StartType ==
  ASSUME TypeInv, NEW o \in Command, at[o] # "wait",
         NEW holder \in {"free", "stray"} \cup Client \cup Command, StartOpen(o, holder),
         overlapped' \in BOOLEAN, faults' \in 0..MaxFault, late' \in 0..faults'
  PROVE  TypeInv'
<1>0. CommandType /\ RestType
  BY TypeParts
<1>1. PICK c \in Client :
        /\ client' = c
        /\ held' = IF holder = c THEN "stray" ELSE holder
        /\ mine' = [q \in Command |-> IF q = o THEN c
                                      ELSE IF at[q] = "open" /\ mine[q] = c
                                      THEN NoClient ELSE mine[q]]
        /\ Goto(o, "open")
        /\ UNCHANGED <<real, flag, retried, sent, plugged, changes>>
  BY <1>0 DEF StartOpen, Unused, RestType
<1>2. mine' \in [Command -> Client \cup {NoClient}]
  BY <1>0, <1>1 DEF CommandType
<1>3. at' \in [Command -> Point] /\ at'[o] = "open"
      /\ \A q \in Command \ {o} : at'[q] = at[q]
  BY <1>0, <1>1 DEF Goto, CommandType, Point, Connecting
<1>s. SentWaits'
  BY <1>0, <1>1, <1>3 DEF SentWaits, CommandType
<1>4. CommandType'
  BY <1>0, <1>1, <1>2, <1>3, <1>s DEF CommandType
<1>5. RestType'
  BY <1>0, <1>1 DEF RestType
<1> QED BY <1>4, <1>5, TypePartsNext

LEMMA TypeNext == TypeInv /\ [Next]_vars => TypeInv'
<1> SUFFICES ASSUME TypeInv, [Next]_vars PROVE TypeInv'
  OBVIOUS
<1>0. CommandType /\ RestType
  BY TypeParts
<1>c. ASSUME NEW o \in Command, NEW point \in Connecting, Connect(o, point),
             at[o] # "wait", UNCHANGED <<mine, retried, sent>>
      PROVE  CommandType'
  BY <1>0, <1>c, ConnectType DEF CommandType
<1>n. ASSUME NEW o \in Command, NotesOverlap(o) PROVE overlapped' \in BOOLEAN
  BY <1>0, <1>n, Zenon DEF NotesOverlap, CommandType
<1>1. ASSUME NEW o \in Command, Begin(o) PROVE TypeInv'
  <2>1. RestType'
    BY <1>0, <1>1 DEF Begin, RestType, service, environment
  <2>m. CASE UNCHANGED <<commands, overlapped>>
    <3>1. CommandType'
      BY <1>0, <2>m DEF CommandType, commands, SentWaits
    <3> QED BY <2>1, <3>1, TypePartsNext
  <2>2. CASE Operate(o, held)
    <3>1. CommandType'
      BY <1>0, <1>1, <2>2, OperateType DEF Begin, RestType
    <3> QED BY <2>1, <3>1, TypePartsNext
  <2>3. CASE Connect(o, "test") /\ UNCHANGED <<mine, retried, sent>>
    <3>1. CommandType'
      BY <1>1, <1>c, <2>3 DEF Begin, Connecting
    <3> QED BY <2>1, <3>1, TypePartsNext
  <2> QED BY <1>1, <2>m, <2>2, <2>3 DEF Begin
<1>2. ASSUME NEW o \in Command, Timeout(o) \/ Answer(o) PROVE TypeInv'
  <2>1. CommandType'
    BY <1>0, <1>2, EndType DEF Timeout, Answer
  <2>2. RestType'
    BY <1>0, <1>2 DEF Timeout, Answer, RestType, service, environment
  <2> QED BY <2>1, <2>2, TypePartsNext
<1>3. ASSUME NEW o \in Command, Disconnect(o) PROVE TypeInv'
  <2>1. CommandType'
    BY <1>3, <1>c DEF Disconnect, Connecting
  <2>2. RestType'
    BY <1>0, <1>3 DEF Disconnect, RestType, environment
  <2> QED BY <2>1, <2>2, TypePartsNext
<1>4. ASSUME NEW o \in Command, TestOpened(o) PROVE TypeInv'
  <2>1. CommandType'
    BY <1>4, <1>c DEF TestOpened, Connecting
  <2>2. RestType'
    BY <1>0, <1>4 DEF TestOpened, RestType, environment
  <2> QED BY <2>1, <2>2, TypePartsNext
<1>5. ASSUME NEW o \in Command, TestClosed(o) PROVE TypeInv'
  <2>1. (IF held = o THEN "free" ELSE held) \in {"free", "stray"} \cup Client \cup Command
    BY <1>0 DEF RestType
  <2>2. overlapped' \in BOOLEAN /\ faults' \in 0..MaxFault /\ late' \in 0..faults'
    BY <1>0, <1>5, <1>n DEF TestClosed, RestType
  <2> QED BY <1>5, <2>1, <2>2, StartType DEF TestClosed
<1>6. ASSUME NEW o \in Command, TestFailed(o) \/ TestTimeout(o) PROVE TypeInv'
  <2>1. held \in {"free", "stray"} \cup Client \cup Command
    BY <1>0 DEF RestType
  <2>2. overlapped' \in BOOLEAN
    BY <1>6, <1>n DEF TestFailed, TestTimeout
  <2>3. faults' \in 0..MaxFault /\ late' \in 0..faults'
    BY <1>0, <1>6, LineAssumption DEF TestFailed, TestTimeout, RestType
  <2> QED BY <1>6, <2>1, <2>2, <2>3, StartType DEF TestFailed, TestTimeout
<1>7. ASSUME NEW o \in Command, Opened(o) PROVE TypeInv'
  <2> DEFINE holder == IF mine[o] = NoClient THEN "stray" ELSE mine[o]
  <2>1. /\ held' = holder
        /\ at[o] = "open"
        /\ End(o) \/ Operate(o, holder)
        /\ flag' \in {flag, TRUE} /\ real' \in {real, TRUE}
    BY <1>7 DEF Opened
  <2>2. holder \in {"stray"} \cup Client
    BY <1>0 DEF CommandType
  <2>3. RestType'
    BY <1>0, <1>7, <2>1, <2>2 DEF Opened, RestType, environment
  <2>4. CommandType'
    <3>1. CASE End(o)
      BY <1>0, <3>1, EndType
    <3>2. CASE Operate(o, holder)
      <4>1. client \in Client \cup {NoClient}
        BY <1>0 DEF RestType
      <4>2. at[o] # "wait"
        BY <1>7 DEF Opened
      <4> HIDE DEF holder
      <4> QED BY <1>0, <3>2, <4>1, <4>2, OperateType
    <3> QED BY <2>1, <3>1, <3>2
  <2> QED BY <2>3, <2>4, TypePartsNext
<1>8. ASSUME NEW o \in Command, OpenFailed(o) PROVE TypeInv'
  <2>1. CommandType'
    BY <1>0, <1>8, EndType DEF OpenFailed
  <2>2. RestType'
    BY <1>0, <1>8, LineAssumption DEF OpenFailed, RestType, service
  <2> QED BY <2>1, <2>2, TypePartsNext
<1>11. ASSUME LateOpening PROVE TypeInv'
  <2>1. CommandType'
    BY <1>0, <1>11 DEF LateOpening, CommandType, commands, SentWaits
  <2>2. RestType'
    BY <1>0, <1>11, LineAssumption DEF LateOpening, RestType
  <2> QED BY <2>1, <2>2, TypePartsNext
<1>9. ASSUME Plug PROVE TypeInv'
  <2>1. CommandType'
    BY <1>0, <1>9 DEF Plug, CommandType, commands, SentWaits
  <2>2. RestType'
    BY <1>0, <1>9, LineAssumption DEF Plug, RestType
  <2> QED BY <2>1, <2>2, TypePartsNext
<1>10. CASE UNCHANGED vars
  <2>1. CommandType'
    BY <1>0, <1>10 DEF vars, CommandType, commands, SentWaits
  <2>2. RestType'
    BY <1>0, <1>10 DEF vars, RestType, service, environment
  <2> QED BY <2>1, <2>2, TypePartsNext
<1> QED
  BY <1>1, <1>2, <1>3, <1>4, <1>5, <1>6, <1>7, <1>8, <1>9, <1>10, <1>11 DEF Next, Step

LEMMA TypeHolds == Spec => []TypeInv
  BY TypeInit, TypeNext, PTL DEF Spec

(* Every variable keeps its type.                                           *)
THEOREM Typing == Spec => []TypeOK
<1>1. TypeInv => TypeOK
  BY DEF TypeInv
<1> QED BY <1>1, TypeHolds, PTL

(* A command is on the wire once at most: the second try of                 *)
(* runWithSerialReconnect follows a port that was closed, before anything   *)
(* was sent.                                                                *)
THEOREM OnceOnTheWire == Spec => []SentOnce
<1>1. TypeInv => SentOnce
  BY DEF TypeInv, SentWaits, SentOnce
<1> QED BY <1>1, TypeHolds, PTL

-----------------------------------------------------------------------------
(* No port is left open.  While no two commands have been connecting at the *)
(* same time, one at most is; what it has found closed stays closed until   *)
(* it opens it, and the client it opens is still the service's.  A test     *)
(* given up is noted, so that before one no opening is on its way.          *)
OneConnects ==
  \A o, q \in Command : at[o] \in Connecting /\ at[q] \in Connecting => o = q
FoundClosed ==
  \A o \in Command : at[o] \in {"close", "test", "testClose"} => held # client
OpensItsOwn ==
  \A o \in Command : at[o] = "open" => client \in Client /\ mine[o] = client
HeldByUser ==
  \/ held = "free"
  \/ held = client /\ IsConnected
  \/ held \in Command /\ at[held] = "testClose"
PortInv == OneConnects /\ FoundClosed /\ OpensItsOwn /\ HeldByUser
PortKept == overlapped \/ (PortInv /\ late = 0)

LEMMA PortInit == Init => PortInv
<1> SUFFICES ASSUME Init PROVE PortInv
  OBVIOUS
<1>1. \A o \in Command : at[o] \in {"test", "idle"} /\ (at[o] = "test" => o = Queue)
  BY DEF Init
<1>2. held = "free" /\ client = NoClient
  BY DEF Init
<1> QED
  BY <1>1, <1>2, LineAssumption
  DEF PortInv, OneConnects, FoundClosed, OpensItsOwn, HeldByUser, Connecting

(* Two connecting commands or a test given up once, and it is noted for     *)
(* good.                                                                    *)
LEMMA Noted ==
  ASSUME TypeInv, [Next]_vars, ~overlapped'
  PROVE  ~overlapped
<1>1. CASE UNCHANGED overlapped
  BY <1>1
<1>2. ASSUME NEW o \in Command, NEW point, Connect(o, point) PROVE ~overlapped
  BY <1>2 DEF Connect, NotesOverlap
<1>3. ASSUME NEW o \in Command, NEW holder, Operate(o, holder) PROVE ~overlapped
  BY <1>1, <1>2, <1>3 DEF Operate, End
<1>5. ASSUME NEW o \in Command, Begin(o) \/ Opened(o) PROVE ~overlapped
  BY <1>1, <1>2, <1>3, <1>5 DEF Begin, Opened, End
<1>6. ASSUME NEW o \in Command, Timeout(o) \/ Answer(o) \/ OpenFailed(o) PROVE ~overlapped
  BY <1>1, <1>6 DEF Timeout, Answer, OpenFailed, End
<1>7. ASSUME NEW o \in Command, Disconnect(o) \/ TestOpened(o) PROVE ~overlapped
  BY <1>2, <1>7 DEF Disconnect, TestOpened
<1>8. ASSUME NEW o \in Command, TestClosed(o) \/ TestFailed(o) PROVE ~overlapped
  BY <1>8 DEF TestClosed, TestFailed, NotesOverlap
<1>4. ASSUME NEW o \in Command, TestTimeout(o) PROVE FALSE
  BY <1>4 DEF TestTimeout
<1>9. CASE LateOpening \/ Plug \/ UNCHANGED vars
  BY <1>1, <1>9 DEF LateOpening, Plug, vars
<1> QED BY <1>4, <1>5, <1>6, <1>7, <1>8, <1>9 DEF Next, Step

(* A command goes on connecting, and no other is.                           *)
LEMMA ConnectMoves ==
  ASSUME TypeInv, NEW o \in Command, NEW point, Connect(o, point), ~overlapped'
  PROVE  /\ at'[o] = point
         /\ \A q \in Command \ {o} : at'[q] = at[q] /\ at[q] \notin Connecting
  BY DEF Connect, NotesOverlap, Goto, TypeInv, TypeOK

(* A command that leaves nothing behind but, it may be, its own place.      *)
LEMMA EndKeeps ==
  ASSUME TypeInv, PortInv, NEW o \in Command, End(o), held' = held, client' = client,
         flag' = flag, at[o] # "testClose"
  PROVE  PortInv'
<1>1. /\ at'[o] = "idle"
      /\ \A q \in Command \ {o} : at'[q] = at[q] /\ mine'[q] = mine[q]
  BY DEF End, Goto, TypeInv, TypeOK
<1>2. OneConnects' /\ FoundClosed' /\ OpensItsOwn'
  BY <1>1 DEF PortInv, OneConnects, FoundClosed, OpensItsOwn, Connecting
<1>3. HeldByUser'
  BY <1>1 DEF PortInv, HeldByUser, IsConnected
<1> QED BY <1>2, <1>3 DEF PortInv

(* A command without a connection of its own under way is tried.            *)
LEMMA OperateKeeps ==
  ASSUME TypeInv, PortInv, NEW o \in Command, at[o] = "idle", Operate(o, held),
         held' = held, client' = client, flag' = flag, ~overlapped'
  PROVE  PortInv'
<1>1. CASE End(o)
  BY <1>1, EndKeeps
<1>2. CASE /\ held # client
           /\ Connect(o, "close")
           /\ mine' = [mine EXCEPT ![o] = NoClient]
  <2>1. /\ at'[o] = "close"
        /\ \A q \in Command \ {o} : /\ at'[q] = at[q] /\ mine'[q] = mine[q]
                                    /\ at[q] \notin Connecting
    BY <1>2, ConnectMoves DEF TypeInv, TypeOK
  <2>2. OneConnects' /\ FoundClosed' /\ OpensItsOwn'
    BY <1>2, <2>1 DEF OneConnects, FoundClosed, OpensItsOwn, Connecting
  <2>3. HeldByUser'
    BY <2>1 DEF PortInv, HeldByUser, IsConnected
  <2> QED BY <2>2, <2>3 DEF PortInv
<1>3. CASE Goto(o, "wait") /\ mine' = [mine EXCEPT ![o] = client]
  <2>1. /\ at'[o] = "wait"
        /\ \A q \in Command \ {o} : at'[q] = at[q] /\ mine'[q] = mine[q]
    BY <1>3 DEF Goto, TypeInv, TypeOK
  <2>2. OneConnects' /\ FoundClosed' /\ OpensItsOwn'
    BY <2>1 DEF PortInv, OneConnects, FoundClosed, OpensItsOwn, Connecting
  <2>3. HeldByUser'
    BY <2>1 DEF PortInv, HeldByUser, IsConnected
  <2> QED BY <2>2, <2>3 DEF PortInv
<1> QED BY <1>1, <1>2, <1>3 DEF Operate

(* Its own port is opened after the test, and the file is closed then.      *)
LEMMA StartKeeps ==
  ASSUME TypeInv, NEW o \in Command, StartOpen(o, "free"), NotesOverlap(o), ~overlapped'
  PROVE  PortInv'
<1>1. PICK c \in Client :
        /\ client' = c
        /\ held' = IF "free" = c THEN "stray" ELSE "free"
        /\ mine' = [q \in Command |-> IF q = o THEN c
                                      ELSE IF at[q] = "open" /\ mine[q] = c
                                      THEN NoClient ELSE mine[q]]
        /\ Connect(o, "open")
  BY DEF StartOpen, Connect, Unused, TypeInv, TypeOK
<1>2. client' = c /\ held' = "free" /\ mine'[o] = c
  BY <1>1, LineAssumption
<1>3. at'[o] = "open" /\ \A q \in Command \ {o} : at'[q] \notin Connecting
  BY <1>1, ConnectMoves
<1>4. OneConnects' /\ FoundClosed' /\ OpensItsOwn'
  BY <1>2, <1>3 DEF OneConnects, FoundClosed, OpensItsOwn, Connecting
<1> QED BY <1>2, <1>4 DEF PortInv, HeldByUser

LEMMA PortNext == TypeInv /\ PortKept /\ [Next]_vars => PortKept'
<1> SUFFICES ASSUME TypeInv, PortKept, [Next]_vars, ~overlapped' PROVE PortInv' /\ late' = 0
  BY DEF PortKept
<1>0. PortInv /\ late = 0
  BY Noted DEF PortKept
(* An opening of a test that was given up has been noted.                   *)
<1>11. ASSUME LateOpening PROVE FALSE
  BY <1>0, <1>11 DEF LateOpening
<1>12. ASSUME NEW o \in Command, TestTimeout(o) PROVE FALSE
  BY <1>12 DEF TestTimeout
<1>13. UNCHANGED late
  <2>1. ASSUME NEW o \in Command, Begin(o) \/ Timeout(o) \/ Answer(o) \/ Disconnect(o)
               \/ TestOpened(o) \/ TestClosed(o) \/ TestFailed(o) \/ Opened(o) \/ OpenFailed(o)
        PROVE  UNCHANGED late
    BY <2>1
    DEF Begin, Timeout, Answer, Disconnect, TestOpened, TestClosed, TestFailed, Opened,
        OpenFailed, environment
  <2>2. ASSUME Plug \/ UNCHANGED vars PROVE UNCHANGED late
    BY <2>2 DEF Plug, vars, environment
  <2> QED BY <1>11, <1>12, <2>1, <2>2 DEF Next, Step
<1>i. OneConnects /\ FoundClosed /\ OpensItsOwn /\ HeldByUser
  BY <1>0 DEF PortInv
(* A connecting command finds the file closed, or has its test port open.   *)
<1>h. ASSUME NEW o \in Command, at[o] \in {"close", "test", "testClose"}
      PROVE  held = "free" \/ (held = o /\ at[o] = "testClose")
  BY <1>h, <1>i DEF OneConnects, FoundClosed, HeldByUser, Connecting
<1>1. ASSUME NEW o \in Command, Begin(o) PROVE PortInv'
  <2>1. held' = held /\ client' = client /\ flag' = flag /\ at[o] = "idle"
    BY <1>1 DEF Begin, service
  <2>m. CASE UNCHANGED <<commands, overlapped>>
    BY <1>i, <2>1, <2>m
    DEF commands, PortInv, OneConnects, FoundClosed, OpensItsOwn, HeldByUser, IsConnected
  <2>2. CASE Operate(o, held)
    BY <1>0, <2>1, <2>2, OperateKeeps
  <2>3. CASE ~IsConnected /\ Connect(o, "test") /\ UNCHANGED mine
    <3>1. /\ at'[o] = "test"
          /\ \A q \in Command \ {o} : at'[q] = at[q] /\ at[q] \notin Connecting
      BY <2>3, ConnectMoves
    <3>2. held # client
      <4>1. held # client \/ held = "free" \/ (held \in Command /\ at[held] = "testClose")
        BY <1>i, <2>3 DEF HeldByUser
      <4>2. client \in Client \cup {NoClient}
        BY DEF TypeInv, TypeOK
      <4> QED BY <4>1, <4>2, LineAssumption
    <3>3. OneConnects' /\ FoundClosed' /\ OpensItsOwn'
      BY <2>1, <3>1, <3>2 DEF OneConnects, FoundClosed, OpensItsOwn, Connecting
    <3>4. HeldByUser'
      BY <1>i, <2>1, <3>1 DEF HeldByUser, IsConnected
    <3> QED BY <3>3, <3>4 DEF PortInv
  <2> QED BY <1>1, <2>m, <2>2, <2>3 DEF Begin
<1>2. ASSUME NEW o \in Command, Timeout(o) \/ Answer(o) \/ OpenFailed(o) PROVE PortInv'
  <2>1. End(o) /\ held' = held /\ client' = client /\ flag' = flag /\ at[o] # "testClose"
    BY <1>2 DEF Timeout, Answer, OpenFailed, service
  <2> QED BY <1>0, <2>1, EndKeeps
<1>3. ASSUME NEW o \in Command, Disconnect(o) PROVE PortInv'
  <2>1. /\ at'[o] = "test"
        /\ \A q \in Command \ {o} : at'[q] = at[q] /\ at[q] \notin Connecting
    BY <1>3, ConnectMoves DEF Disconnect
  <2>2. held' = "free" /\ client' = NoClient
    BY <1>3, <1>h DEF Disconnect
  <2>3. OneConnects' /\ FoundClosed' /\ OpensItsOwn'
    BY <2>1, <2>2, LineAssumption DEF OneConnects, FoundClosed, OpensItsOwn, Connecting
  <2> QED BY <2>2, <2>3 DEF PortInv, HeldByUser
<1>4. ASSUME NEW o \in Command, TestOpened(o) PROVE PortInv'
  <2>1. /\ at'[o] = "testClose"
        /\ \A q \in Command \ {o} : at'[q] = at[q] /\ at[q] \notin Connecting
    BY <1>4, ConnectMoves DEF TestOpened
  <2>2. held' = o /\ client' = client /\ client \in Client \cup {NoClient}
    BY <1>4 DEF TestOpened, TypeInv, TypeOK
  <2>3. o # client
    BY <2>2, LineAssumption
  <2>4. OneConnects' /\ FoundClosed' /\ OpensItsOwn'
    BY <2>1, <2>2, <2>3 DEF OneConnects, FoundClosed, OpensItsOwn, Connecting
  <2> QED BY <2>1, <2>2, <2>4 DEF PortInv, HeldByUser
<1>5. ASSUME NEW o \in Command, TestClosed(o) PROVE PortInv'
  <2>1. (IF held = o THEN "free" ELSE held) = "free"
    BY <1>5, <1>h DEF TestClosed
  <2>2. StartOpen(o, "free") /\ NotesOverlap(o)
    BY <1>5, <2>1 DEF TestClosed
  <2> QED BY <2>2, StartKeeps
<1>6. ASSUME NEW o \in Command, TestFailed(o) PROVE PortInv'
  <2>1. held = "free"
    BY <1>6, <1>h DEF TestFailed
  <2>2. StartOpen(o, "free") /\ NotesOverlap(o)
    BY <1>6, <2>1 DEF TestFailed
  <2> QED BY <2>2, StartKeeps
<1>7. ASSUME NEW o \in Command, Opened(o) PROVE PortInv'
  <2>0. at[o] = "open" /\ client \in Client /\ mine[o] = client /\ client # NoClient
    BY <1>7, <1>i, LineAssumption DEF Opened, OpensItsOwn
  <2>1. held' = client /\ client' = client /\ flag' = TRUE /\ (Operate(o, client) \/ End(o))
    BY <1>7, <2>0 DEF Opened
  <2>2. \/ Goto(o, "wait") /\ mine' = [mine EXCEPT ![o] = client]
        \/ Goto(o, "idle") /\ mine' = [mine EXCEPT ![o] = NoClient]
    BY <2>0, <2>1 DEF Operate, End
  <2>3. /\ at'[o] \in {"wait", "idle"}
        /\ \A q \in Command \ {o} : at'[q] = at[q] /\ mine'[q] = mine[q]
    BY <2>2 DEF Goto, TypeInv, TypeOK
  <2>4. \A q \in Command : at'[q] \notin Connecting
    BY <1>i, <2>0, <2>3 DEF OneConnects, Connecting
  <2>5. OneConnects' /\ FoundClosed' /\ OpensItsOwn'
    BY <2>4 DEF OneConnects, FoundClosed, OpensItsOwn, Connecting
  <2>6. HeldByUser'
    BY <2>0, <2>1 DEF HeldByUser, IsConnected
  <2> QED BY <2>5, <2>6 DEF PortInv
<1>8. ASSUME Plug PROVE PortInv'
  <2>1. /\ held' = "free" /\ UNCHANGED <<client, at, mine>>
        /\ client \in Client \cup {NoClient}
    BY <1>8 DEF Plug, commands, TypeInv, TypeOK
  <2>2. held' # client'
    BY <2>1, LineAssumption
  <2> QED
    BY <1>i, <2>1, <2>2
    DEF PortInv, OneConnects, FoundClosed, OpensItsOwn, HeldByUser
<1>9. ASSUME UNCHANGED vars PROVE PortInv'
  BY <1>i, <1>9
  DEF vars, service, commands, PortInv, OneConnects, FoundClosed, OpensItsOwn,
      HeldByUser, IsConnected
<1> QED
  BY <1>0, <1>1, <1>2, <1>3, <1>4, <1>5, <1>6, <1>7, <1>8, <1>9, <1>11, <1>12, <1>13
  DEF Next, Step

(* As long as no two commands connect at the same time, and no test of the  *)
(* port is given up while its opening goes on, the device file is open in   *)
(* the service's client, in a test under way, or not at all                 *)
(* (RealModbusService.connect, testPortAccess and disconnect).              *)
THEOREM NoPortLeftOpen == Spec => []NoneLeftOpen
<1>1. Init => PortKept
  BY PortInit DEF PortKept, Init
<1>2. PortKept => NoneLeftOpen
  BY DEF PortKept, PortInv, HeldByUser, NoneLeftOpen
<1> QED BY <1>1, <1>2, PortNext, TypeHolds, PTL DEF Spec

-----------------------------------------------------------------------------
(* A port object that nothing refers to keeps the device file until the     *)
(* device is unplugged, whatever reconnects: nothing else opens it, and no  *)
(* command gets on the wire (RealModbusService.connect drops the port       *)
(* object of the client it is given).                                       *)
StrayStays ==
  [][held = "stray" /\ ~Plug =>
       held' = "stray" /\ \A o \in Command : sent'[o] <= sent[o]]_vars

(* What the helpers send while the device file is open in such a port.      *)
NoneSent == \A o \in Command : sent'[o] <= sent[o]

LEMMA EndSends ==
  ASSUME TypeOK, NEW o \in Command, End(o)
  PROVE  NoneSent
BY DEF TypeOK, End, NoneSent

LEMMA OperateStray ==
  ASSUME TypeOK, NEW o \in Command, Operate(o, "stray")
  PROVE  NoneSent
<1>1. client \in Client \cup {NoClient} /\ "stray" # client
  BY LineAssumption DEF TypeOK
<1>2. \A q \in Command : sent[q] \in 0..2
  BY DEF TypeOK
<1>3. End(o) \/ UNCHANGED sent
  BY <1>1 DEF Operate
<1> QED BY <1>2, <1>3, EndSends DEF NoneSent

LEMMA StrayStep ==
  ASSUME TypeOK, held = "stray", [Next]_vars, ~Plug
  PROVE  held' = "stray" /\ NoneSent
<1>0. \A o \in Command : sent[o] \in 0..2
  BY DEF TypeOK
<1>1. ASSUME UNCHANGED <<held, sent>> PROVE held' = "stray" /\ NoneSent
  BY <1>0, <1>1 DEF NoneSent
<1>2. ASSUME NEW o \in Command, Begin(o) PROVE held' = "stray" /\ NoneSent
  <2>1. UNCHANGED held
    BY <1>2 DEF Begin, service
  <2>2. Operate(o, "stray") \/ UNCHANGED sent
    BY <1>2 DEF Begin, commands
  <2> QED BY <1>1, <2>1, <2>2, OperateStray
<1>3. ASSUME NEW o \in Command, Timeout(o) \/ Answer(o) \/ OpenFailed(o)
      PROVE  held' = "stray" /\ NoneSent
  <2>1. UNCHANGED held /\ End(o)
    BY <1>3 DEF Timeout, Answer, OpenFailed, service
  <2> QED BY <2>1, EndSends
<1>4. ASSUME NEW o \in Command, Disconnect(o) PROVE held' = "stray" /\ NoneSent
  BY <1>1, <1>4 DEF Disconnect
<1>5. ASSUME NEW o \in Command, TestOpened(o) \/ Opened(o) PROVE FALSE
  BY <1>5 DEF TestOpened, Opened
<1>6. ASSUME NEW o \in Command, StartOpen(o, "stray")
      PROVE  held' = "stray" /\ NoneSent
  BY <1>1, <1>6 DEF StartOpen
<1>7. ASSUME NEW o \in Command, TestClosed(o) \/ TestFailed(o) \/ TestTimeout(o)
      PROVE  held' = "stray" /\ NoneSent
  <2>1. "stray" # o
    BY LineAssumption
  <2> QED BY <1>6, <1>7, <2>1 DEF TestClosed, TestFailed, TestTimeout
<1>8. CASE LateOpening \/ UNCHANGED vars
  BY <1>1, <1>8 DEF LateOpening, vars, service, commands
<1> QED BY <1>2, <1>3, <1>4, <1>5, <1>7, <1>8 DEF Next, Step

THEOREM StrayPortStays == Spec => StrayStays
<1>1. TypeOK /\ [Next]_vars => [held = "stray" /\ ~Plug =>
         held' = "stray" /\ \A o \in Command : sent'[o] <= sent[o]]_vars
  BY StrayStep DEF NoneSent
<1> QED BY <1>1, Typing, PTL DEF Spec, StrayStays

-----------------------------------------------------------------------------
(* The clock.  A register is one of the parts, so that what is in it is a   *)
(* value, and setting it leaves a time a time.                              *)
LEMMA RegisterIsPart ==
  ASSUME ClockTypeOK, NEW j \in Job
  PROVE  Register(part[j]) \in Part /\ Register(part[j]) = part[j]
BY DEF ClockTypeOK, Register

LEMMA FreshType ==
  /\ Fresh.up \in Stage /\ Fresh.interval \in BOOLEAN
  /\ Fresh.doing \in [Job -> {"idle", "client", "queued", "storing", "lost"}]
  /\ Fresh.part \in [Job -> Part] /\ Fresh.local \in [Job -> Time]
  /\ Fresh.disturbed \subseteq Job
<1>1. Blank \in Time /\ 1 \in Part
  BY DdcTimeAssumption DEF Blank, Time, Part
<1> QED BY <1>1 DEF Fresh, Stage

LEMMA ClockInitType == ClockInit => ClockTypeOK
  BY FreshType DEF ClockInit, ClockTypeOK

(* Ends of jobs.                                                            *)
LEMMA ForgetType ==
  ASSUME ClockTypeOK, NEW jobs, Forget(jobs)
  PROVE  part' \in [Job -> Part] /\ local' \in [Job -> Time]
BY FreshType DEF ClockTypeOK, Forget

LEMMA EndJobType ==
  ASSUME ClockTypeOK, NEW j \in Job, NEW ok \in BOOLEAN, EndJob(j, ok),
         ddc' \in Time, disturbed' \subseteq Job
  PROVE  ClockTypeOK'
<1>1. part' \in [Job -> Part] /\ local' \in [Job -> Time]
  BY ForgetType DEF EndJob
<1>2. /\ doing' \in [Job -> {"idle", "client", "queued", "storing", "lost"}]
      /\ up' \in Stage /\ interval' \in BOOLEAN
  BY DEF EndJob, ClockTypeOK, startVars, Stage
<1> QED BY <1>1, <1>2 DEF ClockTypeOK

(* The next command of a job, or its end.                                   *)
LEMMA GoOnType ==
  ASSUME ClockTypeOK, NEW j \in Job, GoOn(j), UNCHANGED startVars,
         ddc' \in Time, local' \in [Job -> Time], disturbed' \subseteq Job
  PROVE  ClockTypeOK'
<1>1. part' \in [Job -> Part]
  BY DdcTimeAssumption DEF GoOn, ClockTypeOK, Part
<1>2. doing' \in [Job -> {"idle", "client", "queued", "storing", "lost"}]
  BY DEF GoOn, ClockTypeOK
<1> QED BY <1>1, <1>2 DEF ClockTypeOK, startVars

LEMMA SetType ==
  ASSUME ClockTypeOK, NEW j \in Job, Set(j)
  PROVE  ddc' \in Time /\ Strikes(j) \subseteq Job
<1>1. Strikes(j) \subseteq Job
  BY DEF Strikes, Past
<1>2. ddc' \in Time
  BY RegisterIsPart DEF Set, ClockTypeOK, Time
<1> QED BY <1>1, <1>2

LEMMA ClockTypeStep == ClockTypeOK /\ [ClockNext]_clockVars => ClockTypeOK'
<1> SUFFICES ASSUME ClockTypeOK, [ClockNext]_clockVars PROVE ClockTypeOK'
  OBVIOUS
<1> USE DEF JobStep, StartStep
<1>1. ASSUME NEW j \in Job, Ask(j) PROVE ClockTypeOK'
  BY <1>1 DEF Ask, BeginJob, ClockTypeOK, startVars
<1>2. ASSUME NEW j \in Job, ClientFound(j) PROVE ClockTypeOK'
  <2>1. Blank \in Time
    BY DdcTimeAssumption DEF Blank, Time
  <2>2. local' \in [Job -> Time]
    BY <1>2, <2>1 DEF ClientFound, ClockTypeOK
  <2> QED BY <1>2, <2>2 DEF ClientFound, ClockTypeOK, startVars
<1>3. ASSUME NEW j \in Job, JobWithoutClient(j) PROVE ClockTypeOK'
  BY <1>3, EndJobType DEF JobWithoutClient, ClockTypeOK
<1>4. ASSUME NEW j \in Job, Written(j) PROVE ClockTypeOK'
  <2>1. ddc' \in Time /\ disturbed' \subseteq Job /\ local' \in [Job -> Time]
    BY <1>4, SetType DEF Written, ClockTypeOK
  <2> QED BY <1>4, <2>1, GoOnType DEF Written
<1>5. ASSUME NEW j \in Job, ReadOut(j) PROVE ClockTypeOK'
  <2>1. local' \in [Job -> Time]
    BY <1>5, RegisterIsPart DEF ReadOut, ClockTypeOK, Time
  <2> QED BY <1>5, <2>1, GoOnType DEF ReadOut, ClockTypeOK
<1>6. ASSUME NEW j \in Job, CommandFails(j) PROVE ClockTypeOK'
  <2>1. ddc' \in Time /\ disturbed' \subseteq Job
    BY <1>6, SetType DEF CommandFails, ClockTypeOK
  <2> QED BY <1>6, <2>1, EndJobType DEF CommandFails
<1>7. ASSUME NEW j \in Job, Store(j) PROVE ClockTypeOK'
  BY <1>7, EndJobType DEF Store, ClockTypeOK
<1>8. CASE HourFires
  BY <1>8 DEF HourFires, BeginJob, ClockTypeOK, startVars
<1>9. CASE Clear
  <2>1. PICK dropped \in SUBSET Job :
          /\ doing' = [j \in Job |-> IF j \notin dropped THEN doing[j]
                                    ELSE IF j = timer /\ up = "sync" THEN "lost" ELSE "idle"]
          /\ Forget(dropped)
          /\ disturbed' = disturbed \ dropped
    BY <1>9 DEF Clear
  <2>2. part' \in [Job -> Part] /\ local' \in [Job -> Time]
    BY <2>1, ForgetType
  <2>3. UNCHANGED <<startVars, ddc>>
    BY <1>9 DEF Clear
  <2> QED BY <2>1, <2>2, <2>3 DEF ClockTypeOK, startVars
<1>10. CASE StartPolling \/ LineFails \/ StartRest
  BY <1>10 DEF StartPolling, LineFails, StartRest, ClockTypeOK, Stage
<1>11. CASE ConnectLine
  BY <1>11 DEF ConnectLine, BeginJob, ClockTypeOK, Stage, Job, Sync
<1>12. CASE Tick
  <2>1. ddc' \in Time
    <3>1. ddc' = [p \in Part |-> IF ~Changes(p) THEN ddc[p]
                                ELSE IF ddc[p] = Base - 1 THEN 0 ELSE ddc[p] + 1]
      BY <1>12 DEF Tick
    <3>2. \A p \in Part : ddc'[p] = ddc[p] \/ ddc'[p] = 0
                           \/ (ddc[p] # Base - 1 /\ ddc'[p] = ddc[p] + 1)
      BY <3>1
    <3>3. ASSUME NEW p \in Part PROVE ddc'[p] \in 0..(Base - 1)
      <4>1. ddc[p] \in 0..(Base - 1) /\ Base \in Nat /\ Base > 1
        BY DdcTimeAssumption DEF ClockTypeOK, Time
      <4> QED BY <3>2, <4>1
    <3> QED BY <3>1, <3>3 DEF Time
  <2>2. disturbed' \subseteq Job
    BY <1>12 DEF Tick, ClockTypeOK, Past
  <2> QED BY <1>12, <2>1, <2>2 DEF Tick, ClockTypeOK, startVars
<1>13. CASE Restart
  BY <1>13, FreshType DEF Restart, ClockTypeOK
<1>14. CASE UNCHANGED clockVars
  BY <1>14 DEF clockVars, startVars, ClockTypeOK
<1> QED
  BY <1>1, <1>2, <1>3, <1>4, <1>5, <1>6, <1>7, <1>8, <1>9, <1>10, <1>11, <1>12,
     <1>13, <1>14 DEF ClockNext

(* Every variable of the clock keeps its type: no job ever has a command    *)
(* beyond SECOND (the loops over ddcTimeCommands and actionMap).            *)
THEOREM ClockTyping == ClockSpec => []ClockTypeOK
  BY ClockInitType, ClockTypeStep, PTL DEF ClockSpec

-----------------------------------------------------------------------------
(* What a waiting job has done agrees with the clock until it is disturbed; *)
(* a job that has no command yet will begin with the first; and the first   *)
(* run of the timer is that of the start-up.                                *)
DoneAgrees(j) ==
  doing[j] = "queued" /\ j \notin disturbed =>
    \A p \in Part : p < part[j] => local[j][p] = ddc[p]

BeginsAtFirst(j) == doing[j] \in {"idle", "client"} => part[j] = 1

TimerWaits == up \in {"polling", "connect"} => doing[timer] = "idle" /\ ~interval

JobsInv == \A j \in Job : DoneAgrees(j) /\ BeginsAtFirst(j)

ClockInv == ClockTypeOK /\ JobsInv /\ TimerWaits

LEMMA ClockInvInit == ClockInit => JobsInv /\ TimerWaits
<1> SUFFICES ASSUME ClockInit PROVE JobsInv /\ TimerWaits
  OBVIOUS
<1>1. \A j \in Job : doing[j] = "idle" /\ part[j] = 1
  BY DEF ClockInit, Fresh
<1>2. TimerWaits
  BY <1>1 DEF ClockInit, Fresh, TimerWaits, Job, Sync
<1> QED BY <1>1, <1>2 DEF JobsInv, DoneAgrees, BeginsAtFirst

(* A job that is left alone by a step that leaves the clock alone.          *)
LEMMA LeftAlone ==
  ASSUME JobsInv, NEW k \in Job,
         doing'[k] = doing[k], part'[k] = part[k], local'[k] = local[k],
         ddc' = ddc, k \in disturbed => k \in disturbed'
  PROVE  DoneAgrees(k)' /\ BeginsAtFirst(k)'
BY DEF JobsInv, DoneAgrees, BeginsAtFirst

(* A job that is left alone when another one sets a register: unless it is  *)
(* past that register, and disturbed, what it has done is not touched.      *)
LEMMA LeftAloneBySet ==
  ASSUME ClockTypeOK, JobsInv, NEW j \in Job, NEW k \in Job, j # k, Set(j),
         doing'[k] = doing[k], part'[k] = part[k], local'[k] = local[k],
         k \in disturbed \cup Strikes(j) => k \in disturbed'
  PROVE  DoneAgrees(k)' /\ BeginsAtFirst(k)'
<1>1. BeginsAtFirst(k)'
  BY DEF JobsInv, BeginsAtFirst
<1>2. SUFFICES ASSUME doing[k] = "queued", k \notin disturbed, k \notin Strikes(j),
                      NEW p \in Part, p < part[k]
               PROVE  local[k][p] = ddc'[p]
  BY <1>1 DEF DoneAgrees
<1>3. local[k][p] = ddc[p]
  BY <1>2 DEF JobsInv, DoneAgrees
<1>4. CASE p = part[j]
  <2>1. local[j][p] = ddc[p]
    BY <1>2, <1>4, RegisterIsPart DEF Strikes, Past
  <2>2. ddc'[p] = local[j][p]
    BY <1>4, RegisterIsPart DEF Set, ClockTypeOK, Time
  <2> QED BY <1>3, <2>1, <2>2
<1>5. CASE p # part[j]
  <2>1. ddc'[p] = ddc[p]
    BY <1>5, RegisterIsPart DEF Set, ClockTypeOK, Time
  <2> QED BY <1>3, <2>1
<1> QED BY <1>4, <1>5

(* A job that ends.                                                         *)
LEMMA EndedAgrees ==
  ASSUME ClockTypeOK, NEW j \in Job, NEW ok, EndJob(j, ok)
  PROVE  /\ DoneAgrees(j)' /\ BeginsAtFirst(j)'
         /\ \A k \in Job \ {j} : /\ doing'[k] = doing[k] /\ part'[k] = part[k]
                                 /\ local'[k] = local[k]
<1>1. doing'[j] = "idle" /\ part'[j] = 1
  BY DEF EndJob, Forget, Fresh, ClockTypeOK
<1>2. \A k \in Job \ {j} : /\ doing'[k] = doing[k] /\ part'[k] = part[k]
                          /\ local'[k] = local[k]
  BY DEF EndJob, Forget, ClockTypeOK
<1> QED BY <1>1, <1>2 DEF DoneAgrees, BeginsAtFirst

(* After its command a job agrees with the clock in one part more: all, if  *)
(* it was the last.                                                         *)
LEMMA CommandAgrees ==
  ASSUME ClockTypeOK, JobsInv, NEW j \in Job, doing[j] = "queued",
         Written(j) \/ ReadOut(j), j \notin disturbed
  PROVE  \A p \in Part : p =< part[j] => local'[j][p] = ddc'[p]
<1> SUFFICES ASSUME NEW p \in Part, p =< part[j] PROVE local'[j][p] = ddc'[p]
  OBVIOUS
<1>1. p < part[j] => local[j][p] = ddc[p]
  BY DEF JobsInv, DoneAgrees
<1>2. part[j] \in Part /\ Register(part[j]) = part[j]
  BY RegisterIsPart DEF ClockTypeOK
<1>3. CASE Written(j)
  <2>1. local' = local /\ ddc' = [ddc EXCEPT ![part[j]] = local[j][part[j]]]
    BY <1>2, <1>3 DEF Written, Set
  <2> QED BY <1>1, <1>2, <2>1 DEF ClockTypeOK, Time, Part
<1>4. CASE ReadOut(j)
  <2>1. ddc' = ddc /\ local' = [local EXCEPT ![j][part[j]] = ddc[part[j]]]
    BY <1>2, <1>4 DEF ReadOut
  <2>2. local[j] \in [Part -> 0..(Base - 1)] /\ local \in [Job -> Time]
    BY DEF ClockTypeOK, Time
  <2>3. local'[j] = [local[j] EXCEPT ![part[j]] = ddc[part[j]]]
    BY <2>1, <2>2
  <2>4. CASE p = part[j]
    BY <1>2, <2>1, <2>2, <2>3, <2>4
  <2>5. CASE p # part[j]
    <3>1. p < part[j]
      BY <1>2, <2>5 DEF Part
    <3> QED BY <1>1, <2>1, <2>2, <2>3, <2>5, <3>1
  <2> QED BY <2>4, <2>5
<1> QED BY <1>3, <1>4

LEMMA WentOnAgrees ==
  ASSUME ClockTypeOK, JobsInv, NEW j \in Job, Written(j) \/ ReadOut(j)
  PROVE  DoneAgrees(j)' /\ BeginsAtFirst(j)'
<1>1. doing[j] = "queued" /\ GoOn(j)
  BY DEF Written, ReadOut
<1>2. doing'[j] \in {"queued", "storing"}
  BY <1>1 DEF GoOn, ClockTypeOK
<1>3. j \in disturbed => j \in disturbed'
  BY DEF Written, ReadOut
<1>4. ASSUME doing'[j] = "queued", j \notin disturbed', NEW p \in Part, p < part'[j]
      PROVE  local'[j][p] = ddc'[p]
  <2>1. p =< part[j]
    BY <1>1, <1>4 DEF GoOn, ClockTypeOK, Part
  <2> QED BY <1>1, <1>3, <1>4, <2>1, CommandAgrees
<1> QED BY <1>2, <1>4 DEF DoneAgrees, BeginsAtFirst

(* A tick changes the parts behind a job only by a carry, which disturbs it. *)
LEMMA TickAgrees ==
  ASSUME ClockTypeOK, JobsInv, Tick, NEW j \in Job
  PROVE  DoneAgrees(j)' /\ BeginsAtFirst(j)'
<1>1. UNCHANGED <<doing, part, local>>
  BY DEF Tick
<1>2. BeginsAtFirst(j)'
  BY <1>1 DEF JobsInv, BeginsAtFirst
<1>3. SUFFICES ASSUME doing[j] = "queued", j \notin disturbed', NEW p \in Part, p < part[j]
               PROVE  local[j][p] = ddc'[p]
  BY <1>1, <1>2 DEF DoneAgrees
<1>4. disturbed' = disturbed \cup
        UNION {Past(q) : q \in {r \in Part : r < Parts /\ Changes(r)}}
  BY DEF Tick
<1>5. local[j][p] = ddc[p]
  BY <1>3, <1>4 DEF JobsInv, DoneAgrees
<1>6. p < Parts /\ j \in Past(p)
  BY <1>3, DdcTimeAssumption DEF Past, ClockTypeOK, Part
<1>7. ~Changes(p)
  BY <1>3, <1>4, <1>6
<1>8. ddc'[p] = ddc[p]
  BY <1>7 DEF Tick
<1> QED BY <1>5, <1>8

LEMMA JobsInvStep ==
  ASSUME ClockInv, [ClockNext]_clockVars
  PROVE  JobsInv'
<1> USE DEF ClockInv
<1> SUFFICES ASSUME NEW j \in Job PROVE DoneAgrees(j)' /\ BeginsAtFirst(j)'
  BY DEF JobsInv
<1>0. DoneAgrees(j) /\ BeginsAtFirst(j)
  BY DEF JobsInv
<1>a. ASSUME NEW k \in Job, BeginJob(k), doing[k] = "idle", ddc' = ddc
      PROVE  DoneAgrees(j)' /\ BeginsAtFirst(j)'
  <2>1. UNCHANGED <<part, local, disturbed>>
    BY <1>a DEF BeginJob
  <2>2. CASE j = k
    <3>1. doing'[j] = "client" /\ part'[j] = 1
      BY <1>0, <1>a, <2>1, <2>2 DEF BeginJob, BeginsAtFirst, ClockTypeOK
    <3> QED BY <3>1 DEF DoneAgrees, BeginsAtFirst
  <2>3. CASE j # k
    <3>1. doing'[j] = doing[j]
      BY <1>a, <2>3 DEF BeginJob, ClockTypeOK
    <3> QED BY <1>a, <2>1, <3>1, LeftAlone
  <2> QED BY <2>2, <2>3
<1>1. ASSUME NEW k \in Job, Ask(k) PROVE DoneAgrees(j)' /\ BeginsAtFirst(j)'
  BY <1>1, <1>a DEF Ask
<1>2. ASSUME NEW k \in Job, ClientFound(k) PROVE DoneAgrees(j)' /\ BeginsAtFirst(j)'
  <2>1. /\ doing[k] = "client" /\ UNCHANGED <<ddc, part, disturbed>>
        /\ doing' = [doing EXCEPT ![k] = "queued"]
        /\ \A i \in Job \ {k} : local'[i] = local[i]
    BY <1>2 DEF ClientFound, ClockTypeOK
  <2>2. CASE j = k
    <3>1. doing'[j] = "queued" /\ part'[j] = 1
      BY <1>0, <2>1, <2>2 DEF BeginsAtFirst, ClockTypeOK
    <3> QED BY <3>1 DEF DoneAgrees, BeginsAtFirst, Part
  <2>3. CASE j # k
    <3>1. doing'[j] = doing[j] /\ local'[j] = local[j]
      BY <2>1, <2>3 DEF ClockTypeOK
    <3> QED BY <2>1, <3>1, LeftAlone
  <2> QED BY <2>2, <2>3
<1>b. ASSUME NEW k \in Job, NEW ok, EndJob(k, ok), ddc' = ddc, disturbed \ {k} \subseteq disturbed'
      PROVE  DoneAgrees(j)' /\ BeginsAtFirst(j)'
  <2>1. CASE j = k
    BY <1>b, <2>1, EndedAgrees
  <2>2. CASE j # k
    <3>1. doing'[j] = doing[j] /\ part'[j] = part[j] /\ local'[j] = local[j]
      BY <1>b, <2>2, EndedAgrees
    <3> QED BY <1>b, <2>2, <3>1, LeftAlone
  <2> QED BY <2>1, <2>2
<1>3. ASSUME NEW k \in Job, JobWithoutClient(k) \/ Store(k)
      PROVE  DoneAgrees(j)' /\ BeginsAtFirst(j)'
  BY <1>3, <1>b DEF JobWithoutClient, Store
<1>4. ASSUME NEW k \in Job, Written(k) PROVE DoneAgrees(j)' /\ BeginsAtFirst(j)'
  <2>1. CASE j = k
    BY <1>4, <2>1, WentOnAgrees
  <2>2. CASE j # k
    <3>1. doing'[j] = doing[j] /\ part'[j] = part[j] /\ local'[j] = local[j]
      BY <1>4, <2>2 DEF Written, GoOn, ClockTypeOK
    <3>2. Set(k) /\ disturbed' = disturbed \cup Strikes(k)
      BY <1>4 DEF Written
    <3> QED BY <2>2, <3>1, <3>2, LeftAloneBySet
  <2> QED BY <2>1, <2>2
<1>5. ASSUME NEW k \in Job, ReadOut(k) PROVE DoneAgrees(j)' /\ BeginsAtFirst(j)'
  <2>1. CASE j = k
    BY <1>5, <2>1, WentOnAgrees
  <2>2. CASE j # k
    <3>1. doing'[j] = doing[j] /\ part'[j] = part[j] /\ local'[j] = local[j]
      BY <1>5, <2>2 DEF ReadOut, GoOn, ClockTypeOK
    <3>2. ddc' = ddc /\ disturbed' = disturbed
      BY <1>5 DEF ReadOut
    <3> QED BY <3>1, <3>2, LeftAlone
  <2> QED BY <2>1, <2>2
<1>6. ASSUME NEW k \in Job, CommandFails(k) PROVE DoneAgrees(j)' /\ BeginsAtFirst(j)'
  <2>1. EndJob(k, FALSE)
    BY <1>6 DEF CommandFails
  <2>2. CASE Set(k) /\ disturbed' = (disturbed \cup Strikes(k)) \ {k}
    <3>1. CASE j = k
      BY <2>1, <3>1, EndedAgrees
    <3>2. CASE j # k
      <4>1. doing'[j] = doing[j] /\ part'[j] = part[j] /\ local'[j] = local[j]
        BY <2>1, <3>2, EndedAgrees
      <4> QED BY <2>2, <3>2, <4>1, LeftAloneBySet
    <3> QED BY <3>1, <3>2
  <2>3. CASE ddc' = ddc /\ disturbed' = disturbed \ {k}
    BY <1>b, <2>1, <2>3
  <2> QED BY <1>6, <2>2, <2>3 DEF CommandFails
<1>7. CASE HourFires
  BY <1>7, <1>a DEF HourFires, Job, Sync
<1>8. CASE Clear
  <2>1. PICK dropped \in SUBSET Job :
          /\ doing' = [k \in Job |-> IF k \notin dropped THEN doing[k]
                                    ELSE IF k = timer /\ up = "sync" THEN "lost" ELSE "idle"]
          /\ Forget(dropped)
          /\ disturbed' = disturbed \ dropped
          /\ ddc' = ddc
    BY <1>8 DEF Clear
  <2>2. CASE j \in dropped
    <3>1. doing'[j] # "queued" /\ part'[j] = 1
      BY <2>1, <2>2 DEF Forget, Fresh
    <3> QED BY <3>1 DEF DoneAgrees, BeginsAtFirst
  <2>3. CASE j \notin dropped
    <3>1. doing'[j] = doing[j] /\ part'[j] = part[j] /\ local'[j] = local[j]
      BY <2>1, <2>3 DEF Forget
    <3> QED BY <2>1, <2>3, <3>1, LeftAlone
  <2> QED BY <2>2, <2>3
<1>9. CASE StartPolling \/ LineFails \/ StartRest
  BY <1>9, LeftAlone DEF StartPolling, LineFails, StartRest
<1>10. CASE ConnectLine
  BY <1>10, <1>a DEF ConnectLine, TimerWaits, Job, Sync
<1>11. CASE Tick
  BY <1>11, TickAgrees
<1>12. CASE Restart
  <2>1. doing'[j] = "idle" /\ part'[j] = 1
    BY <1>12 DEF Restart, Fresh
  <2> QED BY <2>1 DEF DoneAgrees, BeginsAtFirst
<1>13. CASE UNCHANGED clockVars
  BY <1>13, LeftAlone DEF clockVars
<1> QED
  BY <1>1, <1>2, <1>3, <1>4, <1>5, <1>6, <1>7, <1>8, <1>9, <1>10, <1>11, <1>12, <1>13
  DEF ClockNext, JobStep, StartStep

LEMMA TimerWaitsStep ==
  ASSUME ClockInv, [ClockNext]_clockVars
  PROVE  TimerWaits'
<1> USE DEF ClockInv
<1>0. timer \in Job
  BY DEF Job, Sync
<1>1. ASSUME NEW j \in Job, Ask(j) PROVE TimerWaits'
  BY <1>0, <1>1 DEF Ask, BeginJob, TimerWaits, startVars, ClockTypeOK
<1>2. ASSUME NEW j \in Job, ClientFound(j) PROVE TimerWaits'
  BY <1>0, <1>2 DEF ClientFound, TimerWaits, startVars, ClockTypeOK
<1>3. ASSUME NEW j \in Job, NEW ok, EndJob(j, ok), doing[j] # "idle" PROVE TimerWaits'
  BY <1>0, <1>3 DEF EndJob, TimerWaits, startVars, ClockTypeOK
<1>4. ASSUME NEW j \in Job, JobWithoutClient(j) \/ CommandFails(j) \/ Store(j)
      PROVE  TimerWaits'
  BY <1>3, <1>4 DEF JobWithoutClient, CommandFails, Store
<1>5. ASSUME NEW j \in Job, Written(j) \/ ReadOut(j) PROVE TimerWaits'
  BY <1>0, <1>5 DEF Written, ReadOut, GoOn, TimerWaits, startVars, ClockTypeOK
<1>6. CASE HourFires
  BY <1>0, <1>6 DEF HourFires, BeginJob, TimerWaits, startVars, ClockTypeOK
<1>7. CASE Clear
  <2>1. /\ UNCHANGED startVars
        /\ doing[timer] = "idle" => doing'[timer] = "idle"
    BY <1>0, <1>7 DEF Clear
  <2> QED BY <2>1 DEF TimerWaits, startVars
<1>8. CASE StartStep
  BY <1>8 DEF StartStep, StartPolling, ConnectLine, LineFails, StartRest, TimerWaits
<1>9. CASE Tick
  BY <1>9 DEF Tick, TimerWaits, startVars
<1>10. CASE Restart
  BY <1>0, <1>10 DEF Restart, Fresh, TimerWaits
<1>11. CASE UNCHANGED clockVars
  BY <1>11 DEF clockVars, startVars, TimerWaits
<1> QED
  BY <1>1, <1>2, <1>4, <1>5, <1>6, <1>7, <1>8, <1>9, <1>10, <1>11 DEF ClockNext, JobStep

(* A job that comes to its end has agreed with the clock in its last part.  *)
LEMMA LastCommand ==
  ASSUME ClockInv, ClockInv', [ClockNext]_clockVars, NEW j \in Job,
         doing[j] = "queued", doing'[j] = "storing"
  PROVE  (Written(j) \/ ReadOut(j)) /\ part[j] = Parts
<1> USE DEF ClockInv
<1>1. ASSUME NEW k \in Job, Ask(k) PROVE FALSE
  BY <1>1 DEF Ask, BeginJob, ClockTypeOK
<1>2. ASSUME NEW k \in Job, ClientFound(k) PROVE FALSE
  BY <1>2 DEF ClientFound, ClockTypeOK
<1>3. ASSUME NEW k \in Job, JobWithoutClient(k) \/ CommandFails(k) \/ Store(k)
      PROVE  FALSE
  BY <1>3 DEF JobWithoutClient, CommandFails, Store, EndJob, ClockTypeOK
<1>4. ASSUME NEW k \in Job, Written(k) \/ ReadOut(k) PROVE k = j /\ part[j] = Parts
  BY <1>4 DEF Written, ReadOut, GoOn, ClockTypeOK
<1>5. ~HourFires /\ ~ConnectLine
  BY DEF HourFires, ConnectLine, BeginJob, ClockTypeOK
<1>6. ~Clear
  BY DEF Clear
<1>7. ~(StartPolling \/ LineFails \/ StartRest \/ Tick) /\ ~UNCHANGED clockVars
  BY DEF StartPolling, LineFails, StartRest, Tick, clockVars
<1>8. ~Restart
  BY DEF Restart, Fresh
<1> QED
  BY <1>1, <1>2, <1>3, <1>4, <1>5, <1>6, <1>7, <1>8 DEF ClockNext, JobStep, StartStep

LEMMA ClockInvHolds == ClockSpec => []ClockInv
<1>1. ClockInit => ClockInv
  BY ClockInitType, ClockInvInit DEF ClockInv
<1>2. ClockInv /\ [ClockNext]_clockVars => ClockInv'
  BY ClockTypeStep, JobsInvStep, TimerWaitsStep DEF ClockInv
<1> QED BY <1>1, <1>2, PTL DEF ClockSpec

(* After the last command the clock shows the time that was to be set, or   *)
(* the time read is what it shows, whatever ran between the commands, if no *)
(* carry and no other job changed a part already done: the reason for which *)
(* the code sets SECOND last (ddcTimeCommands, actionMap).                  *)
THEOREM TimeIsSetWhole == ClockSpec => WholeTime
<1>1. ASSUME ClockInv, ClockInv', [ClockNext]_clockVars, NEW j \in Job,
             doing[j] = "queued", doing'[j] = "storing", j \notin disturbed
      PROVE  local'[j] = ddc'
  <2>1. (Written(j) \/ ReadOut(j)) /\ part[j] = Parts
    BY <1>1, LastCommand
  <2>2. \A p \in Part : p =< part[j] => local'[j][p] = ddc'[p]
    BY <1>1, <2>1, CommandAgrees DEF ClockInv
  <2>3. \A p \in Part : local'[j][p] = ddc'[p]
    BY <2>1, <2>2, DdcTimeAssumption DEF Part
  <2>4. local'[j] \in [Part -> 0..(Base - 1)] /\ ddc' \in [Part -> 0..(Base - 1)]
    BY <1>1 DEF ClockInv, ClockTypeOK, Time
  <2> QED BY <2>3, <2>4
<1>2. ClockInv /\ ClockInv' /\ [ClockNext]_clockVars =>
        [\A j \in Job : doing[j] = "queued" /\ doing'[j] = "storing" /\ j \notin disturbed
                       => local'[j] = ddc']_clockVars
  BY <1>1
<1> QED BY <1>2, ClockInvHolds, PTL DEF ClockSpec, WholeTime
=============================================================================
