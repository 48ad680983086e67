---------------------------- MODULE CommandQueue ----------------------------
(***************************************************************************)
(* ModbusCommandQueue.ts: three JavaScript arrays, one per priority, and a *)
(* processing loop that empties them.  Every add made while no loop is     *)
(* processing schedules a loop of its own with setImmediate, so several    *)
(* loops may be scheduled at once and isProcessing has to keep all but one *)
(* out.  A loop passes the array OBJECT of a priority to                   *)
(* processPriorityQueue and keeps shifting from that object, while         *)
(* clearQueue replaces the objects: heap[g][p] is the array object of      *)
(* priority p after the g-th clear, gen the generation the fields refer to.*)
(*                                                                         *)
(* An action is one synchronous stretch of the event loop, from one await  *)
(* to the next.                                                            *)
(***************************************************************************)
EXTENDS Naturals, Sequences

CONSTANTS Command,      \* the commands callers may submit, each at most once
          PriorityOf,   \* command.priority
          MaxClear,     \* bound on the number of clearQueue calls
          NoCommand     \* not a command: the loop executes none

Priority == {"high", "normal", "low"}

ASSUME QueueAssumption ==
  /\ PriorityOf \in [Command -> Priority]
  /\ MaxClear \in Nat
  /\ NoCommand \notin Command

(* A loop is named by the command whose add scheduled it. *)
Loop == Command

VARIABLES heap,         \* the array objects
          gen,          \* the generation this.*PriorityQueue refer to
          isProcessing,
          at,           \* where each loop is
          holds,        \* the generation of the array object a loop shifts from
          cur,          \* the command a loop has shifted and is executing
          status        \* the promise returned to the caller of each command

vars == <<heap, gen, isProcessing, at, holds, cur, status>>

Outcome == {"resolved", "rejected"}

TypeOK ==
  /\ heap \in [0..MaxClear -> [Priority -> Seq(Command)]]
  /\ gen \in 0..MaxClear
  /\ isProcessing \in BOOLEAN
  /\ at \in [Loop -> {"none", "scheduled", "ended"} \cup Priority]
  /\ holds \in [Loop -> 0..MaxClear]
  /\ cur \in [Loop -> Command \cup {NoCommand}]
  /\ status \in [Command -> {"unsent", "pending"} \cup Outcome]

Init ==
  /\ heap = [g \in 0..MaxClear |-> [p \in Priority |-> << >>]]
  /\ gen = 0
  /\ isProcessing = FALSE
  /\ at = [l \in Loop |-> "none"]
  /\ holds = [l \in Loop |-> 0]
  /\ cur = [l \in Loop |-> NoCommand]
  /\ status = [c \in Command |-> "unsent"]

HasCommands == \E p \in Priority : heap[gen][p] # << >>

Active(l) == at[l] \in Priority

-----------------------------------------------------------------------------
(* Definitions whose comment starts with "Defect" are not part of the       *)
(* model: each is a plausible mistake in the definition after it, used to   *)
(* see that a property depends on that definition.                          *)

(* Defect: unshift instead of push. *)
AddInFront(c) ==
  /\ status[c] = "unsent"
  /\ status' = [status EXCEPT ![c] = "pending"]
  /\ heap' = [heap EXCEPT ![gen][PriorityOf[c]] = <<c>> \o @]
  /\ at' = IF isProcessing THEN at ELSE [at EXCEPT ![c] = "scheduled"]
  /\ UNCHANGED <<gen, isProcessing, holds, cur>>

(* addCommand, addCommandObject: push, then startProcessingIfNeeded. *)
Add(c) ==
  /\ status[c] = "unsent"
  /\ status' = [status EXCEPT ![c] = "pending"]
  /\ heap' = [heap EXCEPT ![gen][PriorityOf[c]] = Append(@, c)]
  /\ at' = IF isProcessing THEN at ELSE [at EXCEPT ![c] = "scheduled"]
  /\ UNCHANGED <<gen, isProcessing, holds, cur>>

(* Defect: queue[0] instead of queue.shift(). *)
PeekFrom(l, g, p) ==
  /\ cur' = [cur EXCEPT ![l] = IF heap[g][p] = << >> THEN NoCommand
                                                    ELSE Head(heap[g][p])]
  /\ UNCHANGED heap

(* processPriorityQueue's while: shift the next command of the array object *)
(* of generation g and priority p and start executing it, or leave the loop.*)
ShiftFrom(l, g, p) ==
  IF heap[g][p] = << >>
  THEN /\ cur' = [cur EXCEPT ![l] = NoCommand]
       /\ UNCHANGED heap
  ELSE /\ cur' = [cur EXCEPT ![l] = Head(heap[g][p])]
       /\ heap' = [heap EXCEPT ![g][p] = Tail(@)]

(* Defect: the loop captures the array object of the next clear. *)
EnterLate(l, p) ==
  /\ at' = [at EXCEPT ![l] = p]
  /\ holds' = [holds EXCEPT ![l] = gen + 1]
  /\ ShiftFrom(l, gen, p)

(* The call processPriorityQueue(this.<p>PriorityQueue, p). *)
Enter(l, p) ==
  /\ at' = [at EXCEPT ![l] = p]
  /\ holds' = [holds EXCEPT ![l] = gen]
  /\ ShiftFrom(l, gen, p)

(* Defect: processQueue without the isProcessing test. *)
StartLoopUntested(l) ==
  /\ at[l] = "scheduled"
  /\ \/ /\ ~HasCommands
        /\ at' = [at EXCEPT ![l] = "ended"]
        /\ UNCHANGED <<heap, isProcessing, holds, cur>>
     \/ HasCommands /\ isProcessing' = TRUE /\ Enter(l, "high")
  /\ UNCHANGED <<gen, status>>

(* Defect: isProcessing is set before the early return on an empty queue. *)
StartLoopStuck(l) ==
  /\ at[l] = "scheduled"
  /\ \/ /\ isProcessing \/ ~HasCommands
        /\ at' = [at EXCEPT ![l] = "ended"]
        /\ isProcessing' = TRUE
        /\ UNCHANGED <<heap, holds, cur>>
     \/ /\ ~isProcessing /\ HasCommands
        /\ isProcessing' = TRUE
        /\ Enter(l, "high")
  /\ UNCHANGED <<gen, status>>

(* The setImmediate callback: processQueue up to its first await. *)
StartLoop(l) ==
  /\ at[l] = "scheduled"
  /\ \/ /\ isProcessing \/ ~HasCommands
        /\ at' = [at EXCEPT ![l] = "ended"]
        /\ UNCHANGED <<heap, isProcessing, holds, cur>>
     \/ /\ ~isProcessing /\ HasCommands
        /\ isProcessing' = TRUE
        /\ Enter(l, "high")
  /\ UNCHANGED <<gen, status>>

(* executeCommand has an answer or an error: settle the caller's promise    *)
(* and go on with the array the loop was called with.                       *)
Complete(l, outcome) ==
  /\ Active(l) /\ cur[l] # NoCommand
  /\ status' = [status EXCEPT ![cur[l]] = outcome]
  /\ ShiftFrom(l, holds[l], at[l])
  /\ UNCHANGED <<gen, isProcessing, at, holds>>

(* An array is empty: the await in processQueue continues with the next.    *)
NextPriority(l) ==
  /\ at[l] \in {"high", "normal"} /\ cur[l] = NoCommand
  /\ Enter(l, IF at[l] = "high" THEN "normal" ELSE "low")
  /\ UNCHANGED <<gen, isProcessing, status>>

(* Defect: one pass over the arrays instead of a while. *)
EndPassOnce(l) ==
  /\ at[l] = "low" /\ cur[l] = NoCommand
  /\ at' = [at EXCEPT ![l] = "ended"]
  /\ isProcessing' = FALSE
  /\ UNCHANGED <<heap, gen, holds, cur, status>>

(* The low array is empty: another pass, or the finally block. *)
EndPass(l) ==
  /\ at[l] = "low" /\ cur[l] = NoCommand
  /\ \/ /\ HasCommands
        /\ Enter(l, "high")
        /\ UNCHANGED isProcessing
     \/ /\ ~HasCommands
        /\ at' = [at EXCEPT ![l] = "ended"]
        /\ isProcessing' = FALSE
        /\ holds' = [holds EXCEPT ![l] = 0]
        /\ UNCHANGED <<heap, cur>>
  /\ UNCHANGED <<gen, status>>

(* clearQueue: three new arrays; the loop keeps the object it holds. *)
Clear ==
  /\ gen < MaxClear
  /\ gen' = gen + 1
  /\ UNCHANGED <<heap, isProcessing, at, holds, cur, status>>

Next ==
  \/ \E c \in Command : Add(c)
  \/ \E l \in Loop :
       \/ StartLoop(l)
       \/ \E outcome \in Outcome : Complete(l, outcome)
       \/ NextPriority(l)
       \/ EndPass(l)
  \/ Clear

(* The event loop runs every scheduled callback and every continuation, and *)
(* executeDirect always returns: reads and writes on the port time out.     *)
Fairness ==
  \A l \in Loop : /\ WF_vars(StartLoop(l))
                  /\ WF_vars(\E outcome \in Outcome : Complete(l, outcome))
                  /\ WF_vars(NextPriority(l))
                  /\ WF_vars(EndPass(l))

Safety == Init /\ [][Next]_vars
Spec == Safety /\ Fairness

-----------------------------------------------------------------------------
(* The array object of generation g and priority p can still be reached:    *)
(* by a field, or by a loop that will look at it again after its command.   *)
Holding(l, p) == at[l] = p /\ cur[l] # NoCommand
Held(g, p) == \E l \in Loop : Holding(l, p) /\ holds[l] = g
Reachable(g, p) == g = gen \/ Held(g, p)

InArray(c, g, p) == \E i \in 1..Len(heap[g][p]) : heap[g][p][i] = c
Waiting(c) == \E g \in 0..gen, p \in Priority : Reachable(g, p) /\ InArray(c, g, p)
Running(c) == \E l \in Loop : Active(l) /\ cur[l] = c
Lost(c) == status[c] = "pending" /\ ~Waiting(c) /\ ~Running(c)

(* However many loops were scheduled, at most one is past the isProcessing  *)
(* test, and the flag is set exactly while one is: there is never a second  *)
(* transaction of the queue on the serial line.                             *)
OneLoop ==
  /\ \A l, m \in Loop : Active(l) /\ Active(m) => l = m
  /\ isProcessing <=> \E l \in Loop : Active(l)

(* The restart after the finally block is commented out in the source.  It  *)
(* is not needed: a command in the queue while nobody is processing always  *)
(* has a scheduled loop coming for it.                                      *)
NoLostWakeup ==
  HasCommands /\ ~isProcessing => \E l \in Loop : at[l] = "scheduled"

(* The loops exclude each other and yet leave no command behind: what keeps *)
(* two from processing never keeps all of them from it.                     *)
LoopsServe == OneLoop /\ NoLostWakeup

(* No command is at two indices, or in two array objects. *)
ArraysDistinct ==
  \A g, h \in 0..MaxClear, p, q \in Priority :
    \A i \in 1..Len(heap[g][p]), j \in 1..Len(heap[h][q]) :
      heap[g][p][i] = heap[h][q][j] => g = h /\ p = q /\ i = j

(* A command in an array is pending, of that priority, and in no loop. *)
ArraysPending ==
  \A g \in 0..MaxClear, p \in Priority : \A i \in 1..Len(heap[g][p]) :
    /\ status[heap[g][p][i]] = "pending"
    /\ PriorityOf[heap[g][p][i]] = p
    /\ \A l \in Loop : cur[l] # heap[g][p][i]

(* A command being executed is pending, and in one loop only. *)
RunningPending ==
  \A l \in Loop : cur[l] # NoCommand =>
    /\ Active(l)
    /\ status[cur[l]] = "pending"
    /\ \A m \in Loop : cur[m] = cur[l] => m = l

(* A command exists in one place at most: at one index of one array object, *)
(* or in one loop; and then its promise is still pending.  So no command is *)
(* executed twice and no promise is settled while its command still waits.  *)
OnePlace == ArraysDistinct /\ ArraysPending /\ RunningPending

(* Every submitted command is answered or lost to a clear: no command is    *)
(* left waiting in a queue nobody empties.                                  *)
AnsweredOrLost ==
  \A c \in Command :
    status[c] = "pending" ~> status[c] \in Outcome \/ Lost(c)

-----------------------------------------------------------------------------
(* The queue implements CommandChannel.  The waiting line of a priority is  *)
(* the detached array the loop still shifts from, if there is one, followed *)
(* by the array of the field.                                               *)
Detached(p) ==
  IF \E l \in Loop : Holding(l, p) /\ holds[l] # gen
  THEN heap[holds[CHOOSE l \in Loop : Holding(l, p) /\ holds[l] # gen]][p]
  ELSE << >>

WaitingLine == [p \in Priority |-> Detached(p) \o heap[gen][p]]

OnLine ==
  IF \E l \in Loop : cur[l] # NoCommand
  THEN cur[CHOOSE l \in Loop : cur[l] # NoCommand]
  ELSE NoCommand

Channel == INSTANCE CommandChannel
             WITH waiting <- WaitingLine, running <- OnLine
ImplementsChannel == Channel!ChannelSpec
=============================================================================
