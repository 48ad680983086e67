--------------------------- MODULE CommandChannel ---------------------------
(***************************************************************************)
(* What the Modbus command queue promises to its callers, without its      *)
(* loops and array objects: commands of one priority are executed in the   *)
(* order they were submitted, one command is on the line at a time, each   *)
(* is executed at most once, a command is answered only after it was       *)
(* executed, and clearing drops the end of a waiting line, never its       *)
(* middle.  Nothing is promised about the order between priorities.        *)
(* CommandQueue implements this specification.                             *)
(***************************************************************************)
EXTENDS Sequences, Naturals

CONSTANTS Command,      \* the commands callers may submit, each at most once
          Priority,     \* the waiting lines
          PriorityOf,   \* the waiting line a command is put in
          NoCommand     \* not a command

VARIABLES waiting,      \* per priority, the commands waiting, oldest first
          running,      \* the command on the line, or NoCommand
          status        \* what the caller's promise shows

channelVars == <<waiting, running, status>>

ChannelInit ==
  /\ waiting = [p \in Priority |-> << >>]
  /\ running = NoCommand
  /\ status = [c \in Command |-> "unsent"]

Submit(c) ==
  /\ status[c] = "unsent"
  /\ status' = [status EXCEPT ![c] = "pending"]
  /\ waiting' = [waiting EXCEPT ![PriorityOf[c]] = Append(@, c)]
  /\ UNCHANGED running

(* The oldest command of p goes on the line. *)
Take(p) ==
  /\ waiting[p] # << >>
  /\ running' = Head(waiting[p])
  /\ waiting' = [waiting EXCEPT ![p] = Tail(@)]

Begin(p) == running = NoCommand /\ Take(p) /\ UNCHANGED status

(* The command on the line is answered; the next may start in the same     *)
(* turn of the event loop.                                                 *)
Settle(outcome) ==
  /\ running # NoCommand
  /\ status' = [status EXCEPT ![running] = outcome]
  /\ \/ \E p \in Priority : Take(p)
     \/ running' = NoCommand /\ UNCHANGED waiting

(* Every waiting line is cut after some prefix; a dropped command is never  *)
(* answered.                                                               *)
Drop ==
  /\ waiting' \in [Priority -> Seq(Command)]
  /\ \A p \in Priority :
       /\ Len(waiting'[p]) <= Len(waiting[p])
       /\ \A i \in 1..Len(waiting'[p]) : waiting'[p][i] = waiting[p][i]
  /\ UNCHANGED <<running, status>>

ChannelNext ==
  \/ \E c \in Command : Submit(c)
  \/ \E p \in Priority : Begin(p)
  \/ \E outcome \in {"resolved", "rejected"} : Settle(outcome)
  \/ Drop

ChannelSpec == ChannelInit /\ [][ChannelNext]_channelVars
=============================================================================
