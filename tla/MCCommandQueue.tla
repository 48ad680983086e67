--------------------------- MODULE MCCommandQueue ---------------------------
(***************************************************************************)
(* Instances of CommandQueue for TLC.                                      *)
(***************************************************************************)
EXTENDS CommandQueue

CONSTANTS control1, control2,     \* user control: priority high
          query1,                 \* a register query: priority normal
          poll1, poll2            \* reads of the poller: priority low

MCPriorityOf ==
  [c \in Command |-> CASE c \in {control1, control2} -> "high"
                       [] c = query1 -> "normal"
                       [] OTHER -> "low"]
=============================================================================
