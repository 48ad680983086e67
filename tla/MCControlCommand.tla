-------------------------- MODULE MCControlCommand --------------------------
(* A small instance of ControlCommand: one user sets a time and a switch,    *)
(* another reads the switch, or sends what cannot be sent, and sets or reads *)
(* the time.                                                                 *)
EXTENDS ControlCommand, TLC

CONSTANTS r1, r2, v0, v1, v2

MCBodies ==
  { (r1 :> << [kind |-> "time", value |-> v1], [kind |-> "write", value |-> v1] >>)
    @@ (r2 :> << [kind |-> "time", value |-> v2], [kind |-> "read", value |-> v0] >>),
    (r1 :> << [kind |-> "invalid", value |-> v0], [kind |-> "write", value |-> v1] >>)
    @@ (r2 :> << [kind |-> "readTime", value |-> v0], [kind |-> "time", value |-> v2] >>) }
=============================================================================
