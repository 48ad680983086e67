---------------------------- MODULE MCUnitStatus ----------------------------
(* A small instance of UnitStatus: two units, the cycle and one tick, or the *)
(* two tasks of the people counter.                                          *)
EXTENDS UnitStatus, TLC

CONSTANTS c1, c2

MCUnitOf == (c1 :> 1) @@ (c2 :> 2)

(* Three changes, or two and a database call that fails.  This cuts only     *)
(* steps that no fairness asks for.                                          *)
FewDisturbances == changes + faults <= 3
=============================================================================
