--------------------------- MODULE MCPeopleCounter ---------------------------
(* Small instances of PeopleCounter: polls are alike.                        *)
EXTENDS PeopleCounter, TLC

Symmetry == Permutations(Tick)

(* A bound: a race of two polls is explored until they have stored what     *)
(* they read, with no new job on the line meanwhile.                       *)
RaceAlone ==
  raced => /\ \E k \in Tick : at[k] \in {"clear", "save", "store"}
           /\ jobs = << >> /\ running = Nobody
=============================================================================
