----------------------------- MODULE MCDataLoad -----------------------------
(* Small instances of DataLoad: loads are alike, and so are DDC devices.     *)
EXTENDS DataLoad, TLC

Symmetry == Permutations(Load) \cup Permutations(Device \ Counter)
=============================================================================
