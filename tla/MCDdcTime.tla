----------------------------- MODULE MCDdcTime -----------------------------
(* A small instance of DdcTime.                                            *)
EXTENDS DdcTime
=============================================================================
