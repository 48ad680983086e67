----------------------------- MODULE MCSerialLine -----------------------------
(* A small instance of SerialLine.                                          *)
EXTENDS SerialLine
=============================================================================
