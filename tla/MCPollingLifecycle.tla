------------------------- MODULE MCPollingLifecycle -------------------------
(* A small instance of PollingLifecycle.                                   *)
EXTENDS PollingLifecycle
=============================================================================
