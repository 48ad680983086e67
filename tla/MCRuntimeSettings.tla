-------------------------- MODULE MCRuntimeSettings --------------------------
(* A small instance of RuntimeSettings.                                      *)
EXTENDS RuntimeSettings

(* Bound: a system snapshot is taken only at the default interval.           *)
DefaultSnapshot == saved # NoSnapshot => saved.pollingInterval = DefaultGap
=============================================================================
