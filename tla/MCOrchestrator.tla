-------------------------- MODULE MCOrchestrator --------------------------
(* Instances of Orchestrator for TLC: which disturbances they consider.      *)
EXTENDS Orchestrator

Crashes == {"crash"}
Disturbances == {"crash", "pause", "product", "revoke", "cancel"}
CrashAndPause == {"crash", "pause"}
=============================================================================
