------------------------------- MODULE MCRepairs -------------------------------
(* TLC instances of the components that are to end what hangs: the supervisor  *)
(* of the services, the turns of a native session, the coordinator of the      *)
(* governed queue and the restart hand-off.  They share no state; the initial  *)
(* state chooses which moves.                                                  *)
EXTENDS Supervisor, NativeTurns, QueueCoordinator, Restart

VARIABLE part

repairsVars == <<part, supVars, turnVars, queueVars, restartVars>>
Observed == <<"core", "tunnel">>
Started == <<"tunnel">>
SecondNeedsFirst == [e \in Entries |-> IF e = 2 THEN {1} ELSE {}]

RepairsInit ==
  /\ SupInit /\ TurnInit /\ QueueInit /\ RestartInit
  /\ part \in {"supervisor", "turns", "queue", "restart"}
  /\ part # "supervisor" => platform = "posix"
  /\ part # "turns" => ~effortPolicy
  /\ \A w \in Workers : work[w].at = (IF part = "queue" THEN "new" ELSE "off")
RepairsNext ==
  /\ UNCHANGED part
  /\ \/ part = "supervisor" /\ SupNext /\ UNCHANGED <<turnVars, queueVars, restartVars>>
     \/ part = "turns" /\ TurnNext /\ UNCHANGED <<supVars, queueVars, restartVars>>
     \/ part = "queue" /\ QueueNext /\ UNCHANGED <<supVars, turnVars, restartVars>>
     \/ part = "restart" /\ RestartNext /\ UNCHANGED <<supVars, turnVars, queueVars>>
(* In the initial state of a component that does not move, none of its fair    *)
(* actions is enabled (no bridge of the queue is to start), so it owes no step. *)
RepairsSpec ==
  /\ RepairsInit /\ [][RepairsNext]_repairsVars
  /\ SupFairness /\ TurnFairness /\ QueueFairness

(* The variables of the components keep their types.                           *)
RepairsTypeOK == SupTypeOK /\ TurnTypeOK /\ QueueTypeOK /\ RestartTypeOK
================================================================================
