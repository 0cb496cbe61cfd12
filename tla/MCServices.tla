------------------------------ MODULE MCServices ------------------------------
(* TLC instances of the components around the task manager that are checked   *)
(* for safety.  They share no state in the model, so a behaviour lets one of  *)
(* them move, which the initial state chooses, and leaves the others alone.   *)
EXTENDS MCAuthDomain, Continuation, NativeCreate, SessionClient

VARIABLE part

servicesVars == <<part, authVars, planVars, createVars, clientVars>>

ServicesInit ==
  /\ AuthInit /\ PlanInit /\ CreateInit /\ ClientInit
  /\ part \in {"auth", "plan", "create", "client"}
  /\ part # "auth" => world = CHOOSE w \in Worlds : TRUE
ServicesNext ==
  /\ UNCHANGED part
  /\ \/ part = "auth" /\ AuthNext /\ UNCHANGED <<planVars, createVars, clientVars>>
     \/ part = "plan" /\ PlanNext /\ UNCHANGED <<authVars, createVars, clientVars>>
     \/ part = "create" /\ CreateNext /\ UNCHANGED <<authVars, planVars, clientVars>>
     \/ part = "client" /\ ClientNext /\ UNCHANGED <<authVars, planVars, createVars>>
ServicesSpec == ServicesInit /\ [][ServicesNext]_servicesVars

(* What the rest of a behaviour, and every property, depends on: a bridge reads *)
(* its inventory until it has the lock, the owner it found stale until it has  *)
(* removed it, and its copy of the store until the pointer is moved.  TLC's    *)
(* VIEW: states that differ in what nobody reads any more count as one.        *)
Locals(b) ==
  <<IF stage[b] \in {"owner", "unlink", "remove", "lock", "unlock"} THEN listed[b] ELSE {},
    IF stage[b] \in {"unlink", "remove"} THEN staleOwner[b] ELSE Nobody,
    IF stage[b] \in {"save", "point"} THEN buffer[b] ELSE {}>>
ReadAgain ==
  <<part, [b \in Bridges |-> Locals(b)], stage, ownerFile, lockFile, pointer, authFiles,
    pairing, codes, cli, granted, withdrawn, overtaken, wiped, world,
    planVars, createVars, clientVars>>

(* The variables of every component keep their types.                         *)
ServicesTypeOK == AuthTypeOK /\ PlanTypeOK /\ CreateTypeOK /\ ClientTypeOK
===============================================================================
