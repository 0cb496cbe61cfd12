----------------------------- MODULE Supervisor ------------------------------
(* The service supervisor (supervisor/supervisor.ts, control.ts and the       *)
(* "supervisor run" and "supervisor stop" commands of cli/index.ts): processes *)
(* that compete for one lock, observe the supervised components one after the *)
(* other and repair them on a bounded ladder of attempts.                     *)
EXTENDS Integers, Sequences

CONSTANTS
  Sups,         \* supervisor processes; a restarted one is a new generation
  Order,        \* the repairable components in the order a tick observes them
  Core, Tunnel, \* the bridge, and the tunnel, which is left alone without it
  Boot,         \* components that the takeover bootstrap tries to start, in its order
  Budget,       \* RECOVERY_ATTEMPT_BUDGET
  NoSup,
  MaxStarts,    \* bound: starts of each supervisor process
  MaxFailures   \* bound: failures of components

Components == {Order[i] : i \in DOMAIN Order}
ASSUME SupConstants ==
  /\ NoSup \notin Sups /\ {Order, Boot} \subseteq Seq(Components)
  /\ Budget \in Nat \ {0}
  /\ MaxStarts \in Nat /\ MaxFailures \in Nat

VARIABLES
  supAt,     \* where each process stands
  supGen,    \* its generation (process start identity)
  platform,  \* "win32" has an operating system mutex, "posix" only the file
  pipe,      \* who holds that mutex; it falls with the process
  supLock,   \* supervisor.lock: the process and generation in it
  supStop,   \* a stop was signalled
  supTodo,   \* components the current pass has still to look at
  sawCore,   \* bridge health, read when the tick began
  comp,      \* the ComponentStatus of each component, per process
  inFlight,  \* components with a recovery action under way
  up,        \* components that really run
  launched,  \* components with a child on its way up
  stopper,   \* the stop command: the generation it acts on
  failures

supVars == <<supAt, supGen, platform, pipe, supLock, supStop, supTodo, sawCore, comp,
             inFlight, up, launched, stopper, failures>>
mine == <<supGen, platform, pipe, supLock, supStop, stopper>>
world == <<up, launched, failures>>

Unknown == [state |-> "DEGRADED", attempts |-> 0, gated |-> FALSE]
NoRecord == [by |-> NoSup, gen |-> 0]
Record(s) == [by |-> s, gen |-> supGen[s]]
Past == {"bootstrap", "tick", "sleep", "drain"}    \* acquireLock succeeded
AliveGen(r) == r.by # NoSup /\ supAt[r.by] # "down" /\ supGen[r.by] = r.gen

SupInit ==
  /\ supAt = [s \in Sups |-> "down"] /\ supGen = [s \in Sups |-> 0]
  /\ platform \in {"win32", "posix"} /\ pipe = NoSup /\ supLock = NoRecord
  /\ supStop = [s \in Sups |-> FALSE] /\ supTodo = [s \in Sups |-> <<>>]
  /\ sawCore = [s \in Sups |-> FALSE]
  /\ comp = [s \in Sups |-> [c \in Components |-> Unknown]]
  /\ inFlight = [s \in Sups |-> {}]
  /\ up = Components /\ launched = {}
  /\ stopper = NoRecord /\ failures = 0

At(s, w) == supAt' = [supAt EXCEPT ![s] = w]
FreePipe(s) == pipe' = IF pipe = s THEN NoSup ELSE pipe
(* The process ends: its promises, timers and mutex end with it.              *)
Leaves(s) ==
  /\ At(s, "down") /\ FreePipe(s)
  /\ supStop' = [supStop EXCEPT ![s] = FALSE]
  /\ supTodo' = [supTodo EXCEPT ![s] = <<>>]
  /\ sawCore' = [sawCore EXCEPT ![s] = FALSE]
  /\ comp' = [comp EXCEPT ![s] = [c \in Components |-> Unknown]]
  /\ inFlight' = [inFlight EXCEPT ![s] = {}]
-----------------------------------------------------------------------------
(* acquireLock, one step for each access to the operating system.             *)
Starts(s) ==
  /\ supAt[s] = "down" /\ supGen[s] < MaxStarts
  /\ supGen' = [supGen EXCEPT ![s] = @ + 1]
  /\ At(s, "mutex")
  /\ UNCHANGED <<platform, pipe, supLock, supStop, supTodo, sawCore, comp, inFlight,
                 stopper, world>>
TakeMutex(s) ==
  /\ supAt[s] = "mutex"
  /\ \/ platform = "posix" /\ At(s, "read") /\ UNCHANGED pipe
     \/ platform = "win32" /\ pipe = NoSup /\ pipe' = s /\ At(s, "read")
     \/ platform = "win32" /\ pipe # NoSup /\ At(s, "down") /\ UNCHANGED pipe
  /\ UNCHANGED <<supGen, platform, supLock, supStop, supTodo, sawCore, comp, inFlight,
                 stopper, world>>
(* The file of a dead generation is removed under the mutex only.             *)
ReadLockFile(s) ==
  /\ supAt[s] = "read"
  /\ \/ /\ supLock = NoRecord /\ At(s, "write")
        /\ UNCHANGED <<pipe, supLock>>
     \/ /\ supLock # NoRecord /\ ~AliveGen(supLock) /\ platform = "win32"
        /\ supLock' = NoRecord /\ At(s, "write")
        /\ UNCHANGED pipe
     \/ /\ supLock # NoRecord /\ (AliveGen(supLock) \/ platform = "posix")
        /\ At(s, "down") /\ FreePipe(s)
        /\ UNCHANGED supLock
  /\ UNCHANGED <<supGen, platform, supStop, supTodo, sawCore, comp, inFlight, stopper,
                 world>>
(* Exclusive creation: a file that appeared meanwhile makes it fail.          *)
Create(s) ==
  IF supLock = NoRecord THEN supLock' = Record(s) /\ At(s, "bootstrap")
                        ELSE At(s, "down") /\ UNCHANGED supLock
WriteLockFile(s) ==
  /\ supAt[s] = "write"
  /\ Create(s)
  /\ IF supAt'[s] = "down" THEN FreePipe(s) ELSE UNCHANGED pipe
  /\ supTodo' = [supTodo EXCEPT ![s] = Boot]
  /\ UNCHANGED <<supGen, platform, supStop, sawCore, comp, inFlight, stopper, world>>
-----------------------------------------------------------------------------
(* attempt(): the fence is set before the action and lifted when it settles.  *)
Attempt(s, c, status) ==
  /\ inFlight' = [inFlight EXCEPT ![s] = @ \cup {c}]
  /\ comp' = [comp EXCEPT ![s][c] = [status EXCEPT !.state = "RECOVERING"]]

(* bootstrapOnTakeover starts what is missing, uncounted, and awaits it.      *)
Bootstrap(s) ==
  /\ supAt[s] = "bootstrap" /\ inFlight[s] = {}
  /\ IF supTodo[s] = <<>>
     THEN At(s, "sleep") /\ UNCHANGED <<supTodo, inFlight, comp>>
     ELSE /\ supTodo' = [supTodo EXCEPT ![s] = Tail(@)]
          /\ LET c == Head(supTodo[s])
             IN IF c \in up THEN UNCHANGED <<inFlight, comp>>
                            ELSE Attempt(s, c, comp[s][c])
          /\ UNCHANGED supAt
  /\ UNCHANGED <<mine, sawCore, world>>

(* run(): the next tick begins with the health of the bridge, unless a stop   *)
(* came; what is observed later in the tick uses the health read here.        *)
TickBegins(s) ==
  /\ supAt[s] = "sleep" /\ ~supStop[s]
  /\ At(s, "tick")
  /\ sawCore' = [sawCore EXCEPT ![s] = Core \in up]
  /\ supTodo' = [supTodo EXCEPT ![s] = Order]
  /\ UNCHANGED <<mine, comp, inFlight, world>>

\* Mutant: one attempt more than the budget.
ExhaustedLate(st) == st.attempts > Budget
(* recoveryDelayMs(n) is null beyond the budget.                              *)
Exhausted(st) == st.attempts > 0 /\ st.attempts + 1 > Budget
Seen(s, c) == IF c = Core THEN sawCore[s] ELSE c \in up
Busy(s, c) == c \in inFlight[s]
(* observeComponent.                                                          *)
Observe(s) ==
  /\ supAt[s] = "tick" /\ supTodo[s] # <<>>
  /\ LET c == Head(supTodo[s])
         st == comp[s][c]
         Becomes(new) == comp' = [comp EXCEPT ![s][c] = new] /\ UNCHANGED inFlight
     IN \/ /\ Busy(s, c)
           /\ Becomes([st EXCEPT !.state = "RECOVERING"])
        \/ /\ ~Busy(s, c) /\ Seen(s, c) /\ (c = Tunnel => sawCore[s])
           /\ Becomes([state |-> "READY", attempts |-> 0, gated |-> FALSE])
        \/ /\ ~Busy(s, c) /\ c = Tunnel /\ ~sawCore[s]
           /\ Becomes([st EXCEPT !.state = "OFFLINE"])
        \/ /\ ~Busy(s, c) /\ ~Seen(s, c) /\ (c = Tunnel => sawCore[s])
           /\ \/ /\ Exhausted(st)
                 /\ Becomes([st EXCEPT !.state = "FAILED"])
              \/ /\ ~Exhausted(st) /\ st.gated
                 /\ Becomes([st EXCEPT !.state = "OFFLINE"])
              \/ /\ ~Exhausted(st) /\ ~st.gated
                 /\ Attempt(s, c, [st EXCEPT !.attempts = @ + 1,
                                             !.gated = st.attempts + 2 <= Budget])
  /\ supTodo' = [supTodo EXCEPT ![s] = Tail(@)]
  /\ UNCHANGED <<mine, supAt, sawCore, world>>
(* The delay before the next attempt has passed.                              *)
DelayOver(s, c) ==
  /\ comp[s][c].gated
  /\ comp' = [comp EXCEPT ![s][c].gated = FALSE]
  /\ UNCHANGED <<mine, supAt, supTodo, sawCore, inFlight, world>>
TickEnds(s) ==
  /\ supAt[s] = "tick" /\ supTodo[s] = <<>>
  /\ At(s, "sleep")
  /\ UNCHANGED <<mine, supTodo, sawCore, comp, inFlight, world>>
(* The loop ends, then the actions under way are awaited, then the lock goes. *)
Drain(s) ==
  /\ supAt[s] = "sleep" /\ supStop[s]
  /\ At(s, "drain")
  /\ UNCHANGED <<mine, supTodo, sawCore, comp, inFlight, world>>
\* Mutant: the lock is released while actions are under way.
SettledAlways(s) == TRUE
Settled(s) == inFlight[s] = {}
ReleaseLock(s) ==
  /\ supAt[s] = "drain" /\ Settled(s)
  /\ supLock' = IF supLock = Record(s) THEN NoRecord ELSE supLock
  /\ At(s, "down") /\ FreePipe(s)
  /\ supStop' = [supStop EXCEPT ![s] = FALSE]
  /\ comp' = [comp EXCEPT ![s] = [c \in Components |-> Unknown]]
  /\ UNCHANGED <<supGen, platform, supTodo, sawCore, inFlight, stopper, world>>
-----------------------------------------------------------------------------
(* An action settles: a child may be on its way up, or nothing came of it.    *)
\* Mutant: an action that fails leaves its fence in place.
UnfencedWhenUp(s, c) == IF c \in launched' THEN inFlight[s] \ {c} ELSE inFlight[s]
Unfenced(s, c) == inFlight[s] \ {c}
ActionSettles(s, c) ==
  /\ c \in inFlight[s]
  /\ \/ /\ c \notin up /\ (c = Tunnel => Core \in up)
        /\ launched' = launched \cup {c}
     \/ UNCHANGED launched
  /\ inFlight' = [inFlight EXCEPT ![s] = Unfenced(s, c)]
  /\ UNCHANGED <<mine, supAt, supTodo, sawCore, comp, up, failures>>
ComesUp(c) ==
  /\ c \in launched
  /\ launched' = launched \ {c}
  /\ \/ up' = up \cup {c}
     \/ UNCHANGED up
  /\ UNCHANGED <<mine, supAt, supTodo, sawCore, comp, inFlight, failures>>
Fails(c) ==
  /\ c \in up /\ failures < MaxFailures
  /\ failures' = failures + 1
  /\ up' = IF c = Core THEN up \ {Core, Tunnel} ELSE up \ {c}
  /\ UNCHANGED <<mine, supAt, supTodo, sawCore, comp, inFlight, launched>>

Killed(s) ==
  /\ supAt[s] # "down"
  /\ Leaves(s)
  /\ UNCHANGED <<supGen, platform, supLock, stopper, world>>

(* stopSupervisorProcess: the signal ends the process at once on win32; the   *)
(* lock file is read again after the exit and then removed, in two steps.     *)
StopCommand ==
  /\ stopper = NoRecord /\ AliveGen(supLock) /\ supAt[supLock.by] \in Past
  /\ stopper' = supLock
  /\ IF platform = "win32"
     THEN Leaves(supLock.by)
     ELSE /\ supStop' = [supStop EXCEPT ![supLock.by] = TRUE]
          /\ UNCHANGED <<supAt, pipe, supTodo, sawCore, comp, inFlight>>
  /\ UNCHANGED <<supGen, platform, supLock, world>>
StopEnds ==
  /\ stopper # NoRecord /\ ~AliveGen(stopper)
  /\ supLock' = IF supLock = stopper THEN NoRecord ELSE supLock
  /\ stopper' = NoRecord
  /\ UNCHANGED <<supGen, platform, pipe, supStop, supAt, supTodo, sawCore, comp,
                 inFlight, world>>
StopGivesUp ==
  /\ stopper # NoRecord
  /\ stopper' = NoRecord
  /\ UNCHANGED <<supGen, platform, pipe, supLock, supStop, supAt, supTodo, sawCore, comp,
                 inFlight, world>>

SupSteps(s) ==
  \/ TakeMutex(s) \/ ReadLockFile(s) \/ WriteLockFile(s)
  \/ Bootstrap(s) \/ TickBegins(s) \/ Observe(s) \/ TickEnds(s) \/ Drain(s) \/ ReleaseLock(s)
SupNext ==
  \/ \E s \in Sups : Starts(s) \/ SupSteps(s) \/ Killed(s)
  \/ \E s \in Sups, c \in Components : DelayOver(s, c) \/ ActionSettles(s, c)
  \/ \E c \in Components : ComesUp(c) \/ Fails(c)
  \/ StopCommand \/ StopEnds \/ StopGivesUp
SupFairness ==
  /\ \A s \in Sups : WF_supVars(SupSteps(s))
  /\ \A s \in Sups, c \in Components :
       WF_supVars(DelayOver(s, c)) /\ WF_supVars(ActionSettles(s, c))
  /\ \A c \in Components : WF_supVars(ComesUp(c))
SupSpec == SupInit /\ [][SupNext]_supVars
-----------------------------------------------------------------------------
SupTypeOK ==
  /\ supAt \in [Sups -> {"down", "mutex", "read", "write"} \cup Past]
  /\ supGen \in [Sups -> 0..MaxStarts] /\ pipe \in Sups \cup {NoSup}
  /\ platform \in {"win32", "posix"}
  /\ supLock \in [by: Sups \cup {NoSup}, gen: 0..MaxStarts]
  /\ stopper \in [by: Sups \cup {NoSup}, gen: 0..MaxStarts]
  /\ supStop \in [Sups -> BOOLEAN] /\ sawCore \in [Sups -> BOOLEAN]
  /\ \A s \in Sups : supTodo[s] \in Seq(Components)
  /\ comp \in [Sups -> [Components -> [state: {"READY", "RECOVERING", "DEGRADED", "OFFLINE", "FAILED"},
                                       attempts: 0..Budget, gated: BOOLEAN]]]
  /\ inFlight \in [Sups -> SUBSET Components]
  /\ up \subseteq Components /\ launched \subseteq Components
  /\ failures \in 0..MaxFailures

(* At most one process is past the lock.                                      *)
OneSupervisor == \A s, t \in Sups : supAt[s] \in Past /\ supAt[t] \in Past => s = t
(* No component is under repair by two processes: the lock is kept until the  *)
(* actions have settled (supervisor.ts:727).                                  *)
OneRepair == \A s, t \in Sups : inFlight[s] \cap inFlight[t] # {} => s = t
(* FAILED is said only when the attempts are used up and none is under way.   *)
FailedIsExhausted ==
  \A s \in Sups, c \in Components :
    comp[s][c].state = "FAILED" => comp[s][c].attempts = Budget /\ c \notin inFlight[s]
(* Supervision: one supervisor, one repair at a time, an honest FAILED.       *)
SupervisorSafe == OneSupervisor /\ OneRepair /\ FailedIsExhausted

(* A component that is down, as long as the supervisor is not ended, and that  *)
(* is not given up as FAILED, itself or the bridge it needs.                   *)
Unattended ==
  {c \in Components \ up : \E s \in Sups :
     supAt[s] \in Past /\ ~supStop[s] /\ \A d \in {c, Core} : comp[s][d].state # "FAILED"}
(* Again and again nothing is left to repair: no observation order, pending    *)
(* delay or failed action leaves a component down and unattended for good.     *)
RepairConverges == []<>(Unattended = {})
=============================================================================
