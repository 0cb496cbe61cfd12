----------------------------- MODULE NativeLane ------------------------------
(* The native lane of one workspace: TaskManager.dispatchNative and its       *)
(* reconciliation (execution/tasks.ts) on the workspace slot                  *)
(* (execution/slot.ts), which the codex lane shares, talking to the engine of *)
(* Z2cEngine over requests and answers that can be lost.                      *)
EXTENDS Z2cEngine, FiniteSets

CONSTANT MaxTries   \* bound: dispatches of one request

ASSUME MaxTriesIsPositive == MaxTries \in Nat \ {0}
ASSUME OwnersDiffer == {"codex", "torn"} \cap (Reqs \cup {None}) = {}

VARIABLES
  slot,    \* the slot file
  call,    \* where dispatchNative of a request is
  tries,
  flying,  \* submissions that left and did not arrive
  reco,    \* the single reconciliation in flight
  codex,   \* the codex lane: no task, a task with the slot, its turn, its end
  up       \* the bridge process runs

laneVars == <<slot, call, tries, flying, reco, codex, up>>
vars == <<engineVars, laneVars>>

Free == [by |-> "free", task |-> None, bound |-> FALSE, marked |-> FALSE, old |-> FALSE]
Torn == [Free EXCEPT !.by = "torn"]
Reservation(r) == [Free EXCEPT !.by = "z2c", !.task = r]
NoReco == [at |-> "idle", task |-> None, seen |-> "none"]
Pending(r) == call[r] \in {"project", "sent"}

LaneInit ==
  /\ slot = Free
  /\ call = [r \in Reqs |-> "idle"]
  /\ tries = [r \in Reqs |-> 0]
  /\ flying = {}
  /\ reco = NoReco
  /\ codex = "no"
  /\ up = TRUE

HeldBy(r) == slot.by = "z2c" /\ slot.task = r
(* releaseWorkspaceSlot: only the lease of this task.                         *)
ReleasedBy(r) == IF HeldBy(r) THEN Free ELSE slot
Bound == [slot EXCEPT !.bound = TRUE]
(* reconcileWorkspaceSlot: a lease of an earlier boot, or of a codex task     *)
(* that is over, is dropped; an unreadable file is never.                     *)
Cleared == IF slot.old \/ (slot.by = "codex" /\ codex = "no") THEN Free ELSE slot
-----------------------------------------------------------------------------
(* dispatchNative: reserve, project the workspace, mark and send, bind.       *)
Reserve(r) ==
  /\ up /\ call[r] \in {"idle", "failed"} /\ tries[r] < MaxTries
  /\ codex = "no"
  /\ Cleared.by = "free"
  /\ tries' = [tries EXCEPT ![r] = @ + 1]
  /\ slot' = Reservation(r)
  /\ call' = [call EXCEPT ![r] = "project"]
  /\ UNCHANGED <<engineVars, flying, reco, codex, up>>

FailsBeforeDispatch(r) ==
  /\ up /\ call[r] = "project" /\ "reject" \in faults
  /\ slot' = ReleasedBy(r)
  /\ call' = [call EXCEPT ![r] = "failed"]
  /\ UNCHANGED <<engineVars, tries, flying, reco, codex, up>>

(* The evidence is on disk before the request leaves.                         *)
Dispatch(r) ==
  /\ up /\ call[r] = "project" /\ HeldBy(r)
  /\ slot' = [slot EXCEPT !.marked = TRUE]
  /\ call' = [call EXCEPT ![r] = "sent"]
  /\ flying' = flying \cup {r}
  /\ UNCHANGED <<engineVars, tries, reco, codex, up>>

Arrive(r) ==
  /\ r \in flying
  /\ Submit(r)
  /\ flying' = flying \ {r}
  /\ UNCHANGED <<slot, call, tries, reco, codex, up>>
Lost(r) ==
  /\ r \in flying
  /\ ~alive \/ "lost" \in faults
  /\ flying' = flying \ {r}
  /\ UNCHANGED <<engineVars, slot, call, tries, reco, codex, up>>

\* Mutant: any end proves it.
AnyEnd(s) == s \in Terminal
(* A status that proves the turn is over; a turn timeout does not.            *)
Proves(s) == s \in Terminal \ {"timeout"}
Answered(r) ==
  /\ up /\ call[r] = "sent" /\ r \notin flying /\ reply[r] # "none"
  /\ LET refused == reply[r] = "error" \/ ~HeldBy(r)
     IN /\ slot' = IF refused THEN slot
                   ELSE IF Proves(reply[r]) THEN Free ELSE Bound
        /\ call' = [call EXCEPT ![r] = IF refused THEN "failed" ELSE "ok"]
  /\ UNCHANGED <<engineVars, tries, flying, reco, codex, up>>
(* The request times out or the connection breaks: the outcome is unknown.    *)
AnswerLost(r) ==
  /\ up /\ call[r] = "sent"
  /\ ~alive \/ "lost" \in faults
  /\ call' = [call EXCEPT ![r] = "failed"]
  /\ UNCHANGED <<engineVars, slot, tries, flying, reco, codex, up>>

(* getNative, cancelNative and outputNative hand any task view they get to    *)
(* observeNativeTask.                                                         *)
Observe(r) ==
  /\ up /\ alive
  /\ HeldBy(r) /\ (slot.bound \/ slot.marked)
  /\ Proves(mem.status[r])
  /\ slot' = Free
  /\ UNCHANGED <<engineVars, call, tries, flying, reco, codex, up>>
-----------------------------------------------------------------------------
(* reconcileNativeSlot: one at a time, by a timer and on demand.  The         *)
(* recovery window of an unbound reservation is longer than a submission      *)
(* stays on its way or in the gate.                                           *)
Settles(r) == r \notin flying /\ ~Contains(gate, r)
RecoStart ==
  /\ up /\ reco = NoReco
  /\ slot.by = "z2c" /\ ~Pending(slot.task)
  /\ slot.bound \/ Settles(slot.task)
  /\ reco' = [at |-> IF slot.bound THEN "get" ELSE IF slot.marked THEN "key" ELSE "lane",
              task |-> slot.task, seen |-> "none"]
  /\ UNCHANGED <<engineVars, slot, call, tries, flying, codex, up>>

RecoAsk ==
  /\ up /\ alive /\ reco.at \in {"get", "key"}
  /\ reco' = [reco EXCEPT !.at = IF @ = "get" THEN "task" ELSE "keyed",
                          !.seen = mem.status[reco.task]]
  /\ UNCHANGED <<engineVars, slot, call, tries, flying, codex, up>>

(* The answers are applied to the slot as it is then.                         *)
RecoTask ==
  /\ up /\ reco.at = "task"
  /\ IF HeldBy(reco.task) /\ reco.seen = "timeout"
     THEN reco' = [reco EXCEPT !.at = "probe"] /\ UNCHANGED slot
     ELSE /\ reco' = NoReco
          /\ slot' = IF Proves(reco.seen) THEN ReleasedBy(reco.task) ELSE slot
  /\ UNCHANGED <<engineVars, call, tries, flying, codex, up>>
RecoKeyed ==
  /\ up /\ reco.at = "keyed"
  /\ IF reco.seen = "none"
     THEN reco' = [reco EXCEPT !.at = "lane"] /\ UNCHANGED slot
     ELSE /\ reco' = NoReco
          /\ slot' = IF Proves(reco.seen) THEN ReleasedBy(reco.task)
                     ELSE IF HeldBy(reco.task) /\ ~slot.bound THEN Bound ELSE slot
  /\ UNCHANGED <<engineVars, call, tries, flying, codex, up>>

(* The last proofs: an empty lane for a key never bound, the idle session of  *)
(* a turn that timed out.                                                     *)
LaneEmpty == mem.active = None /\ mem.queue = <<>>
RecoProof ==
  /\ up /\ alive
  /\ \/ reco.at = "lane" /\ LaneEmpty
     \/ reco.at = "probe" /\ ~turn[reco.task]
  /\ reco' = [reco EXCEPT !.at = "proved"]
  /\ UNCHANGED <<engineVars, slot, call, tries, flying, codex, up>>
RecoRelease ==
  /\ up /\ reco.at = "proved"
  /\ slot' = ReleasedBy(reco.task)
  /\ reco' = NoReco
  /\ UNCHANGED <<engineVars, call, tries, flying, codex, up>>
RecoGivesUp ==
  /\ up
  /\ \/ ~alive /\ reco.at \in {"get", "key", "lane", "probe"}
     \/ alive /\ reco.at = "lane" /\ ~LaneEmpty
     \/ alive /\ reco.at = "probe" /\ turn[reco.task]
  /\ reco' = NoReco
  /\ UNCHANGED <<engineVars, slot, call, tries, flying, codex, up>>
-----------------------------------------------------------------------------
(* The codex lane of the same workspace.                                      *)
CodexTakes ==
  /\ up /\ codex = "no"
  /\ Cleared.by = "free"
  /\ slot' = [Free EXCEPT !.by = "codex"]
  /\ codex' = "held"
  /\ UNCHANGED <<engineVars, call, tries, flying, reco, up>>
CodexRuns ==
  /\ up /\ codex = "held"
  /\ codex' = "turn"
  /\ UNCHANGED <<engineVars, slot, call, tries, flying, reco, up>>
CodexEnds ==
  /\ up /\ codex \in {"held", "turn"}
  /\ codex' = "over"
  /\ UNCHANGED <<engineVars, slot, call, tries, flying, reco, up>>
CodexReleases ==
  /\ up /\ codex = "over"
  /\ codex' = "no"
  /\ slot' = IF slot.by = "codex" THEN Free ELSE slot
  /\ UNCHANGED <<engineVars, call, tries, flying, reco, up>>

BridgeDown ==
  /\ crashes' = crashes + 1
  /\ up' = FALSE
  /\ call' = [r \in Reqs |-> IF Pending(r) THEN "failed" ELSE call[r]]
  /\ reco' = NoReco
  /\ codex' = "no"
BridgeCrash ==
  /\ up /\ "bridge" \in faults /\ crashes < MaxCrashes
  /\ BridgeDown
  /\ UNCHANGED <<disk, mem, healthy, alive, gate, asking, pump, turn, sent, order,
                 reply, faults, slot, tries, flying>>
(* Between the exclusive creation of the slot file and its contents.          *)
TornReserve(r) ==
  /\ up /\ call[r] \in {"idle", "failed"} /\ tries[r] < MaxTries
  /\ "bridge" \in faults /\ crashes < MaxCrashes
  /\ codex = "no" /\ Cleared.by = "free"
  /\ slot' = Torn
  /\ BridgeDown
  /\ UNCHANGED <<disk, mem, healthy, alive, gate, asking, pump, turn, sent, order,
                 reply, faults, tries, flying>>
(* The machine goes down: every process and every turn with it.               *)
Reboot ==
  /\ up /\ alive /\ "reboot" \in faults /\ crashes < MaxCrashes
  /\ BridgeDown
  /\ slot' = IF slot.by = "free" THEN slot ELSE [slot EXCEPT !.old = slot.by # "torn"]
  /\ alive' = FALSE /\ healthy' = TRUE /\ mem' = disk
  /\ gate' = <<>> /\ asking' = FALSE /\ pump' = Idle
  /\ turn' = [r \in Reqs |-> FALSE]
  /\ flying' = {}
  /\ UNCHANGED <<disk, sent, order, reply, faults, tries>>
(* The task manager reconciles the slot when it is built, and throws on one   *)
(* it cannot read.                                                            *)
BridgeStart ==
  /\ ~up
  /\ slot.by # "torn"
  /\ up' = TRUE
  /\ slot' = Cleared
  /\ UNCHANGED <<engineVars, call, tries, flying, reco, codex>>

LaneStep ==
  \/ \E r \in Reqs : \/ Reserve(r) \/ FailsBeforeDispatch(r) \/ Dispatch(r)
                     \/ Arrive(r) \/ Lost(r) \/ Answered(r) \/ AnswerLost(r)
                     \/ Observe(r) \/ TornReserve(r)
  \/ RecoStart \/ RecoAsk \/ RecoTask \/ RecoKeyed \/ RecoProof \/ RecoRelease \/ RecoGivesUp
  \/ CodexTakes \/ CodexRuns \/ CodexEnds \/ CodexReleases
  \/ BridgeCrash \/ Reboot \/ BridgeStart

Init == EngineInit /\ LaneInit
Next == (EngineStep /\ UNCHANGED laneVars) \/ LaneStep
Spec == Init /\ [][Next]_vars
-----------------------------------------------------------------------------
LaneTypeOK ==
  /\ slot \in [by: {"free", "torn", "codex", "z2c"}, task: Reqs \cup {None},
               bound: BOOLEAN, marked: BOOLEAN, old: BOOLEAN]
  /\ call \in [Reqs -> {"idle", "project", "sent", "ok", "failed"}]
  /\ tries \in [Reqs -> 0..MaxTries]
  /\ flying \in SUBSET Reqs
  /\ reco \in [at: {"idle", "get", "task", "key", "keyed", "lane", "probe", "proved"},
               task: Reqs \cup {None}, seen: Status]
  /\ codex \in {"no", "held", "turn", "over"}
  /\ up \in BOOLEAN
TypeOK == EngineTypeOK /\ LaneTypeOK

(* Two writers never run in one workspace, "a second writer while the first   *)
(* is still active" (tasks.ts:1674).                                          *)
WriterExclusion ==
  Cardinality({r \in Reqs : turn[r]}) + (IF codex = "turn" THEN 1 ELSE 0) <= 1

(* The lease as WriterLease describes it.  A turn counts as work unless the   *)
(* engine declared its task over before the turn ended (cancelled, or         *)
(* interrupted by a restart); a store that cannot write and a timeout whose   *)
(* output cannot be read make the engine say so of any task, and after a      *)
(* reboot it runs what it had queued though the lease is dropped.             *)
Vouched(f) ==
  CASE f = "unread" -> FALSE
    [] f = "save" -> healthy /\ crashes = 0
    [] f = "reboot" -> crashes = 0
    [] OTHER -> TRUE
Holder == CASE slot.by = "free" -> None
            [] slot.by = "z2c" -> slot.task
            [] OTHER -> slot.by
Working ==
  {r \in Reqs : /\ turn[r]
                /\ mem.status[r] \notin {"cancelled", "interrupted"}
                /\ \A f \in faults : Vouched(f)}
    \cup (IF codex = "turn" THEN {"codex"} ELSE {})
Lease == INSTANCE WriterLease
           WITH Owners <- Reqs \cup {"codex", "torn"}, holder <- Holder, working <- Working
LeaseSpec == Lease!Spec
=============================================================================
