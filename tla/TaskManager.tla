---------------------------- MODULE TaskManager ----------------------------
(***************************************************************************)
(* The per-workspace task manager of src/src/execution/tasks.ts with the   *)
(* writer slot (slot.ts), the queue pause record (queue-state.ts) and the  *)
(* JSONL audit log (records.ts).                                           *)
(*                                                                         *)
(* The manager runs on one event loop.  A handler runs to its next await   *)
(* without being interleaved, but the process may die between any two of   *)
(* its durable writes.  An action therefore performs the whole handler in  *)
(* memory and leaves the durable writes that follow in "todo", in program  *)
(* order; no other action of the process is enabled until "todo" is empty, *)
(* and Crash is enabled throughout.  Every await is a separate action.     *)
(*                                                                         *)
(* Tasks are numbered by their durable queuePosition, so that the FIFO     *)
(* order of compareTaskOrder is the order of the numbers.                  *)
(***************************************************************************)
EXTENDS Integers, Sequences, FiniteSets

CONSTANTS
    MaxTasks,       \* bound: number of submissions
    MaxQueueSize,   \* maxQueueSize of the manager
    Gemini,         \* tasks routed to the Antigravity backend; the others use Codex
    Verified,       \* tasks submitted with run_tests = true
    Unreplayable,   \* tasks whose durable metadata prepareQueuedTask rejects
    Events,         \* the kinds of disturbance an instance considers
    MaxEvents,      \* bound: how many of them happen
    MaxFaults       \* bound: file operations that fail without the process dying

Tasks == 1 .. MaxTasks

ASSUME BoundsAssumption ==
    MaxTasks \in Nat \ {0} /\ MaxQueueSize \in Nat
    /\ MaxEvents \in Nat /\ MaxFaults \in Nat
ASSUME TaskKindsAssumption ==
    /\ Gemini \subseteq Tasks
    /\ Verified \subseteq Tasks \ Gemini
    /\ Unreplayable \subseteq Tasks
    /\ Events \subseteq {"crash", "cancel", "policy", "close", "pause",
                          "product", "native", "collect"}

Nobody == 0
Native == -1        \* the slot holder of a z2c (ZCode) reservation

Terminal == {"completed", "failed", "cancelled", "interrupted"}
Status == {"queued", "running", "cancelling"} \cup Terminal
Record == [status: Status, cancel: BOOLEAN, recorded: BOOLEAN]
Pauses == {"queue", "product"}
NoRecord == [status |-> "absent", cancel |-> FALSE, recorded |-> FALSE]

VARIABLES
    disk,           \* task id -> c2c_*.json on disk
    log,            \* task id -> terminal statuses of its JSONL audit lines
    slot,           \* holder of the durable writer slot
    paused,         \* durable pauses in force: of the queue, of the whole product
    life,           \* "down", "recovering", "up" or "closed"
    unloaded,       \* tasks loadTasks has still to repair
    mem,            \* this.tasks
    pending,        \* keys of this.pendingInputs
    pumpScheduled,  \* a queueMicrotask(pump) is outstanding
    collector,      \* this.collectorBusy
    active,         \* task of this.active
    rt,             \* the RuntimeTask of this.active
    pc,             \* where runTask of the active task waits
    client,         \* task whose App Server is this.appServerClient
    exiting,        \* tasks whose closed App Server process has not exited yet
    stops,          \* stopRuntime/cancel calls in flight
    todo,           \* rest of the running handler
    turns,          \* history: provider turns started per task
    spent,          \* events used of MaxEvents
    faults          \* faults used of MaxFaults

durable == <<disk, log, slot, paused>>
queue   == <<mem, pending, pumpScheduled>>
run     == <<active, rt, pc>>
server  == <<client, exiting, stops>>
boot    == <<life, unloaded>>
budget  == <<spent, faults>>
vars == <<durable, queue, run, server, boot, collector, todo, turns, budget>>

Reasons == {"cancel", "timeout", "shutdown", "policy"}
Stop == [task: Tasks, reason: Reasons,
         stage: {"called", "interrupt", "grace", "closing"}]

\* RuntimeTask: finalized, how the completion promise settled, failure or
\* executionError or policyViolation, timedOut, shutdownRequested, and the
\* completion status runTask computed before it awaited something else.
Settled == {"none", "completed", "failed", "cancelled", "interrupted"}
Runtime == [finalized: BOOLEAN, settled: Settled, failed: BOOLEAN,
            timedOut: BOOLEAN, shutdown: BOOLEAN, end: Settled]
FreshRuntime == [finalized |-> FALSE, settled |-> "none", failed |-> FALSE,
                 timedOut |-> FALSE, shutdown |-> FALSE, end |-> "none"]

Write(t, r)     == [op |-> "write", task |-> t, rec |-> r]
Append1(t, s)   == [op |-> "append", task |-> t, status |-> s]
Pump            == [op |-> "pump"]
Stopped(t, why) == [op |-> "stopped", task |-> t, reason |-> why]
Execute(t)      == [op |-> "execute", task |-> t]
Op == [op: {"write"}, task: Tasks, rec: Record]
      \cup [op: {"append"}, task: Tasks, status: Terminal]
      \cup [op: {"pump"}]
      \cup [op: {"stopped"}, task: Tasks, reason: Reasons]
      \cup [op: {"execute"}, task: Tasks]

TypeOK ==
    /\ disk \in [Tasks -> Record \cup {NoRecord}]
    /\ log \in [Tasks -> Seq(Terminal)]
    /\ slot \in Tasks \cup {Nobody, Native}
    /\ paused \in SUBSET Pauses
    /\ life \in {"down", "recovering", "up", "closed"}
    /\ unloaded \in SUBSET Tasks
    /\ mem \in [Tasks -> Record \cup {NoRecord}]
    /\ pending \in SUBSET Tasks
    /\ pumpScheduled \in BOOLEAN
    /\ collector \in BOOLEAN
    /\ active \in Tasks \cup {Nobody}
    /\ rt \in Runtime
    /\ pc \in {"none", "spawn", "thread", "turn", "running", "verify", "gemini",
               "catch", "caught", "unwind", "unwound", "returned"}
    /\ client \in Tasks \cup {Nobody}
    /\ exiting \in SUBSET Tasks
    /\ stops \in SUBSET Stop
    /\ todo \in Seq(Op)
    /\ turns \in [Tasks -> Nat]
    /\ spent \in 0 .. MaxEvents
    /\ faults \in 0 .. MaxFaults

Init ==
    /\ disk = [t \in Tasks |-> NoRecord]
    /\ log = [t \in Tasks |-> <<>>]
    /\ slot = Nobody /\ paused = {}
    /\ life = "down" /\ unloaded = {}
    /\ mem = [t \in Tasks |-> NoRecord]
    /\ pending = {} /\ pumpScheduled = FALSE /\ collector = FALSE
    /\ active = Nobody /\ rt = FreshRuntime /\ pc = "none"
    /\ client = Nobody /\ exiting = {} /\ stops = {}
    /\ todo = <<>>
    /\ turns = [t \in Tasks |-> 0]
    /\ spent = 0 /\ faults = 0

-----------------------------------------------------------------------------
(* Helpers *)

\* antigravityBackend.cancel awaits nothing, so its caller resumes within the
\* same microtask drain: only a pump that was queued before can precede it.
Drained == todo = <<>> /\ \A s \in stops : s.stage # "called"

Idle == life = "up" /\ Drained                  \* an external call may be handled
Alive == life \in {"up", "closed"} /\ Drained   \* a continuation may run
IsTerminal(r) == r.status \in Terminal
Live(r) == r.status \in {"queued", "running", "cancelling"}
Queued == {t \in Tasks : mem[t].status = "queued"}

\* Mutant: the newest queued task goes first.
NextQueuedNewest == CHOOSE t \in Queued : \A u \in Queued : u <= t

NextQueued == CHOOSE t \in Queued : \A u \in Queued : t <= u

Happens(kind) == kind \in Events /\ spent < MaxEvents /\ spent' = spent + 1

\* reconcileWorkspaceSlot: a slot whose task is unknown or terminal is a ghost.
\* A z2c lease and a lease of a queued, running or cancelling task are kept.
ReconciledSlot(records) ==
    IF slot \in Tasks /\ ~Live(records[slot]) THEN Nobody ELSE slot

WriterBusy == active # Nobody \/ ReconciledSlot(mem) # Nobody

\* Mutant: nobody asks for another pump.
SchedulePumpLost == pumpScheduled' = pumpScheduled

\* schedulePump outside recovery: coalesced by the pumpScheduled flag.
SchedulePump == pumpScheduled' = (pumpScheduled \/ life = "up")

\* Mutant: the App Server is closed without looking whether there is one.
CloseServerUnchecked == client' = Nobody /\ exiting' = exiting \cup {client}

\* closeAppServer: the reference is dropped at once, the child exits later.
CloseServer ==
    /\ client' = Nobody
    /\ exiting' = IF client = Nobody THEN exiting ELSE exiting \cup {client}

\* Mutant: the log is not consulted before a line is appended.
AuditedUnknown(t, status) == FALSE

\* executionMatchesTaskTruth, for a record of this task and its workspace.
Audited(t, status) == \E i \in DOMAIN log[t] : log[t][i] = status

\* ensureExecutionRecord: the durable writes it performs for the record r, whose
\* recorded flag tells whether the append is known to have succeeded.  An append
\* that throws may have reached the file or not.
AuditOps(t, r, appended) ==
    IF Audited(t, r.status)
    THEN <<Write(t, [r EXCEPT !.recorded = TRUE])>>
    ELSE <<Write(t, [r EXCEPT !.recorded = FALSE])>>
         \o (IF appended THEN <<Append1(t, r.status)>> ELSE <<>>)
         \o <<Write(t, r)>>

\* Mutant: a cancellation request on the record is not consulted.
OutcomeWithoutCancel(r, hasRuntime, runtime, completion, restart) ==
    IF completion = "cancelled" THEN "cancelled"
    ELSE IF completion = "interrupted" THEN "interrupted"
    ELSE IF completion = "failed" \/ (hasRuntime /\ (runtime.failed \/ runtime.timedOut))
    THEN "failed" ELSE completion

\* Mutant: a turn that completes after its timer fired counts as completed.
OutcomeWithoutTimeout(r, hasRuntime, runtime, completion, restart) ==
    IF r.cancel \/ completion = "cancelled" THEN "cancelled"
    ELSE IF completion = "interrupted" THEN "interrupted"
    ELSE IF completion = "failed" \/ (hasRuntime /\ runtime.failed) THEN "failed"
    ELSE completion

\* recordTerminal's effectiveStatus.
Outcome(r, hasRuntime, runtime, completion, restart) ==
    IF r.cancel \/ completion = "cancelled" THEN "cancelled"
    ELSE IF completion = "interrupted" /\ (~hasRuntime \/ runtime.shutdown \/ restart)
         THEN "interrupted"
    ELSE IF \/ completion = "failed"
            \/ hasRuntime /\ (runtime.failed \/ runtime.timedOut \/ runtime.shutdown)
         THEN "failed"
    ELSE completion

\* I/O faults a finalization may meet: the slot file cannot be unlinked
\* (logged, never retried), or the JSONL append throws, before or after the line
\* is in the file (retried by a later get or by recovery).
AppendFaults == {"append", "appended"}
Faults == {"none"} \cup (IF faults < MaxFaults THEN {"release"} \cup AppendFaults ELSE {})

(***************************************************************************)
(* recordTerminal(record, runtime, completion, error).  "r" is the record  *)
(* and "runtime" the RuntimeTask as the handler left them; "before" and    *)
(* "after" are what the same handler still does around the call.  The slot *)
(* is released first, then the terminal record is written, then the audit  *)
(* line, then the record again.                                            *)
(***************************************************************************)
RecordTerminal(t, r, hasRuntime, runtime, completion, restart, before, after) ==
    IF hasRuntime /\ runtime.finalized
    THEN /\ mem' = [mem EXCEPT ![t] = r]
         /\ todo' = before \o after
         /\ UNCHANGED <<slot, rt, faults>>
    ELSE \E fault \in Faults :
         LET status == IF IsTerminal(r) THEN r.status
                       ELSE Outcome(r, hasRuntime, runtime, completion, restart)
             final == [r EXCEPT !.status = status,
                                !.recorded = fault \notin AppendFaults \/ Audited(t, status)]
         IN /\ mem' = [mem EXCEPT ![t] = final]
            /\ slot' = IF slot = t /\ fault # "release" THEN Nobody ELSE slot
            /\ todo' = before \o AuditOps(t, final, fault # "append") \o after
            /\ rt' = IF hasRuntime THEN [runtime EXCEPT !.finalized = TRUE] ELSE rt
            /\ faults' = IF fault = "none" THEN faults ELSE faults + 1

-----------------------------------------------------------------------------
(* The rest of the running handler, one durable write at a time *)

WriteTask ==
    /\ todo # <<>> /\ Head(todo).op = "write"
    /\ disk' = [disk EXCEPT ![Head(todo).task] = Head(todo).rec]
    /\ todo' = Tail(todo)
    /\ UNCHANGED <<log, slot, paused, queue, run, server, boot, collector, turns, budget>>

AppendLine ==
    /\ todo # <<>> /\ Head(todo).op = "append"
    /\ log' = [log EXCEPT ![Head(todo).task] = Append(@, Head(todo).status)]
    /\ todo' = Tail(todo)
    /\ UNCHANGED <<disk, slot, paused, queue, run, server, boot, collector, turns, budget>>

\* antigravityBackend.execute is called: the turn is handed to the provider.
ExecuteGemini ==
    /\ todo # <<>> /\ Head(todo).op = "execute"
    /\ turns' = [turns EXCEPT ![Head(todo).task] = @ + 1]
    /\ todo' = Tail(todo)
    /\ UNCHANGED <<durable, queue, run, server, boot, collector, budget>>

-----------------------------------------------------------------------------
(* Admission and the FIFO pump *)

\* submitUnderQueueLock: admission checks, one durable queued record, then the
\* synchronous pump; run_tests without a registered profile fails at once.
Submit(t) ==
    /\ Idle /\ "product" \notin paused
    /\ mem[t] = NoRecord /\ \A u \in 1 .. t - 1 : mem[u] # NoRecord
    /\ ReconciledSlot(mem) # Native
    /\ WriterBusy => Cardinality(Queued) < MaxQueueSize
    /\ LET r == [status |-> "queued", cancel |-> FALSE, recorded |-> FALSE]
       IN \/ /\ mem' = [mem EXCEPT ![t] = r]
             /\ pending' = pending \cup {t}
             /\ todo' = <<Write(t, r), Pump>>
             /\ slot' = ReconciledSlot(mem)
             /\ UNCHANGED <<rt, faults, pumpScheduled>>
          \/ /\ t \in Verified
             /\ RecordTerminal(t, r, FALSE, rt, "failed", FALSE, <<Write(t, r)>>, <<>>)
             /\ SchedulePump
             /\ UNCHANGED pending
    /\ UNCHANGED <<disk, log, paused, active, pc, server, boot, collector, turns, spent>>

\* Mutant: the collector is not looked at.
CanDispatchBesideCollector ==
    life = "up" /\ paused = {} /\ active = Nobody /\ slot # Native /\ Queued # {}

\* Mutant: a closed manager still dispatches.
CanDispatchWhenClosed ==
    paused = {} /\ ~collector /\ active = Nobody /\ slot # Native /\ Queued # {}

\* pump(): the guards that make it return without looking at the queue.
CanDispatch ==
    /\ life = "up" /\ paused = {} /\ ~collector /\ active = Nobody
    /\ slot # Native /\ Queued # {}

Replayable(t) == t \in pending \/ t \notin Unreplayable

\* runTask up to its first await (Codex), or executeGeminiTask up to its own:
\* reconcile and claim the slot, publish the runtime, write "running", create
\* the App Server client.
StartCodex(t, rest) ==
    LET r == [mem[t] EXCEPT !.status = "running"]
    IN /\ t \notin Gemini
       /\ slot' = t
       /\ active' = t /\ rt' = FreshRuntime /\ pc' = "spawn"
       /\ client' = t
       /\ mem' = [mem EXCEPT ![t] = r]
       /\ todo' = rest \o <<Write(t, r)>>
       /\ UNCHANGED <<exiting, turns, faults>>

\* Mutant: the turn is handed over before the running record is durable.
HandOverFirst(t, r) == <<Execute(t), Write(t, r)>>

\* The rest of executeGeminiTask up to its await.
HandOver(t, r) == <<Write(t, r), Execute(t)>>

\* executeGeminiTask publishes the runtime, and when cancellation was already
\* requested it finalizes and returns before the try/finally that clears it.
StartGemini(t, rest) ==
    LET r == [mem[t] EXCEPT !.status = "running"]
    IN /\ t \in Gemini
       /\ active' = t
       /\ UNCHANGED <<client, exiting, turns>>
       /\ IF mem[t].cancel
          THEN \E fault \in Faults :
               LET final == [r EXCEPT !.status = "cancelled",
                                      !.recorded = fault \notin AppendFaults]
               IN /\ pc' = "returned"
                  /\ rt' = [FreshRuntime EXCEPT !.finalized = TRUE]
                  /\ slot' = IF fault = "release" THEN t ELSE Nobody
                  /\ mem' = [mem EXCEPT ![t] = final]
                  /\ todo' = rest \o <<Write(t, r)>> \o AuditOps(t, final, fault # "append")
                  /\ faults' = IF fault = "none" THEN faults ELSE faults + 1
          ELSE /\ pc' = "gemini" /\ rt' = FreshRuntime
               /\ slot' = t
               /\ mem' = [mem EXCEPT ![t] = r]
               /\ todo' = rest \o HandOver(t, r)
               /\ UNCHANGED faults

\* pump() on the queue head: start it, fail it because its durable metadata is
\* not replayable (failQueuedTask, without another schedulePump), or fail it
\* because the slot file could not be created.
Dispatch(rest, scheduled) ==
    LET t == NextQueued IN
    \/ /\ Replayable(t)
       /\ StartCodex(t, rest) \/ StartGemini(t, rest)
       /\ pending' = pending \cup {t}
       /\ pumpScheduled' = (scheduled \/ pc' = "returned")
    \/ /\ Replayable(t) /\ faults < MaxFaults /\ faults' = faults + 1
       /\ mem' = [mem EXCEPT ![t].status = IF mem[t].cancel THEN "cancelled" ELSE "failed",
                             ![t].recorded = TRUE]
       /\ slot' = ReconciledSlot(mem')
       /\ todo' = rest \o AuditOps(t, mem'[t], TRUE)
       /\ pending' = pending \cup {t}
       /\ pumpScheduled' = TRUE
       /\ UNCHANGED <<run, client, exiting, turns>>
    \/ /\ ~Replayable(t)
       /\ RecordTerminal(t, mem[t], FALSE, rt, "failed", FALSE, rest, <<>>)
       /\ pending' = pending \ {t}
       /\ pumpScheduled' = scheduled
       /\ UNCHANGED <<run, client, exiting, turns>>

PumpBody(rest, scheduled) ==
    /\ \/ CanDispatch /\ Dispatch(rest, scheduled)
       \/ /\ ~CanDispatch
          /\ todo' = rest /\ pumpScheduled' = scheduled
          /\ UNCHANGED <<slot, mem, pending, run, client, exiting, turns, faults>>
    /\ UNCHANGED <<disk, log, paused, stops, boot, collector, spent>>

\* The synchronous call at the end of submit.
PumpNow ==
    /\ todo # <<>> /\ Head(todo).op = "pump"
    /\ PumpBody(Tail(todo), pumpScheduled)

\* The microtask queued by schedulePump.
PumpMicrotask ==
    /\ life \in {"up", "closed"} /\ todo = <<>> /\ pumpScheduled
    /\ PumpBody(<<>>, FALSE)

\* setQueuePaused.
SetPaused(p) ==
    /\ Idle /\ p # ("queue" \in paused)
    /\ IF p THEN /\ Happens("pause") /\ UNCHANGED pumpScheduled
                 /\ paused' = paused \cup {"queue"}
            ELSE /\ SchedulePump /\ UNCHANGED spent
                 /\ paused' = paused \ {"queue"}
    /\ UNCHANGED <<disk, log, slot, mem, pending, run, server, boot, collector, todo, turns, faults>>

\* setProductDispatchPaused writes the policy file that pump() reads, and nothing
\* else: resuming does not ask any task manager for a pump.
SetProductPaused(p) ==
    /\ Idle /\ p # ("product" \in paused)
    /\ IF p THEN Happens("product") /\ paused' = paused \cup {"product"}
            ELSE UNCHANGED spent /\ paused' = paused \ {"product"}
    /\ UNCHANGED <<disk, log, slot, queue, run, server, boot, collector, todo, turns, faults>>

-----------------------------------------------------------------------------
(* Other writers of the workspace *)

\* dispatchNative claims the slot only when nothing writes in this process;
\* NativeDispatch.tla models what follows the claim.
NativeAcquire ==
    /\ Idle /\ Happens("native")
    /\ paused = {} /\ active = Nobody /\ ~collector
    /\ ReconciledSlot(mem) = Nobody
    /\ slot' = Native
    /\ UNCHANGED <<disk, log, paused, queue, run, server, boot, collector, todo, turns, faults>>

\* observeNativeTask saw the upstream task terminal and released its slot.
NativeRelease ==
    /\ Alive /\ slot = Native
    /\ slot' = Nobody
    /\ SchedulePump
    /\ UNCHANGED <<disk, log, paused, mem, pending, run, server, boot, collector, todo, turns, budget>>

\* withIdleCollector, up to and after its awaited callback.
BeginCollect ==
    /\ Idle /\ Happens("collect")
    /\ ~collector /\ active = Nobody /\ ReconciledSlot(mem) = Nobody
    /\ collector' = TRUE
    /\ slot' = Nobody
    /\ UNCHANGED <<disk, log, paused, queue, run, server, boot, todo, turns, faults>>

EndCollect ==
    /\ Alive /\ collector
    /\ collector' = FALSE
    /\ SchedulePump
    /\ UNCHANGED <<durable, mem, pending, run, server, boot, todo, turns, budget>>

-----------------------------------------------------------------------------
(* stopRuntime and its callers *)

TurnKnown == pc \in {"running", "verify"}

\* stopRuntime up to its first await; "before" is what its caller wrote.
BeginStop(t, why, before, others) ==
    IF active # t \/ rt.finalized \/ t \in Gemini \/ client = Nobody
    THEN /\ todo' = before \o <<Stopped(t, why)>>
         /\ stops' = others
         /\ UNCHANGED <<client, exiting>>
    ELSE /\ todo' = before
         /\ IF pc = "verify" \/ ~TurnKnown
            THEN /\ CloseServer
                 /\ stops' = others \cup {[task |-> t, reason |-> why, stage |-> "closing"]}
            ELSE /\ stops' = others \cup {[task |-> t, reason |-> why, stage |-> "interrupt"]}
                 /\ UNCHANGED <<client, exiting>>

\* turn/interrupt was answered, timed out or was rejected.
InterruptAnswered(s) ==
    /\ Alive /\ s \in stops /\ s.stage = "interrupt"
    /\ IF active # s.task \/ rt.settled # "none"
       THEN stops' = stops \ {s} /\ todo' = <<Stopped(s.task, s.reason)>>
       ELSE stops' = (stops \ {s}) \cup {[s EXCEPT !.stage = "grace"]} /\ UNCHANGED todo
    /\ UNCHANGED <<durable, queue, run, client, exiting, boot, collector, turns, budget>>

\* The race of the completion with interruptGraceMs.
GraceOver(s) ==
    /\ Alive /\ s \in stops /\ s.stage = "grace"
    /\ IF active # s.task \/ rt.settled # "none" \/ client = Nobody
       THEN /\ stops' = stops \ {s} /\ todo' = <<Stopped(s.task, s.reason)>>
            /\ UNCHANGED <<client, exiting>>
       ELSE /\ CloseServer /\ UNCHANGED todo
            /\ stops' = (stops \ {s}) \cup {[s EXCEPT !.stage = "closing"]}
    /\ UNCHANGED <<durable, queue, run, boot, collector, turns, budget>>

\* The awaited closeAppServer of stopRuntime returned.
CloseAwaited(s) ==
    /\ Alive /\ s \in stops /\ s.stage = "closing" /\ s.task \notin exiting
    /\ stops' = stops \ {s} /\ todo' = <<Stopped(s.task, s.reason)>>
    /\ UNCHANGED <<durable, queue, run, client, exiting, boot, collector, turns, budget>>

ClientExit(t) ==
    /\ t \in exiting
    /\ exiting' = exiting \ {t}
    /\ UNCHANGED <<durable, queue, run, client, stops, boot, collector, todo, turns, budget>>

\* Mutant: the completion that runTask awaits is never resolved by a stop.
SettleNever(status, runtime) == runtime

\* resolveCompletion: the first settlement wins.
Settle(status, runtime) ==
    IF runtime.settled = "none" THEN [runtime EXCEPT !.settled = status] ELSE runtime

\* What the caller of stopRuntime does when it returns.  Cancel and shutdown
\* finalize and close whatever App Server is current; timeout and policy only
\* resolve the completion runTask awaits.
StopReturns ==
    /\ todo # <<>> /\ Head(todo).op = "stopped"
    /\ LET t == Head(todo).task
           why == Head(todo).reason
           status == CASE why = "cancel" -> "cancelled"
                       [] why = "shutdown" -> "interrupted"
                       [] OTHER -> "failed"
           settled == Settle(status, rt)
       IN IF why \in {"timeout", "policy"}
          THEN /\ rt' = IF active = t THEN settled ELSE rt
               /\ todo' = Tail(todo)
               /\ UNCHANGED <<mem, slot, faults, client, exiting>>
          ELSE /\ CloseServer
               /\ IF active = t
                  THEN RecordTerminal(t, mem[t], TRUE, settled, status,
                                      why = "shutdown", <<>>, Tail(todo))
                  ELSE todo' = Tail(todo) /\ UNCHANGED <<mem, slot, rt, faults>>
    /\ UNCHANGED <<disk, log, paused, pending, pumpScheduled, active, pc, stops,
                   boot, collector, turns, spent>>

\* cancel() from the point where it looks at the status; "r" carries
\* cancelRequestedAt.  A queued task is finalized, a running one is stopped.
CancelRecord(t, r, others) ==
    IF r.status = "queued"
    THEN /\ pending' = pending \ {t}
         /\ RecordTerminal(t, r, FALSE, rt, "cancelled", FALSE, <<>>, <<>>)
         /\ SchedulePump
         /\ stops' = others
         /\ UNCHANGED <<client, exiting>>
    ELSE LET c == [r EXCEPT !.status = "cancelling"]
         IN /\ IF active = t
               THEN /\ mem' = [mem EXCEPT ![t] = c]
                    /\ BeginStop(t, "cancel", <<Write(t, c)>>, others)
                    /\ UNCHANGED <<slot, rt, faults>>
               ELSE /\ RecordTerminal(t, c, FALSE, rt, "cancelled", FALSE, <<Write(t, c)>>, <<>>)
                    /\ stops' = others
                    /\ UNCHANGED <<client, exiting>>
            /\ UNCHANGED <<pending, pumpScheduled>>

Calling(t) == \E s \in stops : s.task = t /\ s.reason = "cancel"

\* Mutant: a terminal task is cancelled like any other.
CancelAnyRecord(t) ==
    /\ Idle /\ mem[t] # NoRecord /\ ~Calling(t) /\ Happens("cancel")
    /\ CancelRecord(t, [mem[t] EXCEPT !.cancel = TRUE], stops)
    /\ UNCHANGED <<disk, log, paused, active, pc, boot, collector, turns>>

\* cancel(taskId).  For a Gemini task the backend is asked first, across an
\* await.  At most one cancel() per task is in flight (a bound of the model).
Cancel(t) ==
    /\ Idle /\ Live(mem[t]) /\ ~Calling(t) /\ Happens("cancel")
    /\ LET r == [mem[t] EXCEPT !.cancel = TRUE]
       IN IF t \in Gemini
          THEN /\ mem' = [mem EXCEPT ![t] = r]
               /\ stops' = stops \cup {[task |-> t, reason |-> "cancel", stage |-> "called"]}
               /\ UNCHANGED <<slot, pending, pumpScheduled, rt, client, exiting, todo, faults>>
          ELSE CancelRecord(t, r, stops)
    /\ UNCHANGED <<disk, log, paused, active, pc, boot, collector, turns>>

\* The await of antigravityBackend.cancel in cancel() returned.
CancelResumes(s) ==
    /\ life = "up" /\ todo = <<>> /\ s \in stops /\ s.stage = "called"
    /\ CancelRecord(s.task, mem[s.task], stops \ {s})
    /\ UNCHANGED <<disk, log, paused, active, pc, boot, collector, turns, spent>>

\* timeoutTask: the timer of the run fires.
TimeoutTask ==
    /\ Alive /\ active # Nobody
    /\ pc \in {"spawn", "thread", "turn", "running", "verify", "gemini", "catch", "caught"}
    /\ ~rt.finalized /\ ~mem[active].cancel /\ ~rt.timedOut
    /\ rt' = [rt EXCEPT !.timedOut = TRUE]
    /\ BeginStop(active, "timeout", <<>>, stops)
    /\ UNCHANGED <<durable, queue, active, pc, boot, collector, turns, budget>>

\* abortForPolicyViolation, abortForApprovalDenial: an event of the turn shows
\* a write outside the scope, or an approval is declined.
PolicyAbort ==
    /\ Alive /\ pc \in {"turn", "running"} /\ client = active
    /\ ~rt.finalized /\ ~mem[active].cancel /\ ~rt.failed /\ Happens("policy")
    /\ rt' = [rt EXCEPT !.failed = TRUE]
    /\ BeginStop(active, "policy", <<>>, stops)
    /\ UNCHANGED <<durable, queue, active, pc, boot, collector, turns, faults>>

\* performClose: no more dispatch; a live run is asked to stop.
Close ==
    /\ Idle /\ Happens("close")
    /\ life' = "closed"
    /\ IF active # Nobody /\ Live(mem[active])
       THEN LET r == [mem[active] EXCEPT !.status = "cancelling"]
            IN /\ rt' = [rt EXCEPT !.shutdown = TRUE]
               /\ mem' = [mem EXCEPT ![active] = r]
               /\ BeginStop(active, "shutdown", <<Write(active, r)>>, stops)
       ELSE CloseServer /\ UNCHANGED <<rt, mem, stops, todo>>
    /\ UNCHANGED <<durable, pending, pumpScheduled, active, pc, unloaded, collector, turns, faults>>

-----------------------------------------------------------------------------
(* runTask after its awaits *)

Cancelled == mem[active].cancel
ShuttingDown == ~Cancelled /\ (life = "closed" \/ rt.shutdown)

\* A pending request is answered by the App Server it was sent to; an answer
\* that was delivered just before cancel() or close() still resumes the run.
Answered == client = active \/ Cancelled \/ life = "closed"

\* The finally block: closeAppServer is awaited (only by whoever closes it).
EnterFinally ==
    /\ CloseServer
    /\ pc' = IF client = Nobody THEN "unwound" ELSE "unwind"

\* The completion with which a run that was cancelled or shut down is finalized.
StopRequested == Cancelled \/ life = "closed"
StopCompletion == IF ShuttingDown THEN "interrupted" ELSE "cancelled"
Interrupted(restart) == IF restart THEN [rt EXCEPT !.shutdown = TRUE] ELSE rt

\* The checks after getAppServer, thread/start and turn/start.
AbandonRun ==
    /\ RecordTerminal(active, mem[active], TRUE, Interrupted(ShuttingDown),
                      StopCompletion, ShuttingDown, <<>>, <<>>)
    /\ EnterFinally
    /\ UNCHANGED turns

\* One of the three awaited requests of runTask succeeded.  turn/start is sent
\* right after the thread is known.
RequestAnswered(step, next) ==
    /\ Alive /\ pc = step /\ Answered
    /\ IF StopRequested
       THEN AbandonRun
       ELSE /\ pc' = next
            /\ turns' = IF next = "turn" THEN [turns EXCEPT ![active] = @ + 1] ELSE turns
            /\ UNCHANGED <<mem, slot, rt, faults, client, exiting, todo>>
    /\ UNCHANGED <<disk, log, paused, pending, pumpScheduled, active, stops, boot, collector, spent>>

\* A request was rejected: the catch block of runTask up to its await.
RequestFails ==
    /\ Alive /\ pc \in {"spawn", "thread", "turn"}
    /\ IF rt.finalized
       THEN EnterFinally /\ UNCHANGED rt
       ELSE LET end == IF ShuttingDown THEN "interrupted"
                       ELSE IF Cancelled THEN "cancelled" ELSE "failed"
            IN /\ rt' = Settle(end, [rt EXCEPT !.end = end,
                          !.failed = @ \/ (end = "failed" /\ ~rt.timedOut)])
               /\ CloseServer
               /\ pc' = IF client = Nobody THEN "caught" ELSE "catch"
    /\ UNCHANGED <<durable, queue, active, stops, boot, collector, todo, turns, budget>>

\* closeAppServer of the catch block returned: finalize with what was computed
\* before the await.
CatchFinalizes ==
    /\ Alive
    /\ pc = "caught" \/ (pc = "catch" /\ active \notin exiting)
    /\ RecordTerminal(active, mem[active], TRUE, rt, rt.end,
                      rt.end = "interrupted", <<>>, <<>>)
    /\ EnterFinally
    /\ UNCHANGED <<disk, log, paused, pending, pumpScheduled, active, stops, boot,
                   collector, turns, spent>>

\* handleNotification: turn/completed or a fatal error of the current turn.
TurnCompleted(status) ==
    /\ Alive /\ pc \in {"turn", "running"} /\ client = active
    /\ ~rt.finalized /\ rt.settled = "none"
    /\ rt' = [rt EXCEPT !.settled = status, !.failed = @ \/ status = "failed"]
    /\ UNCHANGED <<durable, queue, active, pc, server, boot, collector, todo, turns, budget>>

\* runTask resumes from "await runtime.completion": run the verification, or
\* finalize.
RunResumes ==
    /\ Alive /\ pc = "running" /\ rt.settled # "none"
    /\ LET end == IF ShuttingDown THEN "interrupted" ELSE rt.settled
       IN IF /\ end = "completed" /\ ~rt.finalized /\ ~rt.failed
             /\ active \in Verified /\ ~Cancelled
          THEN /\ pc' = "verify"
               /\ rt' = [rt EXCEPT !.end = end]
               /\ UNCHANGED <<mem, slot, faults, client, exiting, todo>>
          ELSE /\ RecordTerminal(active, mem[active], TRUE, rt, end, ShuttingDown, <<>>, <<>>)
               /\ EnterFinally
    /\ UNCHANGED <<disk, log, paused, pending, pumpScheduled, active, stops, boot,
                   collector, turns, spent>>

\* runVerification returned.  Its result counts only when nobody asked the run
\* to stop; the completion is the one computed before the verification.
VerifyEnds(passed) ==
    /\ Alive /\ pc = "verify"
    /\ passed => Answered
    /\ LET void == StopRequested \/ rt.timedOut
           after == [rt EXCEPT !.failed = @ \/ (~passed /\ ~void)]
       IN RecordTerminal(active, mem[active], TRUE, after, rt.end, FALSE, <<>>, <<>>)
    /\ EnterFinally
    /\ UNCHANGED <<disk, log, paused, pending, pumpScheduled, active, stops, boot,
                   collector, turns, spent>>

\* executeGeminiTask resumes from antigravityBackend.execute.
GeminiEnds(status) ==
    /\ Alive /\ pc = "gemini"
    /\ LET end == IF ShuttingDown THEN "interrupted"
                  ELSE IF Cancelled THEN "cancelled" ELSE status
       IN RecordTerminal(active, mem[active], TRUE, Interrupted(ShuttingDown),
                         end, ShuttingDown, <<>>, <<>>)
    /\ EnterFinally
    /\ UNCHANGED <<disk, log, paused, pending, pumpScheduled, active, stops, boot,
                   collector, turns, spent>>

\* The end of the finally block.  When it is reached the App Server of the run
\* is closed, so a turn/interrupt was rejected and a grace race is over: those
\* continuations are microtasks and have run.
Retire ==
    /\ Alive
    /\ pc = "unwound" \/ (pc = "unwind" /\ active \notin exiting)
    /\ ~ \E s \in stops : s.task = active /\ s.stage \in {"interrupt", "grace"}
    /\ active' = Nobody /\ pc' = "none" /\ rt' = FreshRuntime
    /\ SchedulePump
    /\ UNCHANGED <<durable, mem, pending, server, boot, collector, todo, turns, budget>>

\* getRecord of a terminal task whose audit line is missing retries it.
Get(t) ==
    /\ Idle /\ IsTerminal(mem[t]) /\ ~mem[t].recorded
    /\ LET r == [mem[t] EXCEPT !.recorded = TRUE]
       IN mem' = [mem EXCEPT ![t] = r] /\ todo' = AuditOps(t, r, TRUE)
    /\ UNCHANGED <<durable, pending, pumpScheduled, run, server, boot, collector, turns, budget>>

-----------------------------------------------------------------------------
(* Process death and recovery *)

Die ==
    /\ life' = "down" /\ unloaded' = {}
    /\ mem' = [t \in Tasks |-> NoRecord]
    /\ pending' = {} /\ pumpScheduled' = FALSE /\ collector' = FALSE
    /\ active' = Nobody /\ rt' = FreshRuntime /\ pc' = "none"
    /\ client' = Nobody /\ exiting' = {} /\ stops' = {}
    /\ todo' = <<>>
    /\ UNCHANGED <<durable, turns, faults>>

Crash == life # "down" /\ Happens("crash") /\ Die

\* The bridge process ends after taskManagers.close() returned.
Exit ==
    /\ life = "closed" /\ todo = <<>>
    /\ ~ \E s \in stops : s.reason = "shutdown"
    /\ Die /\ UNCHANGED budget

\* The constructor reads every task file before it repairs any of them.
Boot ==
    /\ life = "down"
    /\ life' = "recovering"
    /\ mem' = disk
    /\ unloaded' = {t \in Tasks : disk[t] # NoRecord}
    /\ UNCHANGED <<durable, pending, pumpScheduled, run, server, collector, todo, turns, budget>>

\* reconcileTaskFromExecution applies to a live record with an audit line.
LineOf(t) == log[t][Len(log[t])]

\* Mutant: recovery does not know the status "cancelling".
ReplayedOrCancelling(r) == r.status = "cancelling" \/ (r.status = "queued" /\ ~r.cancel)

\* A queued record is left to the pump; other live records are interrupted.
Replayed(r) == r.status = "queued" /\ ~r.cancel

\* One iteration of the repair loop of loadTasks, in directory order.
LoadTask(t) ==
    /\ life = "recovering" /\ todo = <<>> /\ t \in unloaded
    /\ unloaded' = unloaded \ {t}
    /\ LET r == mem[t]
           repaired == [status |-> LineOf(t), recorded |-> TRUE,
                        cancel |-> r.cancel \/ LineOf(t) = "cancelled"]
       IN IF IsTerminal(r)
          THEN /\ mem' = [mem EXCEPT ![t].recorded = TRUE]
               /\ todo' = IF r.recorded /\ Audited(t, r.status) THEN <<>>
                          ELSE AuditOps(t, mem'[t], TRUE)
               /\ UNCHANGED <<slot, rt, faults>>
          ELSE IF log[t] # <<>>
          THEN /\ mem' = [mem EXCEPT ![t] = repaired]
               /\ todo' = <<Write(t, repaired)>>
               /\ slot' = IF slot = t THEN Nobody ELSE slot
               /\ UNCHANGED <<rt, faults>>
          ELSE IF Replayed(r)
          THEN UNCHANGED <<mem, slot, rt, faults, todo>>
          ELSE RecordTerminal(t, r, FALSE, rt,
                 IF r.status = "queued" THEN "cancelled" ELSE "interrupted",
                 TRUE, <<>>, <<>>)
    /\ UNCHANGED <<disk, log, paused, pending, pumpScheduled, active, pc, server, life,
                   collector, turns, spent>>

\* The rest of the constructor: reconcile the slot, schedule the first pump.
FinishBoot ==
    /\ life = "recovering" /\ unloaded = {} /\ todo = <<>>
    /\ life' = "up"
    /\ slot' = ReconciledSlot(mem)
    /\ pumpScheduled' = TRUE
    /\ UNCHANGED <<disk, log, paused, mem, pending, run, server, unloaded, collector,
                   todo, turns, budget>>

-----------------------------------------------------------------------------

RunStep ==
    \/ RequestAnswered("spawn", "thread")
    \/ RequestAnswered("thread", "turn")
    \/ RequestAnswered("turn", "running")
    \/ RequestFails
    \/ CatchFinalizes
    \/ RunResumes
    \/ \E passed \in BOOLEAN : VerifyEnds(passed)
    \/ \E status \in {"completed", "failed"} : GeminiEnds(status)
    \/ Retire

StopStep ==
    \/ \E s \in stops : InterruptAnswered(s) \/ GraceOver(s) \/ CloseAwaited(s)
                        \/ CancelResumes(s)
    \/ \E t \in Tasks : ClientExit(t)

RecoveryStep == Boot \/ (\E t \in Tasks : LoadTask(t)) \/ FinishBoot

HandlerStep == WriteTask \/ AppendLine \/ ExecuteGemini \/ PumpNow \/ StopReturns

Environment ==
    \/ \E t \in Tasks : Submit(t) \/ Cancel(t) \/ Get(t)
    \/ \E p \in BOOLEAN : SetPaused(p) \/ SetProductPaused(p)
    \/ \E status \in {"completed", "failed", "interrupted"} : TurnCompleted(status)
    \/ PolicyAbort \/ NativeAcquire \/ NativeRelease \/ BeginCollect
    \/ Close \/ Crash

Next ==
    \/ HandlerStep \/ PumpMicrotask \/ RunStep \/ StopStep \/ RecoveryStep
    \/ TimeoutTask \/ EndCollect \/ Exit \/ Environment

Spec == Init /\ [][Next]_vars

\* The event loop runs every continuation that is ready, the timer of a run is
\* armed, and the service supervisor starts the bridge again when it is down.
\* Clients, operators and the upstream services owe nothing.
Fairness ==
    /\ WF_vars(HandlerStep) /\ WF_vars(PumpMicrotask) /\ WF_vars(RunStep)
    /\ WF_vars(StopStep) /\ WF_vars(RecoveryStep) /\ WF_vars(TimeoutTask)
    /\ WF_vars(EndCollect) /\ WF_vars(Exit)

FairSpec == Spec /\ Fairness

-----------------------------------------------------------------------------
(* Properties *)

\* Writer exclusion (slot.ts, dispatchNative, withIdleCollector, pump): a run
\* that is not finalized holds the durable slot, so no native task has it, and
\* the audit collector works only while nobody holds the slot.
LiveRunHoldsSlot == active # Nobody /\ ~rt.finalized => slot = active
CollectorAlone == collector => active = Nobody /\ slot = Nobody
WriterExclusion == LiveRunHoldsSlot /\ CollectorAlone

\* The audit log against the task registry (ensureExecutionRecord, loadTasks):
\* whatever crashes and append failures happen between the writes, a Codex task has
\* at most one audit line, which says what its record says. A Gemini task may leave
\* that only for a cancellation recorded after its end (cancel, tasks.ts:2190).
AuditTruth ==
    \A t \in Tasks : log[t] # <<>> =>
        /\ t \notin Gemini => Len(log[t]) = 1 /\ disk[t].status = LineOf(t)
        /\ disk[t].status # LineOf(t) => LineOf(t) = "cancelled"

\* A cancellation that reached the disk wins (recordTerminal, loadTasks): the
\* task never ends completed, failed or interrupted, restarts included.
CancelWins ==
    \A t \in Tasks : /\ disk[t].cancel /\ IsTerminal(disk[t]) => disk[t].status = "cancelled"
                     /\ mem[t].cancel /\ IsTerminal(mem[t]) => mem[t].status = "cancelled"

\* A run whose timer fired or that violated its policy is not reported as
\* completed, however the turn itself ended (timeoutTask, abortForPolicyViolation).
StoppedRunNotCompleted ==
    active # Nobody /\ rt.finalized /\ (rt.timedOut \/ rt.failed)
        => mem[active].status # "completed"

\* No provider turn is sent twice for a task, not even across crashes, and a
\* task whose turn was sent is never queued again (runTask, loadTasks).
AtMostOneTurn ==
    \A t \in Tasks : turns[t] <= 1 /\ (turns[t] = 1 => disk[t].status # "queued")

\* FIFO across restarts, pauses and native reservations (pump, queuePosition):
\* no turn is sent for a task while an older task still waits in the queue.
FifoOrder ==
    \A t, u \in Tasks : t < u /\ turns[u] > 0 => disk[t].status # "queued"

\* A terminal record that no later write replaces: every one but the 'cancelled' of
\* a Gemini task, which cancel() may have written over the end of its run.
Final(t, r) == IsTerminal(r) /\ (r.status = "cancelled" => t \notin Gemini)

\* The final lifecycle decision is taken once (recordTerminal): a terminal status is
\* never replaced, by no late completion, cancel, timeout, crash or recovery.
TerminalIsFinal ==
    [][\A t \in Tasks : Final(t, disk[t]) => disk'[t].status = disk[t].status]_vars

\* src/mcp/server.ts:1453: cancellation terminates the App Server child only if
\* the interrupt cannot be delivered.  A run that nobody asked to stop keeps the
\* App Server it created until it closes it itself.
OwnServer ==
    pc \in {"spawn", "thread", "turn", "running"} /\ life = "up" /\ ~rt.finalized
        /\ ~mem[active].cancel /\ ~rt.timedOut /\ ~rt.failed
        => client = active

\* Queued work is not cancelled by a controlled shutdown (performClose): between
\* close() and the end of the process no queued record changes.
QueueSurvivesShutdown ==
    [][\A t \in Tasks : life = "closed" /\ disk[t].status = "queued"
        => disk'[t] = disk[t]]_vars

\* executeGeminiTask returned early and kept the active set (tasks.ts:3478,
\* 3493-3508): the writer position is taken by a run that does not exist.
Stranded == pc = "returned"

\* pump failed an unreplayable head and scheduled no other pump (tasks.ts:2511-2516):
\* the queue stands until another call asks for the pump.
HeadDropped ==
    /\ life = "up" /\ active = Nobody /\ ~pumpScheduled /\ Queued # {}
    /\ \E t \in Unreplayable : t < NextQueued /\ mem[t].status = "failed"

\* Every run leaves the writer position: its timer, the bounded interrupt and the
\* bounded close see to it (timeoutTask, stopRuntime, runTask's finally). The one
\* run that does not is the Gemini task whose cancellation outran its dispatch.
RunsEnd == \A t \in Tasks : active = t ~> active # t \/ Stranded

\* Queued work is replayed by the FIFO pump, restarts included (loadTasks,
\* schedulePump), whatever fault the slot file met, unless the queue stays paused,
\* a native task stays unresolved, or one of the two stalls above is never relieved.
QueueDrains ==
    \/ <>[](paused # {})
    \/ <>[](slot = Native)
    \/ <>[]Stranded
    \/ <>[]HeadDropped
    \/ \A t \in Tasks : disk[t].status = "queued" ~> disk[t].status # "queued"

\* A cancellation that was accepted ends in a terminal record (cancel, loadTasks),
\* but for the Gemini task whose cancellation stranded its own run: its record
\* stays 'cancelling' until the process ends.
CancelConverges ==
    \A t \in Tasks : (disk[t].cancel /\ Live(disk[t]))
        ~> (IsTerminal(disk[t]) \/ (Stranded /\ active = t))
=============================================================================
