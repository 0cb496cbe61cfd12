---------------------------- MODULE Orchestrator ----------------------------
(***************************************************************************)
(* The plan orchestrator of src/src/execution/orchestrator-core.ts on the  *)
(* codex lane of the task manager (src/src/execution/tasks.ts).            *)
(*                                                                         *)
(* A run is one durable record.  A call loads it, works on its copy in     *)
(* memory, saves the copy and may await between two saves: "op" holds the  *)
(* calls in progress, each with its copy and the place where it stands.    *)
(* At a Sync place the call has not yielded to the event loop, and only    *)
(* the end of the process can come between; at an Await place anything of  *)
(* the same process can.  The task manager is reduced to what the run can  *)
(* tell apart: durable and in-memory task records and the one active task. *)
(* TaskManager.tla has its detail.                                         *)
(***************************************************************************)
EXTENDS Integers, Sequences, FiniteSets

CONSTANTS
    Runs,           \* run ids of the workspace; all belong to one owner
    Calls,          \* bound: calls that can be in progress together
    Steps,          \* number of steps of a plan
    MaxAttempts,    \* bound: attempts per step
    MaxTasks,       \* bound: tasks the manager admits
    Events,         \* the kinds of disturbance an instance considers
    MaxEvents,      \* bound: how many of them happen
    MaxFaults       \* bound: outages, refusals and failed saves

Tasks == 1 .. MaxTasks

ASSUME RunsAssumption == IsFiniteSet(Runs) /\ Calls # {}
ASSUME BoundsAssumption ==
    /\ Steps \in Nat \ {0} /\ MaxAttempts \in Nat \ {0} /\ MaxTasks \in Nat
    /\ MaxEvents \in Nat /\ MaxFaults \in Nat
ASSUME EventsAssumption ==
    Events \subseteq {"crash", "pause", "product", "revoke", "cancel"}

Nobody == 0

Terminal == {"completed", "failed", "cancelled", "interrupted"}
Status == {"queued", "running", "cancelling"} \cup Terminal
Live(s) == s \in Status \ Terminal

RunState == {"IDLE", "DISPATCHED", "RUNNING", "WAITING_AUDIT",
             "COMPLETE", "BLOCKED", "FAIL"}
Closed == {"COMPLETE", "BLOCKED", "FAIL"}
Verdict == {"PASS", "REWORK", "BLOCKED"}

\* The orchestratorKey of an admission and the id of its audit.
Key == [run: Runs, step: 0 .. Steps - 1, attempt: 1 .. MaxAttempts]
NoKey == [run |-> Nobody, step |-> 0, attempt |-> 0]

Audit == [step: 0 .. Steps - 1, attempt: 1 .. MaxAttempts, task: Tasks,
          blocked: BOOLEAN, claimed: BOOLEAN, verdict: Verdict \cup {"none"}]

\* OrchestratorRun; "resolved" is present exactly from DISPATCHED on.
Run == [state: RunState, paused: BOOLEAN, step: 0 .. Steps,
        attempt: 1 .. MaxAttempts, task: Tasks \cup {Nobody}, audits: Seq(Audit)]
FreshRun == [state |-> "IDLE", paused |-> FALSE, step |-> 0, attempt |-> 1,
             task |-> Nobody, audits |-> <<>>]
NoRun == [state |-> "none", paused |-> FALSE, step |-> 0, attempt |-> 1,
          task |-> Nobody, audits |-> <<>>]

Sync == {"next", "advance", "submit", "pump"}
Await == {"resolve", "bind", "view", "evidence"}
Op == [at: Sync \cup Await, run: Runs \cup {Nobody}, work: Run \cup {NoRun},
       seen: Status \cup {"absent"}, rest: SUBSET Runs]
NoOp == [at |-> "idle"]

VARIABLES
    runs,           \* run id -> <run>.json
    disk,           \* task id -> status of c2c_*.json
    key,            \* task id -> orchestratorKey of that record
    productPaused,  \* dispatch-policy.json
    authorized,     \* the owner's continuation grant
    up,             \* the process is running
    op,             \* calls in progress, behind writer.lock and "busy"
    mem,            \* task id -> status of the record in this.tasks
    active,         \* task of this.active
    attached,       \* this.tasks holds the record object of this.active
    pumpDue,        \* a scheduled pump
    spent,          \* events used of MaxEvents
    faults          \* faults used of MaxFaults

world  == <<productPaused, authorized>>
lane   == <<disk, key, mem, active, attached, pumpDue>>
budget == <<spent, faults>>
vars   == <<runs, op, up, world, lane, budget>>

TypeOK ==
    /\ runs \in [Runs -> Run \cup {NoRun}]
    /\ disk \in [Tasks -> Status \cup {"absent"}]
    /\ key \in [Tasks -> Key \cup {NoKey}]
    /\ productPaused \in BOOLEAN /\ authorized \in BOOLEAN /\ up \in BOOLEAN
    /\ op \in [Calls -> Op \cup {NoOp}]
    /\ mem \in [Tasks -> Status \cup {"absent"}]
    /\ active \in Tasks \cup {Nobody}
    /\ attached \in BOOLEAN /\ pumpDue \in BOOLEAN
    /\ spent \in 0 .. MaxEvents /\ faults \in 0 .. MaxFaults

Init ==
    /\ runs = [r \in Runs |-> NoRun]
    /\ disk = [t \in Tasks |-> "absent"]
    /\ key = [t \in Tasks |-> NoKey]
    /\ productPaused = FALSE /\ authorized = TRUE /\ up = TRUE
    /\ op = [c \in Calls |-> NoOp]
    /\ mem = [t \in Tasks |-> "absent"]
    /\ active = Nobody /\ attached = TRUE /\ pumpDue = FALSE
    /\ spent = 0 /\ faults = 0

-----------------------------------------------------------------------------
(* Helpers *)

Happens(kind) == kind \in Events /\ spent < MaxEvents /\ spent' = spent + 1
Fault == faults < MaxFaults /\ faults' = faults + 1

\* No handler stands between two awaits: the event loop can run another one.
Yielded == up /\ \A c \in Calls : op[c].at \notin Sync
\* The call c may go on.
Turn(c) == up /\ \A d \in Calls \ {c} : op[d].at \notin Sync

\* Mutant: a second call enters while the first one awaits.
NeverBusy == FALSE

\* this.busy and the file lock of locked(): they span the awaits.
Busy == \E c \in Calls : op[c] # NoOp

Call(at, r, work, rest) ==
    [at |-> at, run |-> r, work |-> work, seen |-> "absent", rest |-> rest]

\* The call returns or throws: recover() then goes on with its other files.
Done(o) == IF o.rest = {} THEN NoOp ELSE [o EXCEPT !.at = "next"]

\* The call c stands at o now.
Becomes(c, o) == op' = [op EXCEPT ![c] = o]

Save(r, w) == runs' = [runs EXCEPT ![r] = w]

KeyOf(r, w) == [run |-> r, step |-> w.step, attempt |-> w.attempt]

\* Mutant: submit looks for no earlier admission.
NoneAdmitted(k) == {}

\* The durable task record with this orchestratorKey.
Admitted(k) == {t \in Tasks : key[t] = k}

\* Mutant: deterministic evidence is not looked at.
NoBlockers(s) == FALSE

\* passBlockers: terminal status, error and verification of the task.
Blocked(s) == s # "completed"

\* Mutant: a task that is being cancelled counts as ended.
EndedOrEnding(s) == s \in Terminal \cup {"cancelling"}

Ended(s) == s \in Terminal

\* Mutant: a DISPATCHED run is left to its dispatcher.
NothingDueOrDispatched(w) == w.state \in Closed \cup {"WAITING_AUDIT", "DISPATCHED"}

NothingDue(w) == w.state \in Closed \cup {"WAITING_AUDIT"}

-----------------------------------------------------------------------------
(* The task manager *)

Queued == {t \in Tasks : mem[t] = "queued"}
NextQueued == CHOOSE t \in Queued : \A u \in Queued : t <= u
CanStart == ~productPaused /\ active = Nobody /\ Queued # {}

Begin(t) ==
    /\ mem' = [mem EXCEPT ![t] = "running"]
    /\ disk' = [disk EXCEPT ![t] = "running"]
    /\ active' = t /\ attached' = TRUE

SetStatus(t, s) ==
    /\ mem' = [mem EXCEPT ![t] = s]
    /\ disk' = [disk EXCEPT ![t] = s]
    /\ UNCHANGED <<active, attached>>

\* pump(): the oldest queued task starts, or fails when the owner's grant for
\* orchestrated work is gone.  "due" tells whether a pump stays scheduled.
PumpNow(due) ==
    /\ UNCHANGED key
    /\ \/ /\ CanStart /\ authorized
          /\ Begin(NextQueued) /\ pumpDue' = due
       \/ /\ CanStart /\ ~authorized
          /\ SetStatus(NextQueued, "failed") /\ pumpDue' = TRUE
       \/ ~CanStart /\ pumpDue' = due /\ UNCHANGED <<mem, disk, active, attached>>

Pump ==
    /\ Yielded /\ pumpDue
    /\ PumpNow(FALSE)
    /\ UNCHANGED <<runs, op, up, world, budget>>

\* The run of the active task finalizes its RuntimeTask's record.  When
\* this.tasks holds another copy, that copy only follows if cancel() is waiting
\* with it and comes first.
Finish ==
    /\ Yielded /\ active # Nobody
    /\ \E s \in Terminal :
        /\ attached /\ mem[active] = "cancelling" => s = "cancelled"
        /\ disk' = [disk EXCEPT ![active] = s]
        /\ \/ /\ attached \/ (mem[active] = "cancelling" /\ s = "cancelled")
              /\ mem' = [mem EXCEPT ![active] = s]
           \/ ~attached /\ mem' = mem
    /\ active' = Nobody /\ attached' = TRUE /\ pumpDue' = TRUE
    /\ UNCHANGED <<runs, op, up, key, world, budget>>

\* cancel(): a queued task ends, the active one is asked to stop, and a record
\* that is neither is ended in place.
Cancel(t) ==
    /\ Yielded /\ Happens("cancel") /\ Live(mem[t])
    /\ \/ /\ mem[t] = "queued"
          /\ SetStatus(t, "cancelled") /\ pumpDue' = TRUE
       \/ /\ mem[t] # "queued" /\ t = active
          /\ SetStatus(t, "cancelling") /\ pumpDue' = pumpDue
       \/ /\ mem[t] # "queued" /\ t # active
          /\ SetStatus(t, "cancelled") /\ pumpDue' = pumpDue
    /\ UNCHANGED <<runs, op, up, key, world, faults>>

-----------------------------------------------------------------------------
(* The calls of the orchestrator *)

\* create(): the plan was validated and resolved before the lock was taken.
Create(c, r) ==
    /\ Yielded /\ ~Busy /\ runs[r] = NoRun
    /\ Save(r, FreshRun)
    /\ Becomes(c, Call("advance", r, FreshRun, {}))
    /\ UNCHANGED <<up, world, lane, budget>>

\* pause() and resume().
SetPaused(c, r, p) ==
    /\ Yielded /\ ~Busy /\ runs[r] # NoRun /\ Happens("pause")
    /\ LET w == [runs[r] EXCEPT !.paused = p] IN
        /\ Save(r, w)
        /\ Becomes(c, Call("advance", r, w, {}))
    /\ UNCHANGED <<up, world, lane, faults>>

\* claim(): the tools pass the owner as the claimant.
Claim(r, i) ==
    /\ Yielded /\ ~Busy
    /\ runs[r].state = "WAITING_AUDIT" /\ runs[r].audits[i].verdict = "none"
    /\ ~runs[r].audits[i].claimed
    /\ Save(r, [runs[r] EXCEPT !.audits[i].claimed = TRUE])
    /\ UNCHANGED <<op, up, world, lane, budget>>

\* Mutant: the last step is looked for one step too far.
AfterTooFar(w, v) ==
    IF v = "PASS"
    THEN [w EXCEPT !.step = w.step + 1, !.attempt = 1, !.task = Nobody,
                   !.state = IF w.step > Steps THEN "COMPLETE" ELSE "IDLE"]
    ELSE [w EXCEPT !.attempt = w.attempt + 1, !.task = Nobody, !.state = "IDLE"]

\* The run after a verdict on its current attempt.
After(w, v) ==
    CASE v = "BLOCKED" -> [w EXCEPT !.state = "BLOCKED"]
      [] v = "REWORK" -> [w EXCEPT !.attempt = w.attempt + 1, !.task = Nobody,
                                   !.state = "IDLE"]
      [] v = "PASS" ->
           [w EXCEPT !.step = w.step + 1, !.attempt = 1, !.task = Nobody,
                     !.state = IF w.step + 1 = Steps THEN "COMPLETE" ELSE "IDLE"]

\* Decision and next intent are one save; the call then advances the run.
Decide(c, r, w, i, v) ==
    LET d == After([w EXCEPT !.audits[i].verdict = v], v) IN
        /\ Save(r, d)
        /\ Becomes(c, Call("advance", r, d, {}))

\* The undecided audit of the run's current task.
CurrentAudit(w) ==
    CHOOSE i \in DOMAIN w.audits :
        w.audits[i].task = w.task /\ w.audits[i].verdict = "none"

\* submitAudit() up to its await; a repeated verdict returns the run as it is.
SubmitAudit(c, r, i, v) ==
    LET w == runs[r] IN
    /\ Yielded /\ ~Busy
    /\ w.audits[i].claimed /\ w.audits[i].verdict = "none"
    /\ w.state = "WAITING_AUDIT" /\ w.audits[i].task = w.task
    /\ v = "REWORK" => w.attempt < MaxAttempts
    /\ \/ v # "PASS" /\ Decide(c, r, w, i, v)
       \/ /\ v = "PASS"
          /\ Becomes(c, [Call("evidence", r, w, {}) EXCEPT !.seen = mem[w.task]])
          /\ UNCHANGED runs
    /\ UNCHANGED <<up, world, lane, budget>>

\* PASS after the await: evidence at the audit or now vetoes it.
Evidence(c) ==
    LET o == op[c]
        i == CurrentAudit(o.work) IN
    /\ Turn(c) /\ o.at = "evidence"
    /\ \/ /\ ~o.work.audits[i].blocked /\ ~Blocked(o.seen)
          /\ Decide(c, o.run, o.work, i, "PASS")
       \/ /\ o.work.audits[i].blocked \/ Blocked(o.seen)
          /\ Becomes(c, Done(o))
          /\ UNCHANGED runs
    /\ UNCHANGED <<up, world, lane, budget>>

\* Mutant: a run whose task executes is left to the events of that task.
PersistedIdle == {r \in Runs : runs[r] # NoRun /\ runs[r].state # "RUNNING"}

Persisted == {r \in Runs : runs[r] # NoRun}

\* recover(): on the timer that runs while there are runs, and on every
\* lifecycle event of a task.
Recover(c) ==
    /\ Yielded /\ ~Busy /\ Persisted # {}
    /\ Becomes(c, Call("next", Nobody, NoRun, Persisted))
    /\ UNCHANGED <<runs, up, world, lane, budget>>

RecoverNext(c, r) ==
    /\ Turn(c) /\ op[c].at = "next" /\ r \in op[c].rest
    /\ Becomes(c, Call("advance", r, runs[r], op[c].rest \ {r}))
    /\ UNCHANGED <<runs, up, world, lane, budget>>

-----------------------------------------------------------------------------
(* advance() *)

\* Mutant: a paused run is dispatched.
MayDispatchPaused(w) == TRUE

MayDispatch(w) == ~w.paused

\* To the first await, or to submit when the selection is already resolved.
Advance(c) ==
    LET o == op[c]
        w == o.work
        Goto(at) == Becomes(c, [o EXCEPT !.at = at])
        Return == Becomes(c, Done(o)) IN
    /\ Turn(c) /\ o.at = "advance"
    /\ \/ NothingDue(w) /\ Return /\ UNCHANGED runs
       \/ /\ ~NothingDue(w) /\ w.task = Nobody
          /\ \/ ~MayDispatch(w) /\ Return /\ UNCHANGED runs
             \/ /\ MayDispatch(w) /\ ~authorized
                /\ Save(o.run, [w EXCEPT !.state = "BLOCKED"]) /\ Return
             \/ /\ MayDispatch(w) /\ authorized /\ w.state = "DISPATCHED"
                /\ Goto("submit") /\ UNCHANGED runs
             \/ /\ MayDispatch(w) /\ authorized /\ w.state # "DISPATCHED"
                /\ Goto("resolve") /\ UNCHANGED runs
       \/ /\ ~NothingDue(w) /\ w.task # Nobody
          /\ Becomes(c, [o EXCEPT !.at = "view", !.seen = mem[w.task]])
          /\ UNCHANGED runs
    /\ UNCHANGED <<up, world, lane, budget>>

\* resolveStep() answers: the intent is saved before the admission.
Resolved(c) ==
    LET o == op[c]
        w == [o.work EXCEPT !.state = "DISPATCHED"] IN
    /\ Turn(c) /\ o.at = "resolve"
    /\ Save(o.run, w)
    /\ Becomes(c, [o EXCEPT !.work = w, !.at = "submit"])
    /\ UNCHANGED <<up, world, lane, budget>>

\* The run ends as FAIL and the call returns.
Fail(c) ==
    /\ Save(op[c].run, [op[c].work EXCEPT !.state = "FAIL"])
    /\ Becomes(c, Done(op[c]))

\* resolveStep() finds the step defective.
Unresolvable(c) ==
    /\ Turn(c) /\ op[c].at = "resolve"
    /\ Fail(c)
    /\ UNCHANGED <<up, world, lane, budget>>

\* submit() of the task manager finds the admission of this attempt on disk
\* and puts that copy of the record into this.tasks.
SubmitAgain(c) ==
    LET o == op[c] IN
    /\ Turn(c) /\ o.at = "submit" /\ ~productPaused
    /\ \E t \in Admitted(KeyOf(o.run, o.work)) :
        /\ mem' = [mem EXCEPT ![t] = disk[t]]
        /\ attached' = (attached /\ active # t)
        /\ Becomes(c, [o EXCEPT !.work.task = t, !.at = "bind"])
    /\ UNCHANGED <<runs, up, disk, key, active, pumpDue, world, budget>>

\* submit() admits a new task: its record is durable before the pump runs.
SubmitNew(c) ==
    LET o == op[c]
        k == KeyOf(o.run, o.work) IN
    /\ Turn(c) /\ o.at = "submit" /\ ~productPaused /\ Admitted(k) = {}
    /\ \E t \in Tasks :
        /\ disk[t] = "absent" /\ \A u \in 1 .. t - 1 : disk[u] # "absent"
        /\ disk' = [disk EXCEPT ![t] = "queued"]
        /\ mem' = [mem EXCEPT ![t] = "queued"]
        /\ key' = [key EXCEPT ![t] = k]
        /\ Becomes(c, [o EXCEPT !.work.task = t, !.at = "pump"])
    /\ UNCHANGED <<runs, up, active, attached, pumpDue, world, budget>>

\* The rest of that submit(): the pump, or the end of a task without a usable
\* verification profile.
SubmitPump(c) ==
    /\ Turn(c) /\ op[c].at = "pump"
    /\ \/ PumpNow(pumpDue)
       \/ /\ SetStatus(op[c].work.task, "failed") /\ pumpDue' = TRUE
          /\ UNCHANGED key
    /\ Becomes(c, [op[c] EXCEPT !.at = "bind"])
    /\ UNCHANGED <<runs, up, world, budget>>

\* submit() throws a code that is not retried: product dispatch is paused, or
\* the task is not admissible (the step's policy was checked before the keys).
SubmitRejected(c) ==
    /\ Turn(c) /\ op[c].at = "submit"
    /\ \/ productPaused /\ UNCHANGED faults
       \/ ~productPaused /\ Fault
    /\ Fail(c)
    /\ UNCHANGED <<up, world, lane, spent>>

\* The call throws and leaves the durable run for a later recover(): the model
\* catalog is unavailable, submit() throws a retryable code, or a save fails.
Retry(c) ==
    /\ Turn(c) /\ op[c].at \in {"resolve", "submit", "bind", "view", "evidence"}
    /\ op[c].at = "submit" => ~productPaused
    /\ Fault
    /\ Becomes(c, Done(op[c]))
    /\ UNCHANGED <<runs, up, world, lane, spent>>

\* The task id is saved with the run, and lane.get is called.
Bind(c) ==
    LET o == op[c] IN
    /\ Turn(c) /\ o.at = "bind"
    /\ Save(o.run, o.work)
    /\ Becomes(c, [o EXCEPT !.at = "view", !.seen = mem[o.work.task]])
    /\ UNCHANGED <<up, world, lane, budget>>

\* audits.push unless the attempt has its audit, and WAITING_AUDIT.
WithAudit(w, s) ==
    LET a == [step |-> w.step, attempt |-> w.attempt, task |-> w.task,
              blocked |-> Blocked(s), claimed |-> FALSE, verdict |-> "none"]
        known == \E i \in DOMAIN w.audits :
                    w.audits[i].step = w.step /\ w.audits[i].attempt = w.attempt IN
    [w EXCEPT !.state = "WAITING_AUDIT",
              !.audits = IF known THEN w.audits ELSE Append(w.audits, a)]

\* lane.get has answered with the status read before the await.
Observe(c) ==
    LET o == op[c] IN
    /\ Turn(c) /\ o.at = "view"
    /\ \/ Ended(o.seen) /\ Save(o.run, WithAudit(o.work, o.seen))
       \/ /\ ~Ended(o.seen) /\ o.seen = "running" /\ o.work.state # "RUNNING"
          /\ Save(o.run, [o.work EXCEPT !.state = "RUNNING"])
       \/ /\ ~Ended(o.seen) /\ (o.seen # "running" \/ o.work.state = "RUNNING")
          /\ UNCHANGED runs
    /\ Becomes(c, Done(o))
    /\ UNCHANGED <<up, world, lane, budget>>

-----------------------------------------------------------------------------
(* The process and its surroundings *)

Crash ==
    /\ up /\ Happens("crash")
    /\ up' = FALSE
    /\ op' = [c \in Calls |-> NoOp]
    /\ mem' = [t \in Tasks |-> "absent"]
    /\ active' = Nobody /\ attached' = TRUE /\ pumpDue' = FALSE
    /\ UNCHANGED <<runs, disk, key, world, faults>>

\* What loadTasks makes of a record.
Repaired(s) ==
    CASE s = "running" -> "interrupted"
      [] s = "cancelling" -> "cancelled"
      [] OTHER -> s

Boot ==
    /\ ~up /\ up' = TRUE
    /\ disk' = [t \in Tasks |-> Repaired(disk[t])]
    /\ mem' = disk'
    /\ pumpDue' = TRUE
    /\ UNCHANGED <<runs, key, op, active, attached, world, budget>>

SetProductPaused(p) ==
    /\ productPaused # p /\ Happens("product")
    /\ productPaused' = p
    /\ UNCHANGED <<runs, op, up, authorized, lane, faults>>

SetAuthorized(a) ==
    /\ authorized # a /\ Happens("revoke")
    /\ authorized' = a
    /\ UNCHANGED <<runs, op, up, productPaused, lane, faults>>

-----------------------------------------------------------------------------

\* The steps of a call in progress.
Proceed(c) ==
    \/ \E r \in Runs : RecoverNext(c, r)
    \/ Advance(c) \/ Resolved(c) \/ Unresolvable(c)
    \/ SubmitAgain(c) \/ SubmitNew(c) \/ SubmitPump(c)
    \/ SubmitRejected(c) \/ Retry(c)
    \/ Bind(c) \/ Observe(c) \/ Evidence(c)

Next ==
    \/ \E c \in Calls, r \in Runs : Create(c, r)
    \/ \E c \in Calls, r \in Runs, p \in BOOLEAN : SetPaused(c, r, p)
    \/ \E r \in Runs : \E i \in DOMAIN runs[r].audits : Claim(r, i)
    \/ \E c \in Calls, r \in Runs, v \in Verdict :
         \E i \in DOMAIN runs[r].audits : SubmitAudit(c, r, i, v)
    \/ \E c \in Calls : Recover(c)
    \/ \E c \in Calls : Proceed(c)
    \/ Pump \/ Finish
    \/ \E t \in Tasks : Cancel(t)
    \/ Crash \/ Boot
    \/ \E b \in BOOLEAN : SetProductPaused(b)
    \/ \E b \in BOOLEAN : SetAuthorized(b)

Spec == Init /\ [][Next]_vars

\* The event loop runs what is due, the process is restarted, a task ends or
\* times out, and the recovery timer, which fires every second, does not find
\* the lock taken each time.
Fairness ==
    /\ \A c \in Calls : WF_vars(Proceed(c))
    /\ SF_vars(\E c \in Calls : Recover(c))
    /\ WF_vars(Pump) /\ WF_vars(Finish) /\ WF_vars(Boot)

FairSpec == Spec /\ Fairness

-----------------------------------------------------------------------------
(* Properties *)

\* However often an admission is interrupted, refused or retried, an attempt of
\* a step admits one task: the durable orchestratorKey is unique.
AtMostOneTask ==
    \A t, u \in Tasks : key[t] # NoKey /\ key[t] = key[u] => t = u

\* A run never has two tasks alive: a next attempt or step is admitted only
\* after the task before has ended durably.
NoTwoLive ==
    \A t, u \in Tasks :
        Live(disk[t]) /\ Live(disk[u]) /\ key[t].run = key[u].run => t = u

\* Every step a run has left behind was passed, and the task it was passed on
\* is durably completed.
PassNeedsEvidence ==
    \A r \in Runs : \A s \in 0 .. runs[r].step - 1 :
        \E i \in DOMAIN runs[r].audits :
            /\ runs[r].audits[i].step = s
            /\ runs[r].audits[i].verdict = "PASS"
            /\ disk[runs[r].audits[i].task] = "completed"

\* An audit decision is never lost or replaced by a call that works on an older
\* copy of the run.
VerdictIsFinal ==
    [][\A r \in Runs : \A i \in DOMAIN runs[r].audits :
         runs[r].audits[i].verdict # "none" =>
            i \in DOMAIN runs'[r].audits /\ runs'[r].audits[i] = runs[r].audits[i]]_vars

\* Once a pause of the run is durable, no task is admitted for it, even by a
\* call that was on its way when the pause was asked for.
PausePreventsDispatch ==
    [][\A t \in Tasks : disk[t] = "absent" /\ disk'[t] # "absent" =>
         ~runs[key'[t].run].paused]_vars

\* A run with a task the manager knows to have ended gets to its audit.
AuditFollows ==
    \A r \in Runs : \A t \in Tasks :
        (runs[r].task = t /\ Ended(mem[t]))
            ~> (runs[r].task # t \/ runs[r].state \in Closed \cup {"WAITING_AUDIT"})

\* A run that is due for dispatch gets a task, unless it is paused or ends.
RunProgresses ==
    \A r \in Runs :
        runs[r].state \in {"IDLE", "DISPATCHED"}
            ~> (runs[r].task # Nobody \/ runs[r].paused \/ runs[r].state \in Closed)

\* "Durable tasks are authoritative" (orchestrator-core.ts:376): a run whose
\* task has durably ended gets to its audit.
DurableAudit ==
    \A r \in Runs : \A t \in Tasks :
        (runs[r].task = t /\ disk[t] \in Terminal)
            ~> (runs[r].task # t \/ runs[r].state \in Closed \cup {"WAITING_AUDIT"})
=============================================================================
