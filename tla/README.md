# Verification of the C2C bridge

TLA+ modules, TLC configurations and TLAPS proofs for the bridge in `src/`: a
service that accepts coding tasks over MCP, runs them one at a time per
workspace through Codex, Antigravity (Gemini) or ZCode (z2c), and records what
happened. The modules are translated from the source; the paths below are
relative to `src/`.

## 1. Inventory

| Component | Files | State | Operations | Hard behaviour |
|---|---|---|---|---|
| Task manager | `src/execution/tasks.ts`, `slot.ts`, `queue-state.ts`, `records.ts` | task records (disk and memory), audit log, writer slot, pause record, the active run | submit, cancel, pump, runTask, timeoutTask, stopRuntime, recordTerminal, close, loadTasks | every await of a run races with cancel, timer, shutdown and the next run; a crash between any two durable writes |
| App Server client | `app-server.ts` | child process, pending requests | request, notification, close | close rejects pending requests at once, the child exits later |
| Antigravity backend | `antigravity.ts` | CLI process per task | execute, cancel | answer against cancel and timer |
| Native ZCode lane | `zcode-native.ts`, `dispatchNative` in `tasks.ts`, `slot.ts` | reservation in the writer slot, its dispatch evidence | dispatch, observe, reconcile, recover by key, by lane, by session | lost requests and answers, upstream timeouts, restarts of either side with an open reservation |
| z2c engine | `../z2c/src/core/tasks` | queue and tasks of a workspace, one JSON store, idempotency keys | admission gate, pump, run, cancel, pause, restart | a crash or a failed write between two writes of one step; keyed replay |
| z2c service and provider | `../z2c/src/service/sessions.ts`, `../z2c/src/providers/zcode/official.ts` | session bindings, journal of creates, ownership, waiters of turns | create, send, stop, resume | two sends on one session, stale-busy recovery, answers after their time |
| Orchestrator | `orchestrator-core.ts` | durable run: step, attempt, task id, audits | create, pause, claim, submitAudit, recover | crash between submission and save; re-admission by key |
| Continuation controller | `continuation*.ts` | approved plan, lease, nodes with their attempts | reconcile, review, dispatch, pause, cancel | reviews of files that change, lost reviews, approvals that end while a node is queued |
| ZCode session control | `zcode-session-client.ts`, `zcode-coordinator.ts`, `zcode-control.ts` | MCP connection and its generation; queue files, receipts, worker state | call, handshake, reset; enqueue, cancel, tick, stop | a late failure of a former connection; two bridges with one queue |
| State domain ownership | `bridge/state-owner.ts` | owner record, owner lock, start inventory | acquire, recover, assert, release | two bridges on one state directory, each access to a file a step of its own |
| State migration | `bridge/state-migration.ts` | auth files of all generations | merge before a start | old generations hold what was revoked |
| Authorisation and pairing | `auth/store.ts`, `auth/oauth.ts`, `pairing/manager.ts` | tokens per bridge generation, codes, pairing session | pair, authorise, exchange, refresh, revoke, revoke all | the hand-over of the store between generations; what is under way when all is revoked |
| Service supervisor | `supervisor/*.ts` | lock, component states, recovery attempts | acquire, bootstrap, tick, repair, drain, stop | two supervisors, repairs that outlive a stop |
| Bridge control plane | `bridge/server.ts`, `control-plane.ts` | diagnostic session bindings | binding, reconcile, shutdown | bridge, service and runtime die independently |
| Process control | `process/restart.ts`, `release.ts`, `deploy.ts`, `daemon.ts` | restart record and lock, release pointer | request, hand off, switch, roll back | crash in the hand-off, a reclaim of a request that is only slow |
| Audit maintenance and mirror | `audit-maintenance.ts`, `audit-mirror.ts` | snapshot, published mirror | collect, publish, repair | runs beside a writer that may start |
| Session registry and plane, tunnel | `session/*.ts`, `session-plane/*`, `tunnel/*` | session pointers, child process | create, update, start, probe, stop | pointer behind the task registry |
| Everything else | model catalog, telemetry, workspace access, MCP schemas, CLI, configuration, media | caches and files | parsing, formatting, I/O | none that a state machine would show |

How they interact: MCP handlers call the task manager (through the pool, which
rejects calls once the bridge is closing); the orchestrator and the
continuation controller call the same `submit`; native ZCode submissions and
the audit collector share the writer slot with the task manager's own runs and
reach the z2c engine by requests that can be lost; the queue coordinator and
the session client reach the same service; the bridge server owns the managers
and closes them on shutdown; the supervisor restarts the bridge, which takes
the state directory over from its predecessor and repairs what that left
behind.

What makes each component correct:

- task manager: one writer at a time; a terminal record is final and agrees
  with the audit log; a cancellation wins over every other end; FIFO over
  restarts and pauses; no provider turn twice; every run ends and the queue
  drains.
- native lane and engine: the slot is one lease, given back only when its task
  has ended or was never admitted; an instruction is sent at most once; what
  was answered is durable.
- session service: an operation creates one native session; an instruction is
  accepted once, every send returns, with the outcome of its own turn.
- orchestrator: one task per step and attempt, none passed without its audit.
- continuation: one actor per plan; nothing starts on what was not reviewed.
- queue coordinator: receipts that are true, and one for every task.
- ownership and authorisation: one bridge writes a state directory; a grant
  survives every hand-over, a revoked one does not.
- supervisor: one at a time, one repair of a component at a time, and nothing
  stays down unattended.

## 2. Modules

| Module | Models |
|---|---|
| `TaskManager` | the task manager with its slot, pause records and audit log |
| `Orchestrator` | durable plan runs on the codex lane, with the task manager reduced to its records |
| `Z2cEngine` | the task engine of the z2c service for one workspace |
| `NativeLane` | the bridge's native lane and the slot file, composed with `Z2cEngine` |
| `WriterLease` | what the slot promises, with its theorem; `NativeLane` implements it |
| `AuthDomain` | ownership of a state directory, the grants in it, pairing, import |
| `Continuation` | the continuation controller |
| `NativeCreate` | creation of native sessions: bridge, service, runtime |
| `SessionClient` | the bridge's connection to the session service |
| `Supervisor` | the service supervisor |
| `NativeTurns` | concurrent sends on one native session |
| `QueueCoordinator` | the coordinators of the governed queue and their files |
| `Restart` | the restart hand-off |
| `MCTaskManager`, `MCOrchestrator`, `MCNativeLane`, `MCAuthDomain` | constants of TLC instances |
| `MCServices` | `AuthDomain`, `Continuation`, `NativeCreate`, `SessionClient` in one instance, for safety |
| `MCRepairs` | `Supervisor`, `NativeTurns`, `QueueCoordinator`, `Restart` in one instance, with liveness |
| `TaskManagerProofs`, `TaskRecordProofs` | theorems about the task manager: types and the slot; records, queue and audit |
| `OrchestratorProofs` | theorems about `Orchestrator` |
| `NativeLaneProofs` | theorems about the engine and the lane, and the refinement |
| `ServicesProofs` | theorems about `AuthDomain`, `NativeCreate`, `SessionClient`, `Continuation` and their composition |
| `RestartProofs` | theorems about `Restart` |
| `RepairsProofs` | theorems about `Supervisor`, `NativeTurns`, `QueueCoordinator` and the composition `MCRepairs` |

`MCServices` and `MCRepairs` put components side by side that share no state
in the model. Their interleavings would add states and no behaviour, so the
initial state chooses the one that moves (`part`) and the others stand still.
In `MCRepairs` the fairness of all components is asked for together: none of
the fair actions of a component that stands still is enabled in its initial
state, so it owes no step.

### TaskManager

State. `disk`, `log`, `slot` and `paused` are durable: the task files, the
JSONL audit lines, the holder of the writer slot, and the pauses in force (of
the workspace queue, of the whole product). `mem`, `pending`, `pumpScheduled`
and `collector` are the fields `tasks`, `pendingInputs`, `pumpScheduled` and
`collectorBusy`; `active`, `rt` and `pc` are the active `RuntimeTask` and the
await at which its `runTask` stands; `client`, `exiting` and `stops` are the
current App Server, the closed ones whose process still runs, and the calls of
`stopRuntime` in flight.

Steps. The manager runs on one event loop, so code between two awaits is not
interleaved with other code, but the process may die anywhere. An action
therefore performs a whole handler in memory and leaves its durable writes in
`todo`; nothing else of the process runs until `todo` is empty, and `Crash` is
always enabled. Every await is the boundary of an action. `Idle` is the guard
of external calls (the pool rejects them once the bridge closes), `Alive` that
of continuations.

Correspondence. `Submit` is `submitUnderQueueLock`; `PumpNow`, `PumpMicrotask`
and `Dispatch` are `pump`; `StartCodex` is `runTask` up to its first await and
`RequestAnswered`, `RequestFails`, `CatchFinalizes`, `RunResumes`,
`VerifyEnds`, `Retire` are the rest of it; `StartGemini`, `GeminiEnds` are
`executeGeminiTask`; `Cancel`, `CancelRecord`, `CancelResumes` are `cancel`;
`BeginStop`, `InterruptAnswered`, `GraceOver`, `CloseAwaited` are
`stopRuntime`; `RecordTerminal` and `AuditOps` are `recordTerminal` and
`ensureExecutionRecord`; `Boot`, `LoadTask`, `FinishBoot` are `loadTasks` and
the rest of the constructor; `Close` is `performClose`.

Abstractions. A task is the number of its `queuePosition`. A record keeps its
status, whether a cancellation was requested, and whether its audit line is
known to be written. `failed` stands for `failure`, `executionError` and
`policyViolation`. At most one `cancel()` per task is in flight. `Retire`
waits until no `turn/interrupt` of its run is pending: the App Server is
closed by then and its close rejects pending requests synchronously. A spawn
that fails closes its client in the catch block of the run instead of in the
promise of `initialize`. `AbandonRun` runs through the await of `stopRuntime` at
`tasks.ts:3058`. Left out: the session registry, verification inside a
Gemini run, the re-authorisation of queued tasks, a failing write in `submit`,
a slot file torn by a crash (`NativeLane` has it), and the orchestrator's and
continuation's re-admission.

Bounds. `MaxTasks`, `MaxQueueSize`; `Events` names the disturbances an
instance considers and `MaxEvents` how many of them happen; `MaxFaults` is the
number of file operations that fail (an unlink of the slot, an append before
or after its line is in the file, a slot creation). The safety run has three
tasks: one that is verified, one that no restart can replay, and a Gemini task, so
that every kind runs beside, before and after another. The liveness run has two, the
first of which no restart can replay, with the second in Gemini; it has the crashes,
the cancellations and the failing file operation, while the pauses, shutdowns and the
native lane, which only delay the queue or are excepted by `QueueDrains`, are left to
the safety run, and so are a Codex successor of a Codex run and a verification. Two
disturbances give a crash during the recovery from a crash, and a cancellation
before or after either. `CHECK_DEADLOCK FALSE`: the system stops when all tasks are terminal
and the disturbances are used up.

Fairness (`FairSpec`). Weak fairness of the running handler, the pump
microtask, the continuations of runs and stops, the recovery, the run's timer,
the collector's end and the process exit: the event loop runs what is ready,
`runTask` arms a timer for every run, `stopRuntime` and `AppServerClient.close`
bound their waits, and the service supervisor starts the bridge again. Nothing
is assumed of clients, operators, providers or the upstream.

### Orchestrator

State. `runs` is the durable `<run>.json` of each run and `disk` and `key` are
the durable task records with their `orchestratorKey`; `productPaused` and
`authorized` are the dispatch policy and the owner's continuation grant. `op`
holds the calls in progress: where each stands, its copy of the run (`work`),
the task status it read before an await (`seen`) and the files that a
`recover()` has still to visit (`rest`). `mem`, `active` and `pumpDue` are the
task manager's `tasks`, `active` and `pumpScheduled`; `attached` says whether
`tasks` holds the record object that the active run works on, which a
re-admission can change.

Steps. A place in `Sync` is reached without a yield to the event loop, so only
the end of the process comes between; a place in `Await` is a pending promise,
and any handler runs there. Each save is a step of its own, so that a crash
can fall between a save and what follows it.

Correspondence. `Create`, `SetPaused`, `Claim` are `create`, `pause`/`resume`
and `claim`; `SubmitAudit` and `Evidence` are `submitAudit` before and after
its await; `Recover` and `RecoverNext` are `recover`; `Advance`, `Resolved`,
`Unresolvable`, `SubmitAgain`, `SubmitNew`, `SubmitPump`, `SubmitRejected`,
`Retry`, `Bind` and `Observe` are `advance` from one await to the next, with
the part of `tasks.submit` that an orchestrated task takes. `Pump`, `Finish`,
`Cancel` and `Boot` are the task manager seen from there.

Abstractions. All runs belong to one owner and the tools pass that owner as
the claimant. Notes, prompts and selections are left out; `resolved` is
present exactly from `DISPATCHED` on. From the admission on the call's copy
holds the task id, which becomes durable in `Bind`. `Busy` is both
`this.busy` and the lock file, whose stale owner is reclaimed after a crash.
A controlled shutdown is durably the same as a crash here and is not a
separate step. Left out: the zcode and dsh lanes, the pause of the workspace
queue, the replay of a queued task whose record is defective.

Bounds. `Calls` bounds the calls in progress; because of `Busy` two suffice to
let one meet another. `MaxTasks` is one task for each attempt of each step.
`Events`, `MaxEvents` and `MaxFaults` name and count the disturbances. Two
steps and two attempts give both ways on from an audit and the end of a plan.
`MaxTasks` never stops a run: an attempt admits one task (`AtMostOneTask`).

Fairness. Weak fairness of each call's steps, of `Pump`, `Finish` and `Boot`:
the event loop runs what is due, every task has a deadline, and the supervisor
restarts the bridge. Strong fairness of `Recover`: the timer fires every
second and every lifecycle event of a task calls it, while other calls hold
the lock for a bounded time. Nothing is assumed of auditors or operators.

### Z2cEngine and NativeLane

State. `mem` and `disk` are the engine's state (status of each task, queue,
reserved head, pause) in memory and as the store last wrote it; `gate`,
`asking` and `pump` are the admission gate, its head's await and the
dispatcher; `turn` says which native turns really run, which the engine does
not always know. On the side of the bridge `slot` is the slot file with its
binding and dispatch evidence, `call` the state of each `dispatchNative`,
`reco` the one reconciliation in flight, `flying` the submissions that left and
did not arrive, and `codex` the other lane of the workspace.

Steps. A synchronous step of the engine may write its state several times
(reserve the head, then mark it running). `Wrote` does all the writes,
`FailedWrite` stops at one that fails and leaves memory where the code leaves
it, `DiesAfter` lets the process die after any of them.

Correspondence. `Submit`, `Replay`, `Refuse`, `Ask`, `Admit` are `submitTask`
and `admitTask`; `Send`, `TurnEnds`, `TurnTimeout`, `Finish` are `runTask`;
`CancelTask`, `SetPaused` and `Restart` with `Reconciled` are `cancelTask`, the
pause and `reconcileOnRestart`. `Reserve`, `Dispatch`, `Answered` are
`dispatchNative`, `Observe` is `observeNativeTask`, the actions of `Reco` are
`reconcileNativeSlot` from one request to the next, `TornReserve` and `Cleared`
are `slot.ts`.

Abstractions. One workspace; a request is its idempotency key. The awaits inside
`observeNativeTask` and at the end of `runTask` are one step with what follows them;
a dispatch that was answered `ok` is not repeated with its key, and the conflict of a
key with a task of the old format is left out. `RecoStart`
takes a reservation without a binding only when its submission is neither on
its way nor in the gate (`Settles`): the code waits 120 s for that, and the
model assumes that this is enough. `faults` is the set of faults a behaviour
may meet, drawn from `FaultModels` at the start: the eight sets of the instance
pair those that act on the same code, all of them together are out of reach.

Refinement. `LeaseSpec` maps the slot file to the holder of `WriterLease` and
the turns that run to its workers. A turn does not count as work after the
engine itself has declared its task over (`cancelled`, or `interrupted` by a
restart), or once a fault has made the engine's word worthless (`Vouched`); the
run `native_cancel` shows that without the first exception two writers meet.

Bounds. Two requests, a queue of two, two dispatches of each request, one
crash: a second writer needs two requests, a replay a second dispatch.

### AuthDomain

State. `stage` is how far each bridge process is in `acquireStateDomainOwner`
and in the start of its stores, `ownerFile` and `lockFile` are the owner record
and the lock (torn until it is written), `listed` is the inventory of processes
a start took, `pointer` names the generation whose file counts, `authFiles` are
the tokens in the file of each generation and in the shared one, and `pairing`
and `codes` are in the memory of the serving bridge.

Steps. Each access to a file is a step of its own, since another process may
run between a comparison and the removal that follows it (`CompareOwner`,
`RemoveOwner`). A mutation of the store is one step, as it happens under the
fence and the file lock.

Commands. `unpair` and the import are processes of their own (`cli`), of two steps
each: what they choose or merge, and what they write. The unpair runs wherever no
healthy bridge is found (`bridge/runtime.ts:871`), so beside one that starts, or that
serves and does not answer the probe; the import runs where the observation is
`stopped`, which it is beside a bridge that starts as long as the runtime record of
one that died is there (`pid_missing`). The tokens that an unpair takes back after a
bridge had copied them, or while one has moved the pointer, are
`overtaken`: they come back, as `AuthDomainUnpair.cfg` shows.

Abstractions. A grant is an access and a refresh token; a rotation replaces the
refresh token and leaves the access token of the former grant valid, a revocation
takes back one token. `world` says
which outer events a behaviour meets: crashes, the offline unpair, the import
of the command line, bridges of another installation, which are not recognised
as bridges. An unreadable record makes a start fail and is left out, and so is
the number of a process that is used again.

Bounds. Three bridges: one that died and left its files and two that recover
them at once. Two grants, so that one can be rotated into the other. The
instance asks for crashes together with the unpair or the import, and for the other
installation separately. `Services.cfg` has a VIEW (`ReadAgain`): states that differ only in
what a bridge has read and will not look at again count as one.

### Continuation

State. `plan` and `planDisk` are the controller's state in memory and in
`state.json`: each node with its number of executor tasks and its current
review attempt. `ctl` is the place of the one reconciliation, `task` the
executor tasks, `review` the reviewer of each durable intent, `source` the
fingerprint of the files.

Steps. One `reconcile` runs at a time. Everything from one await to the next
is a step or a chain of steps in which nothing else of the process runs
(`Awaits` is the guard of the rest). Each save is a step boundary.

Correspondence. `Wakes` begins a reconciliation; the actions `Visit...` are its
loop over the nodes, `Review...` and `SubmitReview` are `machineReview` and
`dispatchReview` (`PollFails` is the catch of a poll whose evidence is invalid or
unavailable), `Selects`, `DispatchNode`, `HandsOff` the selection of the
next node; `Pumps` is the check of `authorizesTask` in the task manager's pump.

Abstractions. The plan is a chain. Failed durable writes, the reload of an
edited approval, the task budget, the quota and catalog blocks, the retry
throttle and the gates with a verifier are left out. Everything that disturbs a
plan counts against `MaxUpsets`.

Two behaviours are worth knowing. An edit makes a passed node wait for a review
again; when its successor's task was admitted but not adopted before a crash,
both nodes may then be under review at once, so `OneActor` asks for one
reviewer per node and not per plan. A pause that arrives between the check and
the dispatch of a review blocks that review for good (`DISPATCH_BLOCKED`).

### NativeCreate

The binding of a plan in the bridge (`bind`, `control-plane.ts`), the journal
of creates in memory and on disk (`journal`, `journalDisk`), the place of each
operation in the service (`opAt`), and what really exists (`native`, `owned`).
Bridge, service and runtime die independently, each write of the journal may
fail, requests and answers are lost. `MaxMishaps` counts these; three let each
of the three processes die in one behaviour. Two operations suffice: a second
one is drawn only after the first is forgotten.

### SessionClient

`session`, `handshake` and `generation` are the fields of the client, `conn`
and `connGen` the connections it ever opened, `callAt` and `on` the calls.
`Ensures` is `ensureSession`, `HandshakeEnds` with `Overtaken` its fence,
`Repeats` the one repetition of a read, `Breaks` and `Reset` the failure of a
connection, `Closes` the close. The service may execute a request whose answer
is lost, and may still do so after the call failed (`flying`). Three calls, of
which two mutate, and two connections let a call fail on a connection that a
successor has replaced.

### Supervisor

State. `supLock` is the lock file with the generation in it, `pipe` the
operating system mutex of win32, `supAt` the place of each process, `comp` its
`ComponentStatus` records, `inFlight` its recovery actions under way, `up` and
`launched` the truth about the components.

Correspondence. `Starts` to `WriteLockFile` are `acquireLock`, one step for
each access to the operating system; `Bootstrap` is `bootstrapOnTakeover`,
`TickBegins`, `Observe`, `TickEnds` are `runTick` with `observeComponent`,
`Drain` and `ReleaseLock` the end of `run`; `StopCommand`, `StopEnds` are
`stopSupervisorProcess`.

Abstractions and bounds. Two components: the bridge and the tunnel, which is
not repaired without it; all others use the ladder alone. The takeover bootstrap is
allowed for any of them, although the code bootstraps the z2c listener and the
Desktop only: the behaviours without it are among those of the model. A dead process and a
successor are two elements of `Sups`, each started once. One component fails.
On posix the lock file of a process that died is never reclaimed, so a crash
there ends supervision until the file is removed; the model has it, and
`RepairConverges` speaks of processes that hold the lock.

Fairness (`SupFairness`). A process that runs goes on, a delay passes, an
action settles (each has a time limit) and a started child answers or ends.
Nothing makes a supervisor start.

### Restart

`process/restart.ts`: a request makes the lock directory, publishes the record
and launches a detached helper; the helper claims the lock, reads the record
again, stops the bridge and starts another. Whoever finds the lock joins a
request that is under way, or reclaims one that was left behind: it proves that
the helper is gone, fences it with the helper's own claim file, and renames the
directory. Every file operation that another process can see is a step of its
own, and between any two a process may die; a check that is followed by an await
(`Validates`, `HelperChecks`, `HelperFinishes`) and what is saved after it
(`Publishes`, `HelperLooks`, `HelperConfirms`) are apart. `lockDir.by` stands for the
birth time of the directory, which the code compares with `createdAt`: the owner of
the lock stamps its record while it holds the lock, so the lock was born before the
record exactly if the owner of the record made it. `HelperReleases` unlinks token and
claims in one step; the tunnel stage is left out, one more failure between
`HelperObserves` and `HelperFinishes`. Clocks are two stages of `age` (LAUNCH_GRACE,
TTL) and the freshness of the lock's mtime. One mishap (`MaxDenied`) stands for a
failing launch, observation, stop, start or rename.

`HandOffSafe` is what the hand-off promises: a helper whose request was reclaimed
does nothing to the bridge, however late it wakes (`FencedNeverActs`), which
needs the second reading of the record after the claim; one helper at a time
stops and starts bridges (`OneHelperActs`). Both rest on `KeepsNewerLocks`, the
comment at `restart.ts:220`: the rename of a reclaim takes the lock of the
request it reclaims and never that of a newer one.

The code does not keep the comment where a launch failed among three requests
(`Crossed`): only a failed launch removes a lock that a reclaimer may be judging, and
only a third request makes it anew. The run `restart_three` shows it, and
`HandOffSafe` excepts exactly that. In `repairs` two requests interleave in every file
operation, with one death and one mishap; the branches of `PutsToken` and `Publishes`
that meet a lock made anew, and the exception, need a third, which `RestartAll.cfg` has
(6.6 million states, for `tlc -config RestartAll.cfg Restart`). Section 4 proves
`HandOffSafe` for any number of each.

### NativeTurns

State. `sendAt` is the place of each call of `SessionService.send`; `evidence`,
`proof` and `retried` are its settle window and its stale-busy recovery;
`waiter` and `stopping` are the provider's `turnWaiters` and `stoppingSessions`
entries for the session; `requested` and `wire` the requests the runtime has
not read and the messages the service has not read, in order; `turn` and `slot`
are what runs and what the runtime believes to run.

Abstractions. The runtime writes the end of a turn before its answer to a stop
(external). `MaxGivenUp` counts calls that run out of time, `MaxStale` turns
that leave the runtime's slot busy. Left out are the completion by `state.updated`
where the terminal event is missing (`official.ts:466`), the end of the app server,
which fails all waiters at once (399), and a stop that throws (380). `effortPolicy` is the policy that makes the
provider read a snapshot before it sends.

What the model shows and the properties exclude: the terminal event of a turn
nobody waits for any more resolves the waiter of the next send
(`official.ts:435`); with the policy there is an await between the look at the
waiter and its registration (`official.ts:1222`), so a second send replaces
the first one's waiter, which then hangs; the catch of a slow request deletes
the waiter of another send (`official.ts:1267`); a stop of the stale-busy
recovery may hit a send that started meanwhile; and `SESSION_BUSY` after a
request that timed out does not say that nothing was executed.

Fairness (`TurnFairness`). The pipe is read, a call goes on, the settle window
passes, and the runtime answers a send.

### QueueCoordinator

State. `listed`, `withdrawn`, `started` and `verdict` are what `queue.jsonl`,
`control.jsonl` and `receipts.jsonl` say of each task (the first terminal
receipt decides); `file` is `worker-state.json` and `fresh` whether its
heartbeat is young enough; `work` is the tick of each bridge process: its
place, the tasks it tracks (`known`), their errors, and the rest of the loop it
is in with the views it took before (`rest`, `again`); `lane` is the native
task of each key.

Correspondence. `Boots` is `start`, `BeginsTick` with `Owns` is
`assertOwnership`, `NativeStatus` is `refreshNative`, `ResolvesCancel`,
`Polls`, `Claims` are the three loops of a tick, `Submits`, `SubmitAnswered`,
`StartReceipt` are `dispatch`, `WritesState` is the heartbeat, `Stops` is
`stop`. `Enqueues` and `RequestsCancel` are the control plane's.

Abstractions. A task is its line number. All writing tasks exclude each other, while
`zcode-coordinator.ts:127-141` lets declared writes on disjoint resources run
together: with the default lane limit of one that makes no difference.
`withDispatchIntent` (`zcode-control.ts:1022-1042`), which notes a dispatch in the
state around the call, is left out, and with it that its second write may restore an
older owner or heartbeat. The claim windows, the identity of the
model and malformed files are left out. `upsets` counts lost requests, answers
and receipts, pauses, cancellations, deaths, stops and a tick that outlasts its
heartbeat; a bridge that starts beside another counts too.

What the model shows beyond its properties, with other constants or in the
states they except (`unseen`, `overlap`):

- the conflicts of a claim are looked up among the tasks that were active
  before the loop (`zcode-coordinator.ts:536`), so with `MaxParallel` above its
  default of one, two tasks that exclude each other are dispatched in one tick,
  although `docs/zcode.md:75` says that the rules are enforced at claim time;
- after a lost answer or START receipt a cancellation is answered with
  CANCELLED, "before dispatch", while the native task runs;
- the heartbeat is written at the end of a tick, so a long tick, or two starts
  at once, make two coordinators work;
- `listTasks(100)` returns the oldest hundred lines, ended ones included: with
  more than `MaxListed` lines the later tasks are never claimed.

Fairness (`QueueFairness`). The timer ticks, a bridge is started when none
runs, a stopped process exits, a native task ends, and the heartbeat of a
process that is gone grows old.

Bounds. Two bridges, one after or beside the other, two tasks of which the
second depends on the first, two upsets: a crash and a lost answer, or a
cancellation and a crash.

## 3. Runs

| Run | Checks | Shows |
|---|---|---|
| `tm_safety` | TypeOK, CancelWins, FifoOrder, WriterExclusion, StoppedRunNotCompleted, TerminalIsFinal, QueueSurvivesShutdown | a verified task, one that cannot be replayed and a Gemini task, under two disturbances of any kind: crash, shutdown, cancellation, pauses, native reservations, the collector, policy aborts |
| `tm_liveness` | RunsEnd, QueueDrains, CancelConverges, AuditTruth, AtMostOneTurn | the promises of progress under `FairSpec`, with a Gemini task, one that cannot be replayed and a failing file operation; what a crash or a failed append leaves in log and records |
| `tm_own_server` | OwnServer violated | `mcp/server.ts:1453`: a late cancel() closes the next run's App Server |
| `native_lane` | TypeOK, SentAtMostOnce, AnswerIsDurable, TerminalIsTruth, LeaseSpec | two native submissions and a codex task on one slot, under eight fault models; the slot implements `WriterLease` |
| `native_cancel` | WriterExclusion violated | `engine.ts:545`: a task cancelled while its dispatcher awaits is sent all the same, after its slot went to the next writer |
| `orch_safety` | TypeOK, AtMostOneTask, NoTwoLive, PassNeedsEvidence, VerdictIsFinal, PausePreventsDispatch | a plan of two steps with reworks, under two disturbances of any kind and a fault |
| `orch_liveness` | AuditFollows, RunProgresses | two runs that compete for the lock and the lane, across a crash or a pause and a fault |
| `orch_detached` | DurableAudit violated | `tasks.ts:1897`: a re-admission detaches the record of the executing task, and its run waits for good |
| `services` | ServicesTypeOK, OneWriter, GrantsSafe, OneActor, StartsReviewed, CreateSafe, ClientSafe | ownership and grants of a state directory, the continuation controller, the creation of sessions, the session client |
| `auth_import` | WithdrawnIsFinal violated | `state-migration.ts:646`: the import before a start brings revoked tokens back |
| `repairs` | RepairsTypeOK, SupervisorSafe, TurnSafe, ReceiptsAreTrue, HandOffSafe, RepairConverges, SendReturns, QueueDelivers | two supervisors, two sends, two coordinators, each with its liveness, and two requests for a restart |
| `restart_three` | KeepsNewerLocks violated | `restart.ts:220`: a reclaim renames the lock of a newer request |

The violated properties are disagreements between the code and its own
comments, docs or tests; `PROJECT.json` quotes the lines.

`CHECK_DEADLOCK FALSE` everywhere: every instance ends when its tasks are
terminal and its disturbances are used up.

`RepairConverges`, `SendReturns` and `QueueDelivers` have the form `[]<>P`,
where `P` says that nothing is left to do. That is as strong as one `~>` for
each component, call or task, because the disturbances that can undo `P` are
bounded, and it needs no tableau.

Four properties except what the code does not keep, by definitions that name it, so
that everything else stays checked in the same runs:

- `executeGeminiTask` returns early at `tasks.ts:3493-3508` with `this.active` set at
  3478, and nothing clears it (`Stranded`): the run never ends, its record stays
  `cancelling`, and the queue stands until the process ends. `RunsEnd`, `QueueDrains`
  and `CancelConverges` except it;
- a queue head that cannot be replayed is failed without another pump
  (`tasks.ts:2511`), against the comment at 2761, and leaves the rest standing until
  another call (`HeadDropped`): `QueueDrains` excepts it where it lasts;
- the `cancel()` of a Gemini task resumes and writes over the record its run has
  ended (`tasks.ts:2190`, 4096): `TerminalIsFinal` excepts the `cancelled` of a Gemini
  task (`Final`), `AuditTruth` its line;
- a failed launch among three requests for a restart (`Crossed`).

More behaviours that the models show have no run of their own:

- the slot is released before the App Server of the run has exited, against
  `docs/protocol.md:90` (`tasks.ts:4107`);
- a shutdown during a verification ends the run as failed and not as
  interrupted (`tasks.ts:3198`);
- resuming the product dispatch (`bridge/server.ts:475`) wakes no queue: what
  was queued waits for another call or a restart;
- a product pause met by a re-admission fails the run while its task is queued
  (`orchestrator-core.ts:426`), and `cancel()` of a record that a re-admission
  detached overwrites the terminal record on disk (`tasks.ts:2208`);
- a slot file torn by a crash is never cleared and makes the constructor of the
  task manager throw, so the workspace stays closed until it is removed
  (`slot.ts:217`);
- after a reboot the slot is dropped although the engine's durable queue still
  runs the task (`slot.ts:281`); and the service that embeds the engine does
  not start what a restart requeued (`service/main.ts`, against
  `engine.ts:102`);
- three requests for a restart (`restart_three`, 15 states, no death): a launch fails;
  a second request proves the first one gone; the first one's asker removes the lock
  (`restart.ts:413`); a third request makes it anew; before that one writes its
  handoff-id the second puts its claim in, and `validateLock` at 228 accepts a
  directory without handoff-id; the third goes on, and the rename takes its lock
  away. Its helper goes to work without a lock, and a second helper can start beside
  it. With four requests even `FencedNeverActs` fails, after one failed launch: two
  such reclaimers leave the lock that a working helper claimed in quarantine. And the
  record of a late launch failure replaces that of a newer request (`restart.ts:409`);
- an offline unpair does not end the access of a client where a bridge starts beside
  it (`tlc -config AuthDomainUnpair.cfg MCAuthDomain`, 15 states), against
  `cli/index.ts:1167` ("immediately") and `store.ts:514`: it revokes in the file that
  the pointer names (`cli/index.ts:1177`), and the starting bridge has copied that file
  already, or moves the pointer to its own.

### Bounds and times

The largest instances are `tm_safety` (1.8 million distinct states) and
`native_lane` (1.7); every run ends within four minutes on
two cores. The bounds of each component are explained in section 2; what they
have in common is that two of everything that competes is enough for the
properties, which speak of pairs, and that two or three disturbances let one
fall into the recovery from another.

## 4. Proofs

The theorems hold for every value of the constants that satisfies the named
assumption of the module (`BoundsAssumption`, `TaskKindsAssumption`,
`EngineConstants`, `OwnersDiffer`, `AuthConstants`, `PlanConstants`,
`CreateConstants`, `ClientConstants`, `SupConstants`, `MaxTriesIsPositive`,
`TurnConstants`, `QueueConstants`, `RestartConstants`): any number of tasks,
requests, bridges, nodes or processes, and any bound on crashes and faults. Each
rests on an inductive invariant that TLC checked on a small instance before it
was proved. There is one lemma per action, and the last step of a theorem
combines the initial state, the step and the implication.

Every safety invariant and action property of the runs has a theorem, with the
exceptions named at the end of this section.

### Task manager

`TaskManagerProofs` proves `TypeCorrect` (TypeOK) and `WritersExclude`
(WriterExclusion). Neither is inductive. The invariant is `Inv == TypeOK /\
RunInv`, where `RunInv` adds to writer exclusion that a run is published exactly
while `runTask` waits somewhere (`RunPublished`), only by a manager that has
recovered (`NoRunBeforeRecovery`), that a run which is not finalized is recorded
as running or cancelling (`LiveRunRecorded`, without which the slot
reconciliation could take its lease for a ghost), and that a run which awaits
verification or cleanup knows how it ended (`EndKnown`, which makes the status
of `recordTerminal` well defined).

`TaskRecordProofs` proves what the durable records promise: `CancellationWins`
(CancelWins), `TurnsSentOnce` (AtMostOneTurn), `FirstInFirstOut` (FifoOrder),
`StoppedRunsFail` (StoppedRunNotCompleted), `ClosingKeepsTheQueue`
(QueueSurvivesShutdown), `LinesTellTheTruth` (AuditTruth) and
`TerminalStatusesLast` (TerminalIsFinal). The difficulty is that a handler of
the code is many steps of the model: it changes memory at once and its writes
and audit lines follow, with a crash or a failed write possible after each. So
the invariant `RecInv` speaks of the rest of the running handler:

- `HandlerKept`: what is left to do is the work of one task (`OneTask`), every
  write of it may replace the record it will find (`WritesFollow`), every audit
  line says what the write before it said (`LinesFollow`); outside it, memory
  and disk agree;
- `CancelsKept`, `LinesTrue`, `TurnsKept`, `OrderKept`: what cancellations,
  audit lines, sent turns and the order of admission leave in the records, so
  that a restart, which knows the disk alone, cannot contradict them.

Actions are few kinds of step there: one that plans writes (`Handles`), one of
those writes or lines, the death, the boot, and those that touch nothing of it
(`Idles`); every action of `TaskManager` is shown to be of such a kind.

Both `LinesTellTheTruth` and `TerminalStatusesLast` hold for every mixture of tasks:
what they except is in the properties, the `cancelled` of a Gemini task, whose
`cancel()` may resume after its run has ended (section 3).

### Orchestrator

`OrchestratorProofs` proves `TypeCorrect` (TypeOK), `OneTaskPerAttempt`
(AtMostOneTask) and `VerdictsAreFinal` (VerdictIsFinal). The invariant `OpInv`
says that at most one call is in progress (`OneCall`) and that its copy of the
run equals the durable one, up to the task id that it is about to save
(`WorkIsCurrent`). That is what the lock is for: a save then never restores an
older run, although the call awaited in between.

Its second part proves `OneTaskAlive` (NoTwoLive), `PassesNeedEvidence`
(PassNeedsEvidence) and `PauseStopsAdmission` (PausePreventsDispatch). The
difficulty is that a terminal record on disk is not final (a detached record can
overwrite it, see section 3), so "the task has ended" is not stable. The proofs
rest on *sealed* tasks: ended on disk, with nothing older in memory. Every step
except an admission keeps sealed tasks as they are and wakes no other (`Calm`),
which needs `RecordInv`: what the records in memory tell about those on disk.
`PlanInv` then says that a run waits for an audit only on a sealed task, that
every PASS is on a sealed, completed task, and that a live task has the key of
its run's current attempt. A task that memory shows as ended is sealed
(`MemSealed`), and the orchestrator decides from memory only.

### Engine, native lane and lease

`WriterLease` proves `LeaseIsExclusive`: at most one owner works and it
holds the lease, for any set of owners.

`NativeLaneProofs` proves `LaneTypes` (TypeOK), `SentOnce` (SentAtMostOnce),
`AnswersStay` (AnswerIsDurable) and `TerminalStays` (TerminalIsTruth) of the
engine composed with the lane, for every set of faults. Its invariant `LaneInv`
relates memory, disk and dispatcher: while the engine is healthy both are equal
(`WriteThrough`), what is on disk is well formed (`IsSound`), the dispatcher is
about to send only what the disk knows as begun and nobody has sent
(`PumpSound`), and what was sent is begun on disk (`SentIsBegun`): after a crash
a begun task is not sent again.

Its second part proves the refinement, `LaneKeepsLease`: `Spec => LeaseSpec`,
and from it `OneWriterWorks`: two writers never work in one workspace while the
engine's word can be relied on (`Trusted`, the conditions of section 2). The
invariant `LeaseInv` adds what the owners of the slot believe: that a request the
engine may still run holds the slot, marked (`BusyHeld`); that what a
reconciliation has seen still holds when it acts, several awaits later
(`RecoSound`); that a final status in trusted memory means that no turn runs
(`StatusTruth`). `BusyHeld` is the point of the protocol: a slot is freed only
for a task of which the engine can no longer surprise anybody.

### Services around it

`ServicesProofs`, for `AuthDomain`: `AuthTypes`, `OneBridgeWrites` (OneWriter),
`GrantsSurvive` (GrantSurvives), `RevocationsHold` (RevocationHolds, with the
commands beside the bridges, and but for the tokens that are `overtaken`), and with
those two `GrantsAreSafe` (GrantsSafe). The invariant follows the acquisition:
who has passed the inventory of processes is alone, and the owner record, lock and pointer say so as far as it has come
(`Fence`); the file that the pointer names exists and holds what was granted
(`Store`).

For `NativeCreate`: `CreatesOnce` (CreateSafe). An operation is journaled on
disk before the provider is asked (`Journaled`), and of the operations that the
binding has let go no session is left (`OthersSettled`).

For `SessionClient`: `MutatesHonestly` (ClientSafe). One handshake runs per
generation of the connection (`OneHandshake`), and a mutation that was sent is
executed or still flying, never both (`MutationsKept`).

For `Continuation`: `OneActorWorks` (OneActor) and `ReviewedStarts`
(StartsReviewed). The invariant `PlanInv` has three parts. `PlansTrue` is about
a node, its reviewers and its tasks, in memory and in the file alike: only the
reviewer asked under the attempt's own key may run (`Followed`), the key is the
last that was used (`Keyed`), a PASS was given by that reviewer to a completed
task (`Judged`), and while an attempt is open or stands no later task exists
(`NewestJudged`); the attempt in memory and that on disk are one, a PASS in the
file may only be STALE in memory (`Twins`). `TasksTrue` says that one task is
alive and that it, or a cancelled one, is the last of its node. `ControlTrue` is
what the reconciliation may rely on after its awaits: unless a task was alive
when it began none is, and it does not get past a cancelled task without
cancelling the plan (`Noticed`). Without the last part a plan could dispatch
after a cancellation that its loop had already passed.

`PlansTyped` adds the types of the continuation controller, and `ServicesTypes`
puts the four components together (ServicesTypeOK): a step of the composition is
a step of one of them.

### What ends what hangs

`RepairsProofs`, for `Supervisor`: `SupervisionIsSafe` (SupervisorSafe), from who
holds the lock (`LockHeld`), who is in the middle of a repair (`RepairsHeld`)
and how many attempts were made (`AttemptsCounted`). For `NativeTurns`:
`AnswersAreOwn` (TurnSafe). A send is asked once and ends once, and while nothing
disturbs it the messages on the wire are the ones it waits for (`Waited`).

For `QueueCoordinator`: `ReceiptsTrue` (ReceiptsAreTrue), for any number of
coordinators and tasks. A receipt is written ticks after the lane was asked, by
another process perhaps, so the invariant `QueueInv` follows the knowledge on
its way. An admission that happened is known by its START receipt, is about to
be known by the tick that asked, or was lost from sight (`AdmissionsKnown`);
what a tick is about to admit has no verdict yet (`ClaimsOpen`), and what it is
about to cancel was not admitted (`CancelsSound`); unless two coordinators
worked at a time, one tick runs alone (`TicksAlone`), so what it has seen still
holds when it writes. `SupervisorTypes`, `TurnsTyped`, `QueueTypes` and
`RepairsTypes` (RepairsTypeOK) are the types of the components and of `MCRepairs`.

`RestartProofs`, for `Restart`, has three layers.

- `RecordInv` is kept by every step: the types; that a request is unknown to the
  others until it is published (`Unpublished`), that LAUNCH_FAILED in the record
  means that no helper will come (`Truthful`), that a helper writes over its own
  record (`OwnTrue`), and that a reclaimer goes on only for a request that is too
  late, whose helper is gone or which it is about to fence (`Judged`).
- `HandOffInv` adds that a lock that is still expected has the token of its
  request (`TokensKept`), that the claim in it belongs either to the helper or to
  one reclaimer (`ClaimsKept`), and that what was moved away is too late for a
  helper to act (`ReclaimsSettled`). A rename that hits another lock destroys it,
  so it is kept under `[]KeepsNewerLocks`, from which `ReclaimedNeverActs`
  (FencedNeverActs) and `OneHelperAtATime` (OneHelperActs) follow: the hand-off is
  as safe as the comment at 220 is true.
- `CrossInv` adds, until the exception `Crossed` is met, what makes every rename hit:
  while no launch has failed, `LockInv`, which says whose lock the directory is while
  somebody judges it; while only two requests have asked, `TokenSent`, a reclaimer
  never has its own token in the lock, so what it renames is the lock of the other.
  Whichever of the two comes first, the other half of the invariant still stands.
  Hence `HandOffIsSafe` (HandOffSafe), of `RestartSpec`, for any
  number of requests, deaths, refusals and failed launches.

### What is checked by TLC only

- Liveness under fairness is out of the prover's reach: RunsEnd, QueueDrains,
  CancelConverges, AuditFollows, RunProgresses, RepairConverges, SendReturns,
  QueueDelivers.
- The five violated properties, which are false.

## 5. Plan

Done: the task manager and the orchestrator; the native lane on the engine,
refining the lease; ownership and grants; continuation; native sessions and
sends; the session client; the queue coordinator; the supervisor; the restart
hand-off; and the proofs of section 4.

Next, in this order:

1. The audit mirror, the session registry against the task registry, the
   release pointer.
2. The zcode and dsh lanes of the orchestrator.

## 6. Not modelled

Hazards without a property keep a note in `PROJECT.json`; each is either a
behaviour described in section 3, for which no document promises otherwise, or
excluded by a stated condition.

No module: DSH service, deployment and release pointer, session registry and
plane, tunnel, audit maintenance beyond its exclusion from the writer slot. They
are in reach of TLC and left for later. The model catalog, telemetry, workspace
access, the MCP front end, configuration, logging, media and the command line
are parsing, formatting and I/O without concurrent state; the browser extension,
installers and vendored code are outside the system. That part is most of the
repository's lines, which is why the map covers about a tenth of them.

Within the modelled components, `PROJECT.json` lists for each what is left out.
The main ones are: sandbox and verification profiles; the session registry
updates of the task manager; tasks without an idempotency key in the engine;
reverse permission requests and model selection in the provider; scopes, client
registration and token expiry; the copy of tasks and sessions between state
trees; failed durable writes of the continuation controller; the claim windows
of the queue coordinator; the Desktop reconciler and the status snapshot of the
supervisor.
