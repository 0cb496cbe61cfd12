------------------------------ MODULE Z2cEngine ------------------------------
(* The task engine of the Z2C service (z2c/src/core/tasks) for one workspace: *)
(* the admission gate, the durable store, the serial dispatcher and the turn  *)
(* of the official provider it waits for.  The store writes its whole state   *)
(* after every change, so the model keeps the state in memory (mem) and the   *)
(* state on disk (disk) and lets a write fail or the process die between two  *)
(* writes of the same synchronous step.                                       *)
EXTENDS Integers, Sequences, SequencesExt

CONSTANTS
  Reqs,         \* requests, each with its own idempotency key
  None,
  MaxQueued,    \* cfg.queue.maxQueuedPerWorkspace
  MaxCrashes,   \* bound: crashes of all processes together
  FaultModels   \* the sets of faults a behaviour may meet

Faults == {"save", "crash", "orphan", "timeout", "unread", "cancel", "pause",
           "bridge", "reboot", "unstarted", "reject", "lost"}

ASSUME EngineConstants ==
  /\ None \notin Reqs
  /\ MaxQueued \in Nat \ {0}
  /\ MaxCrashes \in Nat
  /\ FaultModels \subseteq SUBSET Faults

VARIABLES
  disk,     \* the last state the store wrote
  mem,      \* the state in memory
  healthy,  \* FALSE once a write failed: nothing is dispatched until a restart
  alive,    \* the service process runs
  gate,     \* submissions in the admission gate, the head holds it
  asking,   \* the head awaits its native session and evidence
  pump,     \* the dispatcher: where it awaits, and for which task
  turn,     \* native turns that really run
  sent,     \* how often an instruction was sent (history)
  order,    \* tasks in the order of their first send (history)
  reply,    \* the answer a submission got
  crashes,
  faults    \* the faults of this behaviour

store == <<disk, mem, healthy>>
engineVars == <<disk, mem, healthy, alive, gate, asking, pump, turn, sent,
                order, reply, crashes, faults>>

(* "timeout" is the status failed with an exit status that says the turn      *)
(* timed out, the one failure that does not prove the turn ended.             *)
Terminal == {"completed", "failed", "timeout", "cancelled", "interrupted"}
Status == {"none", "queued", "running"} \cup Terminal
Results == {"completed", "failed", "timeout"}

Idle == [at |-> "idle", task |-> None, result |-> "none"]
State == [status: [Reqs -> Status], queue: Seq(Reqs), active: Reqs \cup {None},
          paused: BOOLEAN, tasks: Seq(Reqs)]
EmptyState == [status |-> [r \in Reqs |-> "none"], queue |-> <<>>,
               active |-> None, paused |-> FALSE, tasks |-> <<>>]

EngineInit ==
  /\ disk = EmptyState /\ mem = EmptyState
  /\ healthy = TRUE /\ alive = TRUE
  /\ gate = <<>> /\ asking = FALSE
  /\ pump = Idle
  /\ turn = [r \in Reqs |-> FALSE]
  /\ sent = [r \in Reqs |-> 0]
  /\ order = <<>>
  /\ reply = [r \in Reqs |-> "none"]
  /\ crashes = 0
  /\ faults \in FaultModels
-----------------------------------------------------------------------------
(* The dispatcher's loop: reserve the head, then mark it running, each with a *)
(* write of its own.  Work is the list of states it writes.                   *)
Ready(m) == ~m.paused /\ m.active = None /\ m.queue # <<>>
Reserved(m) == [m EXCEPT !.active = Head(m.queue), !.queue = Tail(m.queue)]
Started(m) == [Reserved(m) EXCEPT !.status[Head(m.queue)] = "running"]
Work(m) == IF Ready(m) THEN <<Reserved(m), Started(m)>> ELSE <<>>
Pumping(m) == IF Ready(m)
              THEN [at |-> "evidence", task |-> Head(m.queue), result |-> "none"]
              ELSE Idle

\* Mutant: a write is put off.
WroteLater(chain, then) ==
  healthy /\ mem' = Last(<<mem>> \o chain) /\ pump' = then /\ UNCHANGED <<disk, healthy>>
(* A synchronous step that writes the states of chain one after the other.    *)
Wrote(chain, then) ==
  /\ healthy
  /\ disk' = Last(<<disk>> \o chain)
  /\ mem' = Last(<<mem>> \o chain)
  /\ pump' = then
  /\ UNCHANGED healthy

(* The write after the first k states fails; left is what memory holds then.  *)
FailedWrite(chain, k, left, then) ==
  /\ "save" \in faults
  /\ healthy
  /\ healthy' = FALSE
  /\ disk' = (<<disk>> \o chain)[k + 1]
  /\ mem' = left
  /\ pump' = then

(* The loop's own failures: a reservation is left behind, a task that could   *)
(* not be marked running is failed in memory only.                            *)
LoopFails(m, chain, done) ==
  /\ Ready(m)
  /\ \/ FailedWrite(chain, done, Reserved(m), Idle)
     \/ FailedWrite(chain, done + 1, [Started(m) EXCEPT !.status[Head(m.queue)] = "failed"], Idle)

(* The process dies after k of the writes of chain.                           *)
Down ==
  /\ crashes < MaxCrashes
  /\ crashes' = crashes + 1
  /\ alive' = FALSE
  /\ gate' = <<>> /\ asking' = FALSE
  /\ pump' = Idle
  /\ healthy' = TRUE
  /\ mem' = disk'
  /\ \E kept \in [Reqs -> BOOLEAN] :
       /\ \A r \in Reqs : kept[r] => turn[r] /\ "orphan" \in faults
       /\ turn' = kept
  /\ UNCHANGED <<sent, order, reply, faults>>
DiesAfter(chain) ==
  /\ "crash" \in faults
  /\ healthy
  /\ \E k \in 1..(Len(chain) - 1) : disk' = chain[k]
  /\ Down
-----------------------------------------------------------------------------
(* submitTask: wait for the gate, then check, establish the session, admit.   *)
Submit(r) ==
  /\ alive
  /\ \A i \in DOMAIN gate : gate[i] # r
  /\ gate' = Append(gate, r)
  /\ reply' = [reply EXCEPT ![r] = "none"]
  /\ UNCHANGED <<store, alive, asking, pump, turn, sent, order, crashes, faults>>

Leave(answer) ==
  /\ gate' = Tail(gate)
  /\ asking' = FALSE
  /\ reply' = [reply EXCEPT ![Head(gate)] = answer]

Held(m) == Len(m.queue) + (IF m.active = None THEN 0 ELSE 1)
(* The second submission of a key gets the admitted task, and no dispatch.    *)
Replay ==
  /\ alive /\ gate # <<>> /\ ~asking
  /\ healthy
  /\ mem.status[Head(gate)] # "none"
  /\ Leave(mem.status[Head(gate)])
  /\ UNCHANGED <<store, alive, pump, turn, sent, order, crashes, faults>>
Refuse ==
  /\ alive /\ gate # <<>>
  /\ \/ ~asking /\ ~healthy
     \/ ~asking /\ mem.status[Head(gate)] = "none" /\ Held(mem) >= MaxQueued
     \/ asking /\ "reject" \in faults
  /\ Leave("error")
  /\ UNCHANGED <<store, alive, pump, turn, sent, order, crashes, faults>>
Ask ==
  /\ alive /\ gate # <<>> /\ ~asking
  /\ healthy
  /\ mem.status[Head(gate)] = "none"
  /\ Held(mem) < MaxQueued
  /\ asking' = TRUE
  /\ UNCHANGED <<store, alive, gate, pump, turn, sent, order, reply, crashes, faults>>

Admitted(r) == [mem EXCEPT !.status[r] = "queued", !.queue = Append(@, r),
                           !.tasks = Append(@, r)]
(* admitTask writes task, key and queue together; then the dispatcher runs.   *)
Admit ==
  /\ alive /\ gate # <<>> /\ asking
  /\ LET r == Head(gate)
         m == Admitted(r)
         kicked == pump = Idle
         chain == <<m>> \o (IF kicked THEN Work(m) ELSE <<>>)
     IN \/ /\ Wrote(chain, IF kicked THEN Pumping(m) ELSE pump)
           /\ Leave(mem'.status[r])
           /\ UNCHANGED <<alive, turn, sent, order, crashes, faults>>
        \/ /\ FailedWrite(chain, 0, mem, pump)
           /\ Leave("error")
           /\ UNCHANGED <<alive, turn, sent, order, crashes, faults>>
        \/ /\ kicked /\ LoopFails(m, chain, 1)
           /\ Leave(mem'.status[r])
           /\ UNCHANGED <<alive, turn, sent, order, crashes, faults>>
        \/ DiesAfter(chain)
-----------------------------------------------------------------------------
(* runTask after the running mark: evidence, send, the turn, its output.      *)
Send ==
  /\ alive /\ pump.at = "evidence"
  /\ turn' = [turn EXCEPT ![pump.task] = TRUE]
  /\ sent' = [sent EXCEPT ![pump.task] = @ + 1]
  /\ order' = Append(order, pump.task)
  /\ \/ pump' = [pump EXCEPT !.at = "turn"]
     \/ "timeout" \in faults
        /\ pump' = [pump EXCEPT !.at = "output", !.result = "timeout"]
  /\ UNCHANGED <<store, alive, gate, asking, reply, crashes, faults>>
NotSent ==
  /\ alive /\ pump.at = "evidence"
  /\ "reject" \in faults
  /\ pump' = [pump EXCEPT !.at = "output", !.result = "failed"]
  /\ UNCHANGED <<store, alive, gate, asking, turn, sent, order, reply, crashes, faults>>

(* The native turn ends; nobody may wait for it any more.                     *)
TurnEnds(r) ==
  /\ turn[r]
  /\ turn' = [turn EXCEPT ![r] = FALSE]
  /\ IF alive /\ pump.at = "turn" /\ pump.task = r
     THEN \E out \in {"completed", "failed"} :
            pump' = [pump EXCEPT !.at = "output", !.result = out]
     ELSE UNCHANGED pump
  /\ UNCHANGED <<store, alive, gate, asking, sent, order, reply, crashes, faults>>
\* Mutant: the waiter is told the turn stopped.
TurnStopped ==
  /\ alive /\ pump.at = "turn" /\ "timeout" \in faults
  /\ pump' = [pump EXCEPT !.at = "output", !.result = "stopped"]
  /\ UNCHANGED <<store, alive, gate, asking, turn, sent, order, reply, crashes, faults>>
(* The turn's budget is spent: the waiter is dropped, a stop requested.       *)
TurnTimeout ==
  /\ alive /\ pump.at = "turn" /\ "timeout" \in faults
  /\ pump' = [pump EXCEPT !.at = "output", !.result = "timeout"]
  /\ UNCHANGED <<store, alive, gate, asking, turn, sent, order, reply, crashes, faults>>

\* Mutant: the late outcome wins.
SettledLate(m, r, out) == [m EXCEPT !.status[r] = out]
(* The output is read; the status is set unless it is terminal already.       *)
Settled(m, r, out) ==
  IF m.status[r] = "running" THEN [m EXCEPT !.status[r] = out] ELSE m
Vacated(m) == [m EXCEPT !.active = None]
Outcomes ==
  {pump.result} \cup
    (IF pump.result = "timeout" /\ "unread" \in faults THEN {"failed"} ELSE {})
Finish ==
  /\ alive /\ pump.at = "output"
  /\ \E out \in Outcomes :
       LET m1 == Settled(mem, pump.task, out)
           m2 == Vacated(m1)
           chain == <<m1, m2>> \o Work(m2)
       IN \/ /\ Wrote(chain, Pumping(m2))
             /\ UNCHANGED <<alive, gate, asking, turn, sent, order, reply, crashes, faults>>
          \/ /\ \/ FailedWrite(chain, 0, Vacated(Settled(mem, pump.task, "failed")), Idle)
                \/ FailedWrite(chain, 1, m2, Idle)
                \/ LoopFails(m2, chain, 2)
             /\ UNCHANGED <<alive, gate, asking, turn, sent, order, reply, crashes, faults>>
          \/ /\ ~healthy
             /\ mem' = Vacated(Settled(mem, pump.task, "failed"))
             /\ pump' = Idle
             /\ UNCHANGED <<disk, healthy, alive, gate, asking, turn, sent, order, reply, crashes, faults>>
          \/ DiesAfter(chain)
-----------------------------------------------------------------------------
(* Array.filter: the elements of s that are in S, in their order.             *)
Kept(s, S) ==
  LET kept[n \in 0..Len(s)] ==
        IF n = 0 THEN <<>>
        ELSE IF s[n] \in S THEN Append(kept[n - 1], s[n]) ELSE kept[n - 1]
  IN kept[Len(s)]
Without(r) == [mem EXCEPT !.queue = Kept(@, Reqs \ {r})]
Cancelled(m, r) == [m EXCEPT !.status[r] = "cancelled"]
(* cancelTask: a queued task leaves the queue first; the active one is        *)
(* cancelled at once while the stop of its session is only requested.         *)
CancelTask(r) ==
  /\ alive /\ "cancel" \in faults
  /\ mem.status[r] \in {"queued", "running"}
  /\ LET chain == IF \E i \in DOMAIN mem.queue : mem.queue[i] = r
                  THEN <<Without(r), Cancelled(Without(r), r)>>
                  ELSE <<Cancelled(mem, r)>>
     IN \/ /\ \/ Wrote(chain, pump)
              \/ FailedWrite(chain, 0, chain[1], pump)
           /\ UNCHANGED <<alive, gate, asking, turn, sent, order, reply, crashes, faults>>
        \/ DiesAfter(chain)

SetPaused(p) ==
  /\ alive /\ healthy /\ "pause" \in faults
  /\ mem.paused # p
  /\ LET m == [mem EXCEPT !.paused = p]
         kicked == ~p /\ pump = Idle
     IN Wrote(<<m>> \o (IF kicked THEN Work(m) ELSE <<>>),
              IF kicked THEN Pumping(m) ELSE pump)
  /\ UNCHANGED <<alive, gate, asking, turn, sent, order, reply, crashes, faults>>

Crash ==
  /\ alive /\ "crash" \in faults
  /\ disk' = disk
  /\ Down

\* Mutant: what ran is queued again.
RequeuedAll(d) ==
  LET status == [r \in Reqs |-> IF d.status[r] = "running" THEN "queued" ELSE d.status[r]]
  IN [d EXCEPT !.status = status, !.active = None,
               !.queue = Kept(d.tasks, {r \in Reqs : status[r] = "queued"})]
(* reconcileOnRestart: what ran is interrupted, the queue is rebuilt from the *)
(* reserved head, the queue and the admission order.                          *)
Reconciled(d) ==
  LET status == [r \in Reqs |-> IF d.status[r] = "running" THEN "interrupted"
                                                           ELSE d.status[r]]
      head == IF d.active = None THEN <<>> ELSE <<d.active>>
      rest == Kept(d.queue, Reqs \ {d.active})
      late == Kept(d.tasks, {r \in Reqs \ {d.active} : ~Contains(rest, r)})
      all == Kept(head \o rest \o late, {r \in Reqs : status[r] = "queued"})
  IN [d EXCEPT !.status = status, !.queue = all, !.active = None]

(* The stand-alone server kicks the queues after a restart; the service that  *)
(* the native lane talks to does not.                                         *)
Restart ==
  /\ ~alive
  /\ alive' = TRUE
  /\ LET m == Reconciled(disk)
         kicked == "unstarted" \notin faults
     IN Wrote(<<m>> \o (IF kicked THEN Work(m) ELSE <<>>),
              IF kicked THEN Pumping(m) ELSE Idle)
  /\ UNCHANGED <<gate, asking, turn, sent, order, reply, crashes, faults>>

EngineStep ==
  \/ Replay \/ Refuse \/ Ask \/ Admit
  \/ Send \/ NotSent \/ TurnTimeout \/ Finish
  \/ \E r \in Reqs : TurnEnds(r) \/ CancelTask(r)
  \/ \E p \in BOOLEAN : SetPaused(p)
  \/ Crash \/ Restart
-----------------------------------------------------------------------------
EngineTypeOK ==
  /\ disk \in State /\ mem \in State
  /\ healthy \in BOOLEAN /\ alive \in BOOLEAN /\ asking \in BOOLEAN
  /\ gate \in Seq(Reqs)
  /\ pump \in [at: {"idle", "evidence", "turn", "output"},
               task: Reqs \cup {None}, result: Results \cup {"none"}]
  /\ turn \in [Reqs -> BOOLEAN]
  /\ sent \in [Reqs -> Nat] /\ order \in Seq(Reqs)
  /\ reply \in [Reqs -> Status \cup {"error"}]
  /\ crashes \in 0..MaxCrashes
  /\ faults \in SUBSET Faults

(* An instruction reaches the agent at most once, whatever write fails and    *)
(* wherever the service dies: the running mark is on disk before the send     *)
(* (engine.ts:545), and a restart interrupts what it finds running            *)
(* (persistence.ts:71).                                                       *)
SentAtMostOnce == \A r \in Reqs : sent[r] <= 1

(* What a caller was told is admitted is on disk and stays there              *)
(* (persistence.ts:47), so the same key never admits a second task.           *)
AnswerIsDurable ==
  \A r \in Reqs : reply[r] \notin {"none", "error"} => disk.status[r] # "none"

(* A terminal status on disk is never replaced (engine.ts:593, "never         *)
(* overwrite terminal truth"), by a late turn, a cancel or a restart.         *)
TerminalIsTruth ==
  [][\A r \in Reqs : disk.status[r] \in Terminal => disk'.status[r] = disk.status[r]]_engineVars
=============================================================================
