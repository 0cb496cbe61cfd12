--------------------------- MODULE QueueCoordinator ---------------------------
(* The coordinator of the governed queue (execution/zcode-coordinator.ts) and  *)
(* the files it shares with the control plane (execution/zcode-control.ts):    *)
(* it claims tasks of queue.jsonl, dispatches them to the native lane under    *)
(* their task id as key, and writes the receipts.  Every bridge process has    *)
(* one; the heartbeat in worker-state.json decides which of them works.        *)
EXTENDS Naturals, FiniteSets, FiniteSetsExt

CONSTANTS
  Workers,      \* bridge processes, each of which lives once
  NoWorker,
  MaxEntries,   \* bound: tasks 1..MaxEntries, in the order of the queue file
  MaxListed,    \* tasks that listTasks() returns, the oldest of the file
  Needs,        \* depends_on of each task
  Readers,      \* tasks that do not write; all others exclude each other
  MaxParallel,
  ErrorLimit,   \* ACTIVE_ERROR_LIMIT
  MaxUpsets     \* bound: faults, pauses and ends of processes

Entries == 1..MaxEntries
ASSUME QueueConstants ==
  /\ NoWorker \notin Workers /\ MaxEntries \in Nat /\ MaxListed \in Nat /\ MaxUpsets \in Nat
  /\ Needs \in [Entries -> SUBSET Entries] /\ Readers \subseteq Entries
  /\ MaxParallel \in 1..3 /\ ErrorLimit \in Nat \ {0}

VARIABLES
  listed,      \* lines of queue.jsonl
  withdrawn,   \* tasks with a CANCEL_REQUESTED in control.jsonl
  started,     \* tasks with a START receipt
  verdict,     \* the first terminal receipt of a task
  file,        \* worker-state.json
  fresh,       \* its heartbeat is younger than staleAfterMs
  held,        \* the queue of the workspace is paused
  lane,        \* the native task of a key
  told,        \* native tasks that were asked to cancel
  work,        \* the tick of each process
  halted,      \* processes whose coordinator was stopped
  unseen,      \* admissions whose answer or START receipt got lost (history)
  overlap,     \* two ticks ever ran at once (history)
  upsets

queueVars == <<listed, withdrawn, started, verdict, file, fresh, held, lane, told, work, halted,
               unseen, overlap, upsets>>
receipts == <<started, verdict>>
queueFiles == <<listed, withdrawn, held>>
laneSide == <<lane, told>>

LaneEnds == {"completed", "failed", "cancelled"}
Ends == {"COMPLETED", "FAILED", "CANCELLED"}
NoTick == [at |-> "off", known |-> {}, fails |-> [e \in Entries |-> 0], rest |-> {},
           again |-> {}, up |-> FALSE]

QueueInit ==
  /\ listed = 0 /\ withdrawn = {} /\ started = {} /\ verdict = [e \in Entries |-> "none"]
  /\ file = [owner |-> NoWorker, stopped |-> FALSE, tracked |-> {}] /\ fresh = FALSE
  /\ held = FALSE /\ lane = [e \in Entries |-> "none"] /\ told = {}
  /\ \E at \in {"new", "off"} : work = [w \in Workers |-> [NoTick EXCEPT !.at = at]]
  /\ halted = {}
  /\ unseen = {} /\ overlap = FALSE /\ upsets = 0

Upset == upsets < MaxUpsets /\ upsets' = upsets + 1
(* statusFor(): the first terminal receipt decides.                           *)
StatusFor(e) ==
  IF verdict[e] # "none" THEN verdict[e]
  ELSE IF e \in started THEN "running"
  ELSE IF e \in withdrawn THEN "cancel_requested" ELSE "queued"
Views == {e \in Entries : e <= listed /\ e <= MaxListed}
Conflict(d, e) == d \notin Readers /\ e \notin Readers
-----------------------------------------------------------------------------
(* The control plane: enqueue(), requestCancel(), the pause of the workspace. *)
Enqueues ==
  /\ listed < MaxEntries
  /\ listed' = listed + 1
  /\ UNCHANGED <<withdrawn, held, receipts, file, fresh, laneSide, work, halted, unseen, overlap,
                 upsets>>
RequestsCancel(e) ==
  /\ e <= listed /\ e \notin withdrawn /\ verdict[e] = "none" /\ Upset
  /\ withdrawn' = withdrawn \cup {e}
  /\ UNCHANGED <<listed, held, receipts, file, fresh, laneSide, work, halted, unseen, overlap>>
Pauses ==
  /\ Upset
  /\ held' = ~held
  /\ UNCHANGED <<listed, withdrawn, receipts, file, fresh, laneSide, work, halted, unseen, overlap>>
-----------------------------------------------------------------------------
Tick(w, changes) == work' = [work EXCEPT ![w] = changes]
StepsTo(w, at) == Tick(w, [work[w] EXCEPT !.at = at])
First(w) == Min(work[w].rest)
Passes(w) == [work[w] EXCEPT !.rest = @ \ {First(w)}]
Receipt(e, event) == verdict' = [verdict EXCEPT ![e] = IF @ = "none" THEN event ELSE @]

(* start(): what the file tracks is adopted before the owner is looked at.    *)
(* A bridge beside another is counted as an upset.                            *)
Alone(w) == \A v \in Workers \ {w} : work[v].at \in {"new", "off"}
Boots(w) ==
  /\ work[w].at = "new"
  /\ IF Alone(w) THEN UNCHANGED upsets ELSE Upset
  /\ Tick(w, [NoTick EXCEPT !.at = "idle", !.known = file.tracked])
  /\ UNCHANGED <<queueFiles, receipts, file, fresh, laneSide, halted, unseen, overlap>>

(* assertOwnership(): a live heartbeat of another process makes it stand by.  *)
\* Mutant: only a graceful end lets another process take over.
OwnsAfterStop(w) == file.owner \in {NoWorker, w} \/ file.stopped
Owns(w) == file.owner \in {NoWorker, w} \/ ~fresh \/ file.stopped
Ticking(w) == work[w].at \notin {"new", "idle", "off"}
BeginsTick(w) ==
  /\ work[w].at = "idle" /\ w \notin halted /\ Owns(w)
  /\ StepsTo(w, "status")
  /\ overlap' = (overlap \/ \E v \in Workers : Ticking(v))
  /\ UNCHANGED <<queueFiles, receipts, file, fresh, laneSide, halted, unseen, upsets>>
CancelsNext(r) ==
  IF r.rest # {} THEN r
  ELSE IF r.up THEN [r EXCEPT !.at = "poll", !.rest = r.known, !.again = {}]
  ELSE [r EXCEPT !.at = "write", !.again = {}]
(* refreshNative(), then the views of resolveCancellations().                 *)
NativeStatus(w) ==
  /\ work[w].at = "status"
  /\ \E lanesUp \in BOOLEAN :
       /\ IF lanesUp THEN UNCHANGED upsets ELSE Upset
       /\ Tick(w, CancelsNext([work[w] EXCEPT !.at = "cancel", !.up = lanesUp,
            !.rest = {e \in Views \cap withdrawn : verdict[e] = "none"},
            !.again = {e \in Views : StatusFor(e) = "running"}]))
  /\ UNCHANGED <<queueFiles, receipts, file, fresh, laneSide, halted, unseen, overlap>>
\* Mutant: a task that runs, but is not known here, is cancelled without the lane.
CancelsUnknown(w) ==
  /\ work[w].at = "cancel" /\ work[w].rest # {}
  /\ LET e == First(w) IN
       /\ Tick(w, CancelsNext(Passes(w)))
       /\ IF e \in work[w].known THEN told' = told \cup {e} /\ UNCHANGED verdict
                                ELSE Receipt(e, "CANCELLED") /\ UNCHANGED told
  /\ UNCHANGED <<queueFiles, started, file, fresh, lane, halted, unseen, overlap, upsets>>
(* A dispatched task is cancelled in the native lane, if it is known there;   *)
(* any other gets its receipt here.                                           *)
ResolvesCancel(w) ==
  /\ work[w].at = "cancel" /\ work[w].rest # {}
  /\ LET e == First(w) IN
       /\ Tick(w, CancelsNext(Passes(w)))
       /\ \/ /\ e \in work[w].again
             /\ told' = IF e \in work[w].known THEN told \cup {e} ELSE told
             /\ UNCHANGED <<verdict, upsets>>
          \/ e \notin work[w].again /\ Receipt(e, "CANCELLED") /\ UNCHANGED <<told, upsets>>
          \/ Upset /\ UNCHANGED <<told, verdict>>
  /\ UNCHANGED <<queueFiles, started, file, fresh, lane, halted, unseen, overlap>>
(* pollActiveForTerminal(): the native task has ended, still runs, or cannot  *)
(* be seen; after too many errors, or when the lane does not know it, the     *)
(* coordinator gives up, with a receipt unless that write fails as well.      *)
EventOf == [completed |-> "COMPLETED", failed |-> "FAILED", cancelled |-> "CANCELLED"]
Forgets(w, e) == Tick(w, [Passes(w) EXCEPT !.known = @ \ {e}, !.fails[e] = 0])
GivesUp(w, e) == (Receipt(e, "FAILED") \/ UNCHANGED verdict) /\ Forgets(w, e)
Polls(w) ==
  /\ work[w].at = "poll" /\ work[w].rest # {}
  /\ LET e == First(w) IN
       \/ /\ lane[e] \in LaneEnds
          /\ Receipt(e, EventOf[lane[e]]) /\ Forgets(w, e)
          /\ UNCHANGED upsets
       \/ /\ lane[e] = "running"
          /\ Tick(w, [Passes(w) EXCEPT !.fails[e] = 0])
          /\ UNCHANGED <<verdict, upsets>>
       \/ /\ Upset
          /\ \/ GivesUp(w, e)
             \/ /\ work[w].fails[e] + 1 < ErrorLimit
                /\ Tick(w, [Passes(w) EXCEPT !.fails[e] = @ + 1])
                /\ UNCHANGED verdict
  /\ UNCHANGED <<queueFiles, started, file, fresh, laneSide, halted, unseen, overlap>>

(* claimAndDispatch(): the views, what they say of dependencies and the       *)
(* conflicts with the tasks known by then hold for the whole loop.            *)
Interrupted(w) == {e \in Views : StatusFor(e) = "running" /\ e \notin work[w].known}
Claimable(w) ==
  {e \in Views :
     /\ \/ e \in Interrupted(w)
        \/ /\ StatusFor(e) = "queued"
           /\ \A d \in Needs[e] : d \in Views /\ StatusFor(d) = "COMPLETED"
     /\ \A d \in work[w].known \cap Views : ~Conflict(d, e)}
(* The next task of the loop, if there is one and it may still be claimed.    *)
ClaimsNext(r) ==
  IF r.rest = {} \/ held \/ Cardinality(r.known) >= MaxParallel
  THEN [r EXCEPT !.at = "write", !.rest = {}, !.again = {}]
  ELSE [r EXCEPT !.at = "send"]
Claims(w) ==
  /\ work[w].at = "poll" /\ work[w].rest = {}
  /\ Tick(w, ClaimsNext([work[w] EXCEPT !.rest = Claimable(w), !.again = Interrupted(w)]))
  /\ UNCHANGED <<queueFiles, receipts, file, fresh, laneSide, halted, unseen, overlap, upsets>>
(* submitTask(): the pause is read once more right before the request leaves. *)
Submits(w) ==
  /\ work[w].at = "send"
  /\ LET e == First(w) IN
       \/ held /\ Tick(w, ClaimsNext(Passes(w))) /\ UNCHANGED <<lane, upsets>>
       \/ Upset /\ Tick(w, ClaimsNext(Passes(w))) /\ UNCHANGED lane
       \/ /\ ~held
          /\ lane' = [lane EXCEPT ![e] = IF @ = "none" THEN "running" ELSE @]
          /\ StepsTo(w, "sent") /\ UNCHANGED upsets
  /\ UNCHANGED <<queueFiles, receipts, file, fresh, told, halted, unseen, overlap>>
SubmitAnswered(w) ==
  /\ work[w].at = "sent"
  /\ LET e == First(w) IN
       \/ /\ Tick(w, IF e \in work[w].again
                     THEN ClaimsNext([Passes(w) EXCEPT !.known = @ \cup {e}, !.fails[e] = 0])
                     ELSE [work[w] EXCEPT !.at = "start", !.known = @ \cup {e}, !.fails[e] = 0])
          /\ UNCHANGED <<unseen, upsets>>
       \/ /\ Upset
          /\ Tick(w, ClaimsNext(Passes(w)))
          /\ unseen' = unseen \cup {e}
  /\ UNCHANGED <<queueFiles, receipts, file, fresh, laneSide, halted, overlap>>
StartReceipt(w) ==
  /\ work[w].at = "start"
  /\ LET e == First(w) IN
       \/ started' = started \cup {e} /\ unseen' = unseen \ {e} /\ UNCHANGED upsets
       \/ Upset /\ unseen' = unseen \cup {e} /\ UNCHANGED started
  /\ Tick(w, ClaimsNext(Passes(w)))
  /\ UNCHANGED <<queueFiles, verdict, file, fresh, laneSide, halted, overlap>>
(* writeState(): the heartbeat, once a tick.                                  *)
WritesState(w) ==
  /\ work[w].at = "write"
  /\ StepsTo(w, "idle")
  /\ file' = [owner |-> w, stopped |-> FALSE, tracked |-> work[w].known] /\ fresh' = TRUE
  /\ UNCHANGED <<queueFiles, receipts, laneSide, halted, unseen, overlap, upsets>>
-----------------------------------------------------------------------------
(* A process leaves only when another one is still to come.                   *)
Another == \E v \in Workers : work[v].at = "new"
(* stop(), called after a bounded wait for the tick, also by one that stands  *)
(* by; the process ends later.                                                *)
Stops(w) ==
  /\ work[w].at \notin {"new", "off"} /\ w \notin halted /\ Another /\ Upset
  /\ halted' = halted \cup {w}
  /\ file' = [owner |-> w, stopped |-> TRUE, tracked |-> work[w].known] /\ fresh' = TRUE
  /\ UNCHANGED <<queueFiles, receipts, laneSide, work, unseen, overlap>>
Vanishes(w) ==
  /\ work[w].at \notin {"new", "off"}
  /\ Tick(w, NoTick)
  /\ unseen' = IF work[w].at \in {"sent", "start"} THEN unseen \cup {First(w)} ELSE unseen
  /\ UNCHANGED <<queueFiles, receipts, file, fresh, laneSide, halted, overlap>>
Exits(w) == w \in halted /\ Vanishes(w) /\ UNCHANGED upsets
Dies(w) == w \notin halted /\ Another /\ Upset /\ Vanishes(w)
(* The heartbeat of a process that is gone grows old, and that of one whose   *)
(* tick takes long: it is written at the end of a tick only.                  *)
GrowsOld ==
  /\ fresh /\ file.owner # NoWorker
  /\ fresh' = FALSE
  /\ \/ work[file.owner].at = "off" /\ UNCHANGED upsets
     \/ Ticking(file.owner) /\ Upset
  /\ UNCHANGED <<queueFiles, receipts, file, laneSide, work, halted, unseen, overlap>>

NativeEnds(e) ==
  /\ lane[e] = "running"
  /\ \E r \in IF e \in told THEN LaneEnds ELSE {"completed", "failed"} :
       lane' = [lane EXCEPT ![e] = r]
  /\ UNCHANGED <<queueFiles, receipts, file, fresh, told, work, halted, unseen, overlap, upsets>>

TickStep(w) ==
  \/ BeginsTick(w) \/ NativeStatus(w) \/ ResolvesCancel(w)
  \/ Polls(w) \/ Claims(w) \/ Submits(w) \/ SubmitAnswered(w)
  \/ StartReceipt(w) \/ WritesState(w)
QueueNext ==
  \/ Enqueues \/ Pauses \/ GrowsOld
  \/ \E e \in Entries : RequestsCancel(e) \/ NativeEnds(e)
  \/ \E w \in Workers : Boots(w) \/ TickStep(w) \/ Stops(w) \/ Exits(w) \/ Dies(w)
QueueSpec == QueueInit /\ [][QueueNext]_queueVars
(* The timer ticks on, bridges are started again, a native task has a time    *)
(* limit, and time passes.                                                    *)
QueueFairness ==
  /\ \A w \in Workers : WF_queueVars(Alone(w) /\ Boots(w)) /\ WF_queueVars(TickStep(w)) /\ WF_queueVars(Exits(w))
  /\ \A e \in Entries : WF_queueVars(NativeEnds(e))
  /\ WF_queueVars(GrowsOld /\ work[file.owner].at = "off")
-----------------------------------------------------------------------------
QueueTypeOK ==
  /\ listed \in 0..MaxEntries /\ withdrawn \subseteq Entries /\ started \subseteq Entries
  /\ verdict \in [Entries -> Ends \cup {"none"}]
  /\ file \in [owner: Workers \cup {NoWorker}, stopped: BOOLEAN, tracked: SUBSET Entries]
  /\ {fresh, held, overlap} \subseteq BOOLEAN
  /\ lane \in [Entries -> LaneEnds \cup {"none", "running"}] /\ told \subseteq Entries
  /\ work \in [Workers ->
       [at: {"new", "off", "idle", "status", "cancel", "poll", "send", "sent", "start",
             "write"},
        known: SUBSET Entries, fails: [Entries -> 0..(ErrorLimit - 1)], rest: SUBSET Entries,
        again: SUBSET Entries, up: BOOLEAN]]
  /\ halted \subseteq Workers /\ unseen \subseteq Entries /\ upsets \in 0..MaxUpsets

(* The receipts are the truth of the lane: no COMPLETED for a task that did   *)
(* not complete, no START for one that was not admitted, no CANCELLED for one *)
(* that runs or ran to its end, as long as the coordinator did not lose sight *)
(* of its admission and no two coordinators worked at once.                   *)
ReceiptsAreTrue ==
  \A e \in Entries :
    /\ verdict[e] = "COMPLETED" => lane[e] = "completed"
    /\ e \in started => lane[e] # "none"
    /\ verdict[e] = "CANCELLED" => lane[e] \in {"none", "cancelled"} \/ e \in unseen \/ overlap
(* Every task of the listing gets its terminal receipt, whoever dies, stands  *)
(* by or loses an answer, unless the queue is paused or a task it depends on  *)
(* did not complete.                                                          *)
Delivered(e) ==
  \/ verdict[e] # "none" \/ held
  \/ \E d \in Needs[e] : verdict[d] \in {"FAILED", "CANCELLED"}
QueueDelivers == []<>(\A e \in Views : Delivered(e))
===============================================================================
