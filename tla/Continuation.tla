---------------------------- MODULE Continuation -----------------------------
(* The continuation controller (execution/continuation.ts with the attempts of *)
(* continuation-review.ts): an approved plan whose nodes are executed one      *)
(* after another by the task manager, each reviewed by an independent native   *)
(* reviewer before its successor may run.  One reconciliation runs at a time   *)
(* and is interleaved, at each await, with the queue, the reviewers, edits of  *)
(* the workspace, the user and the death of the process.                       *)
EXTENDS Naturals, FiniteSets

CONSTANTS
  Last,         \* nodes are 1..Last; node n depends on node n - 1
  Tries,        \* executor tasks of a node: one and its corrective inputs
  MaxReviews,   \* MAX_REVIEW_ATTEMPTS
  MaxEdits,     \* bound: changes of the reviewed surface
  MaxUpsets     \* bound: deaths, pauses, cancellations, lost answers, time-outs

ASSUME PlanConstants ==
  /\ Last \in Nat \ {0} /\ Tries \in Nat \ {0} /\ MaxReviews \in Nat \ {0}
  /\ MaxEdits \in Nat /\ MaxUpsets \in Nat

VARIABLES
  plan,      \* the controller's memory: its nodes and whether it is cancelled
  planDisk,  \* state.json
  ctl,       \* where the reconciliation stands
  task,      \* the executor tasks of the task manager, durable
  review,    \* the native review of each intent
  source,    \* the fingerprint of the workspace
  paused,    \* the user paused the queue
  leaseOver, \* the lease of the plan has ended
  upsets

planVars == <<plan, planDisk, ctl, task, review, source, paused, leaseOver, upsets>>
outside == <<task, review, source, paused, leaseOver, upsets>>

Nodes == 1..Last
Unended == {"queued", "running"}
Decisions == {"PASS", "REWORK", "BLOCKED"}
NoAttempt == [id |-> 0, key |-> 0, task |-> 0, fp |-> 0, st |-> "none", late |-> FALSE,
              changed |-> FALSE]
Fresh == [tasks |-> 0, state |-> "PENDING", att |-> NoAttempt]
Idle == [at |-> "idle", n |-> 1, gate |-> FALSE, busy |-> FALSE]

PlanInit ==
  /\ plan = [nodes |-> [n \in Nodes |-> Fresh], cancelled |-> FALSE]
  /\ planDisk = plan /\ ctl = Idle
  /\ task = [n \in Nodes |-> [k \in 1..Tries |-> "none"]]
  /\ review = [n \in Nodes |-> [i \in 1..MaxReviews |-> "none"]]
  /\ source = 0 /\ paused = FALSE /\ leaseOver = FALSE /\ upsets = 0

Upset == upsets < MaxUpsets /\ upsets' = upsets + 1
AnyLive == \E n \in Nodes, k \in 1..Tries : task[n][k] \in Unended
CanReview == ~paused /\ ~plan.cancelled /\ ~AnyLive /\ ~leaseOver
SameSource(a) == a.fp = source
ReviewPassed(n) ==
  LET x == plan.nodes[n]
  IN x.state = "STABLE" /\ x.att.st = "PASS" /\ x.att.task = x.tasks /\ SameSource(x.att)
DependencyPassed(n) == n = 1 \/ ReviewPassed(n - 1)

(* Where the reconciliation awaits; elsewhere nothing else of the process runs. *)
Awaits == ctl.at \in {"idle", "expire", "cancel", "submit", "answer", "poll", "polled", "dispatch"}

Moves(at, n, g) == ctl' = [ctl EXCEPT !.at = at, !.n = n, !.gate = g]
NextNode(n) == IF n < Last THEN Moves("visit", n + 1, FALSE) ELSE Moves("select", 1, FALSE)
Node(n, x) == plan' = [plan EXCEPT !.nodes[n] = x]
Save == planDisk' = plan'
-----------------------------------------------------------------------------
(* reconcile() begins; a reviewer whose deadline passed is blocked first, and  *)
(* on disk, before its cancellation is tried.                                  *)
Expired(n) == plan.nodes[n].att.st = "ACTIVE" /\ plan.nodes[n].att.late
Blocked(x) == [x EXCEPT !.att.st = "BLOCKED", !.state = "BLOCKED_REVIEW"]
TimeoutReview(n, at) ==
  /\ Node(n, Blocked(plan.nodes[n])) /\ Save
  /\ Moves(at, n, FALSE)
Wakes ==
  /\ ctl.at \in {"boot", "idle"}
  /\ \/ \E n \in Nodes : Expired(n) /\ TimeoutReview(n, "expire")
     \/ /\ \A n \in Nodes : ~Expired(n)
        /\ ctl' = [at |-> "visit", n |-> 1, gate |-> FALSE, busy |-> AnyLive]
        /\ UNCHANGED <<plan, planDisk>>
  /\ UNCHANGED outside
CancelReview ==
  /\ ctl.at \in {"expire", "cancel"}
  /\ LET n == ctl.n
         i == plan.nodes[n].att.key
     IN /\ \/ review[n][i] = "running" /\ review' = [review EXCEPT ![n][i] = "cancelled"]
           \/ UNCHANGED review
        /\ IF ctl.at = "expire" THEN Moves("boot", 1, FALSE) ELSE NextNode(n)
  /\ UNCHANGED <<plan, planDisk, task, source, paused, leaseOver, upsets>>
-----------------------------------------------------------------------------
(* One node of the loop.  Tasks that reached the disk under one of the node's *)
(* idempotency keys are adopted first.                                        *)
Adopted(n) ==
  [plan.nodes[n] EXCEPT !.tasks = Cardinality({k \in 1..Tries : task[n][k] # "none"})]
Latest(n) == task[n][Adopted(n).tasks]
Consumed(n) ==
  /\ plan.nodes[n].state = "STABLE" /\ plan.nodes[n].att.st = "PASS"
  /\ n < Last /\ plan.nodes[n + 1].tasks > 0
Visiting(n) == ctl.at = "visit" /\ ctl.n = n

VisitUnfinished(n) ==
  /\ Visiting(n)
  /\ \/ Adopted(n).tasks = 0 /\ Node(n, Adopted(n))
     \/ Adopted(n).tasks > 0 /\ Latest(n) \in Unended /\ Node(n, [Adopted(n) EXCEPT !.state = "ACTIVE"])
     \/ Adopted(n).tasks > 0 /\ Latest(n) \notin Unended /\ Consumed(n) /\ Node(n, Adopted(n))
  /\ NextNode(n)
  /\ UNCHANGED <<planDisk, outside>>
Visited(n) ==
  Visiting(n) /\ Adopted(n).tasks > 0 /\ Latest(n) \notin Unended /\ ~Consumed(n)
Unsent(n) == plan.nodes[n].att.st = "DISPATCHING" /\ CanReview
(* The original request is sent again before anything else is looked at.      *)
VisitRecovers(n) ==
  /\ Visited(n) /\ Unsent(n)
  /\ \E g \in BOOLEAN : (g => Latest(n) = "completed") /\ Moves("submit", n, g)
  /\ Node(n, Adopted(n)) /\ Save
  /\ UNCHANGED outside
Interrupted(n) == plan.nodes[n].att.st \in {"ACTIVE", "DISPATCHING", "DISPATCH_BLOCKED"}
VisitUnreviewed(n) ==
  /\ Visited(n) /\ ~Unsent(n)
  /\ \/ /\ Latest(n) = "cancelled"
        /\ plan' = [plan EXCEPT !.nodes[n] = [Adopted(n) EXCEPT !.state = "CANCELLED"],
                                !.cancelled = TRUE]
     \/ /\ Latest(n) # "cancelled" /\ ~Interrupted(n)
        /\ Node(n, [Adopted(n) EXCEPT
                      !.state = IF Latest(n) = "completed" THEN "WAITING_REVIEW" ELSE "FAILED"])
  /\ NextNode(n)
  /\ UNCHANGED <<planDisk, outside>>

(* machineReview() of a node whose gate passed, or that has a review under    *)
(* way: the outcome stands, is polled, or a new attempt is made durable and   *)
(* sent.                                                                      *)
Reviewing(n, g) ==
  /\ Visited(n) /\ ~Unsent(n) /\ Latest(n) # "cancelled"
  /\ g \in BOOLEAN /\ (g => Latest(n) = "completed") /\ (g \/ Interrupted(n))
Decided(n, a) ==
  \/ a.st \in {"BLOCKED", "DISPATCH_BLOCKED"}
  \/ a.st = "DISPATCHING" /\ ~CanReview
  \/ a.st = "PASS" /\ a.task = Adopted(n).tasks /\ SameSource(a)
  \/ a.st = "REWORK" /\ a.task = Adopted(n).tasks
ReviewStands(n, g) ==
  /\ Reviewing(n, g) /\ Decided(n, plan.nodes[n].att)
  /\ LET a == plan.nodes[n].att
     IN Node(n, [Adopted(n) EXCEPT
          !.state = CASE a.st = "PASS" -> IF g THEN "STABLE" ELSE "WAITING_REVIEW"
                      [] a.st = "REWORK" -> "REWORK"
                      [] a.st = "DISPATCHING" -> "WAITING_REVIEW"
                      [] OTHER -> "BLOCKED_REVIEW"])
  /\ NextNode(n)
  /\ UNCHANGED <<planDisk, outside>>
ReviewContinues(n, g) ==
  /\ Reviewing(n, g) /\ plan.nodes[n].att.st = "ACTIVE"
  /\ LET a == plan.nodes[n].att
     IN Node(n, [Adopted(n) EXCEPT
          !.state = "WAITING_REVIEW",
          !.att.changed = @ \/ ~SameSource(a) \/ a.task # Adopted(n).tasks])
  /\ IF CanReview THEN Moves("poll", n, g) ELSE NextNode(n)
  /\ UNCHANGED <<planDisk, outside>>
(* randomUUID: a key that no reviewer was ever asked under.                   *)
FreshKey(n) == 1 + Cardinality({i \in 1..MaxReviews : review[n][i] # "none"})
\* Mutant: the attempt is recorded once its reviewer is known.
RecordNotYet == UNCHANGED planDisk
RecordIntent == Save
ReviewBegins(n, g) ==
  /\ Reviewing(n, g) /\ plan.nodes[n].att.st # "ACTIVE" /\ ~Decided(n, plan.nodes[n].att)
  /\ LET a == plan.nodes[n].att
         stale == [Adopted(n) EXCEPT !.att.st = IF @ = "PASS" THEN "STALE" ELSE @]
     IN \/ /\ ~CanReview \/ ~g
           /\ Node(n, [stale EXCEPT !.state = "WAITING_REVIEW"])
           /\ NextNode(n) /\ UNCHANGED planDisk
        \/ /\ CanReview /\ g /\ a.id = MaxReviews
           /\ Node(n, [stale EXCEPT !.state = "BLOCKED_REVIEW"])
           /\ NextNode(n) /\ UNCHANGED planDisk
        \/ /\ CanReview /\ g /\ a.id < MaxReviews
           /\ Node(n, [stale EXCEPT
                !.state = "WAITING_REVIEW",
                !.att = [id |-> a.id + 1, key |-> FreshKey(n), task |-> Adopted(n).tasks, fp |-> source,
                         st |-> "DISPATCHING", late |-> FALSE, changed |-> FALSE]])
           /\ Moves("submit", n, g) /\ RecordIntent
  /\ UNCHANGED outside
-----------------------------------------------------------------------------
(* dispatchReview(): the last look at the pause is after the handshake; the   *)
(* key makes the upstream replay a request that it has seen.                  *)
SubmitReview ==
  /\ ctl.at = "submit"
  /\ LET n == ctl.n
         x == plan.nodes[n]
     IN \/ /\ ~CanReview
           /\ Node(n, [x EXCEPT !.att.st = "DISPATCH_BLOCKED", !.state = "BLOCKED_REVIEW"])
           /\ Save /\ NextNode(n) /\ UNCHANGED review
        \/ /\ CanReview
           /\ \/ review[n][x.att.key] = "none" /\ review' = [review EXCEPT ![n][x.att.key] = "running"]
              \/ UNCHANGED review
           /\ Moves("answer", n, ctl.gate)
           /\ UNCHANGED <<plan, planDisk>>
  /\ UNCHANGED <<task, source, paused, leaseOver, upsets>>
ReviewAnswered ==
  /\ ctl.at = "answer"
  /\ LET n == ctl.n
         x == plan.nodes[n]
     IN \/ /\ review[n][x.att.key] # "none"
           /\ Node(n, [x EXCEPT !.att.st = "ACTIVE"]) /\ Save
           /\ Moves("poll", n, ctl.gate) /\ UNCHANGED upsets
        \/ /\ Upset
           /\ Node(n, [x EXCEPT !.att.st = "DISPATCHING", !.state = "WAITING_REVIEW_RECOVERY"])
           /\ Save /\ NextNode(n)
        \/ /\ Upset \/ (review[n][x.att.key] = "none" /\ UNCHANGED upsets)
           /\ Node(n, [x EXCEPT !.att.st = "DISPATCH_BLOCKED", !.state = "BLOCKED_REVIEW"])
           /\ Save /\ NextNode(n)
  /\ UNCHANGED <<task, review, source, paused, leaseOver>>
(* One poll; the decision is read, then used after further awaits.            *)
PollReview ==
  /\ ctl.at = "poll"
  /\ LET n == ctl.n
         r == review[n][plan.nodes[n].att.key]
     IN \/ Expired(n) /\ TimeoutReview(n, "cancel")
        \/ /\ ~Expired(n) /\ (~CanReview \/ r = "running")
           /\ NextNode(n) /\ UNCHANGED <<plan, planDisk>>
        \/ /\ ~Expired(n) /\ CanReview /\ r # "running"
           /\ Moves("polled", n, ctl.gate) /\ UNCHANGED <<plan, planDisk>>
  /\ UNCHANGED outside
ReviewDecided ==
  /\ ctl.at = "polled"
  /\ LET n == ctl.n
         x == plan.nodes[n]
         r == review[n][x.att.key]
         After(st, state) == Node(n, [x EXCEPT !.att.st = st, !.state = state]) /\ Save /\ NextNode(n)
     IN \/ Expired(n) /\ TimeoutReview(n, "cancel")
        \/ ~Expired(n) /\ r \notin Decisions /\ After("BLOCKED", "BLOCKED_REVIEW")
        \/ /\ ~Expired(n) /\ r \in Decisions /\ (x.att.changed \/ ~SameSource(x.att))
           /\ After("STALE", "STALE")
        \/ /\ ~Expired(n) /\ r \in Decisions /\ ~x.att.changed /\ SameSource(x.att)
           /\ After(r, IF r = "PASS" /\ ctl.gate /\ CanReview THEN "STABLE"
                       ELSE IF r = "REWORK" THEN "REWORK" ELSE "WAITING_REVIEW")
  /\ UNCHANGED outside
(* A call of the poll fails or its answer is not of this reviewer: the review  *)
(* is blocked, and the reviewer, which may still run, is left alone.           *)
PollFails ==
  /\ ctl.at \in {"poll", "polled"}
  /\ LET n == ctl.n
     IN /\ ~Expired(n) /\ (ctl.at = "poll" => CanReview) /\ Upset
        /\ Node(n, [plan.nodes[n] EXCEPT !.att.st = "BLOCKED", !.state = "BLOCKED_REVIEW"])
        /\ Save /\ NextNode(n)
  /\ UNCHANGED <<task, review, source, paused, leaseOver>>
-----------------------------------------------------------------------------
(* The rest of reconcile(): reviews of a changed workspace are withdrawn and  *)
(* the first eligible node is taken; it is submitted after the catalog was    *)
(* asked.                                                                     *)
Withdrawn ==
  [n \in Nodes |->
     LET x == plan.nodes[n]
     IN IF x.att.st = "PASS" /\ ~SameSource(x.att) /\ (n = Last \/ plan.nodes[n + 1].tasks = 0)
        THEN [x EXCEPT !.att.st = "STALE", !.state = "STALE"] ELSE x]
\* x: the node as the withdrawal left it, which changes nothing of what
\* DependencyPassed says, since a PASS over these very files is not withdrawn.
Eligible(n, x) ==
  /\ \/ x.state = "PENDING" /\ x.tasks = 0
     \/ x.state = "FAILED" /\ x.tasks < Tries
     \/ x.state = "REWORK" /\ x.att.id < MaxReviews /\ x.tasks < Tries
  /\ DependencyPassed(n)
First(S) == CHOOSE n \in S : \A m \in S : n <= m
Selects ==
  /\ ctl.at = "select"
  /\ LET ready == {n \in Nodes : Eligible(n, Withdrawn[n])}
         stopped == paused \/ plan.cancelled \/ leaseOver
     IN /\ plan' = IF stopped THEN plan ELSE [plan EXCEPT !.nodes = Withdrawn]
        /\ Save
        /\ IF stopped \/ ctl.busy \/ ready = {} THEN ctl' = Idle
                                               ELSE Moves("dispatch", First(ready), FALSE)
  /\ UNCHANGED outside
DispatchNode ==
  /\ ctl.at = "dispatch"
  /\ LET n == ctl.n
         k == plan.nodes[n].tasks + 1
     IN IF ~CanReview \/ ~DependencyPassed(n)
        THEN ctl' = Idle /\ UNCHANGED <<plan, task>>
        ELSE /\ task' = [task EXCEPT ![n][k] = IF @ = "none" THEN "queued" ELSE @]
             /\ Node(n, [plan.nodes[n] EXCEPT !.tasks = k, !.state = "ACTIVE"])
             /\ Moves("handoff", n, FALSE)
  /\ UNCHANGED <<planDisk, review, source, paused, leaseOver, upsets>>
HandsOff ==
  /\ ctl.at = "handoff"
  /\ planDisk' = plan /\ ctl' = Idle
  /\ UNCHANGED <<plan, outside>>
-----------------------------------------------------------------------------
(* The task manager: the pump asks the controller again before it starts.     *)
\* Mutant: a queued task starts without asking again.
AuthorizedAlways(n) == TRUE
Authorized(n) == ~paused /\ ~plan.cancelled /\ ~leaseOver /\ DependencyPassed(n)
Becomes(n, k, s) == task' = [task EXCEPT ![n][k] = s]
Pumps(n, k) ==
  /\ (Awaits \/ ctl.at = "boot") /\ task[n][k] = "queued" /\ ~paused
  /\ Becomes(n, k, IF Authorized(n) THEN "running" ELSE "failed")
  /\ UNCHANGED <<plan, planDisk, ctl, review, source, paused, leaseOver, upsets>>
TaskEnds(n, k) ==
  /\ Awaits /\ task[n][k] = "running"
  /\ Becomes(n, k, "completed") \/ Becomes(n, k, "failed")
  /\ UNCHANGED <<plan, planDisk, ctl, review, source, paused, leaseOver, upsets>>
UserCancels(n, k) ==
  /\ Awaits /\ task[n][k] \in Unended /\ Upset
  /\ Becomes(n, k, "cancelled")
  /\ UNCHANGED <<plan, planDisk, ctl, review, source, paused, leaseOver>>
UserPauses ==
  /\ Awaits /\ Upset
  /\ paused' = ~paused
  /\ planDisk' = plan
  /\ UNCHANGED <<plan, ctl, task, review, source, leaseOver>>
LeaseEnds ==
  /\ ~leaseOver /\ Upset
  /\ leaseOver' = TRUE
  /\ UNCHANGED <<plan, planDisk, ctl, task, review, source, paused>>
(* A running task or somebody else changes the reviewed files.                *)
Edits ==
  /\ source < MaxEdits
  /\ source' = source + 1
  /\ UNCHANGED <<plan, planDisk, ctl, task, review, paused, leaseOver, upsets>>
ReviewerEnds(n, i) ==
  /\ review[n][i] = "running"
  /\ \E r \in Decisions \cup {"failed"} : review' = [review EXCEPT ![n][i] = r]
  /\ UNCHANGED <<plan, planDisk, ctl, task, source, paused, leaseOver, upsets>>
Deadline(n) ==
  /\ plan.nodes[n].att.st \in {"DISPATCHING", "ACTIVE"} /\ ~plan.nodes[n].att.late /\ Upset
  /\ Node(n, [plan.nodes[n] EXCEPT !.att.late = TRUE])
  /\ planDisk' = IF planDisk.nodes[n].att.id = plan.nodes[n].att.id
                 THEN [planDisk EXCEPT !.nodes[n].att.late = TRUE] ELSE planDisk
  /\ UNCHANGED <<ctl, task, review, source, paused, leaseOver>>
(* The process dies and starts again: state.json is loaded, a task that ran   *)
(* is failed by the recovery of the task manager.                             *)
ProcessDies ==
  /\ Upset
  /\ plan' = [planDisk EXCEPT !.nodes = [n \in Nodes |->
       IF @[n].state = "STABLE" /\ @[n].att.st # "PASS"
       THEN [@[n] EXCEPT !.state = "WAITING_REVIEW"] ELSE @[n]]]
  /\ Moves("boot", 1, FALSE)
  /\ task' = [n \in Nodes |-> [k \in 1..Tries |->
       IF task[n][k] = "running" THEN "failed" ELSE task[n][k]]]
  /\ UNCHANGED <<planDisk, review, source, paused, leaseOver>>

PlanNext ==
  \/ Wakes \/ CancelReview \/ SubmitReview \/ ReviewAnswered \/ PollReview
  \/ PollFails \/ ReviewDecided
  \/ Selects \/ DispatchNode \/ HandsOff \/ UserPauses \/ LeaseEnds \/ Edits \/ ProcessDies
  \/ \E n \in Nodes :
       \/ VisitUnfinished(n) \/ VisitRecovers(n) \/ VisitUnreviewed(n) \/ Deadline(n)
       \/ \E g \in BOOLEAN : ReviewStands(n, g) \/ ReviewContinues(n, g) \/ ReviewBegins(n, g)
       \/ \E k \in 1..Tries : Pumps(n, k) \/ TaskEnds(n, k) \/ UserCancels(n, k)
       \/ \E i \in 1..MaxReviews : ReviewerEnds(n, i)
PlanSpec == PlanInit /\ [][PlanNext]_planVars
-----------------------------------------------------------------------------
PlanTypeOK ==
  /\ \A x \in {plan.nodes[n] : n \in Nodes} \cup {planDisk.nodes[n] : n \in Nodes} :
       /\ x.tasks \in 0..Tries /\ x.att.id \in 0..MaxReviews
       /\ x.att.st \in {"none", "DISPATCHING", "ACTIVE", "STALE", "BLOCKED", "DISPATCH_BLOCKED"} \cup Decisions
  /\ ctl.at \in {"boot", "idle", "expire", "visit", "cancel", "submit", "answer", "poll", "polled", "select",
                 "dispatch", "handoff"}
  /\ ctl.n \in Nodes /\ source \in 0..MaxEdits /\ upsets \in 0..MaxUpsets
  /\ paused \in BOOLEAN /\ leaseOver \in BOOLEAN

(* One executor task of the plan is queued or running at a time, and a node    *)
(* has one reviewer, whatever answers were lost and whoever died.              *)
OneActor ==
  /\ Cardinality({p \in Nodes \X (1..Tries) : task[p[1]][p[2]] \in Unended}) <= 1
  /\ \A n \in Nodes : Cardinality({i \in 1..MaxReviews : review[n][i] = "running"}) <= 1
(* A node starts only over a predecessor whose last task was reviewed PASS by *)
(* a reviewer that saw these very files, and never after a cancellation.      *)
StartsReviewed ==
  [][\A n \in Nodes, k \in 1..Tries :
       task[n][k] # "running" /\ task'[n][k] = "running" =>
         /\ n = 1 \/ LET a == plan.nodes[n - 1].att
                     IN review[n - 1][a.key] = "PASS" /\ a.fp = source
                          /\ task[n - 1][a.task] = "completed"
         /\ \A m \in Nodes, j \in 1..Tries : task[m][j] # "cancelled"]_planVars
=============================================================================
