----------------------------- MODULE NativeTurns -----------------------------
(* Concurrent send calls on one native session: SessionService.send of         *)
(* service/sessions.ts with its settle window and its stale-busy recovery, on  *)
(* ZcodeOfficialProvider.send of providers/zcode/official.ts, whose waiter is  *)
(* found by the session alone when a terminal event arrives.  The native       *)
(* runtime answers over one pipe, in order.                                    *)
EXTENDS Naturals, Sequences

CONSTANTS
  Sends,        \* calls of send() on the session
  NoSend,
  MaxGivenUp,   \* bound: turns or requests that run out of time
  MaxStale      \* bound: turns that leave the native slot busy

Stop == "stop"   \* the request for a stop, among those for sends

ASSUME TurnConstants ==
  /\ NoSend \notin Sends /\ Stop \notin Sends
  /\ MaxGivenUp \in Nat /\ MaxStale \in Nat

VARIABLES
  effortPolicy,  \* requireHighestEffort: the provider reads a snapshot first
  sendAt,        \* where each call stands
  windowOver,    \* its settle window has passed
  retried,       \* it is at its one send after a recovery
  proof,         \* it holds the evidence of the turn before it
  evidence,      \* priorTurnCompletedSessions has the session
  waiter,        \* whose completion turnWaiters would resolve
  resolved,      \* the completion of each call
  stopping,      \* stoppingSessions has the session
  requested,     \* session/send requests and the stop that the runtime has not read
  wire,          \* what the runtime wrote and the service has not read
  turn,          \* the turn that runs
  slot,          \* the runtime's own idea of a running prompt
  history,       \* the session has an answer of the assistant
  accepted,      \* how often each instruction was accepted
  ended,         \* how each turn ended
  answer,        \* what each call returned
  givenUp, stales

turnVars == <<effortPolicy, sendAt, windowOver, retried, proof, evidence, waiter, resolved,
              stopping, requested, wire, turn, slot, history, accepted, ended, answer,
              givenUp, stales>>
nativeSide == <<turn, slot, history, accepted, ended, stales>>
callSide == <<effortPolicy, windowOver, retried, proof>>
posted == <<waiter, requested, resolved>>

Message(k, x) == [kind |-> k, of |-> x]

TurnInit ==
  /\ effortPolicy \in BOOLEAN
  /\ sendAt = [x \in Sends |-> "new"] /\ windowOver = [x \in Sends |-> FALSE]
  /\ retried = [x \in Sends |-> FALSE] /\ proof = [x \in Sends |-> FALSE]
  /\ evidence = FALSE /\ waiter = NoSend /\ resolved = [x \in Sends |-> "none"]
  /\ stopping = FALSE /\ requested = {} /\ wire = <<>>
  /\ turn = NoSend /\ slot = "free" /\ history = FALSE
  /\ accepted = [x \in Sends |-> 0] /\ ended = [x \in Sends |-> "none"]
  /\ answer = [x \in Sends |-> "none"] /\ givenUp = 0 /\ stales = 0

Goes(x, w) == sendAt' = [sendAt EXCEPT ![x] = w]
Returns(x, a) == Goes(x, "done") /\ answer' = [answer EXCEPT ![x] = a]
-----------------------------------------------------------------------------
(* send() of the service: the evidence is taken before the first await, the   *)
(* history is read after it.                                                  *)
SendBegins(x) ==
  /\ sendAt[x] = "new"
  /\ proof' = [proof EXCEPT ![x] = evidence] /\ evidence' = FALSE
  /\ Goes(x, "read")
  /\ UNCHANGED <<effortPolicy, windowOver, retried, waiter, resolved, stopping, requested,
                 wire, answer, givenUp, nativeSide>>
MarkerRead(x) ==
  /\ sendAt[x] = "read"
  /\ proof' = [proof EXCEPT ![x] = @ \/ history]
  /\ Goes(x, "ready")
  /\ UNCHANGED <<effortPolicy, windowOver, retried, evidence, waiter, resolved, stopping,
                 requested, wire, answer, givenUp, nativeSide>>

(* send() of the provider.  Without the policy nothing is awaited between the *)
(* look at the waiter and its registration.                                   *)
Posts(x) ==
  /\ waiter' = x /\ resolved' = [resolved EXCEPT ![x] = "none"]
  /\ requested' = requested \cup {x} /\ Goes(x, "post")
  /\ UNCHANGED <<evidence, answer>>
\* Mutant: a send is let through beside a waiting one.
NeverWaiting == FALSE
TurnWaiting == waiter # NoSend
ProviderSend(x) ==
  /\ sendAt[x] = "ready"
  /\ \/ TurnWaiting /\ Goes(x, "busy") /\ UNCHANGED <<posted, evidence, answer>>
     \/ /\ ~TurnWaiting /\ stopping /\ Returns(x, "busy")
        /\ evidence' = (evidence /\ retried[x]) /\ UNCHANGED posted
     \/ ~TurnWaiting /\ ~stopping /\ ~effortPolicy /\ Posts(x)
     \/ /\ ~TurnWaiting /\ ~stopping /\ effortPolicy /\ Goes(x, "policy")
        /\ UNCHANGED <<posted, evidence, answer>>
  /\ UNCHANGED <<callSide, stopping, wire, givenUp, nativeSide>>
PolicyRead(x) ==
  /\ sendAt[x] = "policy"
  /\ Posts(x)
  /\ UNCHANGED <<callSide, stopping, wire, givenUp, nativeSide>>

(* Failing with "already running": the settle window, then the recovery or    *)
(* SESSION_BUSY.  Any other failure is SESSION_BUSY at once.                  *)
Retries(x) ==
  /\ sendAt[x] = "busy" /\ ~windowOver[x] /\ ~retried[x]
  /\ Goes(x, "ready")
  /\ UNCHANGED <<callSide, evidence, waiter, resolved, stopping, requested, wire, answer,
                 givenUp, nativeSide>>
WindowPasses(x) ==
  /\ sendAt[x] \in {"ready", "policy", "post", "busy"} /\ ~windowOver[x]
  /\ windowOver' = [windowOver EXCEPT ![x] = TRUE]
  /\ UNCHANGED <<effortPolicy, retried, proof, sendAt, evidence, waiter, resolved, stopping,
                 requested, wire, answer, givenUp, nativeSide>>
Recoverable(x) == turn = NoSend /\ proof[x]
Judges(x) ==
  /\ sendAt[x] = "busy" /\ (windowOver[x] \/ retried[x])
  /\ \/ ~retried[x] /\ Recoverable(x) /\ Goes(x, "stop") /\ UNCHANGED <<evidence, answer>>
     \/ Returns(x, "busy") /\ evidence' = (evidence /\ retried[x])
  /\ UNCHANGED <<callSide, waiter, resolved, stopping, requested, wire, givenUp, nativeSide>>
RecoveryStops(x) ==
  /\ sendAt[x] = "stop" /\ Stop \notin requested
  /\ requested' = requested \cup {Stop} /\ Goes(x, "stopping")
  /\ UNCHANGED <<callSide, evidence, waiter, resolved, stopping, wire, answer, givenUp,
                 nativeSide>>
-----------------------------------------------------------------------------
(* The runtime.                                                               *)
Writes(msgs) == wire' = wire \o msgs
NativeSend(x) ==
  /\ x \in requested \cap Sends
  /\ requested' = requested \ {x}
  /\ IF slot = "free"
     THEN /\ turn' = x /\ slot' = "running"
          /\ accepted' = [accepted EXCEPT ![x] = @ + 1]
          /\ Writes(<<Message("ack", x)>>)
     ELSE Writes(<<Message("reject", x)>>) /\ UNCHANGED <<turn, slot, accepted>>
  /\ UNCHANGED <<callSide, sendAt, evidence, waiter, resolved, stopping, answer, givenUp,
                 history, ended, stales>>
NativeStop ==
  /\ Stop \in requested
  /\ requested' = requested \ {Stop}
  /\ IF turn = NoSend
     THEN Writes(<<Message("stopped", NoSend)>>) /\ UNCHANGED ended
     ELSE /\ Writes(<<Message("failed", turn), Message("stopped", NoSend)>>)
          /\ ended' = [ended EXCEPT ![turn] = "failed"]
  /\ turn' = NoSend /\ slot' = "free"
  /\ UNCHANGED <<callSide, sendAt, evidence, waiter, resolved, stopping, answer, givenUp,
                 history, accepted, stales>>
TurnEnds ==
  /\ turn # NoSend
  /\ \E s \in {"completed", "failed"} :
       /\ ended' = [ended EXCEPT ![turn] = s]
       /\ Writes(<<Message(s, turn)>>)
       /\ history' = (history \/ s = "completed")
  /\ turn' = NoSend
  /\ \/ slot' = "free" /\ UNCHANGED stales
     \/ slot' = "stale" /\ stales < MaxStale /\ stales' = stales + 1
  /\ UNCHANGED <<callSide, sendAt, evidence, waiter, resolved, stopping, requested, answer,
                 givenUp, accepted>>
-----------------------------------------------------------------------------
(* What the service reads.  A rejected request, or one out of time, removes   *)
(* the waiter of the session; a terminal event resolves whoever waits.        *)
Reads(k) == wire # <<>> /\ Head(wire).kind = k /\ wire' = Tail(wire)
ReadsAck ==
  /\ Reads("ack")
  /\ LET x == Head(wire).of
     IN IF sendAt[x] = "post" THEN Goes(x, "turn") ELSE UNCHANGED sendAt
  /\ UNCHANGED <<callSide, evidence, waiter, resolved, stopping, requested, answer, givenUp,
                 nativeSide>>
ReadsReject ==
  /\ Reads("reject")
  /\ LET x == Head(wire).of
     IN IF sendAt[x] = "post" THEN waiter' = NoSend /\ Goes(x, "busy")
                              ELSE UNCHANGED <<waiter, sendAt>>
  /\ UNCHANGED <<callSide, evidence, resolved, stopping, requested, answer, givenUp,
                 nativeSide>>
ReadsEnd(s) ==
  /\ Reads(s)
  /\ IF waiter = NoSend THEN UNCHANGED <<waiter, resolved>>
     ELSE /\ waiter' = NoSend
          /\ resolved' = [resolved EXCEPT ![waiter] = IF @ = "none" THEN s ELSE @]
  /\ UNCHANGED <<callSide, sendAt, evidence, stopping, requested, answer, givenUp,
                 nativeSide>>
ReadsStopped ==
  /\ Reads("stopped")
  /\ stopping' = FALSE
  /\ sendAt' = [x \in Sends |-> IF sendAt[x] = "stopping" THEN "ready" ELSE sendAt[x]]
  /\ retried' = [x \in Sends |-> retried[x] \/ sendAt[x] = "stopping"]
  /\ UNCHANGED <<effortPolicy, windowOver, proof, evidence, waiter, resolved, requested,
                 answer, givenUp, nativeSide>>

\* Mutant: a request without an answer counts as "already running".
OutOfTimeIsBusy(x) == Goes(x, "busy") /\ UNCHANGED <<evidence, answer>>
OutOfTime(x) == Returns(x, "busy") /\ evidence' = (evidence /\ retried[x])
RequestTimesOut(x) ==
  /\ sendAt[x] = "post" /\ givenUp < MaxGivenUp
  /\ givenUp' = givenUp + 1
  /\ waiter' = NoSend /\ OutOfTime(x)
  /\ UNCHANGED <<callSide, resolved, stopping, requested, wire, nativeSide>>
(* The budget of the turn is over: the caller learns that it failed, and a    *)
(* stop is asked for unless one is under way.                                 *)
BudgetOver(x) ==
  /\ sendAt[x] \in {"post", "turn"} /\ waiter = x /\ givenUp < MaxGivenUp
  /\ givenUp' = givenUp + 1
  /\ waiter' = NoSend /\ resolved' = [resolved EXCEPT ![x] = "failed"]
  /\ stopping' = TRUE
  /\ requested' = IF stopping THEN requested ELSE requested \cup {Stop}
  /\ UNCHANGED <<callSide, sendAt, evidence, wire, answer, nativeSide>>
StopLapses ==
  /\ stopping /\ givenUp < MaxGivenUp
  /\ stopping' = FALSE /\ givenUp' = givenUp + 1
  /\ UNCHANGED <<callSide, sendAt, evidence, waiter, resolved, requested, wire, answer,
                 nativeSide>>

(* send() of the service goes on with the completion of its handle.           *)
TurnKnown(x) ==
  /\ sendAt[x] = "turn" /\ resolved[x] # "none"
  /\ IF resolved[x] = "completed"
     THEN Goes(x, "output") /\ UNCHANGED <<evidence, answer>>
     ELSE Returns(x, "failed") /\ evidence' = FALSE
  /\ UNCHANGED <<callSide, waiter, resolved, stopping, requested, wire, givenUp, nativeSide>>
OutputRead(x) ==
  /\ sendAt[x] = "output"
  /\ \/ Returns(x, "completed") /\ evidence' = TRUE
     \/ Returns(x, "failed") /\ evidence' = FALSE
  /\ UNCHANGED <<callSide, waiter, resolved, stopping, requested, wire, givenUp, nativeSide>>

SendSteps(x) ==
  \/ MarkerRead(x) \/ ProviderSend(x) \/ PolicyRead(x) \/ Retries(x) \/ Judges(x)
  \/ RecoveryStops(x) \/ TurnKnown(x) \/ OutputRead(x)
PipeSteps ==
  NativeStop \/ TurnEnds \/ ReadsAck \/ ReadsReject \/ ReadsStopped
    \/ \E s \in {"completed", "failed"} : ReadsEnd(s)
TurnNext ==
  \/ PipeSteps \/ StopLapses
  \/ \E x \in Sends :
       \/ SendBegins(x) \/ SendSteps(x) \/ WindowPasses(x) \/ NativeSend(x)
       \/ RequestTimesOut(x) \/ BudgetOver(x)
TurnFairness ==
  /\ WF_turnVars(PipeSteps)
  /\ \A x \in Sends :
       WF_turnVars(SendSteps(x)) /\ WF_turnVars(WindowPasses(x)) /\ WF_turnVars(NativeSend(x))
TurnSpec == TurnInit /\ [][TurnNext]_turnVars
-----------------------------------------------------------------------------
TurnTypeOK ==
  /\ sendAt \in [Sends -> {"new", "read", "ready", "policy", "post", "busy", "stop",
                           "stopping", "turn", "output", "done"}]
  /\ waiter \in Sends \cup {NoSend} /\ turn \in Sends \cup {NoSend}
  /\ resolved \in [Sends -> {"none", "completed", "failed"}]
  /\ requested \subseteq Sends \cup {Stop} /\ slot \in {"free", "running", "stale"}
  /\ (turn # NoSend) = (slot = "running")
  /\ answer \in [Sends -> {"none", "completed", "failed", "busy"}]
  /\ evidence \in BOOLEAN /\ stopping \in BOOLEAN /\ history \in BOOLEAN
  /\ givenUp \in 0..MaxGivenUp /\ stales \in 0..MaxStale

(* Whatever is retried, an instruction is accepted by the runtime once.       *)
AcceptedOnce == \A x \in Sends : accepted[x] <= 1
(* While nobody ran out of time and the provider awaits nothing between its   *)
(* look at the waiter and its registration, an answer of send() is the        *)
(* outcome of its own turn.                                                   *)
AnswerIsOwn ==
  givenUp = 0 /\ ~effortPolicy =>
    \A x \in Sends :
      /\ answer[x] = "completed" => ended[x] = "completed"
      /\ answer[x] = "busy" => accepted[x] = 0
TurnSafe == AcceptedOnce /\ AnswerIsOwn

(* Every call of send() returns, under the same two conditions.               *)
Outstanding == {x \in Sends : sendAt[x] # "new" /\ answer[x] = "none"}
SendReturns == []<>(Outstanding = {} \/ givenUp > 0 \/ effortPolicy)
=============================================================================
