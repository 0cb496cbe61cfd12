---------------------------- MODULE SessionClient ----------------------------
(* The bridge's client of the z2c session service                              *)
(* (execution/zcode-session-client.ts): calls of tools over one MCP connection *)
(* that is opened on demand by a single handshake, fenced by a generation and  *)
(* replaced when a call on it fails.                                           *)
EXTENDS Naturals

CONSTANTS
  Calls,     \* concurrent calls of callTool
  Mutating,  \* those whose tool is not read-only
  MaxConns,     \* connections are 1..MaxConns, in the order they are opened
  NoConn

ASSUME ClientConstants == Mutating \subseteq Calls /\ MaxConns \in Nat /\ NoConn \notin 1..MaxConns

VARIABLES
  session,     \* the connection that calls use
  generation,
  handshake,   \* the connection of the handshake that calls join
  opened,      \* connections opened so far
  conn,        \* how each connection stands
  connGen,     \* the generation it was opened in
  callAt,      \* where each call stands
  on,          \* the connection a call waits for or was sent on
  again,       \* it is the one repetition of a read
  flying,      \* requests that the service may still execute
  executed,    \* how often each call was executed
  outcome      \* what each call returned

clientVars == <<session, generation, handshake, opened, conn, connGen, callAt, on, again,
                flying, executed, outcome>>
calls == <<callAt, on, again, outcome>>

Conns == 1..MaxConns
ClientInit ==
  /\ session = NoConn /\ handshake = NoConn /\ generation = 0 /\ opened = 0
  /\ conn = [c \in Conns |-> "unused"] /\ connGen = [c \in Conns |-> 0]
  /\ callAt = [k \in Calls |-> "new"] /\ on = [k \in Calls |-> NoConn]
  /\ again = [k \in Calls |-> FALSE] /\ flying = {}
  /\ executed = [k \in Calls |-> 0] /\ outcome = [k \in Calls |-> "none"]

CallIs(k, w) == callAt' = [callAt EXCEPT ![k] = w]
CallFails(k, o) == CallIs(k, "done") /\ outcome' = [outcome EXCEPT ![k] = o]
-----------------------------------------------------------------------------
(* ensureSession(): the connection, the handshake under way, or a new one.    *)
Ensures(k) ==
  /\ callAt[k] = "new"
  /\ \/ /\ session # NoConn
        /\ on' = [on EXCEPT ![k] = session]
        /\ UNCHANGED <<generation, handshake, opened, conn, connGen>>
     \/ /\ session = NoConn /\ handshake # NoConn
        /\ on' = [on EXCEPT ![k] = handshake]
        /\ UNCHANGED <<generation, handshake, opened, conn, connGen>>
     \/ /\ session = NoConn /\ handshake = NoConn /\ opened < MaxConns
        /\ opened' = opened + 1 /\ generation' = generation + 1
        /\ handshake' = opened'
        /\ conn' = [conn EXCEPT ![opened'] = "connecting"]
        /\ connGen' = [connGen EXCEPT ![opened'] = generation']
        /\ on' = [on EXCEPT ![k] = opened']
  /\ CallIs(k, "waits")
  /\ UNCHANGED <<session, again, flying, executed, outcome>>
\* Mutant: a handshake that was overtaken becomes the session all the same.
OvertakenNever(c) == FALSE
Overtaken(c) == connGen[c] # generation
(* The handshake ends; a connection that is not assigned is closed.           *)
HandshakeEnds(c) ==
  /\ conn[c] = "connecting"
  /\ \/ ~Overtaken(c) /\ session' = c /\ conn' = [conn EXCEPT ![c] = "open"]
     \/ /\ conn' = [conn EXCEPT ![c] = "failed"]
        /\ session' = IF connGen[c] = generation THEN NoConn ELSE session
  /\ handshake' = IF handshake = c THEN NoConn ELSE handshake
  /\ UNCHANGED <<generation, opened, connGen, calls, flying, executed>>
(* Whoever waited learns of it: the request leaves, or the error comes before *)
(* any request; a read is repeated once when the service was unreachable.     *)
Repeats(k) ==
  /\ k \notin Mutating /\ ~again[k]
  /\ again' = [again EXCEPT ![k] = TRUE] /\ CallIs(k, "new")
  /\ UNCHANGED outcome
SendsRequest(k) ==
  /\ callAt[k] = "waits" /\ conn[on[k]] \in {"open", "closed"}
  /\ CallIs(k, "sent")
  /\ flying' = IF conn[on[k]] = "open" THEN flying \cup {k} ELSE flying
  /\ UNCHANGED <<session, generation, handshake, opened, conn, connGen, on, again, executed,
                 outcome>>
NoConnection(k) ==
  /\ callAt[k] = "waits" /\ conn[on[k]] = "failed"
  /\ \/ Repeats(k)
     \/ CallFails(k, "failed") /\ UNCHANGED again
  /\ UNCHANGED <<session, generation, handshake, opened, conn, connGen, on, flying, executed>>

Executes(k) ==
  /\ k \in flying
  /\ flying' = flying \ {k} /\ executed' = [executed EXCEPT ![k] = @ + 1]
  /\ UNCHANGED <<session, generation, handshake, opened, conn, connGen, calls>>
Answered(k) ==
  /\ callAt[k] = "sent" /\ k \notin flying /\ conn[on[k]] = "open" /\ executed[k] > 0
  /\ CallFails(k, "ok")
  /\ UNCHANGED <<session, generation, handshake, opened, conn, connGen, on, again, flying,
                 executed>>
(* The token is rejected before anything is executed.                         *)
Unauthorized(k) == k \in flying /\ conn[on[k]] = "open" /\ flying' = flying \ {k}

(* resetSession(client): a late failure of a former connection closes that    *)
(* one only, the handshake of its successor goes on.                          *)
Reset(c) ==
  /\ conn' = [conn EXCEPT ![c] = "closed"]
  /\ IF session = c
     THEN session' = NoConn /\ generation' = generation + 1 /\ handshake' = NoConn
     ELSE UNCHANGED <<session, generation, handshake>>
SentOutcome(k) == IF k \in Mutating THEN "unknown" ELSE "failed"
(* A sent request fails in transport, by its timer, or with its connection.   *)
Breaks(k) ==
  /\ callAt[k] = "sent"
  /\ Reset(on[k])
  /\ \/ Unauthorized(k) /\ CallFails(k, "failed") /\ UNCHANGED again
     \/ UNCHANGED flying /\ CallFails(k, SentOutcome(k)) /\ UNCHANGED again
     \/ UNCHANGED flying /\ Repeats(k)
  /\ UNCHANGED <<opened, connGen, on, executed>>
Closes ==
  /\ session # NoConn \/ handshake # NoConn
  /\ conn' = IF session # NoConn THEN [conn EXCEPT ![session] = "closed"] ELSE conn
  /\ session' = NoConn /\ generation' = generation + 1 /\ handshake' = NoConn
  /\ UNCHANGED <<opened, connGen, calls, flying, executed>>

ClientNext ==
  \/ Closes
  \/ \E c \in Conns : HandshakeEnds(c)
  \/ \E k \in Calls : Ensures(k) \/ SendsRequest(k) \/ NoConnection(k) \/ Executes(k)
                        \/ Answered(k) \/ Breaks(k)
ClientSpec == ClientInit /\ [][ClientNext]_clientVars
-----------------------------------------------------------------------------
ClientTypeOK ==
  /\ session \in Conns \cup {NoConn} /\ handshake \in Conns \cup {NoConn}
  /\ opened \in 0..MaxConns /\ conn \in [Conns -> {"unused", "connecting", "open", "failed", "closed"}]
  /\ callAt \in [Calls -> {"new", "waits", "sent", "done"}]
  /\ on \in [Calls -> Conns \cup {NoConn}] /\ flying \subseteq Calls
  /\ outcome \in [Calls -> {"none", "ok", "failed", "unknown"}]

(* A mutation is executed once at most, and not at all when its call failed   *)
(* with anything but OUTCOME_UNKNOWN, then or later.                          *)
MutationsHonest ==
  \A k \in Mutating :
    /\ executed[k] <= 1
    /\ outcome[k] = "failed" => executed[k] = 0 /\ k \notin flying
(* Every open connection is the one that calls use, and the handshake that    *)
(* calls join can still become it.                                            *)
NoStrayConnection ==
  /\ \A c \in Conns : conn[c] = "open" => session = c
  /\ handshake # NoConn => connGen[handshake] = generation /\ conn[handshake] = "connecting"
ClientSafe == MutationsHonest /\ NoStrayConnection
=============================================================================
