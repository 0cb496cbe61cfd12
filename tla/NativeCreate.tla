---------------------------- MODULE NativeCreate -----------------------------
(* How a native diagnostic session comes into being, at most once for each     *)
(* operation id: the binding of a plan that the bridge keeps                   *)
(* (bridge/control-plane.ts), the journal of create operations that the z2c    *)
(* session service keeps (service/sessions.ts), the ownership record and the   *)
(* native runtime.  Bridge, service and runtime die independently; requests    *)
(* and answers between them are lost.                                          *)
EXTENDS Naturals, FiniteSets

CONSTANTS
  Ops,         \* operation ids; each is drawn fresh by the bridge
  NoOp,
  MaxMishaps   \* bound: deaths of a process and failed writes

ASSUME CreateConstants == NoOp \notin Ops /\ MaxMishaps \in Nat

VARIABLES
  bind,         \* the durable binding: operation and state
  bridgeAt,     \* "idle", or "creating" while it awaits the answer
  used,         \* operation ids drawn so far
  asked,        \* create requests on their way to the service
  answered,     \* answers on their way to the bridge
  journal,      \* the journal in the memory of the service
  journalDisk,  \* and in its file
  opAt,         \* how far the service is with an operation
  made,         \* native sessions ever created for an operation
  native,       \* the native session of an operation
  owned,        \* operations whose session has a durable ownership record
  mishaps

createVars == <<bind, bridgeAt, used, asked, answered, journal, journalDisk, opAt, made,
                native, owned, mishaps>>
bridgeVars == <<bind, bridgeAt, used>>
serviceVars == <<journal, journalDisk, opAt, owned, answered>>

NoBinding == [op |-> NoOp, state |-> "none"]
Nowhere == [o \in Ops |-> "none"]
Exists == {"live", "inactive"}

CreateInit ==
  /\ bind = NoBinding /\ bridgeAt = "idle" /\ used = {}
  /\ asked = {} /\ answered = [o \in Ops |-> "none"]
  /\ journal = Nowhere /\ journalDisk = Nowhere /\ opAt = Nowhere
  /\ made = [o \in Ops |-> 0] /\ native = Nowhere /\ owned = {}
  /\ mishaps = 0

Mishap == mishaps < MaxMishaps /\ mishaps' = mishaps + 1
-----------------------------------------------------------------------------
(* binding(): the intent is on disk before the request leaves.                *)
AsksFor(o) ==
  /\ o \notin used
  /\ used' = used \cup {o} /\ asked' = asked \cup {o}
  /\ bind' = [op |-> o, state |-> "CREATING"] /\ bridgeAt' = "creating"

(* The only proof is that the resume reports no persisted record.             *)
Gone(o) == native[o] = "lost"

BridgeCreates ==
  /\ bridgeAt = "idle" /\ bind = NoBinding
  /\ \E o \in Ops : AsksFor(o)
  /\ UNCHANGED <<serviceVars, made, native, mishaps>>
(* A keyed binding that is not READY is looked up, and is never asked again.  *)
BridgeLooksUp ==
  /\ bridgeAt = "idle" /\ bind.state \in {"CREATING", "UNKNOWN"}
  /\ journal[bind.op] = "CREATED"
  /\ bind' = [bind EXCEPT !.state = "READY"]
  /\ UNCHANGED <<bridgeAt, used, asked, serviceVars, made, native, mishaps>>
BridgeResumes ==
  /\ bridgeAt = "idle" /\ bind.state = "READY" /\ native[bind.op] = "inactive"
  /\ native' = [native EXCEPT ![bind.op] = "live"]
  /\ UNCHANGED <<bridgeVars, asked, serviceVars, made, mishaps>>
BridgeForgets ==
  /\ bridgeAt = "idle" /\ bind.state = "READY" /\ Gone(bind.op)
  /\ bind' = NoBinding
  /\ UNCHANGED <<bridgeAt, used, asked, serviceVars, made, native, mishaps>>
BridgeAnswered ==
  /\ bridgeAt = "creating" /\ answered[bind.op] # "none"
  /\ bridgeAt' = "idle"
  /\ bind' = [bind EXCEPT !.state = IF answered[bind.op] = "ok" THEN "READY" ELSE "UNKNOWN"]
  /\ UNCHANGED <<used, asked, serviceVars, made, native, mishaps>>
(* A time-out, or a transport error after the request left.                   *)
AnswerLost ==
  /\ bridgeAt = "creating" /\ Mishap
  /\ bridgeAt' = "idle"
  /\ bind' = [bind EXCEPT !.state = "UNKNOWN"]
  /\ \/ asked' = asked \ {bind.op}
     \/ UNCHANGED asked
  /\ UNCHANGED <<used, serviceVars, made, native>>
BridgeDies ==
  /\ bridgeAt = "creating" /\ Mishap
  /\ bridgeAt' = "idle"
  /\ UNCHANGED <<bind, used, asked, serviceVars, made, native>>
(* The tool is open to every client: the same operation may be asked again.   *)
AskedAgain(o) ==
  /\ o \in used /\ o \notin asked /\ Mishap
  /\ asked' = asked \cup {o}
  /\ UNCHANGED <<bridgeVars, serviceVars, made, native>>
-----------------------------------------------------------------------------
(* The whole journal is written; a failed write leaves memory ahead of it.    *)
Saved(j) == journal' = j /\ journalDisk' = j /\ UNCHANGED mishaps
Unsaved(j) == journal' = j /\ UNCHANGED journalDisk /\ Mishap
Entry(o, s) == [journal EXCEPT ![o] = s]
Answer(o, a) == answered' = [answered EXCEPT ![o] = a]
Stands(o, w) == opAt' = [opAt EXCEPT ![o] = w]

(* createSession(): an operation with any record is not created again; one    *)
(* that is under way is joined.                                               *)
\* Mutant: only an operation that succeeded is refused.
ReplayedIfCreated(o) == journal[o] = "CREATED"
Replayed(o) == journal[o] # "none"
Begin(o) ==
  /\ o \in asked
  /\ asked' = asked \ {o}
  /\ \/ /\ Replayed(o) \/ opAt[o] # "none"
        /\ UNCHANGED <<journal, journalDisk, opAt, answered, mishaps>>
     \/ /\ ~Replayed(o) /\ opAt[o] = "none"
        /\ \/ Saved(Entry(o, "PENDING")) /\ Stands(o, "provider") /\ UNCHANGED answered
           \/ Unsaved(Entry(o, "PENDING")) /\ Answer(o, "error") /\ UNCHANGED opAt
  /\ UNCHANGED <<bridgeVars, owned, made, native>>
(* session/create: nothing happened, or a session exists whose answer is lost *)
(* or arrives; a failed write of its id tears it down.                        *)
ProviderCreates(o) ==
  /\ opAt[o] = "provider"
  /\ \/ Stands(o, "unknown") /\ UNCHANGED <<made, native, mishaps>>
     \/ /\ made' = [made EXCEPT ![o] = @ + 1] /\ native' = [native EXCEPT ![o] = "live"]
        /\ \/ Stands(o, "attest") /\ UNCHANGED mishaps
           \/ Stands(o, "unknown") /\ Mishap
           \/ Stands(o, "teardown") /\ Mishap
  /\ UNCHANGED <<bridgeVars, asked, journal, journalDisk, answered, owned>>
(* Identity, plan mode and attestation, then the ownership record.            *)
Attests(o) ==
  /\ opAt[o] = "attest"
  /\ \/ native[o] = "live" /\ owned' = owned \cup {o} /\ Stands(o, "owned")
     \/ Stands(o, "teardown") /\ UNCHANGED owned
  /\ UNCHANGED <<bridgeVars, asked, journal, journalDisk, answered, made, native, mishaps>>
Created(o) ==
  /\ opAt[o] = "owned"
  /\ \/ Saved(Entry(o, "CREATED")) /\ Answer(o, "ok") /\ Stands(o, "none")
     \/ Unsaved(Entry(o, "CREATED")) /\ Stands(o, "unknown") /\ UNCHANGED answered
  /\ UNCHANGED <<bridgeVars, asked, owned, made, native>>
(* The close may fail, or be done without its answer.                         *)
ClosesNative(o) ==
  /\ opAt[o] = "teardown"
  /\ \/ native[o] = "live" /\ native' = [native EXCEPT ![o] = "closed"]
        /\ (Stands(o, "closed") \/ Stands(o, "unclosed"))
     \/ UNCHANGED native /\ Stands(o, "unclosed")
  /\ UNCHANGED <<bridgeVars, asked, journal, journalDisk, answered, owned, made, mishaps>>
TornDown(o) == opAt[o] = "closed"
(* FAILED only when the close was confirmed, UNKNOWN otherwise.               *)
NotCreated(o) ==
  /\ opAt[o] \in {"unknown", "closed", "unclosed"}
  /\ LET s == IF TornDown(o) THEN "FAILED" ELSE "UNKNOWN"
     IN Saved(Entry(o, s)) \/ Unsaved(Entry(o, s))
  /\ Answer(o, "error") /\ Stands(o, "none")
  /\ UNCHANGED <<bridgeVars, asked, owned, made, native>>

ServiceDies ==
  /\ Mishap
  /\ opAt' = Nowhere /\ answered' = [o \in Ops |-> "none"] /\ asked' = {}
  /\ journal' = journalDisk
  /\ UNCHANGED <<bridgeVars, journalDisk, owned, made, native>>
(* Sessions without a turn may exist in the runtime only.                     *)
RuntimeDies(o) ==
  /\ native[o] = "live" /\ Mishap
  /\ \/ native' = [native EXCEPT ![o] = "inactive"]
     \/ native' = [native EXCEPT ![o] = "lost"]
  /\ UNCHANGED <<bridgeVars, asked, serviceVars, made>>

CreateNext ==
  \/ BridgeCreates \/ BridgeLooksUp \/ BridgeResumes \/ BridgeForgets \/ BridgeAnswered
  \/ AnswerLost \/ BridgeDies \/ ServiceDies
  \/ \E o \in Ops :
       \/ AskedAgain(o) \/ Begin(o) \/ ProviderCreates(o) \/ Attests(o)
       \/ Created(o) \/ ClosesNative(o) \/ NotCreated(o) \/ RuntimeDies(o)
CreateSpec == CreateInit /\ [][CreateNext]_createVars
-----------------------------------------------------------------------------
Outcomes == {"none", "PENDING", "CREATED", "FAILED", "UNKNOWN"}
CreateTypeOK ==
  /\ bind \in [op: Ops \cup {NoOp}, state: {"none", "CREATING", "READY", "UNKNOWN"}]
  /\ bridgeAt \in {"idle", "creating"} /\ used \subseteq Ops /\ asked \subseteq used
  /\ answered \in [Ops -> {"none", "ok", "error"}]
  /\ journal \in [Ops -> Outcomes] /\ journalDisk \in [Ops -> Outcomes]
  /\ opAt \in [Ops -> {"none", "provider", "attest", "owned", "teardown", "closed", "unclosed", "unknown"}]
  /\ made \in [Ops -> Nat] /\ native \in [Ops -> {"none", "live", "inactive", "lost", "closed"}]
  /\ owned \subseteq Ops /\ mishaps \in 0..MaxMishaps

(* An operation creates one native session at most, whoever dies and whoever  *)
(* asks again.                                                                *)
CreatedOnce == \A o \in Ops : made[o] <= 1
(* What the journal tells a client: nothing was created, or the session is    *)
(* owned, or it is gone.                                                      *)
JournalIsTruth ==
  \A o \in Ops :
    /\ journal[o] = "none" => made[o] = 0
    /\ journal[o] = "CREATED" => o \in owned
    /\ journal[o] = "FAILED" => native[o] \notin Exists
(* A binding is READY only for a session that was created and is owned, and a *)
(* plan has one diagnostic session at most.                                   *)
BindingIsTruth ==
  /\ bind.state = "READY" => bind.op \in owned /\ made[bind.op] = 1
  /\ Cardinality({o \in Ops : native[o] \in Exists}) <= 1
CreateSafe == CreatedOnce /\ JournalIsTruth /\ BindingIsTruth
=============================================================================
