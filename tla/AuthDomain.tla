----------------------------- MODULE AuthDomain ------------------------------
(* One state directory and the bridge processes that start on it: the         *)
(* ownership of the directory (bridge/state-owner.ts), the generations of the *)
(* OAuth state it fences (auth/store.ts), the pairing that precedes a grant   *)
(* (pairing/manager.ts, auth/oauth.ts), the import the command line runs      *)
(* before a start (bridge/state-migration.ts) and its offline unpair (cli).   *)
(* Every access to a file is a step, since other processes run between two.   *)
EXTENDS Integers, FiniteSets

CONSTANTS
  Bridges,    \* bridge processes; each one is also its own generation
  Grants,     \* what a client is given at a time: an access and a refresh token
  Nobody,
  Guesses,    \* maxAttempts of a pairing session
  MaxCodes,   \* bound: authorization codes at a time
  Worlds      \* which of the outer events a behaviour may meet

Shared == "bridge.json"
Kinds == {"access", "refresh"}
Tokens == Grants \X Kinds

ASSUME AuthConstants ==
  /\ Nobody \notin Bridges \cup Tokens /\ Shared \notin Bridges
  /\ Guesses \in Nat \ {0}
  /\ MaxCodes \in Nat \ {0}

VARIABLES
  stage,      \* how far a bridge process is
  listed,     \* the processes its inventory showed it
  staleOwner, \* the dead owner whose record it is about to remove
  ownerFile,  \* runtime/state-domain-owner.json
  lockFile,   \* runtime/state-domain-owner.lock, torn until it is written
  pointer,    \* auth/bridge-active.json
  authFiles,  \* the tokens in a generation's file, and in the shared one
  buffer,     \* what a process read and is about to write
  pairing,    \* the attempts left in the open pairing session, 0 if none
  codes,      \* authorization codes in memory
  cli,        \* the command that runs beside the bridges, and the file it chose
  granted, withdrawn,  \* tokens answered to a client, and taken back (history)
  overtaken,  \* taken back by an unpair after a bridge had copied them (history)
  wiped,      \* all access was revoked after the last pairing was opened (history)
  world

procVars == <<stage, listed, staleOwner>>
memVars == <<pairing, codes>>
pastVars == <<granted, withdrawn, overtaken, wiped>>
authVars == <<stage, listed, staleOwner, ownerFile, lockFile, pointer, authFiles,
              buffer, pairing, codes, cli, granted, withdrawn, overtaken, wiped, world>>

Bundle(g) == {g} \X Kinds
NoFile == {Nobody}
NoCommand == [does |-> "nothing", file |-> Shared]
Torn(b) == [by |-> b, torn |-> TRUE]
Written(b) == [by |-> b, torn |-> FALSE]
NoLock == Torn(Nobody)
Live == {b \in Bridges : stage[b] \notin {"off", "gone"}}
Believes == {"load", "save", "point", "up", "mutate"}   \* holds a StateDomainOwner

AuthInit ==
  /\ stage = [b \in Bridges |-> "off"]
  /\ listed = [b \in Bridges |-> {}]
  /\ staleOwner = [b \in Bridges |-> Nobody]
  /\ ownerFile = Nobody /\ lockFile = NoLock /\ pointer = Nobody
  /\ authFiles = [f \in Bridges \cup {Shared} |-> IF f = Shared THEN {} ELSE NoFile]
  /\ buffer = [b \in Bridges |-> {}]
  /\ pairing = 0 /\ codes = 0 /\ cli = NoCommand
  /\ granted = {} /\ withdrawn = {} /\ overtaken = {} /\ wiped = FALSE
  /\ world \in Worlds

Goes(b, s) == stage' = [stage EXCEPT ![b] = s]
(* The process leaves; with an owner in hand it releases what is still its.   *)
Exits(b) ==
  /\ Goes(b, "gone")
  /\ ownerFile' = IF stage[b] \in Believes /\ ownerFile = b THEN Nobody ELSE ownerFile
  /\ lockFile' = IF stage[b] \in Believes /\ lockFile = Written(b) THEN NoLock ELSE lockFile
  /\ pairing' = IF stage[b] \in {"up", "mutate"} THEN 0 ELSE pairing
  /\ codes' = IF stage[b] \in {"up", "mutate"} THEN 0 ELSE codes
(* StateDomainOwner.assertCurrent.                                            *)
Current(b) == ownerFile = b /\ lockFile = Written(b)
(* processIdentityStatus against the inventory taken at the start.            *)
Identity(b, q) == IF q \in listed[b] THEN "active" ELSE IF q \in Live THEN "unknown" ELSE "stale"
-----------------------------------------------------------------------------
(* acquireStateDomainOwner.                                                   *)
Start(b) ==
  /\ stage[b] = "off"
  /\ Goes(b, "inspect")
  /\ UNCHANGED <<listed, staleOwner, ownerFile, lockFile, pointer, authFiles, buffer,
                 memVars, pastVars, world>>

\* Mutant: a bridge is not found among the processes.
RecognisedNever(b, q) == FALSE
(* A bridge of another installation is not recognised as one: it has another  *)
(* executable or entry point.                                                 *)
Recognised(b, q) == "foreign" \notin world
Inspect(b) ==
  /\ stage[b] = "inspect"
  /\ listed' = [listed EXCEPT ![b] = Live]
  /\ IF \E q \in Live \ {b} : Recognised(b, q)
     THEN Exits(b)
     ELSE Goes(b, "owner") /\ UNCHANGED <<ownerFile, lockFile, memVars>>
  /\ UNCHANGED <<staleOwner, pointer, authFiles, buffer, pastVars, world>>

ReadOwner(b) ==
  /\ stage[b] = "owner"
  /\ IF ownerFile = Nobody
     THEN Goes(b, "lock") /\ UNCHANGED <<staleOwner, ownerFile, lockFile, memVars>>
     ELSE IF Identity(b, ownerFile) = "stale"
     THEN /\ Goes(b, "unlink")
          /\ staleOwner' = [staleOwner EXCEPT ![b] = ownerFile]
          /\ UNCHANGED <<ownerFile, lockFile, memVars>>
     ELSE Exits(b) /\ UNCHANGED staleOwner
  /\ UNCHANGED <<listed, pointer, authFiles, buffer, pastVars, world>>

(* recoverStaleOwner compares once more and then removes by name.             *)
CompareOwner(b) ==
  /\ stage[b] = "unlink"
  /\ Goes(b, IF ownerFile = staleOwner[b] THEN "remove" ELSE "lock")
  /\ UNCHANGED <<listed, staleOwner, ownerFile, lockFile, pointer, authFiles, buffer,
                 memVars, pastVars, world>>
RemoveOwner(b) ==
  /\ stage[b] = "remove"
  /\ ownerFile' = Nobody
  /\ Goes(b, "lock")
  /\ UNCHANGED <<listed, staleOwner, lockFile, pointer, authFiles, buffer, memVars,
                 pastVars, world>>

(* The exclusive creation; a lock without contents is recovered only by age,  *)
(* which its creator, alive, would have used to write it.                     *)
TakeLock(b) ==
  /\ stage[b] = "lock"
  /\ \/ /\ lockFile = NoLock
        /\ lockFile' = Torn(b)
        /\ Goes(b, "write")
        /\ UNCHANGED <<ownerFile, memVars>>
     \/ /\ lockFile # NoLock
        /\ \/ lockFile.torn
           \/ ~lockFile.torn /\ Identity(b, lockFile.by) # "stale"
        /\ Exits(b)
     \/ /\ lockFile # NoLock
        /\ \/ lockFile.torn /\ lockFile.by \notin Live
           \/ ~lockFile.torn /\ Identity(b, lockFile.by) = "stale"
        /\ Goes(b, "unlock")
        /\ UNCHANGED <<ownerFile, lockFile, memVars>>
  /\ UNCHANGED <<listed, staleOwner, pointer, authFiles, buffer, pastVars, world>>
RemoveLock(b) ==
  /\ stage[b] = "unlock"
  /\ lockFile' = NoLock
  /\ Goes(b, "lock")
  /\ UNCHANGED <<listed, staleOwner, ownerFile, pointer, authFiles, buffer, memVars,
                 pastVars, world>>
(* The write goes to the file it opened, removed or not.                      *)
WriteLock(b) ==
  /\ stage[b] = "write"
  /\ lockFile' = IF lockFile = Torn(b) THEN Written(b) ELSE lockFile
  /\ Goes(b, "record")
  /\ UNCHANGED <<listed, staleOwner, ownerFile, pointer, authFiles, buffer, memVars,
                 pastVars, world>>
WriteOwner(b) ==
  /\ stage[b] = "record"
  /\ ownerFile' = b
  /\ Goes(b, "load")
  /\ UNCHANGED <<listed, staleOwner, lockFile, pointer, authFiles, buffer, memVars,
                 pastVars, world>>
-----------------------------------------------------------------------------
(* Startup of the store: read the generation before, save it as one's own,    *)
(* then move the pointer.  Each write asserts the ownership first.            *)
Source == IF pointer = Nobody THEN Shared ELSE pointer
Load(b) ==
  /\ stage[b] = "load"
  /\ IF Current(b)
     THEN /\ buffer' = [buffer EXCEPT ![b] = authFiles[Source]]
          /\ Goes(b, "save")
          /\ UNCHANGED <<ownerFile, lockFile, memVars>>
     ELSE Exits(b) /\ UNCHANGED buffer
  /\ UNCHANGED <<listed, staleOwner, pointer, authFiles, pastVars, world>>
\* Mutant: the copy is left in memory.
SaveCopyLater(b) ==
  /\ stage[b] = "save"
  /\ Goes(b, "point")
  /\ UNCHANGED <<listed, staleOwner, ownerFile, lockFile, memVars, authFiles, pointer,
                 buffer, pastVars, world>>
SaveCopy(b) ==
  /\ stage[b] = "save"
  /\ IF Current(b)
     THEN /\ authFiles' = [authFiles EXCEPT ![b] = buffer[b]]
          /\ Goes(b, "point")
          /\ UNCHANGED <<ownerFile, lockFile, memVars>>
     ELSE Exits(b) /\ UNCHANGED authFiles
  /\ UNCHANGED <<listed, staleOwner, pointer, buffer, pastVars, world>>
Point(b) ==
  /\ stage[b] = "point"
  /\ IF Current(b)
     THEN /\ pointer' = b
          /\ Goes(b, "up")
          /\ UNCHANGED <<ownerFile, lockFile, memVars>>
     ELSE Exits(b) /\ UNCHANGED pointer
  /\ UNCHANGED <<listed, staleOwner, authFiles, buffer, pastVars, world>>
-----------------------------------------------------------------------------
(* updatePersistedState with an effect on the grants: under the fence and the *)
(* lock of the file, so one step for the only process that has this file.     *)
Mutates(b, new) ==
  /\ stage[b] = "up" /\ Current(b)
  /\ authFiles' = [authFiles EXCEPT ![b] = new]
Untouched == <<procVars, ownerFile, lockFile, pointer, buffer, world>>

(* PairingManager: create replaces the session, a wrong guess costs an        *)
(* attempt, the right one ends it and yields an authorization code.           *)
OpenPairing(b) ==
  /\ stage[b] = "up"
  /\ pairing' = Guesses
  /\ wiped' = FALSE
  /\ UNCHANGED <<Untouched, authFiles, codes, granted, withdrawn, overtaken>>
WrongGuess(b) ==
  /\ stage[b] = "up" /\ pairing > 0
  /\ pairing' = pairing - 1
  /\ UNCHANGED <<Untouched, authFiles, codes, pastVars>>
Expires(b) ==
  /\ stage[b] = "up" /\ pairing + codes > 0
  /\ \/ pairing > 0 /\ pairing' = 0 /\ UNCHANGED codes
     \/ codes > 0 /\ codes' = codes - 1 /\ UNCHANGED pairing
  /\ UNCHANGED <<Untouched, authFiles, pastVars>>
RightGuess(b) ==
  /\ stage[b] = "up" /\ pairing > 0 /\ codes < MaxCodes
  /\ pairing' = 0
  /\ IF Current(b) THEN codes' = codes + 1 ELSE UNCHANGED codes
  /\ UNCHANGED <<Untouched, authFiles, pastVars>>

(* A code is consumed whether or not its grant can be saved.                  *)
Unissued(g) == Bundle(g) \cap granted = {}
Redeem(b, g) ==
  /\ stage[b] = "up" /\ codes > 0 /\ Unissued(g)
  /\ codes' = codes - 1
  /\ \/ Mutates(b, authFiles[b] \cup Bundle(g)) /\ granted' = granted \cup Bundle(g)
     \/ ~Current(b) /\ UNCHANGED <<authFiles, granted>>
  /\ UNCHANGED <<Untouched, pairing, withdrawn, overtaken, wiped>>
(* Rotation replaces a refresh token by a new bundle in one write; the access  *)
(* token that was given with it stays.                                        *)
Refresh(b, g, h) ==
  LET old == <<g, "refresh">> IN
  /\ old \in authFiles[b] /\ Unissued(h)
  /\ Mutates(b, (authFiles[b] \ {old}) \cup Bundle(h))
  /\ granted' = granted \cup Bundle(h)
  /\ withdrawn' = withdrawn \cup {old} /\ overtaken' = overtaken \ {old}
  /\ UNCHANGED <<Untouched, memVars, wiped>>
\* Mutant: the revoked token leaves memory only.
RevokeInMemory(b, t) ==
  /\ t \in authFiles[b]
  /\ Mutates(b, authFiles[b])
  /\ withdrawn' = withdrawn \cup {t} /\ overtaken' = overtaken \ {t}
  /\ UNCHANGED <<Untouched, memVars, granted, wiped>>
(* revokeToken takes back the one token that is named.                        *)
Revoke(b, t) ==
  /\ t \in authFiles[b]
  /\ Mutates(b, authFiles[b] \ {t})
  /\ withdrawn' = withdrawn \cup {t} /\ overtaken' = overtaken \ {t}
  /\ UNCHANGED <<Untouched, memVars, granted, wiped>>
(* /admin/revoke-all: tokens, codes and the pairing session.                  *)
RevokeAll(b) ==
  /\ Mutates(b, {})
  /\ withdrawn' = granted /\ overtaken' = {}
  /\ codes' = 0 /\ pairing' = 0
  /\ wiped' = TRUE
  /\ UNCHANGED <<Untouched, granted>>

Shutdown(b) ==
  /\ stage[b] = "up"
  /\ Exits(b)
  /\ UNCHANGED <<listed, staleOwner, pointer, authFiles, buffer, pastVars, world>>
Dies(b) ==
  /\ b \in Live /\ "crash" \in world
  /\ Goes(b, "gone")
  /\ pairing' = IF stage[b] = "up" THEN 0 ELSE pairing
  /\ codes' = IF stage[b] = "up" THEN 0 ELSE codes
  /\ UNCHANGED <<listed, staleOwner, ownerFile, lockFile, pointer, authFiles, buffer,
                 pastVars, world>>
-----------------------------------------------------------------------------
(* unpair where no healthy bridge is found: it reads the pointer and revokes  *)
(* in the file that names.  None is found while a bridge starts, or does not  *)
(* answer the probe, so this happens beside any stage of a bridge.  What one  *)
(* that starts has copied before, or has moved the pointer to, is overtaken.  *)
UnpairBegins ==
  /\ "unpair" \in world /\ cli = NoCommand
  /\ cli' = [does |-> "unpair", file |-> Source]
  /\ UNCHANGED <<procVars, ownerFile, lockFile, pointer, authFiles, buffer, memVars,
                 pastVars, world>>
UnpairRevokes ==
  /\ cli.does = "unpair"
  /\ authFiles' = [authFiles EXCEPT ![cli.file] = {}]
  /\ withdrawn' = granted
  /\ overtaken' = {t \in granted :
                     \/ t \in authFiles'[Source]
                     \/ \E b \in Live : stage[b] \in {"save", "point"} /\ t \in buffer[b]}
  /\ cli' = NoCommand
  /\ UNCHANGED <<procVars, ownerFile, lockFile, pointer, buffer, memVars, granted,
                 wiped, world>>
(* The command line, before it starts a bridge, where it observes none: every *)
(* generation file is merged into the shared file, then into the current one. *)
(* A bridge that starts is not observed while the runtime record of one that  *)
(* died is there.                                                             *)
Merged == (UNION {authFiles[f] : f \in DOMAIN authFiles}) \ {Nobody}
ImportBegins ==
  /\ "import" \in world /\ cli = NoCommand
  /\ \A b \in Live : stage[b] # "up"
  /\ authFiles' = [authFiles EXCEPT ![Shared] = Merged]
  /\ cli' = IF pointer = Nobody THEN NoCommand ELSE [does |-> "import", file |-> pointer]
  /\ UNCHANGED <<procVars, ownerFile, lockFile, pointer, buffer, memVars, pastVars, world>>
ImportEnds ==
  /\ cli.does = "import"
  /\ authFiles' = [authFiles EXCEPT ![cli.file] = Merged]
  /\ cli' = NoCommand
  /\ UNCHANGED <<procVars, ownerFile, lockFile, pointer, buffer, memVars, pastVars, world>>

CommandStep == UnpairBegins \/ UnpairRevokes \/ ImportBegins \/ ImportEnds
BridgeStep(b) ==
  \/ Start(b) \/ Inspect(b) \/ ReadOwner(b) \/ CompareOwner(b) \/ RemoveOwner(b)
  \/ TakeLock(b) \/ RemoveLock(b) \/ WriteLock(b) \/ WriteOwner(b)
  \/ Load(b) \/ SaveCopy(b) \/ Point(b)
  \/ OpenPairing(b) \/ WrongGuess(b) \/ Expires(b) \/ RightGuess(b)
  \/ \E g \in Grants : Redeem(b, g) \/ \E h \in Grants : Refresh(b, g, h)
  \/ \E t \in Tokens : Revoke(b, t)
  \/ RevokeAll(b) \/ Shutdown(b) \/ Dies(b)
AuthNext ==
  \/ CommandStep
  \/ UNCHANGED cli /\ \E b \in Bridges : BridgeStep(b)
AuthSpec == AuthInit /\ [][AuthNext]_authVars
-----------------------------------------------------------------------------
AuthTypeOK ==
  /\ stage \in [Bridges -> {"off", "inspect", "owner", "unlink", "remove", "lock",
                            "unlock", "write", "record", "load", "save", "point",
                            "up", "gone"}]
  /\ listed \in [Bridges -> SUBSET Bridges]
  /\ staleOwner \in [Bridges -> Bridges \cup {Nobody}]
  /\ {ownerFile, pointer} \subseteq Bridges \cup {Nobody}
  /\ lockFile \in [by: Bridges \cup {Nobody}, torn: BOOLEAN]
  /\ \A f \in DOMAIN authFiles : authFiles[f] = NoFile \/ authFiles[f] \subseteq Tokens
  /\ \A b \in Bridges : buffer[b] = NoFile \/ buffer[b] \subseteq Tokens
  /\ pairing \in 0..Guesses /\ codes \in 0..MaxCodes
  /\ cli \in [does: {"nothing", "unpair", "import"}, file: Bridges \cup {Shared}]
  /\ granted \subseteq Tokens /\ withdrawn \subseteq granted /\ overtaken \subseteq withdrawn
  /\ wiped \in BOOLEAN

(* Of the bridges of one installation at most one gets past the acquisition,  *)
(* whatever crashed before (state-owner.ts:486, "one authoritative bridge     *)
(* generation for a state directory").                                        *)
OneOwner ==
  "foreign" \notin world =>
    \A b, c \in Live : stage[b] \in Believes /\ stage[c] \in Believes => b = c

(* A bridge that serves and may write is the one the pointer names, so its    *)
(* file is what the next generation copies (state-owner.ts:594).              *)
PointerNamesTheWriter ==
  "foreign" \notin world => \A b \in Live : stage[b] = "up" => Current(b) /\ pointer = b

(* One bridge writes the state directory, and it is the one that is asked.    *)
OneWriter == OneOwner /\ PointerNamesTheWriter

(* A grant a client holds survives every crash and every hand-over between    *)
(* generations (server.ts:207, state-owner.ts:604).                           *)
GrantSurvives ==
  "foreign" \notin world =>
    \A g \in granted \ withdrawn :
      /\ g \in authFiles[Source]
      /\ \A b \in Live : stage[b] \in {"save", "point"} => g \in buffer[b]

(* What was taken back is not valid again: "This keeps revoke-all/revocation  *)
(* durable instead of resurrecting old tokens on every restart"               *)
(* (store.ts:514).                                                            *)
StaysBack(tokens) ==
  \A t \in tokens : /\ t \notin authFiles[Source]
                    /\ \A b \in Live : stage[b] \in {"save", "point"} /\ Current(b) => t \notin buffer[b]
WithdrawnIsFinal == StaysBack(withdrawn)
(* The same where the import of the command line never runs, and of an unpair *)
(* except for what it took back too late: after a bridge had copied it.       *)
WithdrawnUnlessImported == "import" \notin world => StaysBack(withdrawn \ overtaken)

(* After revoke-all nothing that was under way leads to a grant until a new   *)
(* pairing is opened (server.ts:578).                                         *)
NothingPendingAfterWipe == wiped => pairing = 0 /\ codes = 0

(* What was revoked, or under way when everything was, gives no access.       *)
RevocationHolds == WithdrawnUnlessImported /\ NothingPendingAfterWipe

(* The next generation of the store has what clients hold, and no more.        *)
GrantsSafe == GrantSurvives /\ RevocationHolds
=============================================================================
