----------------------------- MODULE ServicesProofs ----------------------------
(* Proofs about the components around the task manager, for every size: the   *)
(* ownership of a state directory and the grants it keeps (AuthDomain), the   *)
(* creation of native sessions (NativeCreate), the client of the session      *)
(* service (SessionClient) and the continuation controller (Continuation).    *)
EXTENDS MCServices, FiniteSetTheorems, WellFoundedInduction, TLAPS

(* AuthDomain: the inductive invariant Inv.                                   *)

Stages == {"off", "inspect", "owner", "unlink", "remove", "lock", "unlock", "write",
           "record", "load", "save", "point", "up", "gone"}
Files == Bridges \cup {Shared}
Fenced == "foreign" \notin world
(* Got past the inventory of live processes, which it does only when alone.   *)
Passed(b) == stage[b] \notin {"off", "inspect", "gone"}

ProcTypes ==
  /\ stage \in [Bridges -> Stages]
  /\ listed \in [Bridges -> SUBSET Bridges]
  /\ staleOwner \in [Bridges -> Bridges \cup {Nobody}]
  /\ ownerFile \in Bridges \cup {Nobody} /\ pointer \in Bridges \cup {Nobody}
  /\ lockFile \in [by: Bridges \cup {Nobody}, torn: BOOLEAN]
MemTypes == pairing \in 0..Guesses /\ codes \in 0..MaxCodes /\ wiped \in BOOLEAN
Pending == MemTypes /\ NothingPendingAfterWipe

(* Who has passed is alone, and the records say so as far as it has come.     *)
Alone == Fenced => \A b, c \in Bridges : Passed(b) /\ Passed(c) => b = c
Records ==
  Fenced => \A b \in Bridges :
    /\ stage[b] = "write" => lockFile = Torn(b)
    /\ stage[b] = "record" => lockFile = Written(b)
    /\ stage[b] \in {"load", "save", "point", "up"} => Current(b)
Fence == ProcTypes /\ Alone /\ Records

(* The file the pointer names exists, and so does that of a bridge which      *)
(* points at it or serves.                                                    *)
FileTypes ==
  /\ authFiles \in [Files -> (SUBSET Tokens) \cup {NoFile}]
  /\ buffer \in [Bridges -> SUBSET Tokens]
  /\ authFiles[Source] \subseteq Tokens
  /\ \A b \in Bridges : stage[b] \in {"point", "up"} => authFiles[b] \subseteq Tokens
Known ==
  /\ granted \subseteq Tokens /\ withdrawn \subseteq granted /\ overtaken \subseteq withdrawn
  /\ \A f \in Files : authFiles[f] \cap Tokens \subseteq granted
  /\ \A b \in Bridges : buffer[b] \subseteq granted
Copied == \A b \in Bridges : stage[b] = "point" => authFiles[b] = buffer[b]
Pointed == \A b \in Bridges : stage[b] = "up" /\ Current(b) => pointer = b
(* The file a command is about to write, and the one the pointer names, is    *)
(* that of a bridge which serves or did.                                      *)
Commanded ==
  /\ cli \in [does: {"nothing", "unpair", "import"}, file: Files]
  /\ cli.does = "import" => "import" \in world
  /\ \A b \in Bridges : b \in {cli.file, pointer} => stage[b] \in {"up", "gone"}
Store == FileTypes /\ Known /\ Copied /\ Pointed
Grounds == Fence /\ Commanded /\ Store /\ GrantSurvives /\ WithdrawnUnlessImported
Inv == Grounds /\ Pending

\* The file of a bridge is not the shared one.
LEMMA SharedIsNoBridge ==
  Shared \in Files /\ Bridges \subseteq Files /\ \A b \in Bridges : b # Shared /\ b # Nobody
  BY AuthConstants DEF Files
-----------------------------------------------------------------------------
(* The acquisition *)

\* A bridge leaves: it takes back only records that name it, which it holds
\* from the record of the owner on.
LEMMA ExitsFence ==
  ASSUME Fence, NEW b \in Bridges, Exits(b), Passed(b) \/ stage[b] = "inspect",
         UNCHANGED <<pointer, world, staleOwner>>, listed' \in [Bridges -> SUBSET Bridges]
  PROVE  Fence'
<1>1. ProcTypes'
  BY DEF Fence, ProcTypes, Exits, Goes, NoLock, Torn, Stages
<1>2. stage' = [stage EXCEPT ![b] = "gone"] /\ stage \in [Bridges -> Stages]
  BY DEF Exits, Goes, Fence, ProcTypes
<1>3. Alone'
  BY <1>2 DEF Alone, Passed, Fenced, Fence
<1>4. Records'
  <2>1. SUFFICES ASSUME Fenced, NEW c \in Bridges, stage'[c] \in {"write", "record", "load", "save", "point", "up"}
        PROVE  lockFile' = lockFile /\ ownerFile' = ownerFile /\ stage'[c] = stage[c]
    BY DEF Records, Fence, Fenced, Current
  <2>2. c # b /\ stage'[c] = stage[c]
    BY <1>2, <2>1
  <2>3. ~Passed(b)
    BY <2>1, <2>2 DEF Fence, Alone, Passed
  <2>4. stage[b] \notin Believes
    BY <2>3 DEF Passed, Believes
  <2>5. QED BY <2>2, <2>4 DEF Exits
<1>5. QED BY <1>1, <1>3, <1>4 DEF Fence

\* A bridge that has passed goes on while the records stay.
LEMMA GoesFence ==
  ASSUME Fence, NEW b \in Bridges, Passed(b), NEW s \in Stages, Goes(b, s),
         UNCHANGED <<ownerFile, lockFile, world, listed>>, pointer' \in Bridges \cup {Nobody},
         staleOwner' \in [Bridges -> Bridges \cup {Nobody}],
         s \notin {"write", "record"},
         s \in {"load", "save", "point", "up"} => Current(b)
  PROVE  Fence'
<1>1. stage' = [stage EXCEPT ![b] = s] /\ stage \in [Bridges -> Stages]
  BY DEF Goes, Fence, ProcTypes
<1>2. ProcTypes'
  BY <1>1 DEF Fence, ProcTypes
<1>3. Alone'
  BY <1>1 DEF Alone, Passed, Fenced, Fence
<1>4. Records'
  BY <1>1 DEF Records, Fence, Fenced, Current
<1>5. QED BY <1>2, <1>3, <1>4 DEF Fence

\* Neither the records nor the processes move.
LEMMA FenceRests ==
  Fence /\ UNCHANGED <<procVars, ownerFile, lockFile, pointer, world>> => Fence'
<1>1. SUFFICES ASSUME Fence, UNCHANGED <<procVars, ownerFile, lockFile, pointer, world>> PROVE Fence'
  OBVIOUS
<1>2. ProcTypes'
  BY <1>1 DEF Fence, ProcTypes, procVars
<1>3. Alone'
  BY <1>1 DEF Fence, Alone, Passed, Fenced, procVars
<1>4. Records'
  BY <1>1 DEF Fence, Records, Fenced, Current, procVars
<1>5. QED BY <1>2, <1>3, <1>4 DEF Fence

\* A process starts, or looks at the others and passes only when alone.
LEMMA InspectFence ==
  ASSUME Fence, NEW b \in Bridges, Start(b) \/ Inspect(b)
  PROVE  Fence'
<1>1. stage \in [Bridges -> Stages] /\ ProcTypes
  BY DEF Fence, ProcTypes
<1>2. CASE Start(b)
  <2>1. stage' = [stage EXCEPT ![b] = "inspect"]
    BY <1>2 DEF Start, Goes
  <2>2. UNCHANGED <<listed, staleOwner, ownerFile, lockFile, pointer, world>>
    BY <1>2 DEF Start
  <2>3. ProcTypes'
    BY <1>1, <2>1, <2>2 DEF ProcTypes, Stages
  <2>4. Alone'
    BY <1>1, <2>1, <2>2 DEF Fence, Alone, Passed, Fenced
  <2>5. Records'
    BY <1>1, <2>1, <2>2 DEF Fence, Records, Fenced, Current
  <2>6. QED BY <2>3, <2>4, <2>5 DEF Fence
<1>3. CASE Inspect(b) /\ \E q \in Live \ {b} : Recognised(b, q)
  <2>1. listed' \in [Bridges -> SUBSET Bridges]
    BY <1>1, <1>3 DEF Inspect, ProcTypes, Live
  <2>2. QED BY <1>3, <2>1, ExitsFence DEF Inspect
<1>4. CASE Inspect(b) /\ ~\E q \in Live \ {b} : Recognised(b, q)
  <2>1. stage' = [stage EXCEPT ![b] = "owner"]
    BY <1>4 DEF Inspect, Goes
  <2>2. UNCHANGED <<staleOwner, ownerFile, lockFile, pointer, world>>
    BY <1>4 DEF Inspect
  <2>3. listed' \in [Bridges -> SUBSET Bridges]
    BY <1>1, <1>4 DEF Inspect, ProcTypes, Live
  <2>4. ProcTypes'
    BY <1>1, <2>1, <2>2, <2>3 DEF ProcTypes, Stages
  <2>5. Fenced => \A c \in Bridges : c # b => ~Passed(c)
    BY <1>4 DEF Recognised, Fenced, Live, Passed
  <2>6. Alone'
    BY <1>1, <2>1, <2>2, <2>5 DEF Alone, Passed, Fenced
  <2>7. Records'
    BY <1>1, <2>1, <2>2 DEF Fence, Records, Fenced, Current
  <2>8. QED BY <2>4, <2>6, <2>7 DEF Fence
<1>5. QED BY <1>2, <1>3, <1>4

\* A step of the acquisition that moves a record is a step of the only one
\* which has passed.
LEMMA RecordFence ==
  ASSUME Fence, NEW b \in Bridges, Passed(b), NEW s \in Stages, Goes(b, s),
         UNCHANGED <<pointer, world, listed, staleOwner>>,
         ownerFile' \in Bridges \cup {Nobody},
         lockFile' \in [by: Bridges \cup {Nobody}, torn: BOOLEAN],
         Fenced => /\ s = "write" => lockFile' = Torn(b)
                   /\ s = "record" => lockFile' = Written(b)
                   /\ s = "load" => ownerFile' = b /\ lockFile' = Written(b),
         s \notin {"save", "point", "up"}
  PROVE  Fence'
<1>1. stage' = [stage EXCEPT ![b] = s] /\ stage \in [Bridges -> Stages]
  BY DEF Goes, Fence, ProcTypes
<1>2. ProcTypes'
  BY <1>1 DEF Fence, ProcTypes
<1>3. Alone'
  BY <1>1 DEF Alone, Passed, Fenced, Fence
<1>4. Records'
  <2>1. SUFFICES ASSUME Fenced, NEW c \in Bridges, stage'[c] \in {"write", "record", "load", "save", "point", "up"}
        PROVE  c = b
    BY <1>1 DEF Records, Fenced, Current
  <2>2. Passed(c) \/ c = b
    BY <1>1, <2>1 DEF Passed
  <2>3. QED BY <2>1, <2>2 DEF Fence, Alone
<1>5. QED BY <1>2, <1>3, <1>4 DEF Fence

\* Every step of the acquisition keeps the fence.
LEMMA AcquireFence ==
  ASSUME Fence, NEW b \in Bridges,
         \/ ReadOwner(b) \/ CompareOwner(b) \/ RemoveOwner(b) \/ TakeLock(b)
         \/ RemoveLock(b) \/ WriteLock(b) \/ WriteOwner(b)
  PROVE  Fence'
<1>1. ProcTypes
  BY DEF Fence
<1>2. CASE ReadOwner(b)
  <2>0. Passed(b) /\ UNCHANGED <<pointer, world, listed>>
    BY <1>2 DEF ReadOwner, Passed
  <2>1. CASE Exits(b) /\ UNCHANGED staleOwner
    BY <1>1, <2>0, <2>1, ExitsFence DEF ProcTypes
  <2>2. CASE Goes(b, "lock") /\ UNCHANGED <<staleOwner, ownerFile, lockFile>>
    <3>1. "lock" \in Stages BY DEF Stages
    <3>2. QED BY <1>1, <2>0, <2>2, <3>1, GoesFence DEF ProcTypes
  <2>3. CASE Goes(b, "unlink") /\ staleOwner' = [staleOwner EXCEPT ![b] = ownerFile] /\ UNCHANGED <<ownerFile, lockFile>>
    <3>1. "unlink" \in Stages BY DEF Stages
    <3>2. QED BY <1>1, <2>0, <2>3, <3>1, GoesFence DEF ProcTypes
  <2>4. QED BY <1>2, <2>1, <2>2, <2>3 DEF ReadOwner
<1>3. CASE CompareOwner(b)
  <2>1. PICK s \in {"remove", "lock"} : Goes(b, s)
    BY <1>3 DEF CompareOwner
  <2>2. /\ Passed(b) /\ s \in Stages
        /\ UNCHANGED <<pointer, world, listed, staleOwner, ownerFile, lockFile>>
    BY <1>3 DEF CompareOwner, Passed, Stages
  <2>3. QED BY <1>1, <2>1, <2>2, GoesFence DEF ProcTypes
<1>4. CASE RemoveOwner(b)
  <2>1. /\ Passed(b) /\ "lock" \in Stages /\ Goes(b, "lock") /\ ownerFile' = Nobody
        /\ UNCHANGED <<pointer, world, listed, staleOwner, lockFile>>
    BY <1>4 DEF RemoveOwner, Passed, Stages
  <2>2. QED BY <1>1, <2>1, RecordFence DEF ProcTypes
<1>5. CASE TakeLock(b)
  <2>0. Passed(b) /\ UNCHANGED <<pointer, world, listed, staleOwner>>
    BY <1>5 DEF TakeLock, Passed
  <2>1. CASE Exits(b)
    BY <1>1, <2>0, <2>1, ExitsFence DEF ProcTypes
  <2>2. CASE Goes(b, "unlock") /\ UNCHANGED <<ownerFile, lockFile>>
    <3>1. "unlock" \in Stages BY DEF Stages
    <3>2. QED BY <1>1, <2>0, <2>2, <3>1, GoesFence DEF ProcTypes
  <2>3. CASE Goes(b, "write") /\ lockFile' = Torn(b) /\ UNCHANGED ownerFile
    <3>1. "write" \in Stages /\ lockFile' \in [by: Bridges \cup {Nobody}, torn: BOOLEAN]
      BY <2>3 DEF Stages, Torn
    <3>2. QED BY <1>1, <2>0, <2>3, <3>1, RecordFence DEF ProcTypes
  <2>4. QED BY <1>5, <2>1, <2>2, <2>3 DEF TakeLock
<1>6. CASE RemoveLock(b)
  <2>1. /\ Passed(b) /\ "lock" \in Stages /\ Goes(b, "lock") /\ lockFile' = NoLock
        /\ UNCHANGED <<pointer, world, listed, staleOwner, ownerFile>>
    BY <1>6 DEF RemoveLock, Passed, Stages
  <2>2. lockFile' \in [by: Bridges \cup {Nobody}, torn: BOOLEAN]
    BY <2>1 DEF NoLock, Torn
  <2>3. QED BY <1>1, <2>1, <2>2, RecordFence DEF ProcTypes
<1>7. CASE WriteLock(b)
  <2>1. /\ Passed(b) /\ "record" \in Stages /\ Goes(b, "record")
        /\ lockFile' = IF lockFile = Torn(b) THEN Written(b) ELSE lockFile
        /\ UNCHANGED <<pointer, world, listed, staleOwner, ownerFile>>
    BY <1>7 DEF WriteLock, Passed, Stages
  <2>2. lockFile' \in [by: Bridges \cup {Nobody}, torn: BOOLEAN]
    BY <1>1, <2>1 DEF Written, ProcTypes
  <2>3. Fenced => lockFile' = Written(b)
    BY <1>7, <2>1 DEF Fence, Records, WriteLock
  <2>4. QED BY <1>1, <2>1, <2>2, <2>3, RecordFence DEF ProcTypes
<1>8. CASE WriteOwner(b)
  <2>1. /\ Passed(b) /\ "load" \in Stages /\ Goes(b, "load") /\ ownerFile' = b
        /\ UNCHANGED <<pointer, world, listed, staleOwner, lockFile>>
    BY <1>8 DEF WriteOwner, Passed, Stages
  <2>2. Fenced => lockFile' = Written(b)
    BY <1>8, <2>1 DEF Fence, Records, WriteOwner
  <2>3. QED BY <1>1, <2>1, <2>2, RecordFence DEF ProcTypes
<1>9. QED BY <1>2, <1>3, <1>4, <1>5, <1>6, <1>7, <1>8

\* Every step of the startup of the store keeps the fence.
LEMMA StartupFence ==
  ASSUME Fence, NEW b \in Bridges, Load(b) \/ SaveCopy(b) \/ Point(b)
  PROVE  Fence'
<1>1. ProcTypes /\ Passed(b)
  BY DEF Fence, Load, SaveCopy, Point, Passed
<1>2. UNCHANGED <<listed, staleOwner, world>> /\ pointer' \in {pointer, b}
  BY DEF Load, SaveCopy, Point
<1>3. CASE Current(b)
  <2>1. PICK s \in {"save", "point", "up"} : Goes(b, s)
    BY <1>3 DEF Load, SaveCopy, Point
  <2>2. s \in Stages /\ s \notin {"write", "record"}
    BY <2>1 DEF Stages
  <2>3. UNCHANGED <<ownerFile, lockFile>>
    BY <1>3 DEF Load, SaveCopy, Point
  <2>4. QED BY <1>1, <1>2, <1>3, <2>1, <2>2, <2>3, GoesFence DEF ProcTypes
<1>4. CASE ~Current(b)
  <2>1. Exits(b) /\ UNCHANGED pointer
    BY <1>4 DEF Load, SaveCopy, Point
  <2>2. QED BY <1>1, <1>2, <2>1, ExitsFence DEF ProcTypes
<1>5. QED BY <1>3, <1>4

\* A serving bridge stays where it is; one that leaves or dies takes back
\* what is its own at most.
LEMMA ServeFence ==
  ASSUME Fence, NEW b \in Bridges,
         \/ OpenPairing(b) \/ WrongGuess(b) \/ Expires(b) \/ RightGuess(b)
         \/ \E g \in Grants : Redeem(b, g) \/ \E h \in Grants : Refresh(b, g, h)
         \/ \E t \in Tokens : Revoke(b, t)
         \/ RevokeAll(b)
  PROVE  Fence'
<1>1. UNCHANGED <<procVars, ownerFile, lockFile, pointer, world>>
  BY DEF OpenPairing, WrongGuess, Expires, RightGuess, Redeem, Revoke, Refresh, RevokeAll, Untouched
<1>2. QED BY <1>1, FenceRests

\* A bridge that leaves takes back what is its own, one that dies nothing.
LEMMA LeaveFence ==
  ASSUME Fence, NEW b \in Bridges, Shutdown(b) \/ Dies(b)
  PROVE  Fence'
<1>1. ProcTypes
  BY DEF Fence
<1>2. CASE Shutdown(b)
  <2>1. Passed(b)
    BY <1>2 DEF Shutdown, Passed
  <2>2. QED BY <1>1, <1>2, <2>1, ExitsFence DEF Shutdown, ProcTypes
<1>3. CASE Dies(b)
  <2>1. stage' = [stage EXCEPT ![b] = "gone"] /\ UNCHANGED <<listed, staleOwner, ownerFile, lockFile, pointer, world>>
    BY <1>3 DEF Dies, Goes
  <2>2. ProcTypes'
    BY <1>1, <2>1 DEF ProcTypes, Stages
  <2>3. Alone'
    BY <1>1, <2>1 DEF Fence, ProcTypes, Alone, Passed, Fenced
  <2>4. Records'
    BY <1>1, <2>1 DEF Fence, ProcTypes, Records, Fenced, Current
  <2>5. QED BY <2>2, <2>3, <2>4 DEF Fence
<1>4. QED BY <1>2, <1>3

\* Every step keeps the fence, in the worlds that have one.
LEMMA NextFence == Fence /\ [AuthNext]_authVars => Fence'
<1>1. SUFFICES ASSUME Fence, [AuthNext]_authVars PROVE Fence'
  OBVIOUS
<1>2. CASE UNCHANGED authVars
  BY <1>1, <1>2, FenceRests DEF authVars, procVars
<1>3. CASE CommandStep
  BY <1>1, <1>3, FenceRests DEF CommandStep, UnpairBegins, UnpairRevokes, ImportBegins, ImportEnds
<1>4. ASSUME NEW b \in Bridges, BridgeStep(b) PROVE Fence'
  BY <1>1, <1>4, InspectFence, AcquireFence, StartupFence, ServeFence, LeaveFence DEF BridgeStep
<1>5. QED BY <1>1, <1>2, <1>3, <1>4 DEF AuthNext
-----------------------------------------------------------------------------
(* What is under way in memory *)

\* Memory keeps its types, and nothing gets under way after a wipe but by a
\* new pairing.
LEMMA NextPending == Pending /\ [AuthNext]_authVars => Pending'
<1>1. SUFFICES ASSUME Pending, [AuthNext]_authVars PROVE Pending'
  OBVIOUS
<1>2. /\ pairing \in 0..Guesses /\ codes \in 0..MaxCodes /\ wiped \in BOOLEAN
      /\ wiped => pairing = 0 /\ codes = 0
      /\ Guesses \in Nat /\ MaxCodes \in Nat
  BY <1>1, AuthConstants DEF Pending, MemTypes, NothingPendingAfterWipe
<1>3. SUFFICES \/ pairing' \in {0, pairing} /\ codes' \in {0, codes} /\ wiped' = wiped
               \/ pairing' \in 0..Guesses /\ codes' \in 0..MaxCodes /\ wiped' \in BOOLEAN
                  /\ (wiped' => pairing' = 0 /\ codes' = 0)
  BY <1>2 DEF Pending, MemTypes, NothingPendingAfterWipe
<1>4. CASE UNCHANGED authVars
  BY <1>4 DEF authVars
<1>5. CASE CommandStep
  BY <1>5 DEF CommandStep, UnpairBegins, UnpairRevokes, ImportBegins, ImportEnds, memVars, pastVars
<1>6. ASSUME NEW b \in Bridges, BridgeStep(b)
      PROVE  \/ pairing' \in {0, pairing} /\ codes' \in {0, codes} /\ wiped' = wiped
             \/ pairing' \in 0..Guesses /\ codes' \in 0..MaxCodes /\ wiped' \in BOOLEAN
                /\ (wiped' => pairing' = 0 /\ codes' = 0)
  <2>0. ASSUME \/ UNCHANGED memVars
               \/ Exits(b),
               wiped' = wiped
        PROVE  pairing' \in {0, pairing} /\ codes' \in {0, codes} /\ wiped' = wiped
    BY <2>0 DEF Exits, memVars
  <2>1. CASE Start(b) \/ Inspect(b) \/ ReadOwner(b) \/ CompareOwner(b) \/ RemoveOwner(b)
    BY <2>0, <2>1 DEF Start, Inspect, ReadOwner, CompareOwner, RemoveOwner, pastVars
  <2>2. CASE \/ TakeLock(b) \/ RemoveLock(b) \/ WriteLock(b) \/ WriteOwner(b)
             \/ Load(b) \/ SaveCopy(b) \/ Point(b) \/ Shutdown(b)
    BY <2>0, <2>2 DEF TakeLock, RemoveLock, WriteLock, WriteOwner, Load, SaveCopy, Point,
       Shutdown, pastVars
  <2>11. CASE Dies(b)
    BY <2>11 DEF Dies, pastVars
  <2>3. CASE OpenPairing(b)
    <3>1. pairing' = Guesses /\ codes' = codes /\ wiped' = FALSE
      BY <2>3 DEF OpenPairing
    <3>2. wiped' \in BOOLEAN /\ ~wiped'
      BY <3>1, Zenon
    <3>3. pairing' \in 0..Guesses /\ codes' \in 0..MaxCodes
      BY <1>2, <3>1
    <3>4. QED BY <3>2, <3>3, Zenon
  <2>4. CASE WrongGuess(b)
    BY <1>2, <2>4 DEF WrongGuess, pastVars
  <2>5. CASE Expires(b)
    <3>1. /\ wiped' = wiped
          /\ \/ pairing > 0 /\ pairing' = 0 /\ codes' = codes
             \/ codes > 0 /\ codes' = codes - 1 /\ pairing' = pairing
      BY <2>5 DEF Expires, pastVars
    <3>2. QED BY <1>2, <3>1
  <2>6. CASE RightGuess(b)
    <3>1. /\ wiped' = wiped /\ pairing > 0 /\ codes < MaxCodes /\ pairing' = 0
          /\ codes' = codes + 1 \/ codes' = codes
      BY <2>6 DEF RightGuess, pastVars
    <3>2. QED BY <1>2, <3>1
  <2>7. ASSUME NEW g \in Grants, Redeem(b, g)
        PROVE  pairing' \in 0..Guesses /\ codes' \in 0..MaxCodes /\ wiped' \in BOOLEAN
                /\ (wiped' => pairing' = 0 /\ codes' = 0)
    <3>1. codes > 0 /\ codes' = codes - 1 /\ pairing' = pairing /\ wiped' = wiped
      BY <2>7 DEF Redeem
    <3>2. QED BY <1>2, <3>1
  <2>8. ASSUME \/ \E t \in Tokens : Revoke(b, t)
             \/ \E g, h \in Grants : Refresh(b, g, h)
        PROVE  pairing' = pairing /\ codes' = codes /\ wiped' = wiped
    BY <2>8 DEF Revoke, Refresh, memVars
  <2>9. CASE RevokeAll(b)
    <3>1. pairing' = 0 /\ codes' = 0 /\ wiped' = TRUE
      BY <2>9 DEF RevokeAll
    <3>2. wiped' \in BOOLEAN
      BY <3>1, Zenon
    <3>3. pairing' \in 0..Guesses /\ codes' \in 0..MaxCodes
      BY <1>2, <3>1
    <3>4. QED BY <3>1, <3>2, <3>3, Zenon
  <2>10. QED BY <1>6, <2>1, <2>2, <2>3, <2>4, <2>5, <2>6, <2>7, <2>8, <2>9, <2>11 DEF BridgeStep
<1>7. QED BY <1>1, <1>4, <1>5, <1>6 DEF AuthNext
-----------------------------------------------------------------------------
(* The grants *)

\* No file changes, and no bridge gets further with the store.
LEMMA StoreRests ==
  ASSUME Grounds, UNCHANGED <<pointer, authFiles, buffer, granted, withdrawn, overtaken, world>>,
         \A c \in Bridges : stage'[c] \in {"save", "point", "up"}
                             => stage'[c] = stage[c] /\ (Current(c)' => Current(c))
  PROVE  Store' /\ GrantSurvives' /\ WithdrawnUnlessImported'
<1>1. FileTypes' /\ Known' /\ Copied' /\ Pointed'
  BY DEF Grounds, Store, FileTypes, Known, Copied, Pointed, Source
<1>2. GrantSurvives'
  BY DEF Grounds, GrantSurvives, Live, Source
<1>3. WithdrawnUnlessImported'
  BY DEF Grounds, WithdrawnUnlessImported, StaysBack, Live, Source
<1>4. QED BY <1>1, <1>2, <1>3 DEF Store

\* One bridge moves, not into the store, and the records come to name at most
\* it: the others are what they were.
LEMMA OneMoves ==
  ASSUME Grounds, NEW b \in Bridges, NEW s \in Stages \ {"save", "point", "up"}, Goes(b, s),
         UNCHANGED <<pointer, authFiles, buffer, granted, withdrawn, overtaken, world>>,
         ownerFile' \in {ownerFile, Nobody, b}, lockFile' \in {lockFile, NoLock, Torn(b), Written(b)}
  PROVE  Store' /\ GrantSurvives' /\ WithdrawnUnlessImported'
<1>1. stage' = [stage EXCEPT ![b] = s] /\ stage \in [Bridges -> Stages]
  BY DEF Goes, Grounds, Fence, ProcTypes
<1>2. ASSUME NEW c \in Bridges, stage'[c] \in {"save", "point", "up"}
      PROVE  stage'[c] = stage[c] /\ (Current(c)' => Current(c))
  <2>1. c # b /\ stage'[c] = stage[c]
    BY <1>1, <1>2
  <2>2. ownerFile' = c => ownerFile = c
    BY <2>1, SharedIsNoBridge
  <2>3. lockFile' = Written(c) => lockFile = Written(c)
    BY <2>1 DEF NoLock, Torn, Written
  <2>4. QED BY <2>1, <2>2, <2>3 DEF Current
<1>3. QED BY <1>2, StoreRests

\* A bridge that leaves.
LEMMA ExitsStore ==
  ASSUME Grounds, NEW b \in Bridges, Exits(b),
         UNCHANGED <<pointer, authFiles, buffer, granted, withdrawn, overtaken, world>>
  PROVE  Store' /\ GrantSurvives' /\ WithdrawnUnlessImported'
<1>1. /\ Goes(b, "gone") /\ "gone" \in Stages \ {"save", "point", "up"}
      /\ ownerFile' \in {ownerFile, Nobody, b} /\ lockFile' \in {lockFile, NoLock, Torn(b), Written(b)}
  BY DEF Exits, Stages
<1>2. QED BY <1>1, OneMoves

\* The acquisition, the end of a bridge and its death leave the grants alone.
LEMMA AcquireStore ==
  ASSUME Grounds, NEW b \in Bridges,
         \/ Start(b) \/ Inspect(b) \/ ReadOwner(b) \/ CompareOwner(b) \/ RemoveOwner(b)
         \/ TakeLock(b) \/ RemoveLock(b) \/ WriteLock(b) \/ WriteOwner(b)
         \/ Shutdown(b) \/ Dies(b)
  PROVE  Store' /\ GrantSurvives' /\ WithdrawnUnlessImported'
<1>1. UNCHANGED <<pointer, authFiles, buffer, granted, withdrawn, overtaken, world>>
  BY DEF Start, Inspect, ReadOwner, CompareOwner, RemoveOwner, TakeLock, RemoveLock, WriteLock,
         WriteOwner, Shutdown, Dies, pastVars
<1>2. CASE Exits(b)
  BY <1>1, <1>2, ExitsStore
<1>3. CASE ~Exits(b)
  <2>1. PICK s \in Stages \ {"save", "point", "up"} : Goes(b, s)
    <3>1. CASE Start(b) BY <3>1 DEF Start, Stages
    <3>2. CASE Inspect(b) BY <1>3, <3>2 DEF Inspect, Stages
    <3>3. CASE ReadOwner(b) BY <1>3, <3>3 DEF ReadOwner, Stages
    <3>4. CASE CompareOwner(b) BY <3>4 DEF CompareOwner, Stages
    <3>5. CASE RemoveOwner(b) BY <3>5 DEF RemoveOwner, Stages
    <3>6. CASE TakeLock(b) BY <1>3, <3>6 DEF TakeLock, Stages
    <3>7. CASE RemoveLock(b) BY <3>7 DEF RemoveLock, Stages
    <3>8. CASE WriteLock(b) BY <3>8 DEF WriteLock, Stages
    <3>9. CASE WriteOwner(b) BY <3>9 DEF WriteOwner, Stages
    <3>10. CASE Dies(b) BY <3>10 DEF Dies, Stages
    <3>11. QED
      BY <1>3, <3>1, <3>2, <3>3, <3>4, <3>5, <3>6, <3>7, <3>8, <3>9, <3>10 DEF Shutdown
  <2>2. ownerFile' \in {ownerFile, Nobody, b}
    BY <1>3 DEF Start, Inspect, ReadOwner, CompareOwner, RemoveOwner, TakeLock, RemoveLock,
       WriteLock,
                WriteOwner, Shutdown, Dies
  <2>3. lockFile' \in {lockFile, NoLock, Torn(b), Written(b)}
    BY <1>3 DEF Start, Inspect, ReadOwner, CompareOwner, RemoveOwner, TakeLock, RemoveLock,
       WriteLock,
                WriteOwner, Shutdown, Dies
  <2>4. QED BY <1>1, <2>1, <2>2, <2>3, OneMoves
<1>4. QED BY <1>2, <1>3

\* Only one bridge is current.
LEMMA OneCurrent ==
  ASSUME NEW b, NEW c, Current(b), Current(c)
  PROVE  b = c
  BY DEF Current

\* A bridge reads the generation before: what it will save is what is there.
LEMMA LoadStore ==
  ASSUME Grounds, NEW b \in Bridges, Load(b), Current(b)
  PROVE  Store' /\ GrantSurvives' /\ WithdrawnUnlessImported'
<1>1. /\ stage' = [stage EXCEPT ![b] = "save"] /\ buffer' = [buffer EXCEPT ![b] = authFiles[Source]]
      /\ UNCHANGED <<ownerFile, lockFile, pointer, authFiles, granted, withdrawn, overtaken, world>>
      /\ stage[b] = "load"
  BY DEF Load, Goes, pastVars
<1>2. /\ stage \in [Bridges -> Stages] /\ FileTypes /\ Known /\ Copied /\ Pointed
      /\ authFiles[Source] \in SUBSET Tokens /\ Source \in Files
  BY SharedIsNoBridge DEF Grounds, Fence, ProcTypes, Store, FileTypes, Source
<1>3. FileTypes'
  BY <1>1, <1>2 DEF FileTypes, Source
<1>4. Known'
  <2>1. authFiles[Source] \subseteq granted
    BY <1>2 DEF Known
  <2>2. QED BY <1>1, <1>2, <2>1 DEF Known, FileTypes
<1>8. Copied' /\ Pointed'
  BY <1>1, <1>2 DEF Copied, Pointed, Current, FileTypes
<1>5. GrantSurvives'
  BY <1>1, <1>2 DEF Grounds, GrantSurvives, Live, Source, FileTypes
<1>6. WithdrawnUnlessImported'
  BY <1>1, <1>2 DEF Grounds, WithdrawnUnlessImported, StaysBack, Live, Source, FileTypes,
     Current
<1>7. QED BY <1>3, <1>4, <1>5, <1>6, <1>8 DEF Store

\* It saves its copy under its own name.
LEMMA SaveStore ==
  ASSUME Grounds, NEW b \in Bridges, SaveCopy(b), Current(b)
  PROVE  Store' /\ GrantSurvives' /\ WithdrawnUnlessImported'
<1>1. /\ stage' = [stage EXCEPT ![b] = "point"] /\ authFiles' = [authFiles EXCEPT ![b] = buffer[b]]
      /\ UNCHANGED <<ownerFile, lockFile, pointer, buffer, granted, withdrawn, overtaken, world>>
      /\ stage[b] = "save"
  BY DEF SaveCopy, Goes, pastVars
<1>2. /\ stage \in [Bridges -> Stages] /\ FileTypes /\ Known /\ Copied /\ Pointed
      /\ buffer[b] \in SUBSET Tokens /\ b \in Files /\ Source \in Files /\ Source' = Source
  BY <1>1, SharedIsNoBridge DEF Grounds, Fence, ProcTypes, Store, FileTypes, Source
<1>3. FileTypes'
  BY <1>1, <1>2 DEF FileTypes
<1>4. Known'
  BY <1>1, <1>2 DEF Known, FileTypes
<1>5. Copied' /\ Pointed'
  BY <1>1, <1>2, SharedIsNoBridge DEF Copied, Pointed, Current, FileTypes
<1>6. GrantSurvives'
  BY <1>1, <1>2, SharedIsNoBridge DEF Grounds, GrantSurvives, Live, FileTypes
<1>7. WithdrawnUnlessImported'
  BY <1>1, <1>2 DEF Grounds, WithdrawnUnlessImported, StaysBack, Live, FileTypes, Current
<1>8. QED BY <1>3, <1>4, <1>5, <1>6, <1>7 DEF Store

\* It moves the pointer to the copy, which holds what the file before held.
LEMMA PointStore ==
  ASSUME Grounds, NEW b \in Bridges, Point(b), Current(b)
  PROVE  Store' /\ GrantSurvives' /\ WithdrawnUnlessImported'
<1>1. /\ stage' = [stage EXCEPT ![b] = "up"] /\ pointer' = b
      /\ UNCHANGED <<ownerFile, lockFile, authFiles, buffer, granted, withdrawn, overtaken, world>>
      /\ stage[b] = "point"
  BY DEF Point, Goes, pastVars
<1>2. /\ stage \in [Bridges -> Stages] /\ FileTypes /\ Known /\ Copied /\ Pointed
      /\ authFiles[b] \in SUBSET Tokens /\ authFiles[b] = buffer[b] /\ Source' = b
  BY <1>1, SharedIsNoBridge DEF Grounds, Fence, ProcTypes, Store, FileTypes, Copied, Source
<1>3. FileTypes'
  BY <1>1, <1>2 DEF FileTypes
<1>4. Known' /\ Copied'
  BY <1>1, <1>2 DEF Known, Copied, FileTypes
<1>5. Pointed'
  BY <1>1, <1>2, OneCurrent DEF Pointed, Current
<1>6. GrantSurvives'
  BY <1>1, <1>2 DEF Grounds, GrantSurvives, Live
<1>7. WithdrawnUnlessImported'
  BY <1>1, <1>2 DEF Grounds, WithdrawnUnlessImported, StaysBack, Live, Current
<1>8. QED BY <1>3, <1>4, <1>5, <1>6, <1>7 DEF Store

\* A serving bridge that is current rewrites its file: what it drops is
\* withdrawn, what it adds was never granted, and no other bridge has a copy.
LEMMA MutateStore ==
  ASSUME Grounds, NEW b \in Bridges, stage[b] = "up", Current(b),
         NEW new \in SUBSET Tokens, authFiles' = [authFiles EXCEPT ![b] = new],
         UNCHANGED <<stage, ownerFile, lockFile, pointer, buffer, world>>,
         granted \subseteq granted', granted' \subseteq Tokens, withdrawn' \subseteq granted',
         overtaken' \subseteq withdrawn',
         new \subseteq granted', granted' \ granted \subseteq new, withdrawn \subseteq withdrawn',
         authFiles[b] \ new \subseteq withdrawn',
         "import" \notin world => (withdrawn' \ overtaken') \cap new = {}
  PROVE  Store' /\ GrantSurvives' /\ WithdrawnUnlessImported'
<1>1. /\ stage \in [Bridges -> Stages] /\ FileTypes /\ Known /\ Copied /\ Pointed
      /\ b \in Files /\ pointer = b /\ Source = b /\ Source' = b
  BY SharedIsNoBridge DEF Grounds, Fence, ProcTypes, Store, Pointed, Source
<1>2. FileTypes'
  BY <1>1 DEF FileTypes
<1>3. Known'
  BY <1>1 DEF Known, FileTypes
<1>4. Copied' /\ Pointed'
  BY <1>1, SharedIsNoBridge DEF Copied, Pointed, Current, FileTypes
<1>5. authFiles'[Source'] = new
  BY <1>1 DEF FileTypes
<1>6. GrantSurvives'
  <2>1. SUFFICES ASSUME Fenced, NEW g \in granted' \ withdrawn'
        PROVE  g \in new /\ \A c \in Bridges : stage[c] \notin {"save", "point"}
    BY <1>5 DEF GrantSurvives, Live, Fenced
  <2>2. g \in granted => g \in authFiles[b]
    BY <1>1, <2>1 DEF Grounds, GrantSurvives, Fenced
  <2>3. \A c \in Bridges : stage[c] \notin {"save", "point"}
    BY <1>1, <2>1 DEF Grounds, Fence, Alone, Passed
  <2>4. QED BY <2>1, <2>2, <2>3
<1>7. WithdrawnUnlessImported'
  BY <1>1, <1>5, OneCurrent DEF WithdrawnUnlessImported, StaysBack, Live, Current
<1>8. QED BY <1>2, <1>3, <1>4, <1>6, <1>7 DEF Store

\* What was withdrawn is not in the file of the current bridge.
LEMMA UpClean ==
  ASSUME Grounds, NEW b \in Bridges, stage[b] = "up", Current(b)
  PROVE  /\ authFiles[b] \in SUBSET Tokens /\ authFiles[b] \subseteq granted
         /\ granted \subseteq Tokens /\ withdrawn \subseteq granted /\ overtaken \subseteq withdrawn
         /\ "import" \notin world => (withdrawn \ overtaken) \cap authFiles[b] = {}
<1>1. Source = b
  BY SharedIsNoBridge DEF Grounds, Store, Pointed, Source
<1>2. b \in Files /\ FileTypes /\ Known
  BY SharedIsNoBridge DEF Grounds, Store
<1>3. "import" \notin world => (withdrawn \ overtaken) \cap authFiles[b] = {}
  BY <1>1 DEF Grounds, WithdrawnUnlessImported, StaysBack
<1>4. QED BY <1>2, <1>3 DEF FileTypes, Known

\* The requests a serving bridge answers.
LEMMA ServeStore ==
  ASSUME Grounds, NEW b \in Bridges,
         \/ OpenPairing(b) \/ WrongGuess(b) \/ Expires(b) \/ RightGuess(b)
         \/ \E g \in Grants : Redeem(b, g) \/ \E h \in Grants : Refresh(b, g, h)
         \/ \E t \in Tokens : Revoke(b, t)
         \/ RevokeAll(b)
  PROVE  Store' /\ GrantSurvives' /\ WithdrawnUnlessImported'
<1>1. UNCHANGED <<stage, ownerFile, lockFile, pointer, buffer, world>>
  BY DEF OpenPairing, WrongGuess, Expires, RightGuess, Redeem, Revoke, Refresh, RevokeAll,
     Untouched, procVars
<1>2. CASE UNCHANGED <<authFiles, granted, withdrawn, overtaken>>
  BY <1>1, <1>2, StoreRests DEF Current
<1>3. ASSUME NEW g \in Grants, Redeem(b, g), Mutates(b, authFiles[b] \cup Bundle(g))
      PROVE  Store' /\ GrantSurvives' /\ WithdrawnUnlessImported'
  <2>1. /\ granted' = granted \cup Bundle(g) /\ withdrawn' = withdrawn /\ overtaken' = overtaken
        /\ Bundle(g) \cap granted = {} /\ Bundle(g) \subseteq Tokens
        /\ stage[b] = "up" /\ Current(b) /\ authFiles' = [authFiles EXCEPT ![b] = authFiles[b] \cup Bundle(g)]
    BY <1>3 DEF Redeem, Mutates, Unissued, Bundle, Tokens
  <2>2. /\ authFiles[b] \in SUBSET Tokens /\ authFiles[b] \subseteq granted
        /\ granted \subseteq Tokens /\ withdrawn \subseteq granted /\ overtaken \subseteq withdrawn
        /\ "import" \notin world => (withdrawn \ overtaken) \cap authFiles[b] = {}
    BY <2>1, UpClean
  <2> DEFINE new == authFiles[b] \cup Bundle(g)
  <2>3. /\ new \in SUBSET Tokens /\ new \subseteq granted' /\ granted' \ granted \subseteq new
        /\ granted \subseteq granted' /\ granted' \subseteq Tokens
        /\ withdrawn' \subseteq granted' /\ withdrawn \subseteq withdrawn'
        /\ overtaken' \subseteq withdrawn'
        /\ authFiles[b] \ new \subseteq withdrawn'
    BY <1>3, <2>1, <2>2
  <2>4. "import" \notin world => (withdrawn' \ overtaken') \cap new = {}
    BY <2>1, <2>2
  <2> HIDE DEF new
  <2>5. authFiles' = [authFiles EXCEPT ![b] = new]
    BY <2>1 DEF new
  <2>6. QED BY <1>1, <2>1, <2>3, <2>4, <2>5, MutateStore
<1>4. ASSUME NEW g \in Grants, NEW h \in Grants, Refresh(b, g, h)
      PROVE  Store' /\ GrantSurvives' /\ WithdrawnUnlessImported'
  <2> DEFINE old == <<g, "refresh">>
  <2>1. /\ granted' = granted \cup Bundle(h) /\ withdrawn' = withdrawn \cup {old}
        /\ overtaken' = overtaken \ {old}
        /\ Bundle(h) \cap granted = {} /\ Bundle(h) \subseteq Tokens
        /\ old \in authFiles[b] /\ stage[b] = "up" /\ Current(b)
        /\ authFiles' = [authFiles EXCEPT ![b] = (authFiles[b] \ {old}) \cup Bundle(h)]
    BY <1>4 DEF Refresh, Mutates, Unissued, Bundle, Tokens
  <2> HIDE DEF old
  <2>2. /\ authFiles[b] \in SUBSET Tokens /\ authFiles[b] \subseteq granted
        /\ granted \subseteq Tokens /\ withdrawn \subseteq granted /\ overtaken \subseteq withdrawn
        /\ "import" \notin world => (withdrawn \ overtaken) \cap authFiles[b] = {}
    BY <2>1, UpClean
  <2> DEFINE new == (authFiles[b] \ {old}) \cup Bundle(h)
  <2>3. /\ new \in SUBSET Tokens /\ new \subseteq granted' /\ granted' \ granted \subseteq new
        /\ granted \subseteq granted' /\ granted' \subseteq Tokens
        /\ withdrawn' \subseteq granted' /\ withdrawn \subseteq withdrawn'
        /\ overtaken' \subseteq withdrawn'
        /\ authFiles[b] \ new \subseteq withdrawn'
    BY <1>4, <2>1, <2>2
  <2>4. "import" \notin world => (withdrawn' \ overtaken') \cap new = {}
    BY <2>1, <2>2
  <2> HIDE DEF new
  <2>5. authFiles' = [authFiles EXCEPT ![b] = new]
    BY <2>1 DEF new
  <2>6. QED BY <1>1, <2>1, <2>3, <2>4, <2>5, MutateStore
<1>5. ASSUME NEW t \in Tokens, Revoke(b, t)
      PROVE  Store' /\ GrantSurvives' /\ WithdrawnUnlessImported'
  <2>1. /\ granted' = granted /\ withdrawn' = withdrawn \cup {t} /\ overtaken' = overtaken \ {t}
        /\ t \in authFiles[b] /\ stage[b] = "up" /\ Current(b)
        /\ authFiles' = [authFiles EXCEPT ![b] = authFiles[b] \ {t}]
    BY <1>5 DEF Revoke, Mutates
  <2>2. /\ authFiles[b] \in SUBSET Tokens /\ authFiles[b] \subseteq granted
        /\ granted \subseteq Tokens /\ withdrawn \subseteq granted /\ overtaken \subseteq withdrawn
        /\ "import" \notin world => (withdrawn \ overtaken) \cap authFiles[b] = {}
    BY <2>1, UpClean
  <2> DEFINE new == authFiles[b] \ {t}
  <2>3. /\ new \in SUBSET Tokens /\ new \subseteq granted' /\ granted' \ granted \subseteq new
        /\ granted \subseteq granted' /\ granted' \subseteq Tokens
        /\ withdrawn' \subseteq granted' /\ withdrawn \subseteq withdrawn'
        /\ overtaken' \subseteq withdrawn'
        /\ authFiles[b] \ new \subseteq withdrawn'
    BY <1>5, <2>1, <2>2
  <2>4. "import" \notin world => (withdrawn' \ overtaken') \cap new = {}
    BY <2>1, <2>2
  <2> HIDE DEF new
  <2>5. authFiles' = [authFiles EXCEPT ![b] = new]
    BY <2>1 DEF new
  <2>6. QED BY <1>1, <2>1, <2>3, <2>4, <2>5, MutateStore
<1>6. CASE RevokeAll(b)
  <2>1. /\ granted' = granted /\ withdrawn' = granted /\ overtaken' = {}
        /\ stage[b] = "up" /\ Current(b) /\ authFiles' = [authFiles EXCEPT ![b] = {}]
    BY <1>6 DEF RevokeAll, Mutates
  <2>2. QED BY <1>1, <2>1, UpClean, MutateStore
<1>7. CASE OpenPairing(b) \/ WrongGuess(b) \/ Expires(b) \/ RightGuess(b)
  BY <1>2, <1>7 DEF OpenPairing, WrongGuess, Expires, RightGuess, pastVars
<1>8. ASSUME NEW g \in Grants, Redeem(b, g), ~Mutates(b, authFiles[b] \cup Bundle(g))
      PROVE  UNCHANGED <<authFiles, granted, withdrawn, overtaken>>
  BY <1>8 DEF Redeem
<1>9. QED BY <1>2, <1>3, <1>4, <1>5, <1>6, <1>7, <1>8

\* A file that a command writes, and which no bridge is about to point at, gets
\* something that clients were granted: what the pointer's file keeps decides.
LEMMA CommandWrites ==
  ASSUME Grounds, NEW f \in Files, f \in Bridges => stage[f] \in {"up", "gone"},
         NEW new \in SUBSET Tokens, new \subseteq granted,
         authFiles' = [authFiles EXCEPT ![f] = new],
         UNCHANGED <<stage, ownerFile, lockFile, pointer, buffer, granted, world>>,
         withdrawn' \subseteq granted, overtaken' \subseteq withdrawn'
  PROVE  Store' /\ Source' = Source /\ authFiles'[Source'] \in {new, authFiles[Source]}
<1>1. /\ FileTypes /\ Known /\ Copied /\ Pointed /\ Source' = Source /\ Source \in Files
  BY SharedIsNoBridge DEF Grounds, Store, Source, Fence, ProcTypes, Files
<1>2. FileTypes'
  BY <1>1 DEF FileTypes
<1>3. Known'
  BY <1>1 DEF Known, FileTypes
<1>4. Copied' /\ Pointed'
  BY <1>1, SharedIsNoBridge DEF Copied, Pointed, Current, FileTypes
<1>5. QED BY <1>1, <1>2, <1>3, <1>4 DEF Store, FileTypes

\* A command that begins chooses the file it will write.
LEMMA CommandIsKnown ==
  ASSUME Grounds
  PROVE  cli.file \in Files /\ (cli.file \in Bridges => stage[cli.file] \in {"up", "gone"})
  BY DEF Grounds, Commanded

\* The command line takes everything back in the file the pointer named.
LEMMA UnpairStore ==
  ASSUME Grounds, UnpairBegins \/ UnpairRevokes
  PROVE  Store' /\ GrantSurvives' /\ WithdrawnUnlessImported'
<1>1. CASE UnpairBegins
  <2>1. UNCHANGED <<stage, ownerFile, lockFile, pointer, authFiles, buffer, granted, withdrawn, overtaken, world>>
    BY <1>1 DEF UnpairBegins, procVars, pastVars
  <2>2. QED BY <2>1, StoreRests DEF Current
<1>2. CASE UnpairRevokes
  <2>1. /\ authFiles' = [authFiles EXCEPT ![cli.file] = {}] /\ withdrawn' = granted
        /\ UNCHANGED <<stage, ownerFile, lockFile, pointer, buffer, granted, world>>
        /\ overtaken' = {t \in granted :
                           \/ t \in authFiles'[Source]
                           \/ \E b \in Live : stage[b] \in {"save", "point"} /\ t \in buffer[b]}
    BY <1>2 DEF UnpairRevokes, procVars
  <2>2. Store' /\ Source' = Source
    BY <2>1, CommandIsKnown, CommandWrites
  <2>3. GrantSurvives'
    BY <2>1 DEF GrantSurvives
  <2>4. ASSUME NEW t \in withdrawn' \ overtaken'
        PROVE  /\ t \notin authFiles'[Source']
               /\ \A b \in Live' : stage'[b] \in {"save", "point"} => t \notin buffer'[b]
    BY <2>1, <2>2, <2>4 DEF Live
  <2>5. QED BY <2>2, <2>3, <2>4 DEF WithdrawnUnlessImported, StaysBack
<1>3. QED BY <1>1, <1>2

\* What an import merges is what clients were granted, and all of every file.
LEMMA MergedIsKnown ==
  ASSUME Grounds
  PROVE  /\ Merged \in SUBSET Tokens /\ Merged \subseteq granted
         /\ \A f \in Files : authFiles[f] \cap Tokens \subseteq Merged
<1>3. FileTypes /\ Known /\ DOMAIN authFiles = Files
  BY DEF Grounds, Store, FileTypes
<1>10. \A x : x \in Merged <=> x # Nobody /\ \E f \in DOMAIN authFiles : x \in authFiles[f]
  <2> DEFINE all == {authFiles[f] : f \in DOMAIN authFiles}
  <2>1. \A x : x \in Merged <=> x \in UNION all /\ x # Nobody
    BY DEF Merged
  <2>2. \A y : y \in all <=> \E f \in DOMAIN authFiles : y = authFiles[f]
    OBVIOUS
  <2> HIDE DEF all
  <2>3. \A x : x \in UNION all <=> \E y \in all : x \in y
    OBVIOUS
  <2>4. QED BY <2>1, <2>2, <2>3
<1>1. \A f \in Files : authFiles[f] \subseteq Tokens \/ authFiles[f] = {Nobody}
  BY <1>3 DEF FileTypes, NoFile
<1>2. ASSUME NEW x \in Merged PROVE x \in Tokens /\ x \in granted
  <2>1. PICK f \in Files : x \in authFiles[f] /\ x # Nobody
    BY <1>2, <1>3, <1>10
  <2>2. x \in Tokens
    BY <1>1, <2>1
  <2>3. QED BY <1>3, <2>1, <2>2 DEF Known
<1>4. ASSUME NEW f \in Files, NEW x \in authFiles[f] \cap Tokens PROVE x \in Merged
  <2>1. x # Nobody
    BY <1>4, AuthConstants
  <2>2. QED BY <1>3, <1>4, <1>10, <2>1
<1>5. QED BY <1>2, <1>4

\* The import of the command line loses nothing of any file.
LEMMA ImportStore ==
  ASSUME Grounds, ImportBegins \/ ImportEnds
  PROVE  Store' /\ GrantSurvives' /\ WithdrawnUnlessImported'
<1>1. PICK f \in Files : /\ authFiles' = [authFiles EXCEPT ![f] = Merged]
                         /\ f \in Bridges => stage[f] \in {"up", "gone"}
  BY SharedIsNoBridge, CommandIsKnown DEF ImportBegins, ImportEnds
<1>2. UNCHANGED <<stage, ownerFile, lockFile, pointer, buffer, granted, withdrawn, overtaken, world>>
  BY DEF ImportBegins, ImportEnds, procVars, pastVars
<1>3. withdrawn \subseteq granted /\ overtaken \subseteq withdrawn /\ Source \in Files
  BY SharedIsNoBridge DEF Grounds, Store, Known, Source, Fence, ProcTypes, Files
<1>4. Store' /\ Source' = Source /\ authFiles'[Source'] \in {Merged, authFiles[Source]}
  BY <1>1, <1>2, <1>3, MergedIsKnown, CommandWrites
<1>5. authFiles[Source] \subseteq authFiles'[Source']
  BY <1>3, <1>4, MergedIsKnown DEF Grounds, Store, FileTypes
<1>6. GrantSurvives'
  BY <1>2, <1>4, <1>5 DEF Grounds, GrantSurvives, Live
<1>7. CASE "import" \in world
  BY <1>2, <1>4, <1>6, <1>7 DEF WithdrawnUnlessImported
<1>8. CASE "import" \notin world
  <2>1. ImportEnds /\ cli.does = "import"
    BY <1>8 DEF ImportBegins, ImportEnds
  <2>2. QED BY <1>8, <2>1 DEF Grounds, Commanded
<1>9. QED BY <1>7, <1>8

\* Every step keeps the grants.
LEMMA NextStore == Grounds /\ [AuthNext]_authVars => Store' /\ GrantSurvives' /\ WithdrawnUnlessImported'
<1>1. SUFFICES ASSUME Grounds, [AuthNext]_authVars PROVE Store' /\ GrantSurvives' /\ WithdrawnUnlessImported'
  OBVIOUS
<1>2. CASE UNCHANGED authVars
  <2>1. UNCHANGED <<stage, ownerFile, lockFile, pointer, authFiles, buffer, granted, withdrawn, overtaken, world>>
    BY <1>2 DEF authVars
  <2>2. QED BY <1>1, <2>1, StoreRests DEF Current
<1>3. ASSUME NEW b \in Bridges, BridgeStep(b) PROVE Store' /\ GrantSurvives' /\ WithdrawnUnlessImported'
  <2>1. CASE (Load(b) \/ SaveCopy(b) \/ Point(b)) /\ ~Current(b)
    <3>1. Exits(b) /\ UNCHANGED <<pointer, authFiles, buffer, granted, withdrawn, overtaken, world>>
      BY <2>1 DEF Load, SaveCopy, Point, pastVars
    <3>2. QED BY <1>1, <3>1, ExitsStore
  <2>2. CASE (Load(b) \/ SaveCopy(b) \/ Point(b)) /\ Current(b)
    BY <1>1, <2>2, LoadStore, SaveStore, PointStore
  <2>3. QED BY <1>1, <1>3, <2>1, <2>2, AcquireStore, ServeStore DEF BridgeStep
<1>4. QED BY <1>1, <1>2, <1>3, UnpairStore, ImportStore DEF AuthNext, CommandStep

\* The file of a command, and that of the pointer, stays one whose bridge serves
\* or did: a bridge that serves only leaves, and one that is gone stays so.
LEMMA NextCommand == Fence /\ Commanded /\ [AuthNext]_authVars => Commanded'
<1>1. SUFFICES ASSUME Fence, Commanded, [AuthNext]_authVars PROVE Commanded'
  OBVIOUS
<1>2. CASE UNCHANGED authVars
  BY <1>1, <1>2 DEF Commanded, authVars
<1>3. CASE CommandStep
  <2>1. UNCHANGED <<stage, pointer, world>>
    BY <1>3 DEF CommandStep, UnpairBegins, UnpairRevokes, ImportBegins, ImportEnds, procVars
  <2>2. \/ cli' = [does |-> "unpair", file |-> Source]
        \/ cli' = NoCommand
        \/ "import" \in world /\ cli' = [does |-> "import", file |-> pointer] /\ pointer # Nobody
    BY <1>3 DEF CommandStep, UnpairBegins, UnpairRevokes, ImportBegins, ImportEnds
  <2>3. pointer # Nobody => pointer \in Bridges
    BY <1>1 DEF Fence, ProcTypes
  <2>4. QED BY <1>1, <2>1, <2>2, <2>3, SharedIsNoBridge DEF Commanded, Source, NoCommand
<1>4. ASSUME NEW b \in Bridges, BridgeStep(b), cli' = cli PROVE Commanded'
  <2>1. stage \in [Bridges -> Stages]
    BY <1>1 DEF Fence, ProcTypes
  <2>2. PICK s \in Stages : stage' = [stage EXCEPT ![b] = s] /\ (stage[b] \in {"up", "gone"} => s \in {"up", "gone"})
    <3>1. CASE UNCHANGED stage
      BY <2>1, <3>1
    <3>2. CASE Exits(b) \/ Dies(b)
      BY <3>2 DEF Exits, Dies, Goes, Stages
    <3>3. CASE stage[b] \notin {"up", "gone"} /\ \E s \in Stages : Goes(b, s)
      BY <3>3 DEF Goes
    <3>4. CASE \/ OpenPairing(b) \/ WrongGuess(b) \/ Expires(b) \/ RightGuess(b)
               \/ \E g \in Grants : Redeem(b, g) \/ \E h \in Grants : Refresh(b, g, h)
               \/ \E t \in Tokens : Revoke(b, t)
               \/ RevokeAll(b)
      BY <3>1, <3>4 DEF OpenPairing, WrongGuess, Expires, RightGuess, Redeem, Revoke, Refresh,
         RevokeAll, Untouched, procVars
    <3>5. CASE Start(b) \/ Inspect(b) \/ ReadOwner(b) \/ CompareOwner(b) \/ RemoveOwner(b)
      BY <3>2, <3>3, <3>5 DEF Start, Inspect, ReadOwner, CompareOwner, RemoveOwner, Stages
    <3>6. CASE TakeLock(b) \/ RemoveLock(b) \/ WriteLock(b) \/ WriteOwner(b)
      BY <3>2, <3>3, <3>6 DEF TakeLock, RemoveLock, WriteLock, WriteOwner, Stages
    <3>7. CASE Load(b) \/ SaveCopy(b) \/ Point(b)
      BY <3>2, <3>3, <3>7 DEF Load, SaveCopy, Point, Stages
    <3>8. QED BY <1>4, <3>2, <3>4, <3>5, <3>6, <3>7 DEF BridgeStep, Shutdown
  <2>3. world' = world /\ (pointer' = pointer \/ (pointer' = b /\ stage'[b] = "up"))
    <3>1. CASE Point(b)
      BY <2>1, <3>1 DEF Point, Goes
    <3>2. CASE Start(b) \/ Inspect(b) \/ ReadOwner(b) \/ CompareOwner(b) \/ RemoveOwner(b)
      BY <3>2 DEF Start, Inspect, ReadOwner, CompareOwner, RemoveOwner
    <3>3. CASE TakeLock(b) \/ RemoveLock(b) \/ WriteLock(b) \/ WriteOwner(b) \/ Load(b) \/ SaveCopy(b)
      BY <3>3 DEF TakeLock, RemoveLock, WriteLock, WriteOwner, Load, SaveCopy
    <3>4. CASE \/ OpenPairing(b) \/ WrongGuess(b) \/ Expires(b) \/ RightGuess(b)
               \/ \E g \in Grants : Redeem(b, g) \/ \E h \in Grants : Refresh(b, g, h)
               \/ \E t \in Tokens : Revoke(b, t)
               \/ RevokeAll(b) \/ Shutdown(b) \/ Dies(b)
      BY <3>4 DEF OpenPairing, WrongGuess, Expires, RightGuess, Redeem, Revoke, Refresh,
         RevokeAll, Untouched, Shutdown, Dies
    <3>5. QED BY <1>4, <3>1, <3>2, <3>3, <3>4 DEF BridgeStep
  <2>4. QED BY <1>1, <1>4, <2>1, <2>2, <2>3 DEF Commanded
<1>5. QED BY <1>1, <1>2, <1>3, <1>4 DEF AuthNext
-----------------------------------------------------------------------------
(* The theorems *)

\* A fresh state directory and no bridge.
LEMMA AuthInitInv == AuthInit => Inv
<1>1. SUFFICES ASSUME AuthInit PROVE Inv
  OBVIOUS
<1>2. stage \in [Bridges -> Stages] /\ \A b \in Bridges : stage[b] = "off"
  BY <1>1 DEF AuthInit, Stages
<1>3. ProcTypes
  BY <1>1, <1>2 DEF AuthInit, ProcTypes, NoLock, Torn
<1>4. Alone /\ Records
  BY <1>2 DEF Alone, Records, Passed
<1>5. Pending
  <2>1. pairing = 0 /\ codes = 0 /\ wiped = FALSE
    BY <1>1 DEF AuthInit
  <2>2. wiped \in BOOLEAN
    BY <2>1, Zenon
  <2>3. QED BY <2>1, <2>2, AuthConstants DEF Pending, MemTypes, NothingPendingAfterWipe
<1>6. /\ authFiles \in [Files -> (SUBSET Tokens) \cup {NoFile}] /\ authFiles[Source] = {}
      /\ \A f \in Files : authFiles[f] \cap Tokens = {}
  BY <1>1, SharedIsNoBridge, AuthConstants DEF AuthInit, Files, NoFile, Source
<1>7. FileTypes
  BY <1>1, <1>2, <1>6 DEF AuthInit, FileTypes
<1>8. Known
  BY <1>1, <1>6 DEF AuthInit, Known
<1>9. Copied /\ Pointed
  BY <1>2 DEF Copied, Pointed
<1>10. GrantSurvives /\ WithdrawnUnlessImported
  BY <1>1 DEF AuthInit, GrantSurvives, WithdrawnUnlessImported, StaysBack
<1>12. Commanded
  BY <1>1, SharedIsNoBridge DEF AuthInit, Commanded, NoCommand
<1>11. QED BY <1>3, <1>4, <1>5, <1>7, <1>8, <1>9, <1>10, <1>12 DEF Inv, Grounds, Fence, Store

\* Every reachable state of the directory satisfies the inductive invariant.
LEMMA AuthReaches == AuthSpec => []Inv
<1>1. Inv /\ [AuthNext]_authVars => Inv'
  BY NextFence, NextPending, NextCommand, NextStore DEF Inv, Grounds
<1>2. QED BY <1>1, AuthInitInv, PTL DEF AuthSpec

\* Every variable of the state directory and of its bridges has its type.
THEOREM AuthTypes == AuthSpec => []AuthTypeOK
<1>1. Inv => AuthTypeOK
  <2>1. SUFFICES ASSUME Inv PROVE AuthTypeOK
    OBVIOUS
  <2>2. /\ ProcTypes /\ MemTypes /\ FileTypes /\ Known /\ Commanded
    BY <2>1 DEF Inv, Grounds, Fence, Pending, Store
  <2>3. \A f \in DOMAIN authFiles : authFiles[f] = NoFile \/ authFiles[f] \subseteq Tokens
    BY <2>2 DEF FileTypes
  <2>4. cli \in [does: {"nothing", "unpair", "import"}, file: Bridges \cup {Shared}]
    BY <2>2 DEF Commanded, Files
  <2>5. {ownerFile, pointer} \subseteq Bridges \cup {Nobody}
    BY <2>2 DEF ProcTypes
  <2>6. QED BY <2>2, <2>3, <2>4, <2>5, Zenon DEF AuthTypeOK, ProcTypes, MemTypes, FileTypes, Known, Stages
<1>2. QED BY <1>1, AuthReaches, PTL

\* Of the bridges of one installation at most one gets past the acquisition,
\* and the one that serves is current and the one the pointer names.
THEOREM OneBridgeWrites == AuthSpec => []OneWriter
<1>1. Inv => OneWriter
  BY DEF Inv, Grounds, Fence, Alone, Records, Passed, Store, Pointed, OneWriter, OneOwner,
         PointerNamesTheWriter, Believes, Live, Fenced
<1>2. QED BY <1>1, AuthReaches, PTL

\* A grant that was answered survives every crash and every hand-over between
\* the generations of the store.
THEOREM GrantsSurvive == AuthSpec => []GrantSurvives
<1>1. Inv => GrantSurvives
  BY DEF Inv, Grounds
<1>2. QED BY <1>1, AuthReaches, PTL

\* What was taken back stays so where no import is run, except for what an unpair
\* took back after a bridge had copied it; and nothing under way survives the
\* revocation of everything.
THEOREM RevocationsHold == AuthSpec => []RevocationHolds
<1>1. Inv => RevocationHolds
  BY DEF Inv, Grounds, Pending, RevocationHolds
<1>2. QED BY <1>1, AuthReaches, PTL

\* So what the store hands over is what the clients hold, and no more.
THEOREM GrantsAreSafe == AuthSpec => []GrantsSafe
<1>1. GrantSurvives /\ RevocationHolds => GrantsSafe
  BY DEF GrantsSafe
<1>2. QED BY <1>1, GrantsSurvive, RevocationsHold, PTL

-----------------------------------------------------------------------------
(* NativeCreate: the inductive invariant CreateInv.                           *)
CreateTypes ==
  /\ CreateTypeOK
  /\ bind.op = NoOp <=> bind.state = "none"
  /\ bind.op \in used \cup {NoOp}
  /\ bridgeAt = "creating" => bind.state = "CREATING"
(* A session is created once, on behalf of an operation that is journaled,    *)
(* and what the service does next fits what it did.                           *)
Journaled(o) ==
  /\ made[o] <= 1
  /\ made[o] = 1 => journal[o] # "none" /\ journalDisk[o] # "none"
  /\ opAt[o] = "provider" => made[o] = 0 /\ journal[o] # "none" /\ journalDisk[o] # "none"
  /\ opAt[o] \in {"attest", "owned"} => made[o] = 1
  /\ opAt[o] = "owned" => o \in owned
  /\ opAt[o] = "closed" => native[o] = "closed"
  /\ o \in owned => made[o] = 1
(* What memory and file say of an outcome holds, and so does the answer.      *)
Truthful(o) ==
  /\ journal[o] = "CREATED" \/ journalDisk[o] = "CREATED" \/ answered[o] = "ok" => o \in owned
  /\ journal[o] = "FAILED" \/ journalDisk[o] = "FAILED" => native[o] = "closed"
  /\ native[o] # "none" => made[o] = 1
(* An operation that the bridge let go had its session, which is lost; one    *)
(* that was not drawn yet has left no trace.                                  *)
LetGo(o) == native[o] = "lost"
NoTrace(o) == native[o] = "none" /\ opAt[o] = "none"
OthersSettled ==
  /\ \A o \in used : o # bind.op => LetGo(o)
  /\ \A o \in Ops \ used : NoTrace(o)
  /\ bind.state = "READY" => bind.op \in owned
CreateInv ==
  /\ CreateTypes /\ OthersSettled
  /\ \A o \in Ops : Journaled(o) /\ Truthful(o)

\* No operation was drawn at first.
LEMMA InitCreate == CreateInit => CreateInv
  BY CreateConstants, SMT DEF CreateInit, CreateInv, CreateTypes, CreateTypeOK, Journaled,
     Truthful, LetGo,
     NoTrace, OthersSettled, NoBinding, Nowhere, Outcomes

\* Every step of the bridge, of the service and of the provider.
LEMMA NextCreate == CreateInv /\ [CreateNext]_createVars => CreateInv'
<1> SUFFICES ASSUME CreateInv, [CreateNext]_createVars PROVE CreateInv'
  OBVIOUS
<1> USE CreateConstants DEF CreateInv, CreateTypes, CreateTypeOK, Journaled, Truthful, LetGo,
     NoTrace, OthersSettled, NoBinding, Nowhere, Outcomes, Mishap, bridgeVars, serviceVars, Exists
<1>1. CASE BridgeCreates
  BY <1>1, SMTT(30) DEF BridgeCreates, AsksFor
<1>2. CASE BridgeLooksUp
  BY <1>2, SMTT(30) DEF BridgeLooksUp
<1>3. CASE BridgeResumes
  BY <1>3, SMTT(30) DEF BridgeResumes
<1>4. CASE BridgeForgets
  BY <1>4, SMTT(30) DEF BridgeForgets, Gone
<1>5. CASE BridgeAnswered
  BY <1>5, SMTT(30) DEF BridgeAnswered
<1>6. CASE AnswerLost
  BY <1>6, SMTT(30) DEF AnswerLost
<1>7. CASE BridgeDies
  BY <1>7, SMTT(30) DEF BridgeDies
<1>8. CASE ServiceDies
  BY <1>8, SMTT(30) DEF ServiceDies
<1>9. ASSUME NEW o \in Ops, AskedAgain(o) PROVE CreateInv'
  BY <1>9, SMTT(30) DEF AskedAgain
<1>10. ASSUME NEW o \in Ops, Begin(o) PROVE CreateInv'
  BY <1>10, SMTT(30) DEF Begin, Replayed, Saved, Unsaved, Entry, Answer, Stands
<1>11. ASSUME NEW o \in Ops, ProviderCreates(o) PROVE CreateInv'
  BY <1>11, SMTT(30) DEF ProviderCreates, Stands
<1>12. ASSUME NEW o \in Ops, Attests(o) PROVE CreateInv'
  BY <1>12, SMTT(30) DEF Attests, Stands
<1>13. ASSUME NEW o \in Ops, Created(o) PROVE CreateInv'
  BY <1>13, SMTT(30) DEF Created, Saved, Unsaved, Entry, Answer, Stands
<1>14. ASSUME NEW o \in Ops, ClosesNative(o) PROVE CreateInv'
  BY <1>14, SMTT(30) DEF ClosesNative, Stands
<1>15. ASSUME NEW o \in Ops, NotCreated(o) PROVE CreateInv'
  BY <1>15, SMTT(30) DEF NotCreated, TornDown, Saved, Unsaved, Entry, Answer, Stands
<1>16. ASSUME NEW o \in Ops, RuntimeDies(o) PROVE CreateInv'
  BY <1>16, SMTT(30) DEF RuntimeDies
<1>17. CASE UNCHANGED createVars
  BY <1>17, SMTT(30) DEF createVars
<1>18. QED
  BY <1>1, <1>2, <1>3, <1>4, <1>5, <1>6, <1>7, <1>8, <1>9, <1>10, <1>11, <1>12, <1>13, <1>14,
     <1>15, <1>16, <1>17, Zenon DEF CreateNext

\* CreateInv holds in every reachable state.
LEMMA CreateReaches == CreateSpec => []CreateInv
<1> QED
  BY InitCreate, NextCreate, PTL DEF CreateSpec

\* A set within a singleton has one member at most.
LEMMA AtMostOneLeft == ASSUME NEW S, NEW x, S \subseteq {x} PROVE Cardinality(S) <= 1
<1>1. S = {} \/ S = {x}
  OBVIOUS
<1>2. Cardinality({}) = 0 /\ Cardinality({x}) = 1
  BY FS_EmptySet, FS_Singleton, Zenon
<1>3. Cardinality(S) = 0 \/ Cardinality(S) = 1
  BY <1>1, <1>2, Zenon
<1> QED BY <1>3, SMT

\* Whoever dies and whoever asks again, an operation creates one native session at
\* most, what the journal says of it is true, and at most one session of the bridge
\* is left, that of its binding (zcode-control.ts: create, resumeCreate).
THEOREM CreatesOnce == CreateSpec => []CreateSafe
<1>1. CreateInv => CreateSafe
  <2> SUFFICES ASSUME CreateInv PROVE CreateSafe
    OBVIOUS
  <2>1. CreatedOnce /\ JournalIsTruth
    BY SMT DEF CreateInv, CreateTypes, CreateTypeOK, Journaled, Truthful, CreatedOnce,
       JournalIsTruth, Exists
  <2>2. bind.state = "READY" => bind.op \in owned /\ made[bind.op] = 1
    BY SMT DEF CreateInv, CreateTypes, CreateTypeOK, Journaled, OthersSettled
  <2>3. {o \in Ops : native[o] \in Exists} \subseteq {bind.op}
    BY SMT DEF CreateInv, CreateTypes, CreateTypeOK, OthersSettled, LetGo, NoTrace, Exists
  <2>4. QED BY <2>1, <2>2, <2>3, AtMostOneLeft DEF CreateSafe, BindingIsTruth
<1>2. QED BY <1>1, CreateReaches, PTL

-----------------------------------------------------------------------------
(* SessionClient: the inductive invariant ClientInv.                          *)
ClientTypes ==
  /\ ClientTypeOK
  /\ generation \in Nat /\ connGen \in [Conns -> Nat]
  /\ executed \in [Calls -> Nat]
(* A mutation that was not sent has not begun; one that was is executed or    *)
(* flying, and not both.                                                      *)
MutationKept(k) ==
  /\ callAt[k] \in {"new", "waits"} => executed[k] = 0 /\ k \notin flying /\ outcome[k] = "none"
  /\ k \in flying => executed[k] = 0
  /\ executed[k] <= 1
  /\ outcome[k] = "failed" => executed[k] = 0 /\ k \notin flying
(* Calls use connections that were opened, and those that were sent on one    *)
(* whose handshake is over.                                                   *)
Opened(c) == c \in Conns /\ c <= opened
CallsConnected ==
  \A k \in Calls :
    /\ callAt[k] = "waits" => Opened(on[k])
    /\ callAt[k] = "sent" => Opened(on[k]) /\ conn[on[k]] \in {"open", "closed"}
(* The handshake that calls join is the only one of this generation, and      *)
(* there is no session beside it.                                             *)
OneHandshake ==
  /\ handshake # NoConn =>
       session = NoConn /\ Opened(handshake) /\ conn[handshake] = "connecting"
  /\ session # NoConn => Opened(session)
  /\ \A c \in Conns :
       /\ connGen[c] <= generation
       /\ conn[c] = "open" => session = c
       /\ conn[c] = "connecting" /\ connGen[c] = generation => handshake = c
  /\ handshake # NoConn => connGen[handshake] = generation
MutationsKept == \A k \in Mutating : MutationKept(k)
ClientInv == ClientTypes /\ MutationsKept /\ CallsConnected /\ OneHandshake

\* Nobody has called at first.
LEMMA InitClient == ClientInit => ClientInv
  BY ClientConstants, SMT DEF ClientInit, ClientInv, ClientTypes, ClientTypeOK, MutationsKept,
     MutationKept,
     Opened, CallsConnected, OneHandshake, Conns

\* Every step keeps the types; the generation only grows.
LEMMA NextClientTypes == ClientTypes /\ [ClientNext]_clientVars => ClientTypes'
<1> SUFFICES ASSUME ClientTypes, [ClientNext]_clientVars PROVE ClientTypes'
  OBVIOUS
<1> USE ClientConstants DEF ClientTypes, ClientTypeOK, Conns, calls, CallIs, CallFails
<1>1. CASE Closes
  BY <1>1, SMTT(30) DEF Closes
<1>2. ASSUME NEW c \in Conns, HandshakeEnds(c) PROVE ClientTypes'
  BY <1>2, SMTT(30) DEF HandshakeEnds, Overtaken
<1>3. ASSUME NEW k \in Calls, Ensures(k) PROVE ClientTypes'
  <2>1. CASE /\ session # NoConn /\ on' = [on EXCEPT ![k] = session]
             /\ UNCHANGED <<generation, handshake, opened, conn, connGen>>
    BY <1>3, <2>1, SMTT(30) DEF Ensures
  <2>2. CASE /\ handshake # NoConn /\ on' = [on EXCEPT ![k] = handshake]
             /\ UNCHANGED <<generation, handshake, opened, conn, connGen>>
    BY <1>3, <2>2, SMTT(30) DEF Ensures
  <2>3. ASSUME NEW c \in Conns, c = opened + 1,
               opened' = c, generation' = generation + 1, handshake' = c,
               conn' = [conn EXCEPT ![c] = "connecting"],
               connGen' = [connGen EXCEPT ![c] = generation + 1],
               on' = [on EXCEPT ![k] = c],
               callAt' = [callAt EXCEPT ![k] = "waits"],
               UNCHANGED <<session, again, flying, executed, outcome>>
        PROVE  ClientTypes'
    BY <2>3, SMTT(30)
  <2>4. CASE session = NoConn /\ handshake = NoConn
    <3>1. opened + 1 \in Conns
      BY <1>3, <2>4 DEF Ensures
    <3>2. QED BY <1>3, <2>3, <2>4, <3>1 DEF Ensures
  <2>5. QED BY <1>3, <2>1, <2>2, <2>4, Zenon DEF Ensures
<1>4. ASSUME NEW k \in Calls, SendsRequest(k) PROVE ClientTypes'
  BY <1>4, SMTT(30) DEF SendsRequest
<1>5. ASSUME NEW k \in Calls, NoConnection(k) PROVE ClientTypes'
  <2>1. CASE Repeats(k)
    BY <1>5, <2>1, SMTT(30) DEF NoConnection, Repeats
  <2>2. CASE CallFails(k, "failed") /\ UNCHANGED again
    BY <1>5, <2>2, SMTT(30) DEF NoConnection
  <2>3. QED BY <1>5, <2>1, <2>2, Zenon DEF NoConnection
<1>6. ASSUME NEW k \in Calls, Executes(k) PROVE ClientTypes'
  BY <1>6, SMTT(30) DEF Executes
<1>7. ASSUME NEW k \in Calls, Answered(k) PROVE ClientTypes'
  BY <1>7, SMTT(30) DEF Answered
<1>8. ASSUME NEW k \in Calls, Breaks(k) PROVE ClientTypes'
  <2>1. /\ session' \in Conns \cup {NoConn} /\ handshake' \in Conns \cup {NoConn}
        /\ generation' \in Nat
        /\ conn' \in [Conns -> {"unused", "connecting", "open", "failed", "closed"}]
    <3>1. conn' = [conn EXCEPT ![on[k]] = "closed"]
      BY <1>8, Zenon DEF Breaks, Reset
    <3>2. conn' \in [Conns -> {"unused", "connecting", "open", "failed", "closed"}]
      <4> DEFINE x == on[k]
      <4>1. conn' = [conn EXCEPT ![x] = "closed"]
        BY <3>1
      <4>2. ASSUME NEW S, NEW T, NEW f \in [S -> T], NEW v \in T, NEW y
            PROVE  [f EXCEPT ![y] = v] \in [S -> T]
        OBVIOUS
      <4> HIDE DEF x
      <4>3. conn \in [Conns -> {"unused", "connecting", "open", "failed", "closed"}]
        OBVIOUS
      <4>4. QED BY <4>1, <4>2, <4>3, Zenon
    <3>3. \/ session' = NoConn /\ handshake' = NoConn /\ generation' = generation + 1
          \/ UNCHANGED <<session, generation, handshake>>
      BY <1>8, Zenon DEF Breaks, Reset
    <3>4. QED BY <3>2, <3>3, SMT
  <2>2. ASSUME NEW o \in {"failed", "unknown"}, CallFails(k, o)
        PROVE  /\ callAt' \in [Calls -> {"new", "waits", "sent", "done"}]
               /\ outcome' \in [Calls -> {"none", "ok", "failed", "unknown"}]
    BY <2>2, SMTT(30)
  <2>3. ASSUME Repeats(k)
        PROVE  /\ callAt' \in [Calls -> {"new", "waits", "sent", "done"}]
               /\ outcome' \in [Calls -> {"none", "ok", "failed", "unknown"}]
    BY <2>3, SMTT(30) DEF Repeats
  <2>4. /\ callAt' \in [Calls -> {"new", "waits", "sent", "done"}]
        /\ outcome' \in [Calls -> {"none", "ok", "failed", "unknown"}]
    BY <1>8, <2>2, <2>3, Zenon DEF Breaks, SentOutcome
  <2>5. flying' \subseteq Calls
    BY <1>8, SMTT(30) DEF Breaks, Unauthorized
  <2>6. UNCHANGED <<opened, connGen, on, executed>>
    BY <1>8 DEF Breaks
  <2>7. QED BY <2>1, <2>4, <2>5, <2>6, SMTT(30)
<1>9. CASE UNCHANGED clientVars
  BY <1>9, SMTT(30) DEF clientVars
<1>10. QED
  BY <1>1, <1>2, <1>3, <1>4, <1>5, <1>6, <1>7, <1>8, <1>9, Zenon DEF ClientNext

\* Every step: a mutation is sent once and is not repeated once it was sent.
LEMMA NextMutations ==
  ClientInv /\ [ClientNext]_clientVars => MutationsKept'
<1> SUFFICES ASSUME ClientInv, [ClientNext]_clientVars PROVE MutationsKept'
  OBVIOUS
<1> USE ClientConstants DEF ClientInv, ClientTypes, ClientTypeOK, Conns, calls, CallIs, CallFails,
     MutationsKept, MutationKept
<1>1. CASE Closes
  BY <1>1, SMTT(30) DEF Closes
<1>2. ASSUME NEW c \in Conns, HandshakeEnds(c) PROVE MutationsKept'
  BY <1>2, SMTT(30) DEF HandshakeEnds, Overtaken
<1>3. ASSUME NEW k \in Calls, Ensures(k) PROVE MutationsKept'
  BY <1>3, SMTT(30) DEF Ensures
<1>4. ASSUME NEW k \in Calls, SendsRequest(k) PROVE MutationsKept'
  BY <1>4, SMTT(30) DEF SendsRequest
<1>5. ASSUME NEW k \in Calls, NoConnection(k) PROVE MutationsKept'
  BY <1>5, SMTT(30) DEF NoConnection, Repeats
<1>6. ASSUME NEW k \in Calls, Executes(k) PROVE MutationsKept'
  BY <1>6, SMTT(30) DEF Executes
<1>7. ASSUME NEW k \in Calls, Answered(k) PROVE MutationsKept'
  BY <1>7, SMTT(30) DEF Answered
<1>8. ASSUME NEW k \in Calls, Breaks(k) PROVE MutationsKept'
  BY <1>8, SMTT(30) DEF Breaks, Reset, Unauthorized, SentOutcome, Repeats
<1>9. CASE UNCHANGED clientVars
  BY <1>9, SMTT(30) DEF clientVars
<1>10. QED
  BY <1>1, <1>2, <1>3, <1>4, <1>5, <1>6, <1>7, <1>8, <1>9, Zenon DEF ClientNext

\* Every step: a handshake is begun when there is neither a session nor another
\* handshake, and one that was overtaken closes its connection.
LEMMA NextConnections ==
  ClientInv /\ [ClientNext]_clientVars => (CallsConnected /\ OneHandshake)'
<1> SUFFICES ASSUME ClientInv, [ClientNext]_clientVars PROVE (CallsConnected /\ OneHandshake)'
  OBVIOUS
<1> USE ClientConstants DEF ClientInv, ClientTypes, ClientTypeOK, Conns, calls, CallIs, CallFails,
     Opened, CallsConnected, OneHandshake
<1>1. CASE Closes
  BY <1>1, SMTT(30) DEF Closes
<1>2. ASSUME NEW c \in Conns, HandshakeEnds(c) PROVE (CallsConnected /\ OneHandshake)'
  BY <1>2, SMTT(30) DEF HandshakeEnds, Overtaken
<1>3. ASSUME NEW k \in Calls, Ensures(k) PROVE (CallsConnected /\ OneHandshake)'
  <2> DEFINE c == opened + 1
  <2>1. CASE \/ session # NoConn /\ on' = [on EXCEPT ![k] = session]
             \/ handshake # NoConn /\ on' = [on EXCEPT ![k] = handshake]
    <3>1. UNCHANGED <<session, generation, handshake, opened, conn, connGen>>
      BY <1>3, <2>1, SMTT(30) DEF Ensures
    <3>2. OneHandshake'
      BY <3>1, SMT
    <3>3. CallsConnected'
      BY <1>3, <2>1, <3>1, SMTT(30) DEF Ensures
    <3>4. QED BY <3>2, <3>3
  <2>2. CASE session = NoConn /\ handshake = NoConn
    <3>1. /\ c \in Conns /\ opened' = c /\ generation' = generation + 1 /\ handshake' = c
          /\ conn' = [conn EXCEPT ![c] = "connecting"]
          /\ connGen' = [connGen EXCEPT ![c] = generation + 1]
          /\ on' = [on EXCEPT ![k] = c] /\ callAt' = [callAt EXCEPT ![k] = "waits"]
          /\ UNCHANGED session
      BY <1>3, <2>2 DEF Ensures
    <3>2. OneHandshake'
      BY <2>2, <3>1, SMTT(30)
    <3>3. CallsConnected'
      BY <3>1, SMTT(30)
    <3>4. QED BY <3>2, <3>3
  <2>3. QED BY <1>3, <2>1, <2>2, Zenon DEF Ensures
<1>4. ASSUME NEW k \in Calls, SendsRequest(k) PROVE (CallsConnected /\ OneHandshake)'
  BY <1>4, SMTT(30) DEF SendsRequest
<1>5. ASSUME NEW k \in Calls, NoConnection(k) PROVE (CallsConnected /\ OneHandshake)'
  BY <1>5, SMTT(30) DEF NoConnection, Repeats
<1>6. ASSUME NEW k \in Calls, Executes(k) PROVE (CallsConnected /\ OneHandshake)'
  BY <1>6, SMTT(30) DEF Executes
<1>7. ASSUME NEW k \in Calls, Answered(k) PROVE (CallsConnected /\ OneHandshake)'
  BY <1>7, SMTT(30) DEF Answered
<1>8. ASSUME NEW k \in Calls, Breaks(k) PROVE (CallsConnected /\ OneHandshake)'
  BY <1>8, SMTT(30) DEF Breaks, Reset, Unauthorized, SentOutcome, Repeats
<1>9. CASE UNCHANGED clientVars
  BY <1>9, SMTT(30) DEF clientVars
<1>10. QED
  BY <1>1, <1>2, <1>3, <1>4, <1>5, <1>6, <1>7, <1>8, <1>9, Zenon DEF ClientNext

\* Every step keeps the invariant.
LEMMA NextClient == ClientInv /\ [ClientNext]_clientVars => ClientInv'
  BY NextClientTypes, NextMutations, NextConnections, Zenon DEF ClientInv

\* ClientInv holds in every reachable state.
LEMMA ClientReaches == ClientSpec => []ClientInv
<1> QED
  BY InitClient, NextClient, PTL DEF ClientSpec

\* Whatever breaks, a mutation is executed once at most and not at all when its call
\* failed with anything but OUTCOME_UNKNOWN, and every open connection is the one
\* that calls use.
THEOREM MutatesHonestly == ClientSpec => []ClientSafe
<1>1. ClientInv => ClientSafe
  BY SMT DEF ClientInv, ClientTypes, ClientTypeOK, MutationsKept, MutationKept, OneHandshake,
     ClientSafe,
     MutationsHonest, NoStrayConnection
<1>2. QED BY <1>1, ClientReaches, PTL
-----------------------------------------------------------------------------
(* Continuation: the inductive invariant PlanInv.                             *)
Marks == {"none", "DISPATCHING", "ACTIVE", "STALE", "BLOCKED", "DISPATCH_BLOCKED"} \cup Decisions
NodeStates == {"PENDING", "ACTIVE", "STABLE", "WAITING_REVIEW", "WAITING_REVIEW_RECOVERY",
               "BLOCKED_REVIEW", "REWORK", "FAILED", "CANCELLED", "STALE"}
Awaiting == {"submit", "answer", "poll", "polled", "cancel"}
Underway == {"visit", "select", "dispatch"} \cup Awaiting
Places == {"boot", "idle", "expire", "handoff"} \cup Underway
TaskStates == {"none", "queued", "running", "completed", "failed", "cancelled"}
ReviewStates == {"none", "running", "cancelled", "failed"} \cup Decisions

Flags == BOOLEAN
Attempts == [id : 0..MaxReviews, key : 0..MaxReviews, task : 0..Tries, fp : 0..MaxEdits,
             st : Marks, late : Flags, changed : Flags]
PlanNodes == [tasks : 0..Tries, state : NodeStates, att : Attempts]
PlanRecords == [nodes : [Nodes -> PlanNodes], cancelled : Flags]
PlanFiles == plan \in PlanRecords /\ planDisk \in PlanRecords
Around ==
  /\ task \in [Nodes -> [1..Tries -> TaskStates]]
  /\ review \in [Nodes -> [1..MaxReviews -> ReviewStates]]
  /\ source \in 0..MaxEdits /\ upsets \in 0..MaxUpsets
  /\ paused \in Flags /\ leaseOver \in Flags
Reconciles == ctl \in [at : Places, n : Nodes, gate : Flags, busy : Flags]

(* What a node says of its attempt, its reviewers rv and its tasks tk: the    *)
(* key is the last that was asked under; only the reviewer of the attempt may *)
(* run; a judged task is completed, and is the last of the node while the     *)
(* attempt is under way or stands.                                            *)
ReviewGoes == {"DISPATCHING", "ACTIVE", "BLOCKED", "DISPATCH_BLOCKED"}
ReviewOpen == {"DISPATCHING", "ACTIVE"}
Keyed(x, rv) ==
  /\ x.att.key <= x.att.id
  /\ x.att.st # "none" => x.att.key \in 1..MaxReviews
  /\ \A i \in 1..MaxReviews : (rv[i] # "none" => i <= x.att.key) /\ (i < x.att.key => rv[i] # "none")
Followed(x, rv) ==
  \A i \in 1..MaxReviews : rv[i] = "running" => x.att.key = i /\ x.att.st \in ReviewGoes
Judged(x, rv, tk) ==
  /\ x.att.st = "PASS" => rv[x.att.key] = "PASS"
  /\ x.att.st # "none" => x.att.task \in 1..Tries /\ tk[x.att.task] = "completed"
NoneAfter(x, tk) == \A j \in 1..Tries : j > x.att.task => tk[j] = "none"
NewestJudged(x, tk) ==
  x.att.st \in ReviewOpen \/ (x.att.st = "PASS" /\ x.state = "STABLE") => NoneAfter(x, tk)
StatedTruly(x) == x.state \in {"PENDING", "FAILED", "REWORK"} => x.att.st \notin ReviewOpen
TasksKnown(x, tk) == \A k \in 1..Tries : k <= x.tasks => tk[k] # "none"
NodeTrue(x, rv, tk) ==
  /\ Keyed(x, rv) /\ Followed(x, rv) /\ Judged(x, rv, tk)
  /\ NewestJudged(x, tk) /\ StatedTruly(x) /\ TasksKnown(x, tk)
(* The attempt in memory and that on disk are one.                            *)
Twins(x, d) ==
  /\ x.att.id = d.att.id /\ x.att.key = d.att.key /\ x.att.task = d.att.task
  /\ x.att.st = d.att.st \/ (x.att.st = "STALE" /\ d.att.st = "PASS")
NodesTrue(p) == \A n \in Nodes : NodeTrue(p.nodes[n], review[n], task[n])
PlansTrue ==
  /\ NodesTrue(plan) /\ NodesTrue(planDisk)
  /\ \A n \in Nodes : Twins(plan.nodes[n], planDisk.nodes[n])

(* The tasks of a node are its first ones; one task lives, none beside a      *)
(* cancelled one; the one that lives or is cancelled is the last of its node. *)
Numbered ==
  \A n \in Nodes : \E m \in 0..Tries : \A k \in 1..Tries : task[n][k] # "none" <=> k <= m
OneLives ==
  \A n, m \in Nodes, k, j \in 1..Tries :
    task[n][k] \in Unended /\ task[m][j] \in Unended => n = m /\ k = j
CancelledAlone ==
  \A n, m \in Nodes, k, j \in 1..Tries : task[n][k] = "cancelled" => task[m][j] \notin Unended
LiveLast ==
  \A n \in Nodes, k, j \in 1..Tries :
    task[n][k] \in Unended \cup {"cancelled"} /\ j > k => task[n][j] = "none"
TasksTrue == Numbered /\ OneLives /\ CancelledAlone /\ LiveLast

(* Where the reconciliation stands: the attempt it awaits is the one it sent; *)
(* unless a task was alive when it began none is; the node it is to dispatch  *)
(* has no review; and it does not get past a cancelled task.                  *)
Sendable(x) == x.att.st \notin ReviewOpen /\ x.state # "STABLE"
WellPlaced ==
  /\ ctl.at \in {"submit", "answer"} => plan.nodes[ctl.n].att.st = "DISPATCHING"
  /\ ctl.at \in {"poll", "polled"} => plan.nodes[ctl.n].att.st = "ACTIVE"
  /\ ctl.at = "dispatch" =>
       /\ ~ctl.busy /\ plan.nodes[ctl.n].tasks < Tries
       /\ Sendable(plan.nodes[ctl.n]) /\ Sendable(planDisk.nodes[ctl.n])
  /\ ctl.at \in Underway /\ ~ctl.busy => ~AnyLive
Ahead(c) ==
  \/ ctl.at \in {"boot", "idle", "expire"}
  \/ ctl.at = "visit" /\ ctl.n <= c
  \/ ctl.at \in Awaiting /\ ctl.n < c
Noticed ==
  \A c \in Nodes, k \in 1..Tries :
    task[c][k] = "cancelled" /\ ~plan.cancelled /\ ~ctl.busy => Ahead(c)
ControlTrue == WellPlaced /\ Noticed

PlanTypes == PlanFiles /\ Around /\ Reconciles
PlanInv == PlanTypes /\ PlansTrue /\ TasksTrue /\ ControlTrue

\* The initial state satisfies the invariant.
LEMMA InitPlan == PlanInit => PlanInv
<1> SUFFICES ASSUME PlanInit PROVE PlanInv
  OBVIOUS
<1>1. FALSE \in Flags
  BY Zenon DEF Flags
<1>2. PlanTypes
  <2>1. NoAttempt \in Attempts
    <3>1. "none" \in Marks /\ 0 \in 0..MaxReviews /\ 0 \in 0..Tries /\ 0 \in 0..MaxEdits
      BY PlanConstants DEF Marks
    <3> QED BY <1>1, <3>1 DEF NoAttempt, Attempts
  <2>2. Fresh \in PlanNodes
    BY <2>1, PlanConstants DEF Fresh, PlanNodes, NodeStates
  <2>3. plan \in PlanRecords
    BY <1>1, <2>2 DEF PlanInit, PlanRecords
  <2>4. 1 \in Nodes
    BY PlanConstants DEF Nodes
  <2>5. Reconciles
    BY <1>1, <2>4 DEF PlanInit, Reconciles, Idle, Places
  <2>6. Around
    <3>1. task \in [Nodes -> [1..Tries -> TaskStates]]
      BY DEF PlanInit, TaskStates
    <3>2. review \in [Nodes -> [1..MaxReviews -> ReviewStates]]
      BY DEF PlanInit, ReviewStates
    <3>3. source \in 0..MaxEdits /\ upsets \in 0..MaxUpsets
      BY PlanConstants DEF PlanInit
    <3>4. paused \in Flags /\ leaseOver \in Flags
      BY <1>1, Zenon DEF PlanInit
    <3> QED BY <3>1, <3>2, <3>3, <3>4 DEF Around
  <2> QED BY <2>3, <2>5, <2>6 DEF PlanTypes, PlanFiles, PlanInit
<1>3. ASSUME NEW n \in Nodes
      PROVE NodeTrue(plan.nodes[n], review[n], task[n]) /\ Twins(plan.nodes[n], planDisk.nodes[n])
  <2>1. plan.nodes[n] = Fresh /\ planDisk.nodes[n] = Fresh
    BY <1>3 DEF PlanInit
  <2>2. /\ \A i \in 1..MaxReviews : review[n][i] = "none"
        /\ \A k \in 1..Tries : task[n][k] = "none"
    BY <1>3 DEF PlanInit
  <2> QED BY <2>1, <2>2, PlanConstants DEF Fresh, NoAttempt, NodeTrue, Keyed, Followed, Judged,
       NewestJudged, NoneAfter, StatedTruly, TasksKnown, Twins, ReviewOpen
<1>4. PlansTrue
  BY <1>3 DEF PlansTrue, NodesTrue, PlanInit
<1>5. \A n \in Nodes, k \in 1..Tries : task[n][k] = "none"
  BY DEF PlanInit
<1>6. TasksTrue
  <2>1. Numbered
    BY <1>5, PlanConstants DEF Numbered
  <2> QED BY <1>5, <2>1 DEF TasksTrue, OneLives, CancelledAlone, LiveLast, Unended
<1>7. ControlTrue
  BY <1>5 DEF ControlTrue, WellPlaced, Noticed, Ahead, PlanInit, Idle, Underway, Awaiting
<1> QED BY <1>2, <1>4, <1>6, <1>7 DEF PlanInv
-----------------------------------------------------------------------------
(* Nodes and their attempts *)

\* The values that steps give to a node.
LEMMA PlanValues ==
  /\ {"none", "DISPATCHING", "ACTIVE", "STALE", "BLOCKED", "DISPATCH_BLOCKED", "PASS", "REWORK",
      "BLOCKED"} \subseteq Marks
  /\ FALSE \in Flags /\ TRUE \in Flags
<1>1. FALSE \in Flags /\ TRUE \in Flags
  BY Zenon DEF Flags
<1> QED BY <1>1 DEF Marks, Decisions

\* The first m numbers are m.
LEMMA FirstCounted ==
  ASSUME NEW N \in Nat, NEW m \in 0..N, NEW S, S \subseteq 1..N,
         \A k \in 1..N : k \in S <=> k <= m
  PROVE  Cardinality(S) = m
<1>1. S = 1..m
  <2>1. ASSUME NEW k \in S PROVE k \in 1..m
    <3>1. k \in 1..N /\ k <= m
      BY <2>1
    <3> QED BY <3>1
  <2>2. ASSUME NEW k \in 1..m PROVE k \in S
    <3>1. k \in 1..N /\ k <= m
      BY <2>2
    <3> QED BY <3>1
  <2> QED BY <2>1, <2>2, Zenon
<1>2. Cardinality(1..m) = IF 1 > m THEN 0 ELSE m - 1 + 1
  BY FS_Interval
<1> QED BY <1>1, <1>2

\* Adoption counts the tasks that reached the disk and changes nothing else.
LEMMA AdoptedNode ==
  ASSUME PlanTypes, TasksTrue, NEW n \in Nodes
  PROVE  /\ Adopted(n) \in PlanNodes /\ Adopted(n).tasks \in 0..Tries
         /\ Adopted(n).state = plan.nodes[n].state /\ Adopted(n).att = plan.nodes[n].att
         /\ \A k \in 1..Tries : task[n][k] # "none" <=> k <= Adopted(n).tasks
<1> DEFINE S == {k \in 1..Tries : task[n][k] # "none"}
<1>1. PICK m \in 0..Tries : \A k \in 1..Tries : task[n][k] # "none" <=> k <= m
  BY DEF TasksTrue, Numbered
<1>2. Cardinality(S) = m
  <2>1. S \subseteq 1..Tries /\ \A k \in 1..Tries : k \in S <=> k <= m
    BY <1>1
  <2> HIDE DEF S
  <2> QED BY <2>1, FirstCounted, PlanConstants
<1>3. plan.nodes[n] \in PlanNodes
  BY DEF PlanTypes, PlanFiles, PlanRecords
<1>4. Adopted(n) = [plan.nodes[n] EXCEPT !.tasks = m]
  BY <1>2 DEF Adopted
<1>5. /\ Adopted(n) \in PlanNodes /\ Adopted(n).tasks = m
      /\ Adopted(n).state = plan.nodes[n].state /\ Adopted(n).att = plan.nodes[n].att
  BY <1>3, <1>4 DEF PlanNodes
<1> QED BY <1>1, <1>5

\* The next key is one that nobody was asked under, and there is room for it.
LEMMA FreshKeyFits ==
  ASSUME NEW n \in Nodes, NEW x \in PlanNodes, Keyed(x, review[n])
  PROVE  /\ FreshKey(n) \in 1..x.att.id + 1
         /\ \A i \in 1..MaxReviews : review[n][i] # "none" <=> i < FreshKey(n)
<1> DEFINE S == {i \in 1..MaxReviews : review[n][i] # "none"}
           key == x.att.key
           c == IF key > 0 /\ review[n][key] = "none" THEN key - 1 ELSE key
<1>1. key \in 0..MaxReviews /\ x.att.id \in 0..MaxReviews /\ key <= x.att.id /\ MaxReviews \in Nat
  BY PlanConstants DEF Keyed, PlanNodes, Attempts
<1>2. c \in 0..MaxReviews /\ c <= x.att.id
  BY <1>1
<1>3. \A i \in 1..MaxReviews : (review[n][i] # "none" => i <= key) /\ (i < key => review[n][i] # "none")
  BY DEF Keyed
<1>4. \A i \in 1..MaxReviews : review[n][i] # "none" <=> i <= c
  <2> TAKE i \in 1..MaxReviews
  <2>1. CASE i < key
    BY <1>1, <1>3, <2>1
  <2>2. CASE i = key
    BY <1>1, <2>2
  <2>3. CASE i > key
    BY <1>1, <1>3, <2>3
  <2> QED BY <1>1, <2>1, <2>2, <2>3
<1>5. S \subseteq 1..MaxReviews /\ \A i \in 1..MaxReviews : i \in S <=> i <= c
  BY <1>4
<1>6. Cardinality(S) = c
  <2> HIDE DEF S, c
  <2> QED BY <1>1, <1>2, <1>5, FirstCounted
<1>7. FreshKey(n) = 1 + c
  BY <1>6 DEF FreshKey
<1> HIDE DEF c
<1> QED BY <1>1, <1>2, <1>4, <1>7

SameAttempt(x, y) ==
  y.att.id = x.att.id /\ y.att.key = x.att.key /\ y.att.task = x.att.task /\ y.tasks = x.tasks

\* A node stays true when its attempt is marked otherwise, if the mark is founded:
\* a review that is called over does not run, a PASS was given, none is reopened.
LEMMA Remarked ==
  ASSUME NEW x, NEW y, NEW rv, NEW tk, NodeTrue(x, rv, tk), SameAttempt(x, y), StatedTruly(y),
         y.att.st = x.att.st \/ (x.att.st # "none" /\ y.att.st # "none"),
         y.att.st \in ReviewGoes \/ x.att.st \notin ReviewGoes \/ rv[x.att.key] # "running",
         y.att.st = "PASS" => rv[x.att.key] = "PASS",
         y.att.st \in ReviewOpen => x.att.st \in ReviewOpen,
         y.att.st = "PASS" /\ y.state = "STABLE" =>
           \/ x.att.st \in ReviewOpen \/ (x.att.st = "PASS" /\ x.state = "STABLE")
           \/ NoneAfter(x, tk)
  PROVE  NodeTrue(y, rv, tk)
<1>1. Keyed(y, rv)
  BY DEF NodeTrue, Keyed, SameAttempt
<1>2. Followed(y, rv)
  BY DEF NodeTrue, Followed, SameAttempt
<1>3. Judged(y, rv, tk)
  BY DEF NodeTrue, Judged, SameAttempt
<1>4. NoneAfter(x, tk) <=> NoneAfter(y, tk)
  BY DEF SameAttempt, NoneAfter
<1>5. NewestJudged(y, tk)
  BY <1>4 DEF NodeTrue, NewestJudged
<1>6. TasksKnown(y, tk)
  BY DEF NodeTrue, TasksKnown, SameAttempt
<1> QED BY <1>1, <1>2, <1>3, <1>5, <1>6 DEF NodeTrue

\* Adoption keeps a node true.
LEMMA AdoptedTrue ==
  ASSUME PlanTypes, TasksTrue, PlansTrue, NEW n \in Nodes
  PROVE  /\ NodeTrue(Adopted(n), review[n], task[n])
         /\ Twins(Adopted(n), planDisk.nodes[n])
<1> DEFINE x == plan.nodes[n]
           y == Adopted(n)
<1>1. NodeTrue(x, review[n], task[n]) /\ Twins(x, planDisk.nodes[n])
  BY DEF PlansTrue, NodesTrue
<1>2. /\ y.state = x.state /\ y.att = x.att
      /\ \A k \in 1..Tries : task[n][k] # "none" <=> k <= y.tasks
  BY AdoptedNode
<1> HIDE DEF x, y
<1>3. Keyed(y, review[n]) /\ Followed(y, review[n]) /\ Judged(y, review[n], task[n])
  BY <1>1, <1>2 DEF NodeTrue, Keyed, Followed, Judged
<1>4. NewestJudged(y, task[n]) /\ StatedTruly(y) /\ TasksKnown(y, task[n])
  BY <1>1, <1>2 DEF NodeTrue, NewestJudged, NoneAfter, StatedTruly, TasksKnown
<1>5. NodeTrue(y, review[n], task[n]) /\ Twins(y, planDisk.nodes[n])
  BY <1>1, <1>2, <1>3, <1>4 DEF NodeTrue, Twins
<1> QED BY <1>5 DEF y

\* While the attempt of a node is under way or stands, the task it judges is the
\* last of the node.
LEMMA JudgedIsLatest ==
  ASSUME PlanTypes, TasksTrue, PlansTrue, NEW n \in Nodes,
         \/ plan.nodes[n].att.st \in ReviewOpen
         \/ plan.nodes[n].att.st = "PASS" /\ plan.nodes[n].state = "STABLE"
  PROVE  Adopted(n).tasks = plan.nodes[n].att.task /\ Latest(n) = "completed"
<1> DEFINE a == plan.nodes[n].att
           m == Adopted(n).tasks
<1>1. /\ m \in 0..Tries /\ \A k \in 1..Tries : task[n][k] # "none" <=> k <= m
  BY AdoptedNode
<1>2. a.st # "none" /\ NoneAfter(plan.nodes[n], task[n])
  BY DEF PlansTrue, NodesTrue, NodeTrue, NewestJudged, ReviewOpen
<1>3. a.task \in 1..Tries /\ task[n][a.task] = "completed"
  BY <1>2 DEF PlansTrue, NodesTrue, NodeTrue, Judged
<1>4. a.task <= m
  BY <1>1, <1>3
<1>5. ~(a.task < m)
  BY <1>1, <1>2, <1>3 DEF NoneAfter
<1> QED BY <1>1, <1>3, <1>4, <1>5, PlanConstants DEF Latest

\* A node whose last task is not cancelled has no cancelled task.
LEMMA NoneCancelled ==
  ASSUME PlanTypes, TasksTrue, NEW n \in Nodes,
         Adopted(n).tasks = 0 \/ Latest(n) # "cancelled"
  PROVE  \A k \in 1..Tries : task[n][k] # "cancelled"
<1> DEFINE m == Adopted(n).tasks
<1>1. m \in 0..Tries /\ \A k \in 1..Tries : task[n][k] # "none" <=> k <= m
  BY AdoptedNode
<1>2. SUFFICES ASSUME NEW k \in 1..Tries, task[n][k] = "cancelled" PROVE FALSE
  OBVIOUS
<1>3. k <= m /\ m \in 1..Tries
  BY <1>1, <1>2, PlanConstants
<1>4. ~(k < m)
  BY <1>1, <1>2, <1>3 DEF TasksTrue, LiveLast
<1> QED BY <1>1, <1>2, <1>3, <1>4, PlanConstants DEF Latest

\* One node is rewritten, in memory, and perhaps the state saved.
LEMMA NodeReplaced ==
  ASSUME PlanFiles, PlansTrue, NEW n \in Nodes, NEW y \in PlanNodes,
         plan' \in PlanRecords, plan'.nodes = [plan.nodes EXCEPT ![n] = y],
         NodeTrue(y, review[n], task[n]), UNCHANGED <<task, review>>,
         Save \/ (UNCHANGED planDisk /\ Twins(y, planDisk.nodes[n]))
  PROVE  PlanFiles' /\ PlansTrue' /\ plan'.nodes[n] = y
<1>1. plan' \in PlanRecords /\ plan'.nodes = [plan.nodes EXCEPT ![n] = y]
  OBVIOUS
<1>2. plan'.nodes[n] = y /\ \A m \in Nodes \ {n} : plan'.nodes[m] = plan.nodes[m]
  BY <1>1 DEF PlanFiles, PlanRecords
<1>3. \A m \in Nodes : NodeTrue(plan.nodes[m], review[m], task[m])
  BY DEF PlansTrue, NodesTrue
<1>4. NodesTrue(plan)'
  <2>1. SUFFICES ASSUME NEW m \in Nodes PROVE NodeTrue(plan'.nodes[m], review[m], task[m])
    BY Zenon DEF NodesTrue
  <2>2. CASE m = n
    BY <1>2, <2>2, Zenon
  <2>3. CASE m # n
    BY <1>2, <1>3, <2>3, Zenon
  <2> QED BY <2>2, <2>3
<1>5. CASE Save
  <2>1. planDisk' = plan'
    BY <1>5 DEF Save
  <2>2. \A m \in Nodes : Twins(plan'.nodes[m], planDisk'.nodes[m])
    BY <2>1 DEF Twins
  <2> QED BY <1>1, <1>2, <1>4, <2>1, <2>2 DEF PlanFiles, PlansTrue, NodesTrue
<1>6. CASE UNCHANGED planDisk /\ Twins(y, planDisk.nodes[n])
  <2>1. \A m \in Nodes : Twins(plan.nodes[m], planDisk.nodes[m])
    BY DEF PlansTrue
  <2>2. \A m \in Nodes : Twins(plan'.nodes[m], planDisk'.nodes[m])
    BY <1>2, <1>6, <2>1, Zenon
  <2>3. NodesTrue(planDisk)'
    BY <1>6 DEF PlansTrue, NodesTrue
  <2> QED BY <1>1, <1>2, <1>4, <1>6, <2>2, <2>3 DEF PlanFiles, PlansTrue, NodesTrue
<1> QED BY <1>5, <1>6

\* The same, when nothing else of the plan changes.
LEMMA NodeWritten ==
  ASSUME PlanFiles, PlansTrue, NEW n \in Nodes, NEW y \in PlanNodes, Node(n, y),
         NodeTrue(y, review[n], task[n]), UNCHANGED <<task, review>>,
         Save \/ (UNCHANGED planDisk /\ Twins(y, planDisk.nodes[n]))
  PROVE  /\ PlanFiles' /\ PlansTrue'
         /\ plan'.nodes[n] = y /\ plan'.cancelled = plan.cancelled
<1>1. /\ plan' \in PlanRecords /\ plan'.nodes = [plan.nodes EXCEPT ![n] = y]
      /\ plan'.cancelled = plan.cancelled
  BY DEF PlanFiles, PlanRecords, Node
<1> QED BY <1>1, NodeReplaced

(* An attempt is marked, and its node restated.                               *)
Mark(x, m) == [x EXCEPT !.att.st = m]
Restate(x, s) == [x EXCEPT !.state = s]

\* Marking an attempt leaves the rest of its node.
LEMMA MarkedOnly ==
  ASSUME NEW x \in PlanNodes, NEW m \in Marks
  PROVE  /\ Mark(x, m) \in PlanNodes /\ SameAttempt(x, Mark(x, m))
         /\ Mark(x, m).att.st = m /\ Mark(x, m).state = x.state
  BY DEF Mark, PlanNodes, Attempts, SameAttempt

\* Restating a node leaves its attempt.
LEMMA RestatedOnly ==
  ASSUME NEW x \in PlanNodes, NEW s \in NodeStates
  PROVE  /\ Restate(x, s) \in PlanNodes /\ SameAttempt(x, Restate(x, s))
         /\ Restate(x, s).att = x.att /\ Restate(x, s).state = s
  BY DEF Restate, PlanNodes, SameAttempt

\* Both: the node a decision leads to.
LEMMA Marked ==
  ASSUME NEW x \in PlanNodes, NEW m \in Marks, NEW s \in NodeStates
  PROVE  LET y == Restate(Mark(x, m), s)
         IN  y \in PlanNodes /\ SameAttempt(x, y) /\ y.att.st = m /\ y.state = s
<1> DEFINE z == Mark(x, m)
           y == Restate(z, s)
<1>1. z \in PlanNodes /\ SameAttempt(x, z) /\ z.att.st = m
  BY MarkedOnly
<1> HIDE DEF z
<1>2. y \in PlanNodes /\ SameAttempt(z, y) /\ y.att = z.att /\ y.state = s
  BY <1>1, RestatedOnly
<1> HIDE DEF y
<1>3. y \in PlanNodes /\ SameAttempt(x, y) /\ y.att.st = m /\ y.state = s
  BY <1>1, <1>2 DEF SameAttempt
<1> QED BY <1>3 DEF y, z

\* The same of a node that is given by its record.
LEMMA Restated ==
  ASSUME NEW x \in PlanNodes, NEW s \in NodeStates, NEW y, y = [x EXCEPT !.state = s]
  PROVE  /\ y \in PlanNodes /\ SameAttempt(x, y) /\ y.att = x.att /\ y.state = s
  BY DEF PlanNodes, SameAttempt

\* A visit restates the node, its attempt being as it was.
LEMMA StateSet ==
  ASSUME PlanTypes, TasksTrue, PlansTrue, NEW n \in Nodes, NEW s \in NodeStates, NEW y,
         y = [Adopted(n) EXCEPT !.state = s],
         s \in {"PENDING", "FAILED", "REWORK"} => plan.nodes[n].att.st \notin ReviewOpen,
         s = "STABLE" /\ plan.nodes[n].att.st = "PASS" => NoneAfter(Adopted(n), task[n])
  PROVE  /\ y \in PlanNodes /\ y.att = plan.nodes[n].att
         /\ NodeTrue(y, review[n], task[n]) /\ Twins(y, planDisk.nodes[n])
<1> DEFINE x == Adopted(n)
<1>1. x \in PlanNodes /\ x.att = plan.nodes[n].att
  BY AdoptedNode
<1>2. NodeTrue(x, review[n], task[n]) /\ Twins(x, planDisk.nodes[n])
  BY AdoptedTrue
<1>3. y \in PlanNodes /\ SameAttempt(x, y) /\ y.att = x.att /\ y.state = s
  BY <1>1, Restated
<1>4. x.att.st = "PASS" => review[n][x.att.key] = "PASS"
  BY <1>2 DEF NodeTrue, Judged
<1>5. NodeTrue(y, review[n], task[n])
  <2> HIDE DEF x
  <2>1. StatedTruly(y)
    BY <1>1, <1>3 DEF StatedTruly
  <2>2. y.att.st = "PASS" /\ y.state = "STABLE" => NoneAfter(x, task[n])
    BY <1>1, <1>3 DEF x
  <2> QED BY <1>1, <1>2, <1>3, <1>4, <2>1, <2>2, Remarked
<1>6. Twins(y, planDisk.nodes[n])
  BY <1>2, <1>3 DEF Twins
<1> QED BY <1>1, <1>3, <1>5, <1>6

-----------------------------------------------------------------------------
(* Where the reconciliation goes *)

\* Going somewhere else changes the place, the node and the gate only.
LEMMA Moved ==
  ASSUME Reconciles, NEW at \in Places, NEW n \in Nodes, NEW g \in Flags, Moves(at, n, g)
  PROVE  Reconciles' /\ ctl'.at = at /\ ctl'.n = n /\ ctl'.busy = ctl.busy
  BY DEF Reconciles, Moves

\* The reconciliation leaves a node behind, for the next one or for the end of the
\* loop: it has seen the cancelled tasks of that node.
LEMMA GoesOn ==
  ASSUME PlanTypes, ControlTrue, ctl.at \in {"visit"} \cup Awaiting, NextNode(ctl.n),
         UNCHANGED task, plan.cancelled => plan'.cancelled,
         ctl.at = "visit" /\ ~plan'.cancelled => \A k \in 1..Tries : task[ctl.n][k] # "cancelled"
  PROVE  ControlTrue' /\ Reconciles'
<1>1. ctl.n \in Nodes /\ Reconciles /\ Last \in Nat /\ 1 \in Nodes
  BY PlanConstants DEF PlanTypes, Reconciles, Nodes
<1>2. ctl.at \in Underway /\ {"visit", "select"} \subseteq Underway /\ Underway \subseteq Places
  BY DEF Underway, Places
<1>3. FALSE \in Flags
  BY PlanValues
<1>4. CASE ctl.n < Last /\ Moves("visit", ctl.n + 1, FALSE)
  <2>1. ctl.n + 1 \in Nodes
    BY <1>1, <1>4 DEF Nodes
  <2>2. Reconciles' /\ ctl'.at = "visit" /\ ctl'.n = ctl.n + 1 /\ ctl'.busy = ctl.busy
    BY <1>1, <1>2, <1>3, <1>4, <2>1, Moved
  <2>3. WellPlaced'
    BY <1>2, <2>2 DEF ControlTrue, WellPlaced, AnyLive
  <2>4. Noticed'
    <3>1. SUFFICES ASSUME NEW c \in Nodes, NEW k \in 1..Tries, task[c][k] = "cancelled",
                          ~plan'.cancelled, ~ctl.busy
                   PROVE  ctl.n + 1 <= c
      BY <2>2 DEF Noticed, Ahead
    <3>2. Ahead(c)
      BY <3>1 DEF ControlTrue, Noticed
    <3> QED BY <1>1, <3>1, <3>2 DEF Ahead, Awaiting, Nodes
  <2> QED BY <2>2, <2>3, <2>4 DEF ControlTrue
<1>5. CASE ~(ctl.n < Last) /\ Moves("select", 1, FALSE)
  <2>2. Reconciles' /\ ctl'.at = "select" /\ ctl'.n = 1 /\ ctl'.busy = ctl.busy
    BY <1>1, <1>2, <1>3, <1>5, Moved
  <2>3. WellPlaced'
    BY <1>2, <2>2 DEF ControlTrue, WellPlaced, AnyLive
  <2>4. Noticed'
    <3>1. SUFFICES ASSUME NEW c \in Nodes, NEW k \in 1..Tries, task[c][k] = "cancelled",
                          ~plan'.cancelled, ~ctl.busy
                   PROVE  FALSE
      BY <2>2 DEF Noticed
    <3>2. Ahead(c)
      BY <3>1 DEF ControlTrue, Noticed
    <3> QED BY <1>1, <1>5, <3>1, <3>2 DEF Ahead, Awaiting, Nodes
  <2> QED BY <2>2, <2>3, <2>4 DEF ControlTrue
<1> QED BY <1>4, <1>5 DEF NextNode

\* The reconciliation stays at its node and awaits something.
LEMMA StaysHere ==
  ASSUME PlanTypes, ControlTrue, ctl.at \in {"visit"} \cup Awaiting,
         NEW at \in Awaiting, NEW g \in Flags, Moves(at, ctl.n, g),
         UNCHANGED task, plan.cancelled => plan'.cancelled,
         ctl.at = "visit" /\ ~plan'.cancelled => \A k \in 1..Tries : task[ctl.n][k] # "cancelled",
         at \in {"submit", "answer"} => plan'.nodes[ctl.n].att.st = "DISPATCHING",
         at \in {"poll", "polled"} => plan'.nodes[ctl.n].att.st = "ACTIVE"
  PROVE  ControlTrue' /\ Reconciles'
<1>1. ctl.n \in Nodes /\ Reconciles
  BY DEF PlanTypes, Reconciles
<1>2. ctl.at \in Underway /\ at \in Underway /\ Underway \subseteq Places
  BY DEF Underway, Places
<1>3. Reconciles' /\ ctl'.at = at /\ ctl'.n = ctl.n /\ ctl'.busy = ctl.busy
  BY <1>1, <1>2, Moved
<1>4. WellPlaced'
  BY <1>2, <1>3 DEF ControlTrue, WellPlaced, AnyLive, Awaiting
<1>5. Noticed'
  <2>1. SUFFICES ASSUME NEW c \in Nodes, NEW k \in 1..Tries, task[c][k] = "cancelled",
                        ~plan'.cancelled, ~ctl.busy
                 PROVE  ctl.n < c
    BY <1>3 DEF Noticed, Ahead
  <2>2. Ahead(c)
    BY <2>1 DEF ControlTrue, Noticed
  <2>3. ctl.n <= c /\ (ctl.at = "visit" => c # ctl.n)
    BY <1>1, <2>1, <2>2 DEF Ahead, Awaiting, Nodes
  <2> QED BY <1>1, <2>1, <2>2, <2>3 DEF Ahead, Awaiting, Nodes
<1> QED BY <1>3, <1>4, <1>5 DEF ControlTrue

\* What is not changed stays true.
LEMMA TasksAsBefore == ASSUME TasksTrue, UNCHANGED task PROVE TasksTrue'
  BY DEF TasksTrue, Numbered, OneLives, CancelledAlone, LiveLast

\* What surrounds the controller keeps its type.
LEMMA AroundAsBefore == ASSUME PlanTypes, UNCHANGED outside PROVE Around'
  BY DEF PlanTypes, Around, outside

\* A step of the reconciliation alone.
LEMMA Reconciled ==
  ASSUME PlanInv, UNCHANGED outside, PlanFiles', PlansTrue', ControlTrue', Reconciles'
  PROVE  PlanInv'
<1>1. TasksTrue'
  BY TasksAsBefore DEF PlanInv, outside
<1>2. Around'
  BY AroundAsBefore DEF PlanInv
<1> QED BY <1>1, <1>2 DEF PlanInv, PlanTypes
-----------------------------------------------------------------------------
(* The visits *)

\* A visit that leaves the attempt as it is and goes on.
LEMMA VisitRestates ==
  ASSUME PlanInv, NEW n \in Nodes, Visiting(n), NEW s \in NodeStates,
         Node(n, [Adopted(n) EXCEPT !.state = s]),
         s \in {"PENDING", "FAILED", "REWORK"} => plan.nodes[n].att.st \notin ReviewOpen,
         s = "STABLE" /\ plan.nodes[n].att.st = "PASS" => NoneAfter(Adopted(n), task[n]),
         \A k \in 1..Tries : task[n][k] # "cancelled",
         NextNode(n), UNCHANGED <<planDisk, outside>>
  PROVE  PlanInv'
<1> DEFINE y == [Adopted(n) EXCEPT !.state = s]
<1>1. PlanTypes /\ TasksTrue /\ PlansTrue /\ ControlTrue /\ PlanFiles
  BY DEF PlanInv, PlanTypes
<1>2. /\ y \in PlanNodes /\ NodeTrue(y, review[n], task[n]) /\ Twins(y, planDisk.nodes[n])
  BY <1>1, StateSet
<1>3. Node(n, y) /\ UNCHANGED <<task, review>> /\ UNCHANGED planDisk
  BY DEF outside
<1> HIDE DEF y
<1>4. PlanFiles' /\ PlansTrue' /\ plan'.cancelled = plan.cancelled
  BY <1>1, <1>2, <1>3, NodeWritten
<1>5. ctl.at = "visit" /\ ctl.n = n
  BY DEF Visiting
<1>6. ControlTrue' /\ Reconciles'
  BY <1>1, <1>3, <1>4, <1>5, GoesOn
<1> QED BY <1>4, <1>6, Reconciled

\* A node without a task to review is left behind.
LEMMA KeepVisitUnfinished ==
  ASSUME PlanInv, NEW n \in Nodes, VisitUnfinished(n) PROVE PlanInv'
<1>1. PlanTypes /\ TasksTrue /\ PlansTrue
  BY DEF PlanInv
<1>2. Visiting(n) /\ NextNode(n) /\ UNCHANGED <<planDisk, outside>>
  BY DEF VisitUnfinished
<1>3. Adopted(n) \in PlanNodes /\ Adopted(n).state = plan.nodes[n].state
  BY <1>1, AdoptedNode
<1>4. NodeTrue(plan.nodes[n], review[n], task[n]) /\ plan.nodes[n].state \in NodeStates
  BY <1>1, <1>3 DEF PlansTrue, NodesTrue, PlanNodes
<1>5. CASE Adopted(n).tasks = 0 \/ (Consumed(n) /\ Adopted(n).tasks > 0)
  <2>0. CASE ~(Node(n, Adopted(n)))
    <3>1. Latest(n) \in Unended /\ Adopted(n).tasks > 0 /\ Consumed(n)
      BY <1>3, <1>5, <2>0, AdoptedNode, <1>1 DEF VisitUnfinished
    <3>2. Latest(n) = "completed"
      BY <1>1, <3>1, JudgedIsLatest DEF Consumed
    <3> QED BY <3>1, <3>2 DEF Unended
  <2>1. CASE Node(n, Adopted(n))
    <3> DEFINE s == Adopted(n).state
    <3>1. Adopted(n) = [Adopted(n) EXCEPT !.state = s]
      BY <1>3 DEF PlanNodes
    <3>2. s \in NodeStates /\ Node(n, [Adopted(n) EXCEPT !.state = s])
      BY <1>3, <1>4, <2>1, <3>1
    <3>3. s \in {"PENDING", "FAILED", "REWORK"} => plan.nodes[n].att.st \notin ReviewOpen
      BY <1>3, <1>4 DEF NodeTrue, StatedTruly
    <3>4. s = "STABLE" /\ plan.nodes[n].att.st = "PASS" => NoneAfter(Adopted(n), task[n])
      BY <1>1, <1>3, AdoptedTrue, AdoptedNode DEF NodeTrue, NewestJudged
    <3>5. \A k \in 1..Tries : task[n][k] # "cancelled"
      <4>1. CASE Adopted(n).tasks = 0
        BY <1>1, <4>1, NoneCancelled
      <4>2. CASE Consumed(n)
        BY <1>1, <4>2, NoneCancelled, JudgedIsLatest DEF Consumed
      <4> QED BY <1>5, <4>1, <4>2
    <3> HIDE DEF s
    <3> QED BY <1>2, <3>2, <3>3, <3>4, <3>5, VisitRestates
  <2> QED BY <2>0, <2>1
<1>6. CASE /\ Latest(n) \in Unended
           /\ Node(n, [Adopted(n) EXCEPT !.state = "ACTIVE"])
  <2> DEFINE s == "ACTIVE"
  <2>1. s \in NodeStates /\ s \notin {"PENDING", "FAILED", "REWORK"} /\ s # "STABLE"
    BY DEF NodeStates
  <2>2. \A k \in 1..Tries : task[n][k] # "cancelled"
    BY <1>1, <1>6, NoneCancelled DEF Unended
  <2>3. Node(n, [Adopted(n) EXCEPT !.state = s])
    BY <1>6
  <2>4. /\ s \in {"PENDING", "FAILED", "REWORK"} => plan.nodes[n].att.st \notin ReviewOpen
        /\ s = "STABLE" /\ plan.nodes[n].att.st = "PASS" => NoneAfter(Adopted(n), task[n])
    BY <2>1
  <2> HIDE DEF s
  <2> QED BY <1>2, <2>1, <2>2, <2>3, <2>4, VisitRestates
<1> QED BY <1>5, <1>6, Zenon DEF VisitUnfinished

\* A request that was not answered is sent again.
LEMMA KeepVisitRecovers ==
  ASSUME PlanInv, NEW n \in Nodes, VisitRecovers(n) PROVE PlanInv'
<1>1. PlanTypes /\ TasksTrue /\ PlansTrue /\ ControlTrue /\ PlanFiles
  BY DEF PlanInv, PlanTypes
<1>2. /\ ctl.at = "visit" /\ ctl.n = n /\ plan.nodes[n].att.st = "DISPATCHING"
      /\ Node(n, Adopted(n)) /\ Save /\ UNCHANGED outside /\ UNCHANGED <<task, review>>
  BY DEF VisitRecovers, Visited, Visiting, Unsent, outside
<1>3. PICK g \in BOOLEAN : Moves("submit", n, g)
  BY Zenon DEF VisitRecovers
<1>4. g \in Flags
  BY <1>3 DEF Flags
<1>5. Adopted(n) \in PlanNodes /\ Adopted(n).att = plan.nodes[n].att
  BY <1>1, AdoptedNode
<1>6. /\ PlanFiles' /\ PlansTrue' /\ plan'.nodes[n] = Adopted(n)
      /\ plan'.cancelled = plan.cancelled
  BY <1>1, <1>2, <1>5, AdoptedTrue, NodeWritten
<1>7. \A k \in 1..Tries : task[n][k] # "cancelled"
  BY <1>1, <1>2, NoneCancelled, JudgedIsLatest DEF ReviewOpen
<1>8. "submit" \in Awaiting
  BY DEF Awaiting
<1>9. ControlTrue' /\ Reconciles'
  BY <1>1, <1>2, <1>3, <1>4, <1>5, <1>6, <1>7, <1>8, StaysHere
<1> QED BY <1>2, <1>6, <1>9, Reconciled

\* A node whose last task ended without a review under way: a cancelled task cancels
\* the plan.
LEMMA KeepVisitUnreviewed ==
  ASSUME PlanInv, NEW n \in Nodes, VisitUnreviewed(n) PROVE PlanInv'
<1>1. PlanTypes /\ TasksTrue /\ PlansTrue /\ ControlTrue /\ PlanFiles
  BY DEF PlanInv, PlanTypes
<1>2. /\ Visiting(n) /\ ctl.at = "visit" /\ ctl.n = n /\ NextNode(n)
      /\ UNCHANGED planDisk /\ UNCHANGED outside /\ UNCHANGED <<task, review>>
  BY DEF VisitUnreviewed, Visited, Visiting, outside
<1>3. Adopted(n) \in PlanNodes /\ Adopted(n).att = plan.nodes[n].att
  BY <1>1, AdoptedNode
<1>4. CASE plan' = [plan EXCEPT !.nodes[n] = [Adopted(n) EXCEPT !.state = "CANCELLED"],
                                !.cancelled = TRUE]
  <2> DEFINE s == "CANCELLED"
             y == [Adopted(n) EXCEPT !.state = s]
  <2>1. s \in NodeStates /\ s \notin {"PENDING", "FAILED", "REWORK"} /\ s # "STABLE"
    BY DEF NodeStates
  <2> HIDE DEF s
  <2>2. y \in PlanNodes /\ NodeTrue(y, review[n], task[n]) /\ Twins(y, planDisk.nodes[n])
    BY <1>1, <2>1, StateSet
  <2>3. /\ plan' \in PlanRecords /\ plan'.nodes = [plan.nodes EXCEPT ![n] = y]
        /\ plan'.cancelled
    <3>1. plan' = [plan EXCEPT !.nodes[n] = y, !.cancelled = TRUE]
      BY <1>4 DEF s
    <3> HIDE DEF y
    <3> QED BY <1>1, <2>2, <3>1, PlanValues DEF PlanFiles, PlanRecords
  <2> HIDE DEF y
  <2>4. PlanFiles' /\ PlansTrue'
    BY <1>1, <1>2, <2>2, <2>3, NodeReplaced
  <2>5. ControlTrue' /\ Reconciles'
    BY <1>1, <1>2, <2>3, GoesOn
  <2> QED BY <1>2, <2>4, <2>5, Reconciled
<1>5. CASE /\ Latest(n) # "cancelled" /\ ~Interrupted(n)
           /\ Node(n, [Adopted(n) EXCEPT
                 !.state = IF Latest(n) = "completed" THEN "WAITING_REVIEW" ELSE "FAILED"])
  <2> DEFINE s == IF Latest(n) = "completed" THEN "WAITING_REVIEW" ELSE "FAILED"
  <2>1. s \in NodeStates /\ s # "STABLE"
    BY DEF NodeStates
  <2>2. plan.nodes[n].att.st \notin ReviewOpen
    BY <1>5 DEF Interrupted, ReviewOpen
  <2>3. Node(n, [Adopted(n) EXCEPT !.state = s])
    BY <1>5
  <2>4. \A k \in 1..Tries : task[n][k] # "cancelled"
    BY <1>1, <1>5, NoneCancelled
  <2> HIDE DEF s
  <2> QED BY <1>2, <2>1, <2>2, <2>3, <2>4, VisitRestates
<1> QED BY <1>4, <1>5 DEF VisitUnreviewed

\* Where a review is looked at: the node, its last task and the gate.
LEMMA AtReview ==
  ASSUME PlanInv, NEW n \in Nodes, NEW g, Reviewing(n, g)
  PROVE  /\ Visiting(n) /\ ctl.at = "visit" /\ ctl.n = n /\ g \in Flags
         /\ Adopted(n).tasks \in 1..Tries /\ (g => Latest(n) = "completed")
         /\ \A k \in 1..Tries : task[n][k] # "cancelled"
         /\ NoneAfter([att |-> [task |-> Adopted(n).tasks]], task[n])
<1>1. PlanTypes /\ TasksTrue
  BY DEF PlanInv
<1>2. Visiting(n) /\ ctl.at = "visit" /\ ctl.n = n /\ Latest(n) # "cancelled" /\ Adopted(n).tasks > 0
  BY DEF Reviewing, Visited, Visiting
<1>3. g \in BOOLEAN /\ (g => Latest(n) = "completed")
  BY Zenon DEF Reviewing
<1>4. g \in Flags
  BY <1>3, Zenon DEF Flags
<1>5. /\ Adopted(n).tasks \in 0..Tries
      /\ \A k \in 1..Tries : task[n][k] # "none" <=> k <= Adopted(n).tasks
  BY <1>1, AdoptedNode
<1>6. NoneAfter([att |-> [task |-> Adopted(n).tasks]], task[n])
  BY <1>5, PlanConstants DEF NoneAfter
<1>7. \A k \in 1..Tries : task[n][k] # "cancelled"
  BY <1>1, <1>2, NoneCancelled
<1> QED BY <1>2, <1>3, <1>4, <1>5, <1>6, <1>7, PlanConstants

\* A review that was decided stands.
LEMMA KeepReviewStands ==
  ASSUME PlanInv, NEW n \in Nodes, NEW g \in BOOLEAN, ReviewStands(n, g) PROVE PlanInv'
<1> DEFINE a == plan.nodes[n].att
           s == CASE a.st = "PASS" -> IF g THEN "STABLE" ELSE "WAITING_REVIEW"
                  [] a.st = "REWORK" -> "REWORK"
                  [] a.st = "DISPATCHING" -> "WAITING_REVIEW"
                  [] OTHER -> "BLOCKED_REVIEW"
<1>1. PlanTypes /\ TasksTrue /\ PlansTrue
  BY DEF PlanInv, PlanTypes
<1>2. /\ Reviewing(n, g) /\ Decided(n, a) /\ NextNode(n) /\ UNCHANGED <<planDisk, outside>>
      /\ Node(n, [Adopted(n) EXCEPT !.state = s])
  BY DEF ReviewStands
<1>3. /\ Visiting(n) /\ (\A k \in 1..Tries : task[n][k] # "cancelled")
      /\ NoneAfter([att |-> [task |-> Adopted(n).tasks]], task[n])
  BY <1>2, AtReview
<1>4. s \in NodeStates
  BY DEF NodeStates
<1>5. s \in {"PENDING", "FAILED", "REWORK"} => a.st \notin ReviewOpen
  BY DEF ReviewOpen
<1>6. s = "STABLE" /\ a.st = "PASS" => NoneAfter(Adopted(n), task[n])
  <2>1. SUFFICES ASSUME a.st = "PASS" PROVE NoneAfter(Adopted(n), task[n])
    OBVIOUS
  <2>2. a.task = Adopted(n).tasks
    BY <1>2, <2>1 DEF Decided
  <2>3. Adopted(n).att = a
    BY <1>1, AdoptedNode
  <2> QED BY <1>3, <2>2, <2>3 DEF NoneAfter
<1> HIDE DEF s
<1> QED BY <1>2, <1>3, <1>4, <1>5, <1>6, VisitRestates

\* A review under way is polled, or waits until reviews are allowed again.
LEMMA KeepReviewContinues ==
  ASSUME PlanInv, NEW n \in Nodes, NEW g \in BOOLEAN, ReviewContinues(n, g) PROVE PlanInv'
<1> DEFINE x == Adopted(n)
           y == [x EXCEPT !.state = "WAITING_REVIEW",
                          !.att.changed = @ \/ ~SameSource(plan.nodes[n].att)
                                            \/ plan.nodes[n].att.task # Adopted(n).tasks]
<1>1. PlanTypes /\ TasksTrue /\ PlansTrue /\ ControlTrue /\ PlanFiles
  BY DEF PlanInv, PlanTypes
<1>2. /\ Reviewing(n, g) /\ UNCHANGED planDisk /\ UNCHANGED outside /\ UNCHANGED <<task, review>>
      /\ plan.nodes[n].att.st = "ACTIVE" /\ Node(n, y)
      /\ Moves("poll", n, g) \/ NextNode(n)
  BY DEF ReviewContinues, outside
<1>3. /\ ctl.at = "visit" /\ ctl.n = n /\ g \in Flags
      /\ \A k \in 1..Tries : task[n][k] # "cancelled"
  BY <1>2, AtReview
<1>4. x \in PlanNodes /\ x.att = plan.nodes[n].att
  BY <1>1, AdoptedNode
<1>5. NodeTrue(x, review[n], task[n]) /\ Twins(x, planDisk.nodes[n])
  BY <1>1, AdoptedTrue
<1>6. y \in PlanNodes /\ SameAttempt(x, y) /\ y.att.st = "ACTIVE" /\ y.state = "WAITING_REVIEW"
  <2> DEFINE b == x.att.changed \/ ~SameSource(plan.nodes[n].att)
                                \/ plan.nodes[n].att.task # Adopted(n).tasks
  <2>1. b \in Flags
    BY Zenon DEF Flags
  <2>2. y = [x EXCEPT !.state = "WAITING_REVIEW", !.att.changed = b]
    OBVIOUS
  <2>3. "WAITING_REVIEW" \in NodeStates
    BY DEF NodeStates
  <2> HIDE DEF b, x, y
  <2> QED BY <1>2, <1>4, <2>1, <2>2, <2>3 DEF PlanNodes, Attempts, SameAttempt
<1> HIDE DEF x, y
<1>7. NodeTrue(y, review[n], task[n])
  <2>1. StatedTruly(y)
    BY <1>6 DEF StatedTruly
  <2> QED BY <1>2, <1>4, <1>5, <1>6, <2>1, Remarked
<1>8. Twins(y, planDisk.nodes[n])
  BY <1>2, <1>4, <1>5, <1>6 DEF Twins, SameAttempt
<1>9. PlanFiles' /\ PlansTrue' /\ plan'.nodes[n] = y /\ plan'.cancelled = plan.cancelled
  BY <1>1, <1>2, <1>6, <1>7, <1>8, NodeWritten
<1>10. ControlTrue' /\ Reconciles'
  <2>1. CASE Moves("poll", n, g)
    <3>1. "poll" \in Awaiting /\ "poll" \notin {"submit", "answer"}
      BY DEF Awaiting
    <3> QED BY <1>1, <1>2, <1>3, <1>6, <1>9, <2>1, <3>1, StaysHere
  <2>2. CASE NextNode(n)
    BY <1>1, <1>2, <1>3, <1>9, <2>2, GoesOn
  <2> QED BY <1>2, <2>1, <2>2
<1> QED BY <1>2, <1>9, <1>10, Reconciled

\* An attempt that is called stale when its review is looked at.
LEMMA StaleTrue ==
  ASSUME PlanTypes, TasksTrue, PlansTrue, NEW n \in Nodes, NEW y \in PlanNodes,
         SameAttempt(Adopted(n), y), y.state \notin {"PENDING", "FAILED", "REWORK", "STABLE"},
         y.att.st # "PASS",
         y.att.st = Adopted(n).att.st \/ (Adopted(n).att.st = "PASS" /\ y.att.st = "STALE")
  PROVE  NodeTrue(y, review[n], task[n]) /\ Twins(y, planDisk.nodes[n])
<1>1. Adopted(n) \in PlanNodes
  BY AdoptedNode
<1>2. NodeTrue(Adopted(n), review[n], task[n]) /\ Twins(Adopted(n), planDisk.nodes[n])
  BY AdoptedTrue
<1>3. NodeTrue(y, review[n], task[n])
  <2>1. StatedTruly(y)
    BY DEF StatedTruly
  <2> QED BY <1>2, <2>1, Remarked DEF ReviewGoes, ReviewOpen
<1>4. Twins(y, planDisk.nodes[n])
  BY <1>2 DEF Twins, SameAttempt
<1> QED BY <1>3, <1>4

\* A review begins: its attempt is made durable before anybody is asked.
LEMMA KeepReviewBegins ==
  ASSUME PlanInv, NEW n \in Nodes, NEW g \in BOOLEAN, ReviewBegins(n, g) PROVE PlanInv'
<1> DEFINE x == Adopted(n)
           a == plan.nodes[n].att
           stale == [Adopted(n) EXCEPT !.att.st = IF @ = "PASS" THEN "STALE" ELSE @]
           key == FreshKey(n)
           y == [stale EXCEPT
                  !.state = "WAITING_REVIEW",
                  !.att = [id |-> a.id + 1, key |-> key, task |-> x.tasks, fp |-> source,
                           st |-> "DISPATCHING", late |-> FALSE, changed |-> FALSE]]
<1>1. PlanTypes /\ TasksTrue /\ PlansTrue /\ ControlTrue /\ PlanFiles
  BY DEF PlanInv, PlanTypes
<1>2. /\ Reviewing(n, g) /\ ~Decided(n, a) /\ a.st # "ACTIVE"
      /\ UNCHANGED outside /\ UNCHANGED <<task, review>>
  BY DEF ReviewBegins, outside
<1>3. /\ ctl.at = "visit" /\ ctl.n = n /\ g \in Flags
      /\ \A k \in 1..Tries : task[n][k] # "cancelled"
  BY <1>2, AtReview
<1>4. ASSUME NEW s \in {"WAITING_REVIEW", "BLOCKED_REVIEW"},
             Node(n, [stale EXCEPT !.state = s]), NextNode(n), UNCHANGED planDisk
      PROVE  PlanInv'
  <2> DEFINE z == [stale EXCEPT !.state = s]
  <2>1. s \in NodeStates /\ s \notin {"PENDING", "FAILED", "REWORK", "STABLE"}
    BY <1>4 DEF NodeStates
  <2>2. z \in PlanNodes /\ NodeTrue(z, review[n], task[n]) /\ Twins(z, planDisk.nodes[n])
    <3> DEFINE m == IF x.att.st = "PASS" THEN "STALE" ELSE x.att.st
    <3>1. x \in PlanNodes
      BY <1>1, AdoptedNode
    <3>2. z = Restate(Mark(x, m), s)
      BY Zenon DEF Restate, Mark
    <3>3. m \in Marks
      BY <3>1, PlanValues DEF PlanNodes, Attempts
    <3>4. m # "PASS" /\ (m = x.att.st \/ (x.att.st = "PASS" /\ m = "STALE"))
      OBVIOUS
    <3> HIDE DEF m, z
    <3>5. z \in PlanNodes /\ SameAttempt(x, z) /\ z.att.st = m /\ z.state = s
      <4> HIDE DEF x
      <4> QED BY <2>1, <3>1, <3>2, <3>3, Marked
    <3> QED BY <1>1, <2>1, <3>4, <3>5, StaleTrue
  <2>3. Node(n, z)
    BY <1>4
  <2> HIDE DEF z
  <2>4. PlanFiles' /\ PlansTrue' /\ plan'.cancelled = plan.cancelled
    BY <1>1, <1>2, <1>4, <2>2, <2>3, NodeWritten
  <2>5. ControlTrue' /\ Reconciles'
    BY <1>1, <1>2, <1>3, <1>4, <2>4, GoesOn
  <2> QED BY <1>2, <2>4, <2>5, Reconciled
<1>5. CASE CanReview /\ g /\ a.id < MaxReviews /\ Node(n, y) /\ Moves("submit", n, g) /\ Save
  <2>1. /\ x \in PlanNodes /\ x.att = a /\ x.tasks \in 1..Tries /\ task[n][x.tasks] = "completed"
        /\ \A k \in 1..Tries : k > x.tasks => task[n][k] = "none"
    <3>1. x \in PlanNodes /\ x.att = a
      BY <1>1, AdoptedNode
    <3>2. g => Latest(n) = "completed"
      BY <1>2, AtReview, Zenon
    <3>3. Latest(n) = "completed"
      BY <1>5, <3>2, Zenon
    <3>4. /\ Adopted(n).tasks \in 1..Tries
          /\ NoneAfter([att |-> [task |-> Adopted(n).tasks]], task[n])
      BY <1>2, AtReview, Zenon
    <3> QED BY <3>1, <3>3, <3>4 DEF NoneAfter, Latest
  <2>2. /\ Keyed(x, review[n]) /\ Followed(x, review[n]) /\ TasksKnown(x, task[n])
    BY <1>1, AdoptedTrue DEF NodeTrue
  <2>3. a.st \notin ReviewGoes
    BY <1>2, <1>5 DEF Decided, Reviewing, Unsent, ReviewGoes
  <2>4. /\ key \in 1..a.id + 1
        /\ \A i \in 1..MaxReviews : review[n][i] # "none" <=> i < key
    BY <2>1, <2>2, FreshKeyFits
  <2>5. a.id \in 0..MaxReviews /\ a.id + 1 \in 0..MaxReviews /\ key \in 1..MaxReviews
    BY <1>5, <2>1, <2>4, PlanConstants DEF PlanNodes, Attempts
  <2>6. "DISPATCHING" \in Marks /\ "WAITING_REVIEW" \in NodeStates /\ FALSE \in Flags
        /\ source \in 0..MaxEdits
    BY <1>1, PlanValues DEF NodeStates, PlanTypes, Around
  <2>7. y = [x EXCEPT
               !.state = "WAITING_REVIEW",
               !.att = [id |-> a.id + 1, key |-> key, task |-> x.tasks, fp |-> source,
                        st |-> "DISPATCHING", late |-> FALSE, changed |-> FALSE]]
    <3> HIDE DEF x, a, key
    <3> QED BY <2>1 DEF x, PlanNodes
  <2> HIDE DEF x, a, key, stale, y
  <2>8. /\ y \in PlanNodes /\ y.att.st = "DISPATCHING" /\ y.state = "WAITING_REVIEW"
        /\ y.att.id = a.id + 1 /\ y.att.key = key /\ y.att.task = x.tasks /\ y.tasks = x.tasks
    <3> DEFINE b == [id |-> a.id + 1, key |-> key, task |-> x.tasks, fp |-> source,
                     st |-> "DISPATCHING", late |-> FALSE, changed |-> FALSE]
    <3>1. b \in Attempts
      <4>1. /\ x.tasks \in 0..Tries /\ key \in 0..MaxReviews
        BY <2>1, <2>5, PlanConstants
      <4> QED BY <2>5, <2>6, <4>1 DEF Attempts
    <3>2. /\ b.id = a.id + 1 /\ b.key = key /\ b.task = x.tasks /\ b.st = "DISPATCHING"
      OBVIOUS
    <3>3. y = [x EXCEPT !.state = "WAITING_REVIEW", !.att = b]
      BY <2>7
    <3> HIDE DEF b
    <3> QED BY <2>1, <2>6, <3>1, <3>2, <3>3 DEF PlanNodes
  <2>9. NodeTrue(y, review[n], task[n])
    <3>1. Keyed(y, review[n])
      BY <2>4, <2>5, <2>8 DEF Keyed
    <3>2. Followed(y, review[n])
      BY <2>1, <2>2, <2>3 DEF Followed
    <3>3. Judged(y, review[n], task[n]) /\ NewestJudged(y, task[n])
      BY <2>1, <2>8 DEF Judged, NewestJudged, NoneAfter
    <3>4. StatedTruly(y) /\ TasksKnown(y, task[n])
      BY <2>2, <2>8 DEF StatedTruly, TasksKnown
    <3> QED BY <3>1, <3>2, <3>3, <3>4 DEF NodeTrue
  <2>10. PlanFiles' /\ PlansTrue' /\ plan'.nodes[n] = y /\ plan'.cancelled = plan.cancelled
    BY <1>1, <1>2, <1>5, <2>8, <2>9, NodeWritten
  <2>11. ControlTrue' /\ Reconciles'
    <3>1. "submit" \in Awaiting /\ "submit" \notin {"poll", "polled"}
      BY DEF Awaiting
    <3> QED BY <1>1, <1>2, <1>3, <1>5, <2>8, <2>10, <3>1, StaysHere
  <2> QED BY <1>2, <2>10, <2>11, Reconciled
<1> QED BY <1>4, <1>5, Zenon DEF ReviewBegins, RecordIntent
-----------------------------------------------------------------------------
(* The awaits of a review *)

\* A reviewer starts under the key of the attempt that is being sent, or ends.
LEMMA ReviewMoved ==
  ASSUME PlanTypes, PlansTrue, NEW n \in Nodes, NEW i \in 1..MaxReviews,
         NEW r \in ReviewStates \ {"none"}, review' = [review EXCEPT ![n][i] = r],
         UNCHANGED <<plan, planDisk, task>>,
         \/ /\ review[n][i] = "none" /\ r = "running"
            /\ plan.nodes[n].att.key = i /\ plan.nodes[n].att.st = "DISPATCHING"
         \/ review[n][i] = "running" /\ r # "running"
  PROVE  PlansTrue' /\ review' \in [Nodes -> [1..MaxReviews -> ReviewStates]]
<1>1. review \in [Nodes -> [1..MaxReviews -> ReviewStates]]
  BY DEF PlanTypes, Around
<1>2. /\ review' \in [Nodes -> [1..MaxReviews -> ReviewStates]]
      /\ \A m \in Nodes \ {n} : review'[m] = review[m]
      /\ review'[n][i] = r /\ \A j \in 1..MaxReviews \ {i} : review'[n][j] = review[n][j]
  BY <1>1
<1>3. ASSUME NEW x, NodeTrue(x, review[n], task[n]),
             review[n][i] = "none" => x.att.key = i /\ x.att.st = "DISPATCHING"
      PROVE  NodeTrue(x, review'[n], task[n])
  <2>1. Keyed(x, review'[n])
    <3>1. \A j \in 1..MaxReviews : review'[n][j] # "none" =>
            review[n][j] # "none" \/ (j = i /\ x.att.key = i)
      BY <1>2, <1>3
    <3>2. \A j \in 1..MaxReviews : review[n][j] # "none" => review'[n][j] # "none"
      BY <1>2
    <3>3. Keyed(x, review[n])
      BY <1>3 DEF NodeTrue
    <3> QED BY <3>1, <3>2, <3>3 DEF Keyed
  <2>2. Followed(x, review'[n])
    BY <1>2, <1>3 DEF NodeTrue, Followed, ReviewGoes
  <2>3. Judged(x, review'[n], task[n])
    <3>1. SUFFICES ASSUME x.att.st = "PASS" PROVE review'[n][x.att.key] = "PASS"
      BY <1>3 DEF NodeTrue, Judged
    <3>2. x.att.key \in 1..MaxReviews /\ review[n][x.att.key] = "PASS"
      BY <1>3, <3>1 DEF NodeTrue, Judged, Keyed
    <3> QED BY <1>2, <1>3, <3>1, <3>2
  <2> QED BY <1>3, <2>1, <2>2, <2>3 DEF NodeTrue
<1>4. /\ NodeTrue(plan.nodes[n], review[n], task[n])
      /\ NodeTrue(planDisk.nodes[n], review[n], task[n])
      /\ Twins(plan.nodes[n], planDisk.nodes[n])
  BY DEF PlansTrue, NodesTrue
<1>5. NodeTrue(plan.nodes[n], review'[n], task[n])
  BY <1>3, <1>4
<1>6. NodeTrue(planDisk.nodes[n], review'[n], task[n])
  BY <1>3, <1>4 DEF Twins
<1>7. NodesTrue(plan)' /\ NodesTrue(planDisk)'
  <2>1. ASSUME NEW m \in Nodes
        PROVE  /\ NodeTrue(plan.nodes[m], review'[m], task[m])
               /\ NodeTrue(planDisk.nodes[m], review'[m], task[m])
    <3>1. CASE m = n
      BY <1>5, <1>6, <3>1
    <3>2. CASE m # n
      <4>1. review'[m] = review[m]
        BY <1>2, <3>2
      <4> QED BY <4>1 DEF PlansTrue, NodesTrue
    <3> QED BY <3>1, <3>2
  <2> QED BY <2>1 DEF NodesTrue
<1> QED BY <1>2, <1>7 DEF PlansTrue

\* A step of the reconciliation and its reviewer.
LEMMA ReconciledReview ==
  ASSUME PlanInv, UNCHANGED <<task, source, paused, leaseOver>>, upsets' \in 0..MaxUpsets,
         review' \in [Nodes -> [1..MaxReviews -> ReviewStates]],
         PlanFiles', PlansTrue', ControlTrue', Reconciles'
  PROVE  PlanInv'
<1>1. TasksTrue'
  BY TasksAsBefore DEF PlanInv
<1>2. Around'
  BY DEF PlanInv, PlanTypes, Around
<1> QED BY <1>1, <1>2 DEF PlanInv, PlanTypes

\* An upset is counted.
LEMMA UpsetCounted == ASSUME PlanTypes, Upset PROVE upsets' \in 0..MaxUpsets
  BY PlanConstants DEF PlanTypes, Around, Upset

\* The attempt of the node where the reconciliation awaits is marked and saved, and
\* the reconciliation goes on or awaits more.
LEMMA MarksHere ==
  ASSUME PlanInv, ctl.at \in Awaiting, NEW n, n = ctl.n, NEW m \in Marks, NEW s \in NodeStates,
         Node(n, Restate(Mark(plan.nodes[n], m), s)), Save,
         UNCHANGED <<task, review, source, paused, leaseOver>>, upsets' \in 0..MaxUpsets,
         s \in {"PENDING", "FAILED", "REWORK"} => m \notin ReviewOpen,
         plan.nodes[n].att.st \in ReviewOpen, m # "none",
         m \in ReviewGoes \/ review[n][plan.nodes[n].att.key] # "running",
         m = "PASS" => review[n][plan.nodes[n].att.key] = "PASS",
         \/ NextNode(n)
         \/ Moves("poll", n, ctl.gate) /\ m = "ACTIVE"
         \/ Moves("cancel", n, FALSE)
  PROVE  PlanInv'
<1> DEFINE x == plan.nodes[n]
           y == Restate(Mark(x, m), s)
<1>1. PlanTypes /\ TasksTrue /\ PlansTrue /\ ControlTrue /\ PlanFiles /\ Around /\ Reconciles
  BY DEF PlanInv, PlanTypes
<1>2. n \in Nodes /\ ctl.gate \in Flags
  BY <1>1 DEF Reconciles
<1>3. x \in PlanNodes /\ NodeTrue(x, review[n], task[n])
  BY <1>1, <1>2 DEF PlanFiles, PlanRecords, PlansTrue, NodesTrue
<1>4. y \in PlanNodes /\ SameAttempt(x, y) /\ y.att.st = m /\ y.state = s
  BY <1>3, Marked
<1>5. x.att.st \in ReviewOpen /\ x.att.st # "none"
      /\ (m \in ReviewGoes \/ review[n][x.att.key] # "running")
      /\ (m = "PASS" => review[n][x.att.key] = "PASS") /\ Node(n, y)
  BY DEF ReviewOpen
<1> HIDE DEF x, y
<1>6. NodeTrue(y, review[n], task[n])
  <2>1. StatedTruly(y)
    BY <1>4 DEF StatedTruly
  <2> QED BY <1>3, <1>4, <1>5, <2>1, Remarked
<1>7. PlanFiles' /\ PlansTrue' /\ plan'.nodes[n] = y /\ plan'.cancelled = plan.cancelled
  BY <1>1, <1>2, <1>4, <1>5, <1>6, NodeWritten
<1>8. ctl.at # "visit"
  BY DEF Awaiting
<1>9. ControlTrue' /\ Reconciles'
  <2>1. CASE NextNode(n)
    BY <1>1, <1>2, <1>7, <1>8, <2>1, GoesOn
  <2>2. CASE Moves("poll", n, ctl.gate) /\ m = "ACTIVE"
    <3>1. "poll" \in Awaiting /\ "poll" \notin {"submit", "answer"}
      BY DEF Awaiting
    <3> QED BY <1>1, <1>2, <1>4, <1>7, <1>8, <2>2, <3>1, StaysHere
  <2>3. CASE Moves("cancel", n, FALSE)
    <3>1. "cancel" \in Awaiting /\ "cancel" \notin {"submit", "answer", "poll", "polled"}
      BY DEF Awaiting
    <3>2. FALSE \in Flags
      BY PlanValues
    <3> QED BY <1>1, <1>2, <1>7, <1>8, <2>3, <3>1, <3>2, StaysHere
  <2> QED BY <2>1, <2>2, <2>3
<1>10. review' \in [Nodes -> [1..MaxReviews -> ReviewStates]]
  BY <1>1 DEF Around
<1> QED BY <1>7, <1>9, <1>10, ReconciledReview

\* The facts about the node at which the reconciliation stands.
LEMMA HereFacts ==
  ASSUME PlanInv
  PROVE  /\ ctl.n \in Nodes /\ plan.nodes[ctl.n] \in PlanNodes
         /\ NodeTrue(plan.nodes[ctl.n], review[ctl.n], task[ctl.n])
         /\ upsets \in 0..MaxUpsets
  BY DEF PlanInv, PlanTypes, PlanFiles, PlanRecords, Reconciles, Around, PlansTrue, NodesTrue

\* The request is sent, unless reviews were stopped during the handshake.
LEMMA KeepSubmitReview == ASSUME PlanInv, SubmitReview PROVE PlanInv'
<1> DEFINE n == ctl.n
           x == plan.nodes[n]
           i == x.att.key
<1>1. PlanTypes /\ TasksTrue /\ PlansTrue /\ ControlTrue /\ PlanFiles /\ Around /\ Reconciles
  BY DEF PlanInv, PlanTypes
<1>2. ctl.at = "submit" /\ ctl.at \in Awaiting /\ x.att.st = "DISPATCHING"
  BY <1>1 DEF SubmitReview, ControlTrue, WellPlaced, Awaiting
<1>3. n \in Nodes /\ x \in PlanNodes /\ NodeTrue(x, review[n], task[n]) /\ upsets \in 0..MaxUpsets
  BY HereFacts
<1>4. UNCHANGED <<task, source, paused, leaseOver, upsets>>
  BY DEF SubmitReview
<1>5. CASE /\ Node(n, [x EXCEPT !.att.st = "DISPATCH_BLOCKED", !.state = "BLOCKED_REVIEW"])
           /\ Save /\ NextNode(n) /\ UNCHANGED review
  <2> DEFINE m == "DISPATCH_BLOCKED"
             s == "BLOCKED_REVIEW"
  <2>1. m \in Marks /\ s \in NodeStates /\ s \notin {"PENDING", "FAILED", "REWORK"}
        /\ m # "none" /\ m \in ReviewGoes /\ m # "PASS" /\ x.att.st \in ReviewOpen
    BY <1>2, PlanValues DEF NodeStates, ReviewGoes, ReviewOpen
  <2>2. Node(n, Restate(Mark(x, m), s)) /\ Save /\ NextNode(n) /\ UNCHANGED review
    BY <1>5, Zenon DEF Restate, Mark
  <2> HIDE DEF m, s
  <2> QED BY <1>2, <1>3, <1>4, <2>1, <2>2, MarksHere
<1>6. CASE /\ \/ review[n][i] = "none" /\ review' = [review EXCEPT ![n][i] = "running"]
              \/ UNCHANGED review
           /\ Moves("answer", n, ctl.gate)
           /\ UNCHANGED <<plan, planDisk>>
  <2>1. i \in 1..MaxReviews
    BY <1>2, <1>3 DEF NodeTrue, Keyed
  <2>2. PlansTrue' /\ review' \in [Nodes -> [1..MaxReviews -> ReviewStates]]
    <3>1. CASE UNCHANGED review
      BY <1>1, <1>4, <1>6, <3>1 DEF PlansTrue, NodesTrue, Around
    <3>2. CASE review[n][i] = "none" /\ review' = [review EXCEPT ![n][i] = "running"]
      <4> DEFINE r == "running"
      <4>1. r \in ReviewStates \ {"none"}
        BY DEF ReviewStates
      <4>2. review' = [review EXCEPT ![n][i] = r] /\ r = "running"
        BY <3>2
      <4> HIDE DEF r
      <4> QED BY <1>1, <1>2, <1>3, <1>4, <1>6, <2>1, <3>2, <4>1, <4>2, ReviewMoved
    <3> QED BY <1>6, <3>1, <3>2
  <2>3. PlanFiles'
    BY <1>1, <1>6 DEF PlanFiles
  <2>4. ControlTrue' /\ Reconciles'
    <3>1. "answer" \in Awaiting /\ "answer" \notin {"poll", "polled"} /\ ctl.at # "visit"
      BY <1>2 DEF Awaiting
    <3>2. ctl.gate \in Flags
      BY <1>1 DEF Reconciles
    <3> QED BY <1>1, <1>2, <1>4, <1>6, <3>1, <3>2, StaysHere
  <2> QED BY <1>3, <1>4, <2>2, <2>3, <2>4, ReconciledReview
<1> QED BY <1>5, <1>6, Zenon DEF SubmitReview

\* The answer to the request: accepted, lost, or refused.
LEMMA KeepReviewAnswered == ASSUME PlanInv, ReviewAnswered PROVE PlanInv'
<1> DEFINE n == ctl.n
           x == plan.nodes[n]
<1>1. PlanTypes /\ ControlTrue
  BY DEF PlanInv
<1>2. ctl.at = "answer" /\ ctl.at \in Awaiting /\ x.att.st = "DISPATCHING"
  BY <1>1 DEF ReviewAnswered, ControlTrue, WellPlaced, Awaiting
<1>3. n \in Nodes /\ x \in PlanNodes /\ NodeTrue(x, review[n], task[n]) /\ upsets \in 0..MaxUpsets
  BY HereFacts
<1>4. UNCHANGED <<task, review, source, paused, leaseOver>> /\ x.att.st \in ReviewOpen
  BY <1>2 DEF ReviewAnswered, ReviewOpen
<1>5. CASE Node(n, [x EXCEPT !.att.st = "ACTIVE"]) /\ Save /\ Moves("poll", n, ctl.gate) /\ UNCHANGED upsets
  <2> DEFINE m == "ACTIVE"
             s == x.state
  <2>1. m \in Marks /\ s \in NodeStates /\ m # "none" /\ m \in ReviewGoes /\ m # "PASS"
    BY <1>3, PlanValues DEF PlanNodes, ReviewGoes
  <2>2. s \notin {"PENDING", "FAILED", "REWORK"}
    BY <1>3, <1>4 DEF NodeTrue, StatedTruly
  <2>3. [x EXCEPT !.att.st = m] = Restate(Mark(x, m), s)
    <3>1. Mark(x, m) \in PlanNodes /\ Mark(x, m).state = s
      BY <1>3, <2>1, MarkedOnly
    <3>2. Restate(Mark(x, m), s) = Mark(x, m)
      <4> DEFINE z == Mark(x, m)
      <4>1. z \in PlanNodes /\ z.state = s
        BY <3>1
      <4> HIDE DEF z, s
      <4>2. [z EXCEPT !.state = s] = z
        BY <4>1 DEF PlanNodes
      <4> QED BY <4>2 DEF Restate, z
    <3> QED BY <3>2 DEF Mark
  <2>4. Node(n, Restate(Mark(x, m), s)) /\ Save /\ Moves("poll", n, ctl.gate) /\ m = "ACTIVE"
    BY <1>5, <2>3
  <2>5. upsets' \in 0..MaxUpsets
    BY <1>3, <1>5
  <2> HIDE DEF m, s
  <2> QED BY <1>2, <1>3, <1>4, <2>1, <2>2, <2>4, <2>5, MarksHere
<1>6. CASE /\ Upset
           /\ Node(n, [x EXCEPT !.att.st = "DISPATCHING", !.state = "WAITING_REVIEW_RECOVERY"])
           /\ Save /\ NextNode(n)
  <2> DEFINE m == "DISPATCHING"
             s == "WAITING_REVIEW_RECOVERY"
  <2>1. m \in Marks /\ s \in NodeStates /\ s \notin {"PENDING", "FAILED", "REWORK"}
        /\ m # "none" /\ m \in ReviewGoes /\ m # "PASS"
    BY PlanValues DEF NodeStates, ReviewGoes
  <2>2. Node(n, Restate(Mark(x, m), s)) /\ Save /\ NextNode(n)
    BY <1>6, Zenon DEF Restate, Mark
  <2>3. upsets' \in 0..MaxUpsets
    BY <1>1, <1>6, UpsetCounted
  <2> HIDE DEF m, s
  <2> QED BY <1>2, <1>3, <1>4, <2>1, <2>2, <2>3, MarksHere
<1>7. CASE /\ Node(n, [x EXCEPT !.att.st = "DISPATCH_BLOCKED", !.state = "BLOCKED_REVIEW"])
           /\ Save /\ NextNode(n) /\ (Upset \/ UNCHANGED upsets)
  <2> DEFINE m == "DISPATCH_BLOCKED"
             s == "BLOCKED_REVIEW"
  <2>1. m \in Marks /\ s \in NodeStates /\ s \notin {"PENDING", "FAILED", "REWORK"}
        /\ m # "none" /\ m \in ReviewGoes /\ m # "PASS"
    BY PlanValues DEF NodeStates, ReviewGoes
  <2>2. Node(n, Restate(Mark(x, m), s)) /\ Save /\ NextNode(n)
    BY <1>7, Zenon DEF Restate, Mark
  <2>3. upsets' \in 0..MaxUpsets
    BY <1>1, <1>3, <1>7, UpsetCounted
  <2> HIDE DEF m, s
  <2> QED BY <1>2, <1>3, <1>4, <2>1, <2>2, <2>3, MarksHere
<1> QED BY <1>5, <1>6, <1>7, Zenon DEF ReviewAnswered

\* A review past its deadline is blocked before its reviewer is cancelled.
LEMMA KeepTimeout ==
  ASSUME PlanInv, ctl.at \in {"poll", "polled"}, TimeoutReview(ctl.n, "cancel"), UNCHANGED outside
  PROVE  PlanInv'
<1> DEFINE n == ctl.n
           x == plan.nodes[n]
           m == "BLOCKED"
           s == "BLOCKED_REVIEW"
<1>1. ctl.at \in Awaiting /\ x.att.st = "ACTIVE"
  BY DEF PlanInv, ControlTrue, WellPlaced, Awaiting
<1>2. upsets' \in 0..MaxUpsets /\ UNCHANGED <<task, review, source, paused, leaseOver>>
  BY HereFacts DEF outside
<1>3. m \in Marks /\ s \in NodeStates /\ s \notin {"PENDING", "FAILED", "REWORK"}
      /\ m # "none" /\ m \in ReviewGoes /\ m # "PASS" /\ x.att.st \in ReviewOpen
  BY <1>1, PlanValues DEF NodeStates, ReviewGoes, ReviewOpen
<1>4. Node(n, Restate(Mark(x, m), s)) /\ Save /\ Moves("cancel", n, FALSE)
  BY Zenon DEF TimeoutReview, Blocked, Restate, Mark
<1> HIDE DEF m, s
<1> QED BY <1>1, <1>2, <1>3, <1>4, MarksHere

\* One poll.
LEMMA KeepPollReview == ASSUME PlanInv, PollReview PROVE PlanInv'
<1>1. PlanTypes /\ PlansTrue /\ ControlTrue /\ PlanFiles
  BY DEF PlanInv, PlanTypes
<1>2. ctl.at = "poll" /\ UNCHANGED outside /\ UNCHANGED task
  BY DEF PollReview, outside
<1>3. ctl.n \in Nodes /\ ctl.gate \in Flags /\ plan.nodes[ctl.n].att.st = "ACTIVE"
  BY <1>1, <1>2 DEF PlanTypes, Reconciles, ControlTrue, WellPlaced
<1>4. CASE TimeoutReview(ctl.n, "cancel")
  BY <1>2, <1>4, KeepTimeout
<1>5. CASE (NextNode(ctl.n) \/ Moves("polled", ctl.n, ctl.gate)) /\ UNCHANGED <<plan, planDisk>>
  <2>1. PlansTrue' /\ PlanFiles'
    BY <1>1, <1>2, <1>5 DEF PlansTrue, NodesTrue, PlanFiles, outside
  <2>2. ControlTrue' /\ Reconciles'
    <3>1. ctl.at \in {"visit"} \cup Awaiting /\ ctl.at # "visit"
      BY <1>2 DEF Awaiting
    <3>2. CASE NextNode(ctl.n)
      BY <1>1, <1>2, <1>5, <3>1, <3>2, GoesOn
    <3>3. CASE Moves("polled", ctl.n, ctl.gate)
      <4>1. "polled" \in Awaiting /\ "polled" \notin {"submit", "answer"}
        BY DEF Awaiting
      <4> QED BY <1>1, <1>2, <1>3, <1>5, <3>1, <3>3, <4>1, StaysHere
    <3> QED BY <1>5, <3>2, <3>3
  <2> QED BY <1>2, <2>1, <2>2, Reconciled
<1> QED BY <1>4, <1>5, Zenon DEF PollReview

\* A poll that fails blocks the review, whether or not its reviewer runs.
LEMMA KeepPollFails == ASSUME PlanInv, PollFails PROVE PlanInv'
<1> DEFINE n == ctl.n
           x == plan.nodes[n]
           m == "BLOCKED"
           s == "BLOCKED_REVIEW"
<1>1. PlanTypes /\ ctl.at \in {"poll", "polled"}
  BY DEF PlanInv, PollFails
<1>2. ctl.at \in Awaiting /\ x.att.st = "ACTIVE" /\ x.att.st \in ReviewOpen
  BY <1>1 DEF PlanInv, ControlTrue, WellPlaced, Awaiting, ReviewOpen
<1>3. upsets' \in 0..MaxUpsets /\ UNCHANGED <<task, review, source, paused, leaseOver>>
  BY <1>1, UpsetCounted DEF PollFails
<1>4. m \in Marks /\ s \in NodeStates /\ s \notin {"PENDING", "FAILED", "REWORK"}
      /\ m # "none" /\ m \in ReviewGoes /\ m # "PASS"
  BY PlanValues DEF NodeStates, ReviewGoes
<1>5. Node(n, Restate(Mark(x, m), s)) /\ Save /\ NextNode(n)
  BY Zenon DEF PollFails, Restate, Mark
<1> HIDE DEF m, s
<1> QED BY <1>2, <1>3, <1>4, <1>5, MarksHere

\* A decision is taken over, unless the reviewed files changed or the answer is none.
LEMMA KeepReviewDecided == ASSUME PlanInv, ReviewDecided PROVE PlanInv'
<1> DEFINE n == ctl.n
           x == plan.nodes[n]
           r == review[n][x.att.key]
<1>1. ctl.at = "polled" /\ UNCHANGED outside
  BY DEF ReviewDecided
<1>2. ctl.at \in Awaiting /\ x.att.st = "ACTIVE" /\ x.att.st \in ReviewOpen
  BY <1>1 DEF PlanInv, ControlTrue, WellPlaced, Awaiting, ReviewOpen
<1>3. upsets' \in 0..MaxUpsets /\ UNCHANGED <<task, review, source, paused, leaseOver>>
  BY <1>1, HereFacts DEF outside
<1>4. ASSUME NEW m, NEW s, m \in {"BLOCKED", "STALE"} \/ (m = r /\ r \in Decisions),
             s \in {"BLOCKED_REVIEW", "STALE", "STABLE", "REWORK", "WAITING_REVIEW"},
             Node(n, [x EXCEPT !.att.st = m, !.state = s]), Save, NextNode(n),
             m = "STALE" => r \in Decisions
      PROVE  PlanInv'
  <2>1. m \in Marks /\ s \in NodeStates /\ m \notin ReviewOpen /\ m # "none"
    BY <1>4, PlanValues DEF NodeStates, ReviewOpen, Decisions
  <2>2. m \in ReviewGoes \/ r # "running"
    BY <1>4 DEF ReviewGoes, Decisions
  <2>3. m = "PASS" => r = "PASS"
    BY <1>4
  <2>4. Node(n, Restate(Mark(x, m), s))
    BY <1>4, Zenon DEF Restate, Mark
  <2> QED BY <1>2, <1>3, <1>4, <2>1, <2>2, <2>3, <2>4, MarksHere
<1>5. CASE TimeoutReview(n, "cancel")
  BY <1>1, <1>5, KeepTimeout
<1>6. CASE /\ Node(n, [x EXCEPT !.att.st = "BLOCKED", !.state = "BLOCKED_REVIEW"])
           /\ Save /\ NextNode(n)
  <2> DEFINE m == "BLOCKED"
             s == "BLOCKED_REVIEW"
  <2>1. m \in {"BLOCKED", "STALE"} /\ m # "STALE"
        /\ s \in {"BLOCKED_REVIEW", "STALE", "STABLE", "REWORK", "WAITING_REVIEW"}
    OBVIOUS
  <2>2. Node(n, [x EXCEPT !.att.st = m, !.state = s]) /\ Save /\ NextNode(n)
    BY <1>6, Zenon
  <2> HIDE DEF m, s
  <2> QED BY <1>4, <2>1, <2>2
<1>7. CASE /\ r \in Decisions
           /\ Node(n, [x EXCEPT !.att.st = "STALE", !.state = "STALE"])
           /\ Save /\ NextNode(n)
  <2> DEFINE m == "STALE"
             s == "STALE"
  <2>1. m \in {"BLOCKED", "STALE"}
        /\ s \in {"BLOCKED_REVIEW", "STALE", "STABLE", "REWORK", "WAITING_REVIEW"}
    OBVIOUS
  <2>2. Node(n, [x EXCEPT !.att.st = m, !.state = s]) /\ Save /\ NextNode(n)
    BY <1>7, Zenon
  <2> HIDE DEF m, s
  <2> QED BY <1>4, <1>7, <2>1, <2>2
<1>8. CASE /\ r \in Decisions
           /\ Node(n, [x EXCEPT !.att.st = r,
                                !.state = IF r = "PASS" /\ ctl.gate /\ CanReview THEN "STABLE"
                                          ELSE IF r = "REWORK" THEN "REWORK" ELSE "WAITING_REVIEW"])
           /\ Save /\ NextNode(n)
  <2> DEFINE m == r
             s == IF r = "PASS" /\ ctl.gate /\ CanReview THEN "STABLE"
                  ELSE IF r = "REWORK" THEN "REWORK" ELSE "WAITING_REVIEW"
  <2>1. m = r /\ m # "STALE"
        /\ s \in {"BLOCKED_REVIEW", "STALE", "STABLE", "REWORK", "WAITING_REVIEW"}
    BY <1>8 DEF Decisions
  <2>2. Node(n, [x EXCEPT !.att.st = m, !.state = s]) /\ Save /\ NextNode(n)
    BY <1>8, Zenon
  <2> HIDE DEF m, s
  <2> QED BY <1>4, <1>8, <2>1, <2>2
<1> QED BY <1>5, <1>6, <1>7, <1>8, Zenon DEF ReviewDecided
-----------------------------------------------------------------------------
(* The beginning and the end of a reconciliation *)

\* Outside a reconciliation nothing is said of where it stands.
LEMMA Rests ==
  ASSUME ctl'.at \in {"boot", "idle", "expire"}
  PROVE  ControlTrue'
<1>1. ctl'.at \notin Underway /\ ctl'.at \notin {"submit", "answer", "poll", "polled", "dispatch"}
  BY DEF Underway, Awaiting
<1> QED BY <1>1 DEF ControlTrue, WellPlaced, Noticed, Ahead

\* The idle controller.
LEMMA IdleStands == Idle \in [at : Places, n : Nodes, gate : Flags, busy : Flags]
<1>1. 1 \in Nodes /\ "idle" \in Places
  BY PlanConstants DEF Nodes, Places
<1> QED BY <1>1, PlanValues DEF Idle

\* A reviewer is cancelled when its attempt is over.
LEMMA KeepCancelReview == ASSUME PlanInv, CancelReview PROVE PlanInv'
<1> DEFINE n == ctl.n
           i == plan.nodes[n].att.key
<1>1. PlanTypes /\ TasksTrue /\ PlansTrue /\ ControlTrue /\ PlanFiles /\ Reconciles
  BY DEF PlanInv, PlanTypes
<1>2. n \in Nodes /\ plan.nodes[n] \in PlanNodes /\ upsets \in 0..MaxUpsets
  BY HereFacts
<1>3. ctl.at \in {"expire", "cancel"} /\ UNCHANGED <<plan, planDisk, task, source, paused, leaseOver, upsets>>
  BY DEF CancelReview
<1>4. i \in 0..MaxReviews
  BY <1>2 DEF PlanNodes, Attempts
<1>5. PlansTrue' /\ review' \in [Nodes -> [1..MaxReviews -> ReviewStates]]
  <2>1. CASE UNCHANGED review
    BY <1>1, <1>3, <2>1 DEF PlansTrue, NodesTrue, PlanTypes, Around
  <2>2. CASE review[n][i] = "running" /\ review' = [review EXCEPT ![n][i] = "cancelled"]
    <3>1. CASE i \in 1..MaxReviews
      <4> DEFINE r == "cancelled"
      <4>1. r \in ReviewStates \ {"none"} /\ r # "running"
        BY DEF ReviewStates
      <4>2. review' = [review EXCEPT ![n][i] = r]
        BY <2>2
      <4> HIDE DEF r
      <4> QED BY <1>1, <1>2, <1>3, <2>2, <3>1, <4>1, <4>2, ReviewMoved
    <3>2. CASE i = 0
      <4>1. review \in [Nodes -> [1..MaxReviews -> ReviewStates]] /\ 0 \notin 1..MaxReviews
        BY <1>1 DEF PlanTypes, Around
      <4>2. UNCHANGED review
        BY <1>2, <2>2, <3>2, <4>1
      <4> QED BY <2>1, <4>2
    <3> QED BY <1>4, <3>1, <3>2
  <2> QED BY <2>1, <2>2, Zenon DEF CancelReview
<1>6. PlanFiles'
  BY <1>1, <1>3 DEF PlanFiles
<1>7. ControlTrue' /\ Reconciles'
  <2>1. CASE ctl.at = "expire"
    <3>1. Moves("boot", 1, FALSE)
      BY <2>1 DEF CancelReview
    <3>2. "boot" \in Places /\ 1 \in Nodes /\ FALSE \in Flags
      <4>1. "boot" \in Places /\ 1 \in Nodes
        BY PlanConstants DEF Places, Nodes
      <4> QED BY <4>1, PlanValues
    <3>3. Reconciles' /\ ctl'.at = "boot"
      BY <1>1, <3>1, <3>2, Moved
    <3> QED BY <3>3, Rests
  <2>2. CASE ctl.at = "cancel"
    <3>1. NextNode(n)
      BY <2>2 DEF CancelReview
    <3>2. ctl.at \in Awaiting /\ ctl.at # "visit"
      BY <2>2 DEF Awaiting
    <3> QED BY <1>1, <1>3, <3>1, <3>2, GoesOn
  <2> QED BY <1>3, <2>1, <2>2
<1>8. upsets' \in 0..MaxUpsets
  BY <1>2, <1>3
<1> QED BY <1>3, <1>5, <1>6, <1>7, <1>8, ReconciledReview

\* A reconciliation begins, with the review that has expired or at the first node.
LEMMA KeepWakes == ASSUME PlanInv, Wakes PROVE PlanInv'
<1>1. PlanTypes /\ TasksTrue /\ PlansTrue /\ ControlTrue /\ PlanFiles /\ Reconciles
  BY DEF PlanInv, PlanTypes
<1>2. ctl.at \in {"boot", "idle"} /\ UNCHANGED outside /\ UNCHANGED <<task, review>>
  BY DEF Wakes, outside
<1>3. ASSUME NEW n \in Nodes, Expired(n), TimeoutReview(n, "expire") PROVE PlanInv'
  <2> DEFINE x == plan.nodes[n]
             m == "BLOCKED"
             s == "BLOCKED_REVIEW"
             y == Restate(Mark(x, m), s)
  <2>1. m \in Marks /\ s \in NodeStates /\ s \notin {"PENDING", "FAILED", "REWORK"}
        /\ m # "none" /\ m \in ReviewGoes /\ m # "PASS" /\ m \notin ReviewOpen /\ x.att.st # "none"
    BY <1>3, PlanValues DEF NodeStates, ReviewGoes, ReviewOpen, Expired
  <2>2. x \in PlanNodes /\ NodeTrue(x, review[n], task[n])
    BY <1>1 DEF PlanFiles, PlanRecords, PlansTrue, NodesTrue
  <2>3. Node(n, y) /\ Save /\ Moves("expire", n, FALSE)
    BY <1>3, Zenon DEF TimeoutReview, Blocked, Restate, Mark
  <2> HIDE DEF m, s, x
  <2>4. y \in PlanNodes /\ SameAttempt(x, y) /\ y.att.st = m /\ y.state = s
    BY <2>1, <2>2, Marked
  <2> HIDE DEF y
  <2>5. NodeTrue(y, review[n], task[n])
    <3>1. StatedTruly(y)
      BY <2>1, <2>4 DEF StatedTruly
    <3> QED BY <2>1, <2>2, <2>4, <3>1, Remarked
  <2>6. PlanFiles' /\ PlansTrue'
    BY <1>1, <1>2, <2>3, <2>4, <2>5, NodeWritten
  <2>7. Reconciles' /\ ctl'.at = "expire"
    <3>1. "expire" \in Places
      BY DEF Places
    <3> QED BY <1>1, <2>3, <3>1, PlanValues, Moved
  <2>8. ControlTrue'
    BY <2>7, Rests
  <2> QED BY <1>2, <2>6, <2>7, <2>8, Reconciled
<1>4. CASE /\ ctl' = [at |-> "visit", n |-> 1, gate |-> FALSE, busy |-> AnyLive]
           /\ UNCHANGED <<plan, planDisk>>
  <2>1. PlansTrue' /\ PlanFiles'
    BY <1>1, <1>2, <1>4 DEF PlansTrue, NodesTrue, PlanFiles
  <2>2. AnyLive \in Flags
    BY Zenon DEF AnyLive, Flags
  <2>3. Reconciles'
    <3>1. 1 \in Nodes /\ "visit" \in Places
      BY PlanConstants DEF Nodes, Places, Underway
    <3> QED BY <1>4, <2>2, <3>1, PlanValues DEF Reconciles
  <2>4. ctl'.at = "visit" /\ ctl'.n = 1 /\ (ctl'.busy <=> AnyLive)
    <3>1. ctl'.at = "visit" /\ ctl'.n = 1 /\ ctl'.busy = AnyLive
      BY <1>4, Zenon
    <3> QED BY <3>1, Zenon
  <2>5. AnyLive' <=> AnyLive
    BY <1>2 DEF AnyLive
  <2>6. WellPlaced'
    BY <2>4, <2>5 DEF WellPlaced
  <2>7. Noticed'
    BY <2>4 DEF Noticed, Ahead, Nodes
  <2> QED BY <1>2, <2>1, <2>3, <2>6, <2>7, Reconciled DEF ControlTrue
<1> QED BY <1>3, <1>4, Zenon DEF Wakes

\* A PASS that was given to other files is withdrawn; the nodes stay true.
LEMMA WithdrawnTrue ==
  ASSUME PlanTypes, PlansTrue
  PROVE  \A n \in Nodes : Withdrawn[n] \in PlanNodes /\ NodeTrue(Withdrawn[n], review[n], task[n])
<1> SUFFICES ASSUME NEW n \in Nodes
             PROVE  Withdrawn[n] \in PlanNodes /\ NodeTrue(Withdrawn[n], review[n], task[n])
  OBVIOUS
<1> DEFINE x == plan.nodes[n]
           m == "STALE"
           s == "STALE"
           y == Restate(Mark(x, m), s)
<1>1. x \in PlanNodes /\ NodeTrue(x, review[n], task[n])
  BY DEF PlanTypes, PlanFiles, PlanRecords, PlansTrue, NodesTrue
<1>2. Withdrawn[n] = x \/ (Withdrawn[n] = y /\ x.att.st = "PASS")
  <2>1. Withdrawn[n] = IF x.att.st = "PASS" /\ ~SameSource(x.att) /\ (n = Last \/ plan.nodes[n + 1].tasks = 0)
                       THEN [x EXCEPT !.att.st = "STALE", !.state = "STALE"] ELSE x
    BY DEF Withdrawn
  <2>2. y = [x EXCEPT !.att.st = "STALE", !.state = "STALE"]
    BY Zenon DEF Restate, Mark
  <2> QED BY <2>1, <2>2, Zenon
<1>3. m \in Marks /\ s \in NodeStates /\ s \notin {"PENDING", "FAILED", "REWORK"} /\ m # "none"
      /\ m # "PASS" /\ m \notin ReviewOpen
  BY PlanValues DEF NodeStates, ReviewOpen
<1> HIDE DEF x, m, s
<1>4. y \in PlanNodes /\ SameAttempt(x, y) /\ y.att.st = m /\ y.state = s
  BY <1>1, <1>3, Marked
<1> HIDE DEF y
<1>5. x.att.st = "PASS" => NodeTrue(y, review[n], task[n])
  <2>1. SUFFICES ASSUME x.att.st = "PASS" PROVE NodeTrue(y, review[n], task[n])
    OBVIOUS
  <2>2. StatedTruly(y)
    BY <1>3, <1>4 DEF StatedTruly
  <2>3. x.att.st \notin ReviewGoes /\ x.att.st # "none"
    BY <2>1 DEF ReviewGoes
  <2> QED BY <1>1, <1>3, <1>4, <2>2, <2>3, Remarked
<1> QED BY <1>1, <1>2, <1>4, <1>5

\* The first of some nodes is one of them.
LEMMA FirstIsOne == ASSUME NEW S \in SUBSET Nodes, S # {} PROVE First(S) \in S
<1>1. S \subseteq Nat
  BY DEF Nodes
<1>2. PICK n \in S : \A m \in S : ~ (<<m, n>> \in OpToRel(<, Nat))
  BY <1>1, NatLessThanWellFounded, WFMin
<1>3. ASSUME NEW m \in S PROVE n <= m
  <2>1. ~(m < n)
    BY <1>1, <1>2, <1>3 DEF OpToRel
  <2>2. n \in Nat /\ m \in Nat
    BY <1>1, <1>2, <1>3
  <2> QED BY <2>1, <2>2
<1> QED BY <1>2, <1>3, Zenon DEF First

\* Withdrawal, and the choice of the node to dispatch.
LEMMA KeepSelects == ASSUME PlanInv, Selects PROVE PlanInv'
<1> DEFINE ready == {n \in Nodes : Eligible(n, Withdrawn[n])}
<1>1. PlanTypes /\ TasksTrue /\ PlansTrue /\ ControlTrue /\ PlanFiles /\ Reconciles
  BY DEF PlanInv, PlanTypes
<1>2. /\ ctl.at = "select" /\ UNCHANGED outside /\ UNCHANGED <<task, review>>
      /\ planDisk' = plan'
      /\ plan' = plan \/ plan' = [plan EXCEPT !.nodes = Withdrawn]
  BY DEF Selects, outside, Save
<1>3. /\ plan' \in PlanRecords /\ plan'.cancelled = plan.cancelled
      /\ \A n \in Nodes : NodeTrue(plan'.nodes[n], review[n], task[n])
  <2>1. CASE plan' = plan
    BY <1>1, <2>1 DEF PlanFiles, PlansTrue, NodesTrue
  <2>2. CASE plan' = [plan EXCEPT !.nodes = Withdrawn]
    <3>1. plan'.nodes = Withdrawn /\ plan'.cancelled = plan.cancelled
      BY <1>1, <2>2 DEF PlanFiles, PlanRecords
    <3>2. \A n \in Nodes : Withdrawn[n] \in PlanNodes /\ NodeTrue(Withdrawn[n], review[n], task[n])
      BY <1>1, WithdrawnTrue
    <3>3. Withdrawn \in [Nodes -> PlanNodes]
      <4>1. Withdrawn = [n \in Nodes |-> Withdrawn[n]]
        BY Zenon DEF Withdrawn
      <4> QED BY <3>2, <4>1
    <3>4. plan' \in PlanRecords
      BY <1>1, <2>2, <3>3 DEF PlanFiles, PlanRecords
    <3> QED BY <3>1, <3>2, <3>4
  <2> QED BY <1>2, <2>1, <2>2
<1>4. PlanFiles' /\ PlansTrue'
  <2>1. \A n \in Nodes : Twins(plan'.nodes[n], planDisk'.nodes[n])
    BY <1>2 DEF Twins
  <2> QED BY <1>2, <1>3, <2>1 DEF PlanFiles, PlansTrue, NodesTrue
<1>5. CASE ctl' = Idle
  <2>1. Reconciles' /\ ctl'.at = "idle"
    BY <1>5, IdleStands DEF Reconciles, Idle
  <2>2. ControlTrue'
    BY <2>1, Rests
  <2> QED BY <1>2, <1>4, <2>1, <2>2, Reconciled
<1>6. CASE /\ plan' = [plan EXCEPT !.nodes = Withdrawn]
           /\ ~plan.cancelled /\ ~ctl.busy /\ ready # {} /\ Moves("dispatch", First(ready), FALSE)
  <2> DEFINE n == First(ready)
  <2>1. n \in Nodes /\ Eligible(n, Withdrawn[n]) /\ plan'.nodes[n] = Withdrawn[n]
    <3>1. ready \in SUBSET Nodes
      OBVIOUS
    <3>2. n \in ready
      <4> HIDE DEF ready
      <4> QED BY <1>6, <3>1, FirstIsOne
    <3>3. plan'.nodes = Withdrawn
      BY <1>1, <1>6 DEF PlanFiles, PlanRecords
    <3> HIDE DEF n
    <3> QED BY <3>2, <3>3
  <2> HIDE DEF n
  <2>2. "dispatch" \in Places /\ "dispatch" \notin Awaiting
    BY DEF Places, Underway, Awaiting
  <2>3. Reconciles' /\ ctl'.at = "dispatch" /\ ctl'.n = n /\ ctl'.busy = ctl.busy
    BY <1>1, <1>6, <2>1, <2>2, PlanValues, Moved DEF n
  <2>4. /\ plan'.nodes[n].tasks < Tries
        /\ plan'.nodes[n].state \in {"PENDING", "FAILED", "REWORK"}
    <3>1. Tries > 0
      BY PlanConstants
    <3> HIDE DEF n
    <3> QED BY <2>1, <3>1 DEF Eligible
  <2>5. Sendable(plan'.nodes[n])
    BY <1>3, <2>1, <2>4 DEF NodeTrue, StatedTruly, Sendable
  <2>6. ~AnyLive
    BY <1>1, <1>2, <1>6 DEF ControlTrue, WellPlaced, Underway
  <2>7. WellPlaced'
    BY <1>2, <1>6, <2>3, <2>4, <2>5, <2>6 DEF WellPlaced, AnyLive
  <2>8. Noticed'
    <3>1. SUFFICES ASSUME NEW c \in Nodes, NEW k \in 1..Tries, task[c][k] = "cancelled" PROVE FALSE
      BY <1>2 DEF Noticed
    <3>2. Ahead(c)
      BY <1>1, <1>6, <3>1 DEF ControlTrue, Noticed
    <3> QED BY <1>2, <3>2 DEF Ahead, Awaiting
  <2> QED BY <1>2, <1>4, <2>3, <2>7, <2>8, Reconciled DEF ControlTrue
<1> QED BY <1>5, <1>6, Zenon DEF Selects

\* A step that makes the controller idle.
LEMMA Idles ==
  ASSUME PlanInv, UNCHANGED <<task, review, source, paused, leaseOver, upsets>>, ctl' = Idle,
         PlanFiles', PlansTrue'
  PROVE  PlanInv'
<1>1. Reconciles' /\ ctl'.at = "idle"
  BY IdleStands DEF Reconciles, Idle
<1>2. ControlTrue'
  BY <1>1, Rests
<1>3. UNCHANGED outside
  BY DEF outside
<1> QED BY <1>1, <1>2, <1>3, Reconciled

\* What was dispatched is made durable.
LEMMA KeepHandsOff == ASSUME PlanInv, HandsOff PROVE PlanInv'
<1>1. planDisk' = plan /\ ctl' = Idle /\ UNCHANGED plan
      /\ UNCHANGED <<task, review, source, paused, leaseOver, upsets>>
  BY DEF HandsOff, outside
<1>2. PlanFiles' /\ PlansTrue'
  <2>1. \A n \in Nodes : Twins(plan.nodes[n], plan.nodes[n])
    BY DEF Twins
  <2> QED BY <1>1, <2>1 DEF PlanInv, PlanTypes, PlanFiles, PlansTrue, NodesTrue
<1> QED BY <1>1, <1>2, Idles

\* A node stays true when a task that none was becomes queued, if the attempt is over.
LEMMA TaskAdded ==
  ASSUME NEW x, NEW y, NEW rv, NEW tk, NEW uk, NEW k \in 1..Tries, NodeTrue(x, rv, tk),
         y.att = x.att, y.tasks \in {x.tasks, k}, StatedTruly(y), Sendable(y), x.tasks < k,
         x.tasks \in Nat, y.tasks = k => k = x.tasks + 1,
         \A j \in 1..Tries : uk[j] = IF j = k /\ tk[k] = "none" THEN "queued" ELSE tk[j]
  PROVE  NodeTrue(y, rv, uk)
<1>1. Keyed(y, rv) /\ Followed(y, rv)
  BY DEF NodeTrue, Keyed, Followed
<1>2. Judged(y, rv, uk)
  BY DEF NodeTrue, Judged
<1>3. NewestJudged(y, uk)
  BY DEF NewestJudged, Sendable
<1>4. TasksKnown(y, uk)
  <2>1. \A j \in 1..Tries : tk[j] # "none" \/ j = k => uk[j] # "none"
    OBVIOUS
  <2>2. \A j \in 1..Tries : j <= y.tasks => j <= x.tasks \/ j = k
    BY PlanConstants
  <2> QED BY <2>1, <2>2 DEF NodeTrue, TasksKnown
<1> QED BY <1>1, <1>2, <1>3, <1>4 DEF NodeTrue

\* The node is submitted, under the key of its next task.
LEMMA KeepDispatchNode == ASSUME PlanInv, DispatchNode PROVE PlanInv'
<1> DEFINE n == ctl.n
           x == plan.nodes[n]
           d == planDisk.nodes[n]
           k == x.tasks + 1
           y == [x EXCEPT !.tasks = k, !.state = "ACTIVE"]
<1>1. PlanTypes /\ TasksTrue /\ PlansTrue /\ ControlTrue /\ PlanFiles /\ Reconciles /\ Around
  BY DEF PlanInv, PlanTypes
<1>2. ctl.at = "dispatch" /\ UNCHANGED <<planDisk, review, source, paused, leaseOver, upsets>>
  BY DEF DispatchNode
<1>3. n \in Nodes /\ x \in PlanNodes /\ NodeTrue(x, review[n], task[n])
      /\ d \in PlanNodes /\ NodeTrue(d, review[n], task[n]) /\ Twins(x, d)
  BY <1>1, HereFacts DEF PlansTrue, NodesTrue, PlanFiles, PlanRecords
<1>4. CASE ctl' = Idle /\ UNCHANGED <<plan, task>>
  <2>1. PlanFiles' /\ PlansTrue'
    BY <1>1, <1>2, <1>4 DEF PlanFiles, PlansTrue, NodesTrue
  <2> QED BY <1>2, <1>4, <2>1, Idles
<1>5. CASE /\ CanReview
           /\ task' = [task EXCEPT ![n][k] = IF @ = "none" THEN "queued" ELSE @]
           /\ Node(n, y) /\ Moves("handoff", n, FALSE)
  <2>1. x.tasks < Tries /\ Sendable(x) /\ Sendable(d) /\ ~ctl.busy
    BY <1>1, <1>2 DEF ControlTrue, WellPlaced
  <2>2. k \in 1..Tries /\ x.tasks \in 0..Tries /\ d.tasks \in 0..Tries
    BY <1>3, <2>1, PlanConstants DEF PlanNodes
  <2>3. ~AnyLive /\ ~plan.cancelled
    BY <1>5 DEF CanReview
  <2>4. \A c \in Nodes, j \in 1..Tries : task[c][j] # "cancelled"
    <3>1. SUFFICES ASSUME NEW c \in Nodes, NEW j \in 1..Tries, task[c][j] = "cancelled" PROVE FALSE
      OBVIOUS
    <3>2. Ahead(c)
      BY <1>1, <2>1, <2>3, <3>1 DEF ControlTrue, Noticed
    <3> QED BY <1>2, <3>2 DEF Ahead, Awaiting
  <2>5. task \in [Nodes -> [1..Tries -> TaskStates]]
    BY <1>1 DEF Around
  <2>6. /\ task' \in [Nodes -> [1..Tries -> TaskStates]]
        /\ \A c \in Nodes \ {n} : task'[c] = task[c]
        /\ \A j \in 1..Tries : task'[n][j] = IF j = k /\ task[n][k] = "none" THEN "queued" ELSE task[n][j]
    <3> DEFINE q == IF task[n][k] = "none" THEN "queued" ELSE task[n][k]
    <3>1. q \in TaskStates
      BY <1>3, <2>2, <2>5 DEF TaskStates
    <3>2. task' = [task EXCEPT ![n][k] = q]
      BY <1>5
    <3>3. q = IF task[n][k] = "none" THEN "queued" ELSE task[n][k]
      OBVIOUS
    <3> HIDE DEF q, n, k
    <3> QED BY <1>3, <2>2, <2>5, <3>1, <3>2, <3>3
  <2>7. PICK m \in 0..Tries : \A j \in 1..Tries : task[n][j] # "none" <=> j <= m
    BY <1>1, <1>3 DEF TasksTrue, Numbered
  <2>8. x.tasks <= m /\ d.tasks <= m
    <3>1. \A j \in 1..Tries : j <= x.tasks => j <= m
      BY <1>3, <2>7 DEF NodeTrue, TasksKnown
    <3>2. \A j \in 1..Tries : j <= d.tasks => j <= m
      BY <1>3, <2>7 DEF NodeTrue, TasksKnown
    <3> HIDE DEF x, d
    <3> QED BY <2>2, <2>7, <3>1, <3>2, PlanConstants
  <2>9. y \in PlanNodes /\ y.att = x.att /\ y.tasks = k /\ y.state = "ACTIVE"
    <3>1. "ACTIVE" \in NodeStates /\ k \in 0..Tries
      BY <2>2, PlanConstants DEF NodeStates
    <3> HIDE DEF x, k
    <3> QED BY <1>3, <3>1 DEF PlanNodes
  <2> HIDE DEF y
  <2>10. NodeTrue(y, review[n], task'[n])
    <3>1. StatedTruly(y) /\ Sendable(y)
      BY <2>1, <2>9 DEF StatedTruly, Sendable
    <3>2. y.tasks \in {x.tasks, k} /\ x.tasks < k /\ x.tasks \in Nat /\ (y.tasks = k => k = x.tasks + 1)
      BY <2>2, <2>9, PlanConstants
    <3> HIDE DEF x, k, n
    <3> QED BY <1>3, <2>2, <2>6, <2>9, <3>1, <3>2, TaskAdded
  <2>11. NodeTrue(d, review[n], task'[n])
    <3>1. Keyed(d, review[n]) /\ Followed(d, review[n]) /\ StatedTruly(d)
      BY <1>3 DEF NodeTrue
    <3>2. Judged(d, review[n], task'[n])
      BY <1>3, <2>2, <2>6 DEF NodeTrue, Judged
    <3>3. NewestJudged(d, task'[n])
      BY <2>1 DEF NewestJudged, Sendable
    <3>4. TasksKnown(d, task'[n])
      BY <1>3, <2>6 DEF NodeTrue, TasksKnown
    <3> QED BY <3>1, <3>2, <3>3, <3>4 DEF NodeTrue
  <2>12. /\ plan' \in PlanRecords /\ plan'.nodes[n] = y
         /\ \A c \in Nodes \ {n} : plan'.nodes[c] = plan.nodes[c]
    <3> HIDE DEF x, n
    <3> QED BY <1>1, <1>3, <1>5, <2>9 DEF PlanFiles, PlanRecords, Node
  <2>13. PlanFiles'
    BY <1>1, <1>2, <2>12 DEF PlanFiles
  <2>14. PlansTrue'
    <3>1. ASSUME NEW c \in Nodes
          PROVE  /\ NodeTrue(plan'.nodes[c], review'[c], task'[c])
                 /\ NodeTrue(planDisk'.nodes[c], review'[c], task'[c])
                 /\ Twins(plan'.nodes[c], planDisk'.nodes[c])
      <4>1. CASE c = n
        <5>1. Twins(y, d)
          BY <1>3, <2>9 DEF Twins
        <5> QED BY <1>2, <2>10, <2>11, <2>12, <4>1, <5>1
      <4>2. CASE c # n
        <5>1. plan'.nodes[c] = plan.nodes[c] /\ task'[c] = task[c]
          BY <2>6, <2>12, <4>2
        <5> QED BY <1>1, <1>2, <5>1 DEF PlansTrue, NodesTrue
      <4> QED BY <4>1, <4>2
    <3> QED BY <3>1 DEF PlansTrue, NodesTrue
  <2>15. TasksTrue'
    <3> DEFINE u == IF task[n][k] = "none" THEN k ELSE m
    <3>1. u \in 0..Tries /\ \A j \in 1..Tries : task'[n][j] # "none" <=> j <= u
      <4>1. CASE task[n][k] = "none"
        <5>1. m = x.tasks
          <6> HIDE DEF x
          <6> QED BY <2>2, <2>7, <2>8, <4>1, PlanConstants
        <5>2. u = k /\ k = m + 1 /\ k \in 0..Tries
          BY <2>2, <4>1, <5>1, PlanConstants
        <5>3. \A j \in 1..Tries : task'[n][j] # "none" <=> task[n][j] # "none" \/ j = k
          BY <2>6, <4>1
        <5>4. \A j \in 1..Tries : j <= k <=> j <= m \/ j = k
          <6> HIDE DEF k
          <6> QED BY <2>7, <5>2
        <5> HIDE DEF k, n, u
        <5> QED BY <2>7, <5>2, <5>3, <5>4
      <4>2. CASE task[n][k] # "none"
        <5>1. u = m
          BY <4>2
        <5>2. \A j \in 1..Tries : task'[n][j] = task[n][j]
          BY <2>6, <4>2
        <5> HIDE DEF k, n, u
        <5> QED BY <2>7, <5>1, <5>2
      <4> QED BY <4>1, <4>2
    <3>2. Numbered'
      <4>1. \A c \in Nodes \ {n} : task'[c] = task[c]
        BY <2>6
      <4> HIDE DEF u, n
      <4> QED BY <1>1, <3>1, <4>1 DEF TasksTrue, Numbered
    <3>3. \A c \in Nodes, j \in 1..Tries : task'[c][j] \in Unended => c = n /\ j = k
      <4> HIDE DEF k, n
      <4> QED BY <2>3, <2>6 DEF AnyLive
    <3>4. \A c \in Nodes, j \in 1..Tries : task'[c][j] # "cancelled"
      <4> HIDE DEF k, n
      <4> QED BY <2>4, <2>6
    <3>5. LiveLast'
      <4>1. \A j \in 1..Tries : task'[n][k] \in Unended /\ j > k => task'[n][j] = "none"
        <5>1. task[n][k] = "none" \/ task'[n][k] \notin Unended
          <6> HIDE DEF k, n
          <6> QED BY <1>3, <2>2, <2>3, <2>6 DEF AnyLive
        <5> HIDE DEF k, n
        <5> QED BY <2>2, <3>1, <5>1, PlanConstants
      <4> HIDE DEF k, n
      <4> QED BY <3>3, <3>4, <4>1 DEF LiveLast
    <3> QED BY <3>2, <3>3, <3>4, <3>5, Zenon DEF TasksTrue, OneLives, CancelledAlone
  <2>16. Reconciles' /\ ctl'.at = "handoff"
    <3>1. "handoff" \in Places
      BY DEF Places
    <3> QED BY <1>1, <1>3, <1>5, <3>1, PlanValues, Moved
  <2>17. ControlTrue'
    <3>1. ctl'.at \notin Underway /\ ctl'.at \notin {"submit", "answer", "poll", "polled", "dispatch"}
      BY <2>16 DEF Underway, Awaiting
    <3>2. \A c \in Nodes, j \in 1..Tries : task'[c][j] # "cancelled"
      <4> HIDE DEF k, n
      <4> QED BY <2>4, <2>6
    <3> QED BY <3>1, <3>2 DEF ControlTrue, WellPlaced, Noticed
  <2>18. Around'
    BY <1>1, <1>2, <2>6 DEF Around
  <2> QED BY <2>13, <2>14, <2>15, <2>16, <2>17, <2>18 DEF PlanInv, PlanTypes
<1> QED BY <1>4, <1>5, Zenon DEF DispatchNode
-----------------------------------------------------------------------------
(* The task manager, the user and the workspace *)

\* A task that is queued or running becomes something else; no task begins to live.
LEMMA TaskMoved ==
  ASSUME PlanInv, NEW n \in Nodes, NEW k \in 1..Tries, NEW s \in TaskStates \ {"none"},
         task[n][k] \in Unended, Becomes(n, k, s), upsets' \in 0..MaxUpsets,
         UNCHANGED <<plan, planDisk, ctl, review, source, paused, leaseOver>>,
         s = "cancelled" => Awaits
  PROVE  PlanInv'
<1>1. PlanTypes /\ TasksTrue /\ PlansTrue /\ ControlTrue /\ PlanFiles /\ Reconciles /\ Around
  BY DEF PlanInv, PlanTypes
<1>2. /\ task' \in [Nodes -> [1..Tries -> TaskStates]] /\ task'[n][k] = s
      /\ \A c \in Nodes, j \in 1..Tries : (c = n /\ j = k) \/ task'[c][j] = task[c][j]
      /\ \A c \in Nodes \ {n} : task'[c] = task[c]
  BY <1>1 DEF Around, Becomes
<1>3. /\ \A c \in Nodes, j \in 1..Tries : task'[c][j] = "none" <=> task[c][j] = "none"
      /\ \A c \in Nodes, j \in 1..Tries : task'[c][j] \in Unended => task[c][j] \in Unended
      /\ \A c \in Nodes, j \in 1..Tries : task[c][j] = "completed" => task'[c][j] = "completed"
      /\ \A c \in Nodes, j \in 1..Tries : task'[c][j] = "cancelled" => c = n /\ j = k
  <2>1. \A c \in Nodes, j \in 1..Tries : task[c][j] # "cancelled"
    BY <1>1 DEF TasksTrue, CancelledAlone
  <2> QED BY <1>2, <2>1 DEF Unended
<1>4. ASSUME NEW x, NEW rv, NEW c \in Nodes, NodeTrue(x, rv, task[c]) PROVE NodeTrue(x, rv, task'[c])
  <2>1. Keyed(x, rv) /\ Followed(x, rv) /\ StatedTruly(x)
    BY <1>4 DEF NodeTrue
  <2>2. Judged(x, rv, task'[c])
    BY <1>3, <1>4 DEF NodeTrue, Judged
  <2>3. NewestJudged(x, task'[c])
    BY <1>3, <1>4 DEF NodeTrue, NewestJudged, NoneAfter
  <2>4. TasksKnown(x, task'[c])
    BY <1>3, <1>4 DEF NodeTrue, TasksKnown
  <2> QED BY <2>1, <2>2, <2>3, <2>4 DEF NodeTrue
<1>5. PlansTrue'
  BY <1>1, <1>4 DEF PlansTrue, NodesTrue
<1>6. TasksTrue'
  <2>1. Numbered'
    BY <1>1, <1>3 DEF TasksTrue, Numbered
  <2>2. OneLives'
    BY <1>1, <1>3 DEF TasksTrue, OneLives
  <2>3. CancelledAlone'
    <3>1. SUFFICES ASSUME NEW c \in Nodes, NEW j \in 1..Tries, task'[n][k] = "cancelled",
                          task'[c][j] \in Unended
                   PROVE  FALSE
      BY <1>3 DEF CancelledAlone
    <3>2. c = n /\ j = k
      BY <1>1, <1>3, <3>1 DEF TasksTrue, OneLives
    <3> QED BY <3>1, <3>2 DEF Unended
  <2>4. LiveLast'
    <3>1. SUFFICES ASSUME NEW c \in Nodes, NEW i \in 1..Tries, NEW j \in 1..Tries,
                          task'[c][i] \in Unended \cup {"cancelled"}, j > i
                   PROVE  task'[c][j] = "none"
      BY DEF LiveLast
    <3>2. task[c][i] \in Unended
      BY <1>3, <3>1
    <3> QED BY <1>1, <1>3, <3>1, <3>2 DEF TasksTrue, LiveLast
  <2> QED BY <2>1, <2>2, <2>3, <2>4 DEF TasksTrue
<1>7. AnyLive /\ (AnyLive' => AnyLive)
  BY <1>3 DEF AnyLive
<1>8. WellPlaced'
  <2>1. Sendable(plan.nodes[ctl.n])' <=> Sendable(plan.nodes[ctl.n])
    BY DEF Sendable
  <2>2. Sendable(planDisk.nodes[ctl.n])' <=> Sendable(planDisk.nodes[ctl.n])
    BY DEF Sendable
  <2> QED BY <1>1, <1>7, <2>1, <2>2 DEF ControlTrue, WellPlaced
<1>9. Noticed'
  <2>1. SUFFICES ASSUME NEW c \in Nodes, NEW j \in 1..Tries, task'[c][j] = "cancelled", ~ctl.busy
                 PROVE  ctl.at \in {"boot", "idle", "expire"}
    BY DEF Noticed, Ahead
  <2>2. Awaits
    BY <1>2, <1>3, <2>1
  <2>3. ctl.at \notin Underway
    BY <1>1, <1>7, <2>1 DEF ControlTrue, WellPlaced
  <2> QED BY <2>2, <2>3 DEF Awaits, Underway, Awaiting
<1>10. Around' /\ PlanFiles' /\ Reconciles'
  BY <1>1, <1>2 DEF Around, PlanFiles, Reconciles
<1> QED BY <1>5, <1>6, <1>8, <1>9, <1>10 DEF PlanInv, PlanTypes, ControlTrue

\* The steps of the task manager and the user's cancellation.
LEMMA KeepTasks ==
  ASSUME PlanInv, NEW n \in Nodes, NEW k \in 1..Tries,
         Pumps(n, k) \/ TaskEnds(n, k) \/ UserCancels(n, k)
  PROVE  PlanInv'
<1>1. upsets \in 0..MaxUpsets /\ PlanTypes
  BY HereFacts DEF PlanInv
<1>2. CASE Pumps(n, k)
  <2>1. PICK s \in {"running", "failed"} : Becomes(n, k, s)
    BY <1>2 DEF Pumps
  <2>2. s \in TaskStates \ {"none"} /\ s # "cancelled"
    BY DEF TaskStates
  <2>3. /\ task[n][k] \in Unended
        /\ UNCHANGED <<plan, planDisk, ctl, review, source, paused, leaseOver, upsets>>
    BY <1>2 DEF Pumps, Unended
  <2> QED BY <1>1, <2>1, <2>2, <2>3, TaskMoved
<1>3. CASE TaskEnds(n, k)
  <2>1. PICK s \in {"completed", "failed"} : Becomes(n, k, s)
    BY <1>3 DEF TaskEnds
  <2>2. s \in TaskStates \ {"none"} /\ s # "cancelled"
    BY DEF TaskStates
  <2>3. /\ task[n][k] \in Unended
        /\ UNCHANGED <<plan, planDisk, ctl, review, source, paused, leaseOver, upsets>>
    BY <1>3 DEF TaskEnds, Unended
  <2> QED BY <1>1, <2>1, <2>2, <2>3, TaskMoved
<1>4. CASE UserCancels(n, k)
  <2> DEFINE s == "cancelled"
  <2>1. Awaits /\ task[n][k] \in Unended /\ Becomes(n, k, s) /\ Upset
        /\ UNCHANGED <<plan, planDisk, ctl, review, source, paused, leaseOver>>
    BY <1>4 DEF UserCancels
  <2>2. s \in TaskStates \ {"none"}
    BY DEF TaskStates
  <2>3. upsets' \in 0..MaxUpsets
    BY <1>1, <2>1, UpsetCounted
  <2> HIDE DEF s
  <2> QED BY <2>1, <2>2, <2>3, TaskMoved
<1> QED BY <1>2, <1>3, <1>4

\* What the controller holds stays true and well placed, when what is around it moves.
LEMMA PlanStays ==
  ASSUME PlanInv, UNCHANGED <<plan, ctl, task, review>>, planDisk' \in {plan, planDisk},
         source' \in 0..MaxEdits, upsets' \in 0..MaxUpsets, paused' \in Flags, leaseOver' \in Flags
  PROVE  PlanInv'
<1>1. PlanTypes /\ TasksTrue /\ PlansTrue /\ ControlTrue /\ PlanFiles /\ Reconciles /\ Around
  BY DEF PlanInv, PlanTypes
<1>2. TasksTrue' /\ PlanFiles' /\ Reconciles' /\ Around'
  BY <1>1, TasksAsBefore DEF PlanFiles, Reconciles, Around
<1>3. PlansTrue'
  <2>1. \A n \in Nodes : Twins(plan.nodes[n], plan.nodes[n])
    BY DEF Twins
  <2> QED BY <1>1, <2>1 DEF PlansTrue, NodesTrue
<1>4. ControlTrue'
  BY <1>1 DEF ControlTrue, WellPlaced, Noticed, Ahead, AnyLive, Sendable
<1> QED BY <1>2, <1>3, <1>4 DEF PlanInv, PlanTypes

\* The user pauses or resumes, which saves the plan.
LEMMA KeepUserPauses == ASSUME PlanInv, UserPauses PROVE PlanInv'
<1>1. PlanTypes /\ source \in 0..MaxEdits /\ leaseOver \in Flags
  BY DEF PlanInv, PlanTypes, Around
<1>2. upsets' \in 0..MaxUpsets
  BY <1>1, UpsetCounted DEF UserPauses
<1>3. paused' \in Flags
  BY Zenon DEF UserPauses, Flags
<1>4. UNCHANGED <<plan, ctl, task, review>> /\ planDisk' \in {plan, planDisk}
      /\ source' \in 0..MaxEdits /\ leaseOver' \in Flags
  BY <1>1 DEF UserPauses
<1> QED BY <1>2, <1>3, <1>4, PlanStays

\* The lease of the plan ends.
LEMMA KeepLeaseEnds == ASSUME PlanInv, LeaseEnds PROVE PlanInv'
<1>1. PlanTypes /\ source \in 0..MaxEdits /\ paused \in Flags
  BY DEF PlanInv, PlanTypes, Around
<1>2. upsets' \in 0..MaxUpsets
  BY <1>1, UpsetCounted DEF LeaseEnds
<1>3. leaseOver' = TRUE
  BY Zenon DEF LeaseEnds
<1>4. UNCHANGED <<plan, ctl, task, review>> /\ planDisk' \in {plan, planDisk}
      /\ source' \in 0..MaxEdits /\ paused' \in Flags
  BY <1>1 DEF LeaseEnds
<1> QED BY <1>2, <1>3, <1>4, PlanValues, PlanStays

\* The reviewed files change.
LEMMA KeepEdits == ASSUME PlanInv, Edits PROVE PlanInv'
<1>1. source \in 0..MaxEdits /\ upsets \in 0..MaxUpsets /\ paused \in Flags /\ leaseOver \in Flags
  BY DEF PlanInv, PlanTypes, Around
<1>2. source' \in 0..MaxEdits
  BY <1>1, PlanConstants DEF Edits
<1>3. UNCHANGED <<plan, ctl, task, review>> /\ planDisk' \in {plan, planDisk}
      /\ upsets' \in 0..MaxUpsets /\ paused' \in Flags /\ leaseOver' \in Flags
  BY <1>1 DEF Edits
<1> QED BY <1>2, <1>3, PlanStays

\* A reviewer gives its decision, or fails.
LEMMA KeepReviewerEnds ==
  ASSUME PlanInv, NEW n \in Nodes, NEW i \in 1..MaxReviews, ReviewerEnds(n, i) PROVE PlanInv'
<1>1. PlanTypes /\ TasksTrue /\ PlansTrue /\ ControlTrue /\ PlanFiles /\ Reconciles /\ Around
  BY DEF PlanInv, PlanTypes
<1>2. review[n][i] = "running" /\ UNCHANGED <<plan, planDisk, ctl, task, source, paused, leaseOver, upsets>>
  BY DEF ReviewerEnds
<1>3. PICK r \in Decisions \cup {"failed"} : review' = [review EXCEPT ![n][i] = r]
  BY DEF ReviewerEnds
<1>4. r \in ReviewStates \ {"none"} /\ r # "running"
  BY <1>3 DEF ReviewStates, Decisions
<1>5. PlansTrue' /\ review' \in [Nodes -> [1..MaxReviews -> ReviewStates]]
  BY <1>1, <1>2, <1>3, <1>4, ReviewMoved
<1>6. ControlTrue'
  BY <1>1, <1>2 DEF ControlTrue, WellPlaced, Noticed, Ahead, AnyLive, Sendable
<1>7. PlanFiles' /\ Reconciles' /\ upsets' \in 0..MaxUpsets
  BY <1>1, <1>2 DEF PlanFiles, Reconciles, Around
<1> QED BY <1>2, <1>5, <1>6, <1>7, ReconciledReview

(* That its deadline has passed changes nothing else of a node.               *)
Late(x) == [x EXCEPT !.att.late = TRUE]
Alike(x, y) == SameAttempt(x, y) /\ y.att.st = x.att.st /\ y.state = x.state

\* A node whose deadline passed is a node, and alike.
LEMMA LateNode ==
  ASSUME NEW x \in PlanNodes PROVE Late(x) \in PlanNodes /\ Alike(x, Late(x))
<1>1. TRUE \in Flags
  BY PlanValues
<1> QED BY <1>1 DEF Late, PlanNodes, Attempts, Alike, SameAttempt

\* A node that is alike is as true.
LEMMA AlikeTrue ==
  ASSUME NEW x, NEW y, NEW rv, NEW tk, Alike(x, y), NodeTrue(x, rv, tk) PROVE NodeTrue(y, rv, tk)
<1>1. Keyed(y, rv) /\ Followed(y, rv) /\ Judged(y, rv, tk)
  BY DEF Alike, SameAttempt, NodeTrue, Keyed, Followed, Judged
<1>2. NewestJudged(y, tk) /\ StatedTruly(y) /\ TasksKnown(y, tk)
  BY DEF Alike, SameAttempt, NodeTrue, NewestJudged, NoneAfter, StatedTruly, TasksKnown
<1> QED BY <1>1, <1>2 DEF NodeTrue

\* One node of a plan is replaced by one that is alike.
LEMMA AlikeInPlan ==
  ASSUME NEW p \in PlanRecords, NEW n \in Nodes
  PROVE  LET q == [p EXCEPT !.nodes[n] = Late(p.nodes[n])]
         IN  q \in PlanRecords /\ q.cancelled = p.cancelled /\ \A m \in Nodes : Alike(p.nodes[m], q.nodes[m])
<1> DEFINE y == Late(p.nodes[n])
           q == [p EXCEPT !.nodes[n] = y]
<1>1. p.nodes[n] \in PlanNodes
  BY DEF PlanRecords
<1>2. y \in PlanNodes /\ Alike(p.nodes[n], y)
  BY <1>1, LateNode
<1> HIDE DEF y
<1>3. /\ q \in PlanRecords /\ q.cancelled = p.cancelled /\ q.nodes[n] = y
      /\ \A m \in Nodes \ {n} : q.nodes[m] = p.nodes[m]
  BY <1>2 DEF PlanRecords
<1>4. \A m \in Nodes : Alike(p.nodes[m], p.nodes[m])
  BY DEF Alike, SameAttempt
<1>5. \A m \in Nodes : Alike(p.nodes[m], q.nodes[m])
  <2> HIDE DEF q
  <2>1. SUFFICES ASSUME NEW m \in Nodes PROVE Alike(p.nodes[m], q.nodes[m])
    OBVIOUS
  <2>2. CASE m = n
    BY <1>2, <1>3, <2>2
  <2>3. CASE m # n
    BY <1>3, <1>4, <2>3
  <2> QED BY <2>2, <2>3
<1> QED BY <1>3, <1>5, Zenon DEF y

\* The deadline of a review passes.
LEMMA KeepDeadline == ASSUME PlanInv, NEW n \in Nodes, Deadline(n) PROVE PlanInv'
<1>1. PlanTypes /\ TasksTrue /\ PlansTrue /\ ControlTrue /\ PlanFiles /\ Reconciles /\ Around
  BY DEF PlanInv, PlanTypes
<1>2. UNCHANGED <<ctl, task, review, source, paused, leaseOver>>
  BY DEF Deadline
<1>3. upsets' \in 0..MaxUpsets
  BY <1>1, UpsetCounted DEF Deadline
<1>4. /\ plan' \in PlanRecords /\ plan'.cancelled = plan.cancelled
      /\ \A m \in Nodes : Alike(plan.nodes[m], plan'.nodes[m])
  <2>1. plan' = [plan EXCEPT !.nodes[n] = Late(plan.nodes[n])]
    BY Zenon DEF Deadline, Node, Late
  <2> QED BY <1>1, <2>1, AlikeInPlan DEF PlanFiles
<1>5. /\ planDisk' \in PlanRecords
      /\ \A m \in Nodes : Alike(planDisk.nodes[m], planDisk'.nodes[m])
  <2>1. CASE UNCHANGED planDisk
    BY <1>1, <2>1 DEF PlanFiles, Alike, SameAttempt
  <2>2. CASE planDisk' = [planDisk EXCEPT !.nodes[n].att.late = TRUE]
    <3>1. planDisk' = [planDisk EXCEPT !.nodes[n] = Late(planDisk.nodes[n])]
      BY <2>2, Zenon DEF Late
    <3> QED BY <1>1, <3>1, AlikeInPlan DEF PlanFiles
  <2> QED BY <2>1, <2>2, Zenon DEF Deadline
<1>6. PlansTrue'
  <2>1. ASSUME NEW m \in Nodes
        PROVE  /\ NodeTrue(plan'.nodes[m], review[m], task[m])
               /\ NodeTrue(planDisk'.nodes[m], review[m], task[m])
               /\ Twins(plan'.nodes[m], planDisk'.nodes[m])
    <3>1. /\ NodeTrue(plan.nodes[m], review[m], task[m])
          /\ NodeTrue(planDisk.nodes[m], review[m], task[m])
          /\ Twins(plan.nodes[m], planDisk.nodes[m])
      BY <1>1 DEF PlansTrue, NodesTrue
    <3>2. Alike(plan.nodes[m], plan'.nodes[m]) /\ Alike(planDisk.nodes[m], planDisk'.nodes[m])
      BY <1>4, <1>5
    <3>3. Twins(plan'.nodes[m], planDisk'.nodes[m])
      BY <3>1, <3>2 DEF Twins, Alike, SameAttempt
    <3> QED BY <3>1, <3>2, <3>3, AlikeTrue
  <2> QED BY <1>2, <2>1 DEF PlansTrue, NodesTrue
<1>7. ControlTrue'
  <2>1. /\ plan'.nodes[ctl.n].att.st = plan.nodes[ctl.n].att.st
        /\ plan'.nodes[ctl.n].state = plan.nodes[ctl.n].state
        /\ plan'.nodes[ctl.n].tasks = plan.nodes[ctl.n].tasks
        /\ planDisk'.nodes[ctl.n].att.st = planDisk.nodes[ctl.n].att.st
        /\ planDisk'.nodes[ctl.n].state = planDisk.nodes[ctl.n].state
    BY <1>1, <1>4, <1>5 DEF Alike, SameAttempt, Reconciles
  <2>2. WellPlaced'
    BY <1>1, <1>2, <2>1 DEF ControlTrue, WellPlaced, AnyLive, Sendable
  <2>3. Noticed'
    BY <1>1, <1>2, <1>4 DEF ControlTrue, Noticed, Ahead
  <2> QED BY <2>2, <2>3 DEF ControlTrue
<1>8. review' \in [Nodes -> [1..MaxReviews -> ReviewStates]]
  BY <1>1, <1>2 DEF Around
<1> QED BY <1>1, <1>2, <1>3, <1>4, <1>5, <1>6, <1>7, <1>8, ReconciledReview DEF PlanFiles, Reconciles

\* The process dies: what is on the disk is loaded, a task that ran is failed.
LEMMA KeepProcessDies == ASSUME PlanInv, ProcessDies PROVE PlanInv'
<1> DEFINE Again(d) == IF d.state = "STABLE" /\ d.att.st # "PASS" THEN Restate(d, "WAITING_REVIEW") ELSE d
           After(t) == IF t = "running" THEN "failed" ELSE t
<1>1. PlanTypes /\ TasksTrue /\ PlansTrue /\ ControlTrue /\ PlanFiles /\ Reconciles /\ Around
  BY DEF PlanInv, PlanTypes
<1>2. UNCHANGED <<planDisk, review, source, paused, leaseOver>> /\ Moves("boot", 1, FALSE)
  BY DEF ProcessDies
<1>3. upsets' \in 0..MaxUpsets
  BY <1>1, UpsetCounted DEF ProcessDies
<1>4. /\ task' \in [Nodes -> [1..Tries -> TaskStates]]
      /\ \A n \in Nodes, k \in 1..Tries : task'[n][k] = After(task[n][k])
  <2>1. task' = [n \in Nodes |-> [k \in 1..Tries |-> After(task[n][k])]]
    BY DEF ProcessDies
  <2>2. \A t \in TaskStates : After(t) \in TaskStates
    BY DEF TaskStates
  <2>3. task \in [Nodes -> [1..Tries -> TaskStates]]
    BY <1>1 DEF Around
  <2> HIDE DEF After
  <2> QED BY <2>1, <2>2, <2>3
<1>5. /\ \A n \in Nodes, k \in 1..Tries : task'[n][k] = "none" <=> task[n][k] = "none"
      /\ \A n \in Nodes, k \in 1..Tries : task'[n][k] = "cancelled" <=> task[n][k] = "cancelled"
      /\ \A n \in Nodes, k \in 1..Tries : task'[n][k] \in Unended => task[n][k] \in Unended
      /\ \A n \in Nodes, k \in 1..Tries : task[n][k] = "completed" => task'[n][k] = "completed"
  BY <1>4 DEF Unended
<1>6. TasksTrue'
  <2>1. Numbered'
    BY <1>1, <1>5 DEF TasksTrue, Numbered
  <2>2. OneLives' /\ CancelledAlone'
    BY <1>1, <1>5 DEF TasksTrue, OneLives, CancelledAlone
  <2>3. LiveLast'
    BY <1>1, <1>5 DEF TasksTrue, LiveLast
  <2> QED BY <2>1, <2>2, <2>3 DEF TasksTrue
<1>7. ASSUME NEW x, NEW rv, NEW n \in Nodes, NodeTrue(x, rv, task[n]) PROVE NodeTrue(x, rv, task'[n])
  <2>1. Keyed(x, rv) /\ Followed(x, rv) /\ StatedTruly(x)
    BY <1>7 DEF NodeTrue
  <2>2. Judged(x, rv, task'[n])
    BY <1>5, <1>7 DEF NodeTrue, Judged
  <2>3. NewestJudged(x, task'[n])
    BY <1>5, <1>7 DEF NodeTrue, NewestJudged, NoneAfter
  <2>4. TasksKnown(x, task'[n])
    BY <1>5, <1>7 DEF NodeTrue, TasksKnown
  <2> QED BY <2>1, <2>2, <2>3, <2>4 DEF NodeTrue
<1>8. ASSUME NEW d \in PlanNodes, NEW rv, NEW tk, NodeTrue(d, rv, tk)
      PROVE  Again(d) \in PlanNodes /\ NodeTrue(Again(d), rv, tk) /\ Twins(Again(d), d)
  <2>1. CASE Again(d) = d
    BY <1>8, <2>1 DEF Twins
  <2>2. CASE Again(d) = Restate(d, "WAITING_REVIEW")
    <3> DEFINE s == "WAITING_REVIEW"
               y == Restate(d, s)
    <3>1. s \in NodeStates /\ s \notin {"PENDING", "FAILED", "REWORK", "STABLE"}
      BY DEF NodeStates
    <3> HIDE DEF s
    <3>2. y \in PlanNodes /\ SameAttempt(d, y) /\ y.att = d.att /\ y.state = s
      BY <1>8, <3>1, RestatedOnly
    <3> HIDE DEF y
    <3>3. StatedTruly(y) /\ (d.att.st = "PASS" => rv[d.att.key] = "PASS")
      BY <1>8, <3>1, <3>2 DEF StatedTruly, NodeTrue, Judged
    <3>4. NodeTrue(y, rv, tk)
      BY <1>8, <3>1, <3>2, <3>3, Remarked
    <3>5. Twins(y, d)
      BY <3>2 DEF Twins
    <3> QED BY <2>2, <3>2, <3>4, <3>5 DEF y, s
  <2> QED BY <2>1, <2>2
<1>9. plan' \in PlanRecords /\ \A n \in Nodes : plan'.nodes[n] = Again(planDisk.nodes[n])
  <2>1. plan' = [planDisk EXCEPT !.nodes = [n \in Nodes |-> Again(planDisk.nodes[n])]]
    BY Zenon DEF ProcessDies, Restate
  <2>2. \A n \in Nodes : Again(planDisk.nodes[n]) \in PlanNodes
    <3>1. \A n \in Nodes : planDisk.nodes[n] \in PlanNodes /\ NodeTrue(planDisk.nodes[n], review[n], task[n])
      BY <1>1 DEF PlanFiles, PlanRecords, PlansTrue, NodesTrue
    <3> HIDE DEF Again
    <3> QED BY <1>8, <3>1
  <2> HIDE DEF Again
  <2> QED BY <1>1, <2>1, <2>2 DEF PlanFiles, PlanRecords
<1>10. PlansTrue'
  <2>1. ASSUME NEW n \in Nodes
        PROVE  /\ NodeTrue(plan'.nodes[n], review[n], task'[n])
               /\ NodeTrue(planDisk.nodes[n], review[n], task'[n])
               /\ Twins(plan'.nodes[n], planDisk.nodes[n])
    <3>1. planDisk.nodes[n] \in PlanNodes /\ NodeTrue(planDisk.nodes[n], review[n], task'[n])
      BY <1>1, <1>7 DEF PlanFiles, PlanRecords, PlansTrue, NodesTrue
    <3> HIDE DEF Again
    <3> QED BY <1>8, <1>9, <3>1
  <2> QED BY <1>2, <2>1 DEF PlansTrue, NodesTrue
<1>11. Reconciles' /\ ControlTrue'
  <2>1. "boot" \in Places /\ 1 \in Nodes
    BY PlanConstants DEF Places, Nodes
  <2>2. Reconciles' /\ ctl'.at = "boot"
    BY <1>1, <1>2, <2>1, PlanValues, Moved
  <2> QED BY <2>2, Rests
<1>12. Around' /\ PlanFiles'
  BY <1>1, <1>2, <1>3, <1>4, <1>9 DEF Around, PlanFiles
<1> QED BY <1>6, <1>10, <1>11, <1>12 DEF PlanInv, PlanTypes

\* Every step keeps the invariant.
LEMMA NextPlan == PlanInv /\ [PlanNext]_planVars => PlanInv'
<1> SUFFICES ASSUME PlanInv, [PlanNext]_planVars PROVE PlanInv'
  OBVIOUS
<1>1. CASE \/ Wakes \/ CancelReview \/ SubmitReview \/ ReviewAnswered \/ PollReview
           \/ PollFails \/ ReviewDecided
  BY <1>1, KeepWakes, KeepCancelReview, KeepSubmitReview, KeepReviewAnswered, KeepPollReview,
     KeepPollFails, KeepReviewDecided
<1>2. CASE Selects \/ DispatchNode \/ HandsOff \/ UserPauses \/ LeaseEnds \/ Edits \/ ProcessDies
  BY <1>2, KeepSelects, KeepDispatchNode, KeepHandsOff, KeepUserPauses, KeepLeaseEnds, KeepEdits,
     KeepProcessDies
<1>3. ASSUME NEW n \in Nodes,
             VisitUnfinished(n) \/ VisitRecovers(n) \/ VisitUnreviewed(n) \/ Deadline(n)
      PROVE  PlanInv'
  BY <1>3, KeepVisitUnfinished, KeepVisitRecovers, KeepVisitUnreviewed, KeepDeadline
<1>4. ASSUME NEW n \in Nodes, NEW g \in BOOLEAN,
             ReviewStands(n, g) \/ ReviewContinues(n, g) \/ ReviewBegins(n, g)
      PROVE  PlanInv'
  BY <1>4, Zenon, KeepReviewStands, KeepReviewContinues, KeepReviewBegins
<1>5. ASSUME NEW n \in Nodes, NEW k \in 1..Tries,
             Pumps(n, k) \/ TaskEnds(n, k) \/ UserCancels(n, k)
      PROVE  PlanInv'
  BY <1>5, KeepTasks
<1>6. ASSUME NEW n \in Nodes, NEW i \in 1..MaxReviews, ReviewerEnds(n, i) PROVE PlanInv'
  BY <1>6, KeepReviewerEnds
<1>7. CASE UNCHANGED planVars
  <2>1. UNCHANGED <<plan, planDisk, ctl, task, review, source, paused, leaseOver, upsets>>
    BY <1>7 DEF planVars
  <2>2. /\ planDisk' \in {plan, planDisk} /\ source' \in 0..MaxEdits /\ upsets' \in 0..MaxUpsets
        /\ paused' \in Flags /\ leaseOver' \in Flags
    BY <2>1 DEF PlanInv, PlanTypes, Around
  <2> QED BY <2>1, <2>2, PlanStays
<1> QED BY <1>1, <1>2, <1>3, <1>4, <1>5, <1>6, <1>7, Zenon DEF PlanNext

\* The invariant holds in every reachable state.
LEMMA PlanReaches == PlanSpec => []PlanInv
  BY InitPlan, NextPlan, PTL DEF PlanSpec

\* However answers are lost and whoever dies, one executor task of the plan is
\* queued or running at a time and a node has one reviewer (continuation.ts:
\* reconcile, machineReview, dispatchReview).
THEOREM OneActorWorks == PlanSpec => []OneActor
<1>1. PlanInv => OneActor
  <2> SUFFICES ASSUME PlanInv PROVE OneActor
    OBVIOUS
  <2>1. Cardinality({p \in Nodes \X (1..Tries) : task[p[1]][p[2]] \in Unended}) <= 1
    <3> DEFINE S == {p \in Nodes \X (1..Tries) : task[p[1]][p[2]] \in Unended}
    <3>1. ASSUME NEW p \in S, NEW q \in S PROVE p = q
      <4>1. p[1] = q[1] /\ p[2] = q[2]
        BY <3>1 DEF PlanInv, TasksTrue, OneLives
      <4> QED BY <3>1, <4>1
    <3>2. PICK x : S \subseteq {x}
      <4>1. CASE S = {}
        BY <4>1
      <4>2. CASE S # {}
        <5>1. PICK p \in S : TRUE
          BY <4>2
        <5>2. S \subseteq {p}
          <6> HIDE DEF S
          <6> QED BY <3>1, <5>1, Zenon
        <5> QED BY <5>2
      <4> QED BY <4>1, <4>2
    <3> HIDE DEF S
    <3>3. Cardinality(S) <= 1
      BY <3>2, AtMostOneLeft
    <3> QED BY <3>3 DEF S
  <2>2. ASSUME NEW n \in Nodes
        PROVE  Cardinality({i \in 1..MaxReviews : review[n][i] = "running"}) <= 1
    <3>1. {i \in 1..MaxReviews : review[n][i] = "running"} \subseteq {plan.nodes[n].att.key}
      BY DEF PlanInv, PlansTrue, NodesTrue, NodeTrue, Followed
    <3> QED BY <3>1, AtMostOneLeft
  <2> QED BY <2>1, <2>2 DEF OneActor
<1>2. QED BY <1>1, PlanReaches, PTL

\* A node starts only over a predecessor whose last task was reviewed PASS by a
\* reviewer that saw these very files, and never after a cancellation
\* (continuation.ts: the authorization asked again by the pump of the task manager).
THEOREM ReviewedStarts == PlanSpec => StartsReviewed
<1>1. ASSUME PlanInv, [PlanNext]_planVars, NEW n \in Nodes, NEW k \in 1..Tries,
             task[n][k] # "running", task'[n][k] = "running"
      PROVE  /\ n = 1 \/ LET a == plan.nodes[n - 1].att
                         IN review[n - 1][a.key] = "PASS" /\ a.fp = source
                              /\ task[n - 1][a.task] = "completed"
             /\ \A m \in Nodes, j \in 1..Tries : task[m][j] # "cancelled"
  <2>1. task \in [Nodes -> [1..Tries -> TaskStates]] /\ ~UNCHANGED task
    BY <1>1 DEF PlanInv, PlanTypes, Around
  <2>2. Pumps(n, k) /\ Authorized(n)
    <3>1. ~ (Wakes \/ CancelReview \/ SubmitReview \/ ReviewAnswered \/ PollReview \/ PollFails
             \/ ReviewDecided \/ Selects \/ HandsOff \/ UserPauses \/ LeaseEnds \/ Edits \/ UNCHANGED planVars)
      BY <2>1, Zenon DEF Wakes, CancelReview, SubmitReview, ReviewAnswered, PollReview, PollFails,
         ReviewDecided, Selects, HandsOff, UserPauses, LeaseEnds, Edits, outside, planVars
    <3>2. ~ \E m \in Nodes :
            \/ VisitUnfinished(m) \/ VisitRecovers(m) \/ VisitUnreviewed(m) \/ Deadline(m)
            \/ \E g \in BOOLEAN : ReviewStands(m, g) \/ ReviewContinues(m, g) \/ ReviewBegins(m, g)
            \/ \E i \in 1..MaxReviews : ReviewerEnds(m, i)
      <4>1. \A m \in Nodes :
              ~ (VisitUnfinished(m) \/ VisitRecovers(m) \/ VisitUnreviewed(m) \/ Deadline(m))
        BY <2>1, Zenon DEF VisitUnfinished, VisitRecovers, VisitUnreviewed, Deadline, outside
      <4>2. \A m \in Nodes, g \in BOOLEAN :
              ~ (ReviewStands(m, g) \/ ReviewContinues(m, g) \/ ReviewBegins(m, g))
        BY <2>1, Zenon DEF ReviewStands, ReviewContinues, ReviewBegins, outside
      <4>3. \A m \in Nodes, i \in 1..MaxReviews : ~ReviewerEnds(m, i)
        BY <2>1, Zenon DEF ReviewerEnds
      <4> QED BY <4>1, <4>2, <4>3, Zenon
    <3>3. ~ProcessDies
      BY <1>1, <2>1 DEF ProcessDies
    <3>4. ~DispatchNode
      <4> SUFFICES ASSUME DispatchNode PROVE FALSE
        OBVIOUS
      <4> DEFINE m == ctl.n
                 j == plan.nodes[m].tasks + 1
                 s == IF task[m][j] = "none" THEN "queued" ELSE task[m][j]
      <4>1. task' = [task EXCEPT ![m][j] = s]
        BY <2>1 DEF DispatchNode
      <4>2. s # "running" \/ s = task[m][j]
        OBVIOUS
      <4> HIDE DEF m, j, s
      <4> QED BY <1>1, <2>1, <4>1, <4>2
    <3>5. PICK m \in Nodes, j \in 1..Tries : Pumps(m, j) \/ TaskEnds(m, j) \/ UserCancels(m, j)
      BY <1>1, <3>1, <3>2, <3>3, <3>4, Zenon DEF PlanNext
    <3>6. PICK s : Becomes(m, j, s) /\ (s = "running" => Pumps(m, j) /\ Authorized(m))
      <4>1. CASE Pumps(m, j)
        BY <4>1 DEF Pumps
      <4>2. CASE TaskEnds(m, j) \/ UserCancels(m, j)
        <5>1. PICK s \in {"completed", "failed", "cancelled"} : Becomes(m, j, s)
          BY <4>2 DEF TaskEnds, UserCancels
        <5> QED BY <5>1
      <4> QED BY <3>5, <4>1, <4>2
    <3>7. m = n /\ j = k /\ s = "running"
      BY <1>1, <2>1, <3>6 DEF Becomes
    <3> QED BY <3>6, <3>7
  <2>3. \A m \in Nodes, j \in 1..Tries : task[m][j] # "cancelled"
    BY <1>1, <2>2 DEF PlanInv, TasksTrue, CancelledAlone, Pumps, Unended
  <2>4. ASSUME n # 1
        PROVE  LET a == plan.nodes[n - 1].att
               IN review[n - 1][a.key] = "PASS" /\ a.fp = source /\ task[n - 1][a.task] = "completed"
    <3>1. n - 1 \in Nodes
      BY <1>1, <2>4, PlanConstants DEF Nodes
    <3>2. Judged(plan.nodes[n - 1], review[n - 1], task[n - 1])
      BY <1>1, <3>1 DEF PlanInv, PlansTrue, NodesTrue, NodeTrue
    <3>3. ReviewPassed(n - 1)
      BY <2>2, <2>4 DEF Authorized, DependencyPassed
    <3> QED BY <3>2, <3>3 DEF ReviewPassed, SameSource, Judged
  <2> QED BY <2>3, <2>4
<1>2. PlanInv /\ [PlanNext]_planVars
        => [\A n \in Nodes, k \in 1..Tries :
              task[n][k] # "running" /\ task'[n][k] = "running" =>
                /\ n = 1 \/ LET a == plan.nodes[n - 1].att
                            IN review[n - 1][a.key] = "PASS" /\ a.fp = source
                                 /\ task[n - 1][a.task] = "completed"
                /\ \A m \in Nodes, j \in 1..Tries : task[m][j] # "cancelled"]_planVars
  BY <1>1, Zenon
<1>3. QED BY <1>2, InitPlan, NextPlan, PTL DEF PlanSpec, StartsReviewed
-----------------------------------------------------------------------------
(* The types of the services, alone and side by side as MCServices composes   *)
(* them for TLC: each step is a step of one of them and leaves the variables  *)
(* of the others.                                                             *)
\* The variables of a plan keep their types.
LEMMA PlansTyped == PlanSpec => []PlanTypeOK
<1>1. PlanInv => PlanTypeOK
  <2> SUFFICES ASSUME PlanInv PROVE PlanTypeOK
    OBVIOUS
  <2>1. /\ \A n \in Nodes : plan.nodes[n] \in PlanNodes /\ planDisk.nodes[n] \in PlanNodes
        /\ Around /\ ctl.at \in Places /\ ctl.n \in Nodes
    BY SMT DEF PlanInv, PlanTypes, PlanFiles, PlanRecords, Reconciles
  <2>2. ASSUME NEW x \in PlanNodes
        PROVE  x.tasks \in 0..Tries /\ x.att.id \in 0..MaxReviews /\ x.att.st \in Marks
    BY SMT DEF PlanNodes, Attempts
  <2>3. \A x \in {plan.nodes[n] : n \in Nodes} \cup {planDisk.nodes[n] : n \in Nodes} :
          x \in PlanNodes
    BY <2>1
  <2>4. QED
    BY <2>1, <2>2, <2>3, Zenon DEF PlanTypeOK, Around, Places, Underway, Awaiting, Marks, Flags
<1>2. QED BY <1>1, PlanReaches, PTL
LEMMA ServicesParts == ServicesSpec => AuthSpec /\ PlanSpec /\ CreateSpec /\ ClientSpec
<1>1. ServicesInit => AuthInit /\ PlanInit /\ CreateInit /\ ClientInit
  BY DEF ServicesInit
<1>2. [ServicesNext]_servicesVars =>
        [AuthNext]_authVars /\ [PlanNext]_planVars /\ [CreateNext]_createVars
          /\ [ClientNext]_clientVars
  BY Zenon DEF ServicesNext, servicesVars
<1>3. QED
  BY <1>1, <1>2, PTL DEF ServicesSpec, AuthSpec, PlanSpec, CreateSpec, ClientSpec
\* The variables of the four components keep their types.
THEOREM ServicesTypes == ServicesSpec => []ServicesTypeOK
<1>1. CreateInv => CreateTypeOK
  BY DEF CreateInv, CreateTypes
<1>2. ClientInv => ClientTypeOK
  BY DEF ClientInv, ClientTypes
<1>3. AuthTypeOK /\ PlanTypeOK /\ CreateTypeOK /\ ClientTypeOK => ServicesTypeOK
  BY DEF ServicesTypeOK
<1>4. QED
  BY <1>1, <1>2, <1>3, ServicesParts, AuthTypes, PlansTyped, CreateReaches, ClientReaches, PTL
=============================================================================
