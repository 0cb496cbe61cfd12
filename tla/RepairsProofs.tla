------------------------------ MODULE RepairsProofs -----------------------------
(* Proofs about the components that are to end what hangs, for every size:    *)
(* the supervisor of the services (Supervisor), the turns of a native         *)
(* session (NativeTurns), the queue that survives its servers                 *)
(* (QueueCoordinator), and their composition with the restart hand-off,       *)
(* whose proof is in RestartProofs.                                           *)
EXTENDS MCRepairs, RestartProofs, SequenceTheorems, WellFoundedInduction, TLAPS

(* Supervisor: the inductive invariant SupInv.                                 *)
Places == {"down", "mutex", "read", "write"} \cup Past
(* Who is past the lock has its record in the file, and only who is past the  *)
(* lock has actions under way.                                                *)
LockHeld ==
  /\ supAt \in [Sups -> Places] /\ supGen \in [Sups -> Nat]
  /\ \A s \in Sups : supAt[s] \in Past => supLock = Record(s)
RepairsHeld ==
  /\ supAt \in [Sups -> Places]
  /\ DOMAIN inFlight = Sups
  /\ \A s \in Sups : inFlight[s] # {} => supAt[s] \in Past
States == {"READY", "RECOVERING", "DEGRADED", "OFFLINE", "FAILED"}
Status == [state: States, attempts: 0..Budget, gated: BOOLEAN]
(* The attempts of a component are counted up to the budget, and it is called *)
(* FAILED beyond it only, with no attempt under way.                          *)
Honest(s, c) ==
  comp[s][c].state = "FAILED" => comp[s][c].attempts = Budget /\ c \notin inFlight[s]
AttemptsCounted ==
  /\ comp \in [Sups -> [Components -> Status]]
  /\ \A s \in Sups, c \in Components : Honest(s, c)
SupInv == LockHeld /\ RepairsHeld /\ AttemptsCounted

\* A process knows nothing of its components at first.
LEMMA UnknownIsStatus == Unknown \in Status /\ Unknown.state # "FAILED"
<1>1. "DEGRADED" \in States /\ 0 \in 0..Budget
  BY SupConstants, SMT DEF States
<1>2. QED BY <1>1, Zenon DEF Unknown, Status

\* No process runs at first.
LEMMA InitSup == SupInit => SupInv
<1> SUFFICES ASSUME SupInit PROVE SupInv
  OBVIOUS
<1>1. LockHeld
  BY SMT DEF SupInit, LockHeld, Past, Places
<1>2. RepairsHeld
  BY SMT DEF SupInit, RepairsHeld, Past, Places
<1>3. AttemptsCounted
  <2>1. comp = [s \in Sups |-> [c \in Components |-> Unknown]]
    BY DEF SupInit
  <2>2. QED BY <2>1, UnknownIsStatus, Zenon DEF AttemptsCounted, Honest
<1>4. QED BY <1>1, <1>2, <1>3 DEF SupInv

\* Who is past the lock is named, alive, by the lock file, and is the only one.
LEMMA PastSettled ==
  ASSUME LockHeld, NEW s \in Sups, supAt[s] \in Past
  PROVE  AliveGen(supLock) /\ supLock # NoRecord /\ \A t \in Sups : supAt[t] \in Past => t = s
  BY SupConstants, SMT DEF LockHeld, AliveGen, Record, NoRecord, Past

\* What one component of one process becomes, the others unchanged.
LEMMA EntryKept ==
  ASSUME AttemptsCounted, NEW s \in Sups, NEW c \in Components, NEW st \in Status,
         comp' = [comp EXCEPT ![s][c] = st],
         \A t \in Sups, d \in Components : d \in inFlight'[t] => d \in inFlight[t] \/ (t = s /\ d = c),
         st.state = "FAILED" => st.attempts = Budget /\ c \notin inFlight'[s]
  PROVE  AttemptsCounted'
<1>1. comp' \in [Sups -> [Components -> Status]]
  BY Zenon DEF AttemptsCounted
<1>2. comp'[s][c] = st
  BY SMT DEF AttemptsCounted
<1>3. ASSUME NEW t \in Sups, NEW d \in Components, ~(t = s /\ d = c) PROVE Honest(t, d)'
  BY <1>3, SMT DEF AttemptsCounted, Honest
<1>4. Honest(s, c)'
  BY <1>2, Zenon DEF Honest
<1>5. QED BY <1>1, <1>3, <1>4, Zenon DEF AttemptsCounted

\* What a record of three fields becomes when one of them or two are set; stated
\* of any sets, so that no prover looks into them.
LEMMA RecordMoves ==
  ASSUME NEW S, NEW T, NEW U, NEW st \in [state: S, attempts: T, gated: U],
         NEW a \in S, NEW n \in T, NEW g \in U
  PROVE  /\ [st EXCEPT !.state = a] \in [state: S, attempts: T, gated: U]
         /\ [st EXCEPT !.state = a].state = a /\ [st EXCEPT !.state = a].attempts = st.attempts
         /\ [st EXCEPT !.gated = g] \in [state: S, attempts: T, gated: U]
         /\ [st EXCEPT !.gated = g].state = st.state /\ [st EXCEPT !.gated = g].attempts = st.attempts
         /\ [st EXCEPT !.attempts = n, !.gated = g] \in [state: S, attempts: T, gated: U]
<1>1. [st EXCEPT !.attempts = n, !.gated = g] \in [state: S, attempts: T, gated: U]
  BY Zenon
<1>2. QED BY <1>1, SMT

\* A ComponentStatus with another state.
LEMMA StateSet ==
  ASSUME NEW st \in Status, NEW a \in States
  PROVE  /\ [st EXCEPT !.state = a] \in Status
         /\ [st EXCEPT !.state = a].state = a
         /\ [st EXCEPT !.state = a].attempts = st.attempts
<1>1. st.attempts \in 0..Budget /\ st.gated \in BOOLEAN
  BY Zenon DEF Status
<1>2. QED BY <1>1, RecordMoves, Zenon DEF Status

\* A ComponentStatus with another gate, or with another count as well.
LEMMA GateSet ==
  ASSUME NEW st \in Status, NEW n \in 0..Budget, NEW g \in BOOLEAN
  PROVE  /\ [st EXCEPT !.gated = g] \in Status
         /\ [st EXCEPT !.gated = g].state = st.state
         /\ [st EXCEPT !.gated = g].attempts = st.attempts
         /\ [st EXCEPT !.attempts = n, !.gated = g] \in Status
<1>1. st.state \in States
  BY Zenon DEF Status
<1>2. QED BY <1>1, RecordMoves, Zenon DEF Status

\* A ComponentStatus beyond the budget has used up all attempts.
LEMMA BeyondBudget ==
  ASSUME NEW st \in Status, Exhausted(st)
  PROVE  st.attempts = Budget
<1>1. st.attempts \in 0..Budget
  BY Zenon DEF Status
<1>2. QED BY <1>1, SupConstants, SMT DEF Exhausted

\* An attempt within the budget is counted.
LEMMA StatusCount ==
  ASSUME NEW st \in Status, ~Exhausted(st)
  PROVE  [st EXCEPT !.attempts = @ + 1, !.gated = st.attempts + 2 <= Budget] \in Status
<1>1. st.attempts \in 0..Budget
  BY Zenon DEF Status
<1>2. st.attempts + 1 \in 0..Budget
  BY <1>1, SupConstants, SMT DEF Exhausted
<1>3. (st.attempts + 2 <= Budget) \in BOOLEAN
  OBVIOUS
<1> DEFINE n == st.attempts + 1
           g == st.attempts + 2 <= Budget
<1> HIDE DEF n, g
<1>4. [st EXCEPT !.attempts = n, !.gated = g] \in Status
  BY <1>2, <1>3, GateSet, Zenon DEF n, g
<1> QED BY <1>4 DEF n, g

\* The entries stay, and nothing new is under repair.
LEMMA EntriesKept ==
  ASSUME AttemptsCounted, comp' = comp,
         \A t \in Sups, d \in Components : d \in inFlight'[t] => d \in inFlight[t]
  PROVE  AttemptsCounted'
<1>1. ASSUME NEW t \in Sups, NEW d \in Components PROVE Honest(t, d)'
  BY Zenon DEF AttemptsCounted, Honest
<1>2. QED BY <1>1, Zenon DEF AttemptsCounted

\* The entries of a process that ends are forgotten.
LEMMA EntriesForgotten ==
  ASSUME AttemptsCounted, NEW s,
         comp' = [comp EXCEPT ![s] = [c \in Components |-> Unknown]],
         \A t \in Sups, d \in Components : d \in inFlight'[t] => d \in inFlight[t]
  PROVE  AttemptsCounted'
<1>1. Unknown \in Status /\ Unknown.state # "FAILED"
  BY UnknownIsStatus
<1> DEFINE blank == [c \in Components |-> Unknown]
<1>2. blank \in [Components -> Status] /\ \A d \in Components : blank[d].state # "FAILED"
  BY <1>1, Zenon
<1> HIDE DEF blank
<1>3. comp' = [comp EXCEPT ![s] = blank]
  BY DEF blank
<1>4. comp' \in [Sups -> [Components -> Status]]
  BY <1>2, <1>3, Zenon DEF AttemptsCounted
<1>5. ASSUME NEW t \in Sups, NEW d \in Components PROVE Honest(t, d)'
  <2>1. CASE t = s
    <3>1. comp'[t] = blank
      BY <1>3, <2>1, SMT DEF AttemptsCounted
    <3>2. QED BY <1>2, <3>1, Zenon DEF Honest
  <2>2. CASE t # s
    <3>1. comp'[t] = comp[t]
      BY <1>3, <2>2, SMT DEF AttemptsCounted
    <3>2. QED BY <3>1, Zenon DEF AttemptsCounted, Honest
  <2>3. QED BY <2>1, <2>2
<1>6. QED BY <1>4, <1>5, Zenon DEF AttemptsCounted

\* An entry for what is no component is none.
LEMMA NoEntry ==
  ASSUME AttemptsCounted, NEW s \in Sups, NEW c, c \notin Components, NEW st,
         comp' = [comp EXCEPT ![s][c] = st],
         \A t \in Sups, d \in Components : d \in inFlight'[t] => d \in inFlight[t]
  PROVE  AttemptsCounted'
<1>1. comp' = comp
  BY SMT DEF AttemptsCounted
<1>2. QED BY <1>1, EntriesKept, Zenon

\* One entry becomes st, and at most its component is under repair now.
LEMMA EntryBecomes ==
  ASSUME AttemptsCounted, NEW s \in Sups, NEW c, NEW st,
         c \in Components => /\ st \in Status
                            /\ (st.state = "FAILED" => st.attempts = Budget /\ c \notin inFlight'[s]),
         comp' = [comp EXCEPT ![s][c] = st],
         \A t \in Sups, d \in Components : d \in inFlight'[t] => d \in inFlight[t] \/ (t = s /\ d = c)
  PROVE  AttemptsCounted'
<1>1. CASE c \in Components
  BY <1>1, EntryKept, Zenon
<1>2. CASE c \notin Components
  BY <1>2, NoEntry, Zenon
<1>3. QED BY <1>1, <1>2

\* Every step: a process gets past the lock by writing its record over that of
\* nobody or of a dead one, and keeps it until it releases the lock or dies.
LEMMA NextLock == LockHeld /\ [SupNext]_supVars => LockHeld'
<1> SUFFICES ASSUME LockHeld, [SupNext]_supVars PROVE LockHeld'
  OBVIOUS
<1> USE SupConstants DEF LockHeld, Record, NoRecord, Past, Places, AliveGen, mine, world
<1>1. ASSUME NEW s \in Sups, Starts(s) PROVE LockHeld'
  <2>1. /\ supAt' = [supAt EXCEPT ![s] = "mutex"] /\ supGen' = [supGen EXCEPT ![s] = supGen[s] + 1]
        /\ supLock' = supLock /\ supAt[s] = "down"
    BY <1>1 DEF Starts, At
  <2>2. ASSUME NEW t \in Sups, supAt'[t] \in Past PROVE supLock' = Record(t)'
    <3>1. t # s
      BY <2>1, <2>2, SMT
    <3>2. supAt'[t] = supAt[t] /\ supGen'[t] = supGen[t]
      BY <2>1, <3>1, SMT
    <3>3. QED BY <2>1, <2>2, <3>2, Zenon
  <2>3. supAt' \in [Sups -> Places] /\ supGen' \in [Sups -> Nat]
    BY <2>1, SMT
  <2>4. QED BY <2>2, <2>3
<1>2. ASSUME NEW s \in Sups, TakeMutex(s) PROVE LockHeld'
  BY <1>2, SMTT(40) DEF TakeMutex, At
<1>3. ASSUME NEW s \in Sups, ReadLockFile(s) PROVE LockHeld'
  BY <1>3, SMTT(40) DEF ReadLockFile, At, FreePipe
<1>4. ASSUME NEW s \in Sups, WriteLockFile(s) PROVE LockHeld'
  BY <1>4, SMTT(40) DEF WriteLockFile, At, Create, FreePipe
<1>5. ASSUME NEW s \in Sups, Bootstrap(s) PROVE LockHeld'
  <2>1. /\ UNCHANGED <<mine, world>> /\ supAt[s] = "bootstrap"
        /\ UNCHANGED supAt \/ At(s, "sleep")
    BY <1>5, Zenon DEF Bootstrap
  <2>2. QED BY <2>1, SMTT(40) DEF At
<1>6. ASSUME NEW s \in Sups, TickBegins(s) PROVE LockHeld'
  BY <1>6, SMTT(40) DEF TickBegins, At
<1>7. ASSUME NEW s \in Sups, Observe(s) PROVE LockHeld'
  <2>1. UNCHANGED <<mine, supAt, world>>
    BY <1>7, Zenon DEF Observe
  <2>2. QED BY <2>1
<1>8. ASSUME NEW s \in Sups, TickEnds(s) PROVE LockHeld'
  BY <1>8, SMTT(40) DEF TickEnds, At
<1>9. ASSUME NEW s \in Sups, Drain(s) PROVE LockHeld'
  BY <1>9, SMTT(40) DEF Drain, At
<1>10. ASSUME NEW s \in Sups, ReleaseLock(s) PROVE LockHeld'
  BY <1>10, SMTT(40) DEF ReleaseLock, At, Settled, FreePipe
<1>11. ASSUME NEW s \in Sups, Killed(s) PROVE LockHeld'
  BY <1>11, SMTT(40) DEF Killed, Leaves, At, FreePipe
<1>12. ASSUME NEW s \in Sups, NEW c \in Components, DelayOver(s, c) PROVE LockHeld'
  BY <1>12, SMTT(40) DEF DelayOver
<1>13. ASSUME NEW s \in Sups, NEW c \in Components, ActionSettles(s, c) PROVE LockHeld'
  BY <1>13, SMTT(40) DEF ActionSettles, Unfenced
<1>14. ASSUME NEW c \in Components, ComesUp(c) PROVE LockHeld'
  BY <1>14, SMTT(40) DEF ComesUp
<1>15. ASSUME NEW c \in Components, Fails(c) PROVE LockHeld'
  BY <1>15, SMTT(40) DEF Fails
<1>16. CASE StopCommand
  <2>1. /\ UNCHANGED <<supGen, supLock>>
        /\ UNCHANGED supAt \/ At(supLock.by, "down")
    BY <1>16, Zenon DEF StopCommand, Leaves
  <2>2. QED BY <2>1, SMTT(40) DEF At
<1>17. CASE StopEnds
  BY <1>17, SMTT(40) DEF StopEnds
<1>18. CASE StopGivesUp
  BY <1>18, SMTT(40) DEF StopGivesUp
<1>19. CASE UNCHANGED supVars
  BY <1>19, SMTT(40) DEF supVars
<1>20. QED
  BY <1>1, <1>2, <1>3, <1>4, <1>5, <1>6, <1>7, <1>8, <1>9, <1>10, <1>11, <1>12, <1>13,
     <1>14,
     <1>15, <1>16, <1>17, <1>18, <1>19, Zenon DEF SupNext, SupSteps

\* Every step: actions are begun past the lock, and the lock is released when they
\* have settled; a process that dies takes its actions with it.
LEMMA NextRepairs == RepairsHeld /\ [SupNext]_supVars => RepairsHeld'
<1> SUFFICES ASSUME RepairsHeld, [SupNext]_supVars PROVE RepairsHeld'
  OBVIOUS
<1> USE SupConstants DEF RepairsHeld, Past, Places, mine, world
<1>1. ASSUME NEW s \in Sups, Starts(s) PROVE RepairsHeld'
  BY <1>1, SMTT(40) DEF Starts, At
<1>2. ASSUME NEW s \in Sups, TakeMutex(s) PROVE RepairsHeld'
  BY <1>2, SMTT(40) DEF TakeMutex, At
<1>3. ASSUME NEW s \in Sups, ReadLockFile(s) PROVE RepairsHeld'
  BY <1>3, SMTT(40) DEF ReadLockFile, At, FreePipe
<1>4. ASSUME NEW s \in Sups, WriteLockFile(s) PROVE RepairsHeld'
  BY <1>4, SMTT(40) DEF WriteLockFile, At, Create, FreePipe
<1>5. ASSUME NEW s \in Sups, Bootstrap(s) PROVE RepairsHeld'
  <2>1. /\ supAt[s] = "bootstrap"
        /\ UNCHANGED supAt \/ At(s, "sleep")
        /\ UNCHANGED inFlight \/ \E c : inFlight' = [inFlight EXCEPT ![s] = @ \cup {c}]
    BY <1>5, Zenon DEF Bootstrap, Attempt
  <2>2. QED BY <2>1, SMTT(40) DEF At
<1>6. ASSUME NEW s \in Sups, TickBegins(s) PROVE RepairsHeld'
  BY <1>6, SMTT(40) DEF TickBegins, At
<1>7. ASSUME NEW s \in Sups, Observe(s) PROVE RepairsHeld'
  <2>1. supAt[s] = "tick" /\ UNCHANGED supAt
    BY <1>7, Zenon DEF Observe
  <2>2. PICK c : inFlight' = inFlight \/ inFlight' = [inFlight EXCEPT ![s] = @ \cup {c}]
    BY <1>7, Zenon DEF Observe, Attempt
  <2>3. QED BY <2>1, <2>2
<1>8. ASSUME NEW s \in Sups, TickEnds(s) PROVE RepairsHeld'
  BY <1>8, SMTT(40) DEF TickEnds, At
<1>9. ASSUME NEW s \in Sups, Drain(s) PROVE RepairsHeld'
  BY <1>9, SMTT(40) DEF Drain, At
<1>10. ASSUME NEW s \in Sups, ReleaseLock(s) PROVE RepairsHeld'
  BY <1>10, SMTT(40) DEF ReleaseLock, At, Settled, FreePipe
<1>11. ASSUME NEW s \in Sups, Killed(s) PROVE RepairsHeld'
  BY <1>11, SMTT(40) DEF Killed, Leaves, At, FreePipe
<1>12. ASSUME NEW s \in Sups, NEW c \in Components, DelayOver(s, c) PROVE RepairsHeld'
  BY <1>12, SMTT(40) DEF DelayOver
<1>13. ASSUME NEW s \in Sups, NEW c \in Components, ActionSettles(s, c) PROVE RepairsHeld'
  BY <1>13, SMTT(40) DEF ActionSettles, Unfenced
<1>14. ASSUME NEW c \in Components, ComesUp(c) PROVE RepairsHeld'
  BY <1>14, SMTT(40) DEF ComesUp
<1>15. ASSUME NEW c \in Components, Fails(c) PROVE RepairsHeld'
  BY <1>15, SMTT(40) DEF Fails
<1>16. CASE StopCommand
  <2> DEFINE s == supLock.by
  <2>1. CASE Leaves(s)
    <3>1. supAt' = [supAt EXCEPT ![s] = "down"] /\ inFlight' = [inFlight EXCEPT ![s] = {}]
      BY <2>1, Zenon DEF Leaves, At
    <3> HIDE DEF s
    <3>2. supAt' \in [Sups -> Places] /\ DOMAIN inFlight' = Sups
      <4>1. "down" \in Places
        BY SMT
      <4>2. QED BY <3>1, <4>1, Zenon
    <3>3. ASSUME NEW t \in Sups, inFlight'[t] # {} PROVE supAt'[t] \in Past
      <4>1. t # s
        BY <3>1, <3>3, SMT
      <4>2. QED BY <3>1, <3>3, <4>1, SMT
    <3>4. QED BY <3>2, <3>3, Zenon
  <2>2. CASE UNCHANGED <<supAt, inFlight>>
    BY <2>2, SMT
  <2>3. QED BY <1>16, <2>1, <2>2, Zenon DEF StopCommand
<1>17. CASE StopEnds
  BY <1>17, SMTT(40) DEF StopEnds
<1>18. CASE StopGivesUp
  BY <1>18, SMTT(40) DEF StopGivesUp
<1>19. CASE UNCHANGED supVars
  BY <1>19, SMTT(40) DEF supVars
<1>20. QED
  BY <1>1, <1>2, <1>3, <1>4, <1>5, <1>6, <1>7, <1>8, <1>9, <1>10, <1>11, <1>12, <1>13,
     <1>14,
     <1>15, <1>16, <1>17, <1>18, <1>19, Zenon DEF SupNext, SupSteps

\* Every step: an attempt is counted before it is made, and a component is called
\* FAILED when none is left and none is under way.
LEMMA NextAttempts == AttemptsCounted /\ RepairsHeld /\ [SupNext]_supVars => AttemptsCounted'
<1> SUFFICES ASSUME AttemptsCounted, RepairsHeld, [SupNext]_supVars PROVE AttemptsCounted'
  OBVIOUS
<1> USE DEF mine, world
<1>1. ASSUME NEW s \in Sups, Starts(s) PROVE AttemptsCounted'
  <2>1. UNCHANGED <<comp, inFlight>>
    BY <1>1 DEF Starts
  <2>2. QED BY <2>1, EntriesKept, Zenon
<1>2. ASSUME NEW s \in Sups, TakeMutex(s) PROVE AttemptsCounted'
  <2>1. UNCHANGED <<comp, inFlight>>
    BY <1>2 DEF TakeMutex
  <2>2. QED BY <2>1, EntriesKept, Zenon
<1>3. ASSUME NEW s \in Sups, ReadLockFile(s) PROVE AttemptsCounted'
  <2>1. UNCHANGED <<comp, inFlight>>
    BY <1>3 DEF ReadLockFile
  <2>2. QED BY <2>1, EntriesKept, Zenon
<1>4. ASSUME NEW s \in Sups, WriteLockFile(s) PROVE AttemptsCounted'
  <2>1. UNCHANGED <<comp, inFlight>>
    BY <1>4 DEF WriteLockFile
  <2>2. QED BY <2>1, EntriesKept, Zenon
<1>5. ASSUME NEW s \in Sups, Bootstrap(s) PROVE AttemptsCounted'
  <2> DEFINE c == Head(supTodo[s])
             st == [comp[s][c] EXCEPT !.state = "RECOVERING"]
  <2>1. CASE UNCHANGED <<inFlight, comp>>
    BY <2>1, EntriesKept, Zenon
  <2>2. CASE /\ inFlight' = [inFlight EXCEPT ![s] = @ \cup {c}]
             /\ comp' = [comp EXCEPT ![s][c] = st]
    <3>1. c \in Components => st \in Status /\ st.state # "FAILED"
      <4>1. c \in Components => comp[s][c] \in Status
        BY Zenon DEF AttemptsCounted
      <4>2. "RECOVERING" \in States
        BY SMT DEF States
      <4> HIDE DEF c
      <4>3. c \in Components => st \in Status /\ st.state = "RECOVERING"
        BY <4>1, <4>2, StateSet, Zenon
      <4>4. QED BY <4>3
    <3>2. \A t \in Sups, d \in Components : d \in inFlight'[t] => d \in inFlight[t] \/ (t = s /\ d = c)
      BY <2>2, SMT DEF RepairsHeld
    <3> HIDE DEF st, c
    <3>3. comp' = [comp EXCEPT ![s][c] = st]
      BY <2>2
    <3>4. c \in Components => st \in Status
                 /\ (st.state = "FAILED" => st.attempts = Budget /\ c \notin inFlight'[s])
      BY <3>1
    <3>5. QED BY <3>2, <3>3, <3>4, EntryBecomes
  <2>3. QED BY <1>5, <2>1, <2>2, Zenon DEF Bootstrap, Attempt
<1>6. ASSUME NEW s \in Sups, TickBegins(s) PROVE AttemptsCounted'
  <2>1. UNCHANGED <<comp, inFlight>>
    BY <1>6 DEF TickBegins
  <2>2. QED BY <2>1, EntriesKept, Zenon
<1>7. ASSUME NEW s \in Sups, Observe(s) PROVE AttemptsCounted'
  <2> DEFINE c == Head(supTodo[s])
             st == comp[s][c]
  <2>1. \/ /\ UNCHANGED inFlight
           /\ \/ comp' = [comp EXCEPT ![s][c] = [st EXCEPT !.state = "RECOVERING"]]
              \/ comp' = [comp EXCEPT ![s][c] = [state |-> "READY", attempts |-> 0, gated |-> FALSE]]
              \/ comp' = [comp EXCEPT ![s][c] = [st EXCEPT !.state = "OFFLINE"]]
        \/ /\ UNCHANGED inFlight /\ Exhausted(st) /\ c \notin inFlight[s]
           /\ comp' = [comp EXCEPT ![s][c] = [st EXCEPT !.state = "FAILED"]]
        \/ /\ ~Exhausted(st)
           /\ Attempt(s, c, [st EXCEPT !.attempts = @ + 1, !.gated = st.attempts + 2 <= Budget])
    BY <1>7, Zenon DEF Observe, Busy
  <2>2. c \in Components => st \in Status /\ Honest(s, c)
    BY Zenon DEF AttemptsCounted
  <2> HIDE DEF st, c
  <2>10. {"RECOVERING", "OFFLINE", "FAILED", "READY"} \subseteq States
    BY SMT DEF States
  <2>3. ASSUME NEW new, UNCHANGED inFlight, comp' = [comp EXCEPT ![s][c] = new],
               c \in Components => new \in Status /\ (new.state = "FAILED" =>
                                                 new.attempts = Budget /\ c \notin inFlight[s])
        PROVE  AttemptsCounted'
    BY <2>3, EntryBecomes
  <2>4. CASE UNCHANGED inFlight /\ comp' = [comp EXCEPT ![s][c] = [st EXCEPT !.state = "RECOVERING"]]
    <3>1. c \in Components => [st EXCEPT !.state = "RECOVERING"] \in Status
                               /\ [st EXCEPT !.state = "RECOVERING"].state = "RECOVERING"
      BY <2>2, <2>10, StateSet, Zenon
    <3>2. QED BY <2>3, <2>4, <3>1
  <2>5. CASE UNCHANGED inFlight /\ comp' = [comp EXCEPT ![s][c] = [st EXCEPT !.state = "OFFLINE"]]
    <3>1. c \in Components => [st EXCEPT !.state = "OFFLINE"] \in Status
                               /\ [st EXCEPT !.state = "OFFLINE"].state = "OFFLINE"
      BY <2>2, <2>10, StateSet, Zenon
    <3>2. QED BY <2>3, <2>5, <3>1
  <2>6. CASE /\ UNCHANGED inFlight
             /\ comp' = [comp EXCEPT ![s][c] = [state |-> "READY", attempts |-> 0, gated |-> FALSE]]
    <3>1. 0 \in 0..Budget
      BY SupConstants, SMT
    <3>2. [state |-> "READY", attempts |-> 0, gated |-> FALSE] \in Status
      BY <2>10, <3>1, Zenon DEF Status
    <3>3. QED BY <2>3, <2>6, <3>2
  <2>7. CASE /\ UNCHANGED inFlight /\ Exhausted(st) /\ c \notin inFlight[s]
             /\ comp' = [comp EXCEPT ![s][c] = [st EXCEPT !.state = "FAILED"]]
    <3> DEFINE new == [st EXCEPT !.state = "FAILED"]
    <3>1. c \in Components => new \in Status /\ new.attempts = Budget
      <4>1. c \in Components => new \in Status /\ new.attempts = st.attempts
        BY <2>2, <2>10, StateSet, Zenon
      <4>3. c \in Components => st.attempts = Budget
        BY <2>2, <2>7, BeyondBudget, Zenon
      <4>4. QED BY <4>1, <4>3
    <3> HIDE DEF new
    <3>2. comp' = [comp EXCEPT ![s][c] = new]
      BY <2>7 DEF new
    <3>3. QED BY <2>3, <2>7, <3>1, <3>2
  <2>8. CASE /\ ~Exhausted(st)
             /\ Attempt(s, c, [st EXCEPT !.attempts = @ + 1, !.gated = st.attempts + 2 <= Budget])
    <3> DEFINE new == [[st EXCEPT !.attempts = @ + 1, !.gated = st.attempts + 2 <= Budget]
                          EXCEPT !.state = "RECOVERING"]
    <3>1. c \in Components => new \in Status /\ new.state # "FAILED"
      <4> DEFINE counted == [st EXCEPT !.attempts = @ + 1, !.gated = st.attempts + 2 <= Budget]
      <4>1. c \in Components => counted \in Status
        BY <2>2, <2>8, StatusCount, Zenon
      <4> HIDE DEF counted
      <4>2. c \in Components => [counted EXCEPT !.state = "RECOVERING"] \in Status
                  /\ [counted EXCEPT !.state = "RECOVERING"].state = "RECOVERING"
        BY <4>1, <2>10, StateSet, Zenon
      <4>3. QED BY <4>2 DEF counted
    <3>2. comp' = [comp EXCEPT ![s][c] = new] /\ inFlight' = [inFlight EXCEPT ![s] = @ \cup {c}]
      BY <2>8 DEF Attempt
    <3> HIDE DEF new
    <3>3. \A t \in Sups, d \in Components : d \in inFlight'[t] => d \in inFlight[t] \/ (t = s /\ d = c)
      BY <3>2, SMT DEF RepairsHeld
    <3>4. comp' = [comp EXCEPT ![s][c] = new]
      BY <3>2
    <3>5. c \in Components => new \in Status
                 /\ (new.state = "FAILED" => new.attempts = Budget /\ c \notin inFlight'[s])
      BY <3>1
    <3>6. QED BY <3>3, <3>4, <3>5, EntryBecomes
  <2>9. QED BY <2>1, <2>4, <2>5, <2>6, <2>7, <2>8, Zenon
<1>8. ASSUME NEW s \in Sups, TickEnds(s) PROVE AttemptsCounted'
  <2>1. UNCHANGED <<comp, inFlight>>
    BY <1>8 DEF TickEnds
  <2>2. QED BY <2>1, EntriesKept, Zenon
<1>9. ASSUME NEW s \in Sups, Drain(s) PROVE AttemptsCounted'
  <2>1. UNCHANGED <<comp, inFlight>>
    BY <1>9 DEF Drain
  <2>2. QED BY <2>1, EntriesKept, Zenon
<1>10. ASSUME NEW s \in Sups, ReleaseLock(s) PROVE AttemptsCounted'
  <2>1. comp' = [comp EXCEPT ![s] = [c \in Components |-> Unknown]] /\ UNCHANGED inFlight
    BY <1>10, Zenon DEF ReleaseLock, At, Settled, FreePipe
  <2>2. \A r \in Sups, d \in Components : d \in inFlight'[r] => d \in inFlight[r]
    BY <2>1, SMT DEF RepairsHeld
  <2>3. QED BY <2>1, <2>2, EntriesForgotten, Zenon
<1>11. ASSUME NEW s \in Sups, Killed(s) PROVE AttemptsCounted'
  <2>1. /\ comp' = [comp EXCEPT ![s] = [c \in Components |-> Unknown]]
        /\ inFlight' = [inFlight EXCEPT ![s] = {}]
    BY <1>11, Zenon DEF Killed, Leaves, At, FreePipe
  <2>2. \A r \in Sups, d \in Components : d \in inFlight'[r] => d \in inFlight[r]
    BY <2>1, SMT DEF RepairsHeld
  <2>3. QED BY <2>1, <2>2, EntriesForgotten, Zenon
<1>12. ASSUME NEW s \in Sups, NEW c \in Components, DelayOver(s, c) PROVE AttemptsCounted'
  <2> DEFINE st == [comp[s][c] EXCEPT !.gated = FALSE]
  <2>1. comp' = [comp EXCEPT ![s][c] = st] /\ UNCHANGED inFlight
    BY <1>12 DEF DelayOver
  <2>2. st \in Status /\ (st.state = "FAILED" => comp[s][c].state = "FAILED")
        /\ st.attempts = comp[s][c].attempts
    <3>1. comp[s][c] \in Status /\ Budget \in 0..Budget /\ FALSE \in BOOLEAN
      BY SupConstants, SMT DEF AttemptsCounted
    <3>2. QED BY <3>1, GateSet, Zenon
  <2>3. st.state = "FAILED" => st.attempts = Budget /\ c \notin inFlight[s]
    BY <2>2, Zenon DEF AttemptsCounted, Honest
  <2> HIDE DEF st
  <2>4. QED BY <2>1, <2>2, <2>3, EntryKept
<1>13. ASSUME NEW s \in Sups, NEW c \in Components, ActionSettles(s, c) PROVE AttemptsCounted'
  <2>1. comp' = comp /\ inFlight' = [inFlight EXCEPT ![s] = @ \ {c}]
    BY <1>13 DEF ActionSettles, Unfenced
  <2>2. \A r \in Sups, d \in Components : d \in inFlight'[r] => d \in inFlight[r]
    BY <2>1, SMT DEF RepairsHeld
  <2>3. QED BY <2>1, <2>2, EntriesKept, Zenon
<1>14. ASSUME NEW c \in Components, ComesUp(c) PROVE AttemptsCounted'
  <2>1. UNCHANGED <<comp, inFlight>>
    BY <1>14 DEF ComesUp
  <2>2. QED BY <2>1, EntriesKept, Zenon
<1>15. ASSUME NEW c \in Components, Fails(c) PROVE AttemptsCounted'
  <2>1. UNCHANGED <<comp, inFlight>>
    BY <1>15 DEF Fails
  <2>2. QED BY <2>1, EntriesKept, Zenon
<1>16. CASE StopCommand
  <2> DEFINE s == supLock.by
  <2>1. CASE Leaves(s)
    <3>1. /\ comp' = [comp EXCEPT ![s] = [c \in Components |-> Unknown]]
          /\ inFlight' = [inFlight EXCEPT ![s] = {}]
      BY <2>1, Zenon DEF Leaves
    <3> HIDE DEF s
    <3>2. \A r \in Sups, d \in Components : d \in inFlight'[r] => d \in inFlight[r]
      BY <3>1, SMT DEF RepairsHeld
    <3>3. QED BY <3>1, <3>2, EntriesForgotten, Zenon
  <2>2. CASE UNCHANGED <<comp, inFlight>>
    BY <2>2, EntriesKept, Zenon
  <2>3. QED BY <1>16, <2>1, <2>2, Zenon DEF StopCommand
<1>17. CASE StopEnds
  <2>1. UNCHANGED <<comp, inFlight>>
    BY <1>17 DEF StopEnds
  <2>2. QED BY <2>1, EntriesKept, Zenon
<1>18. CASE StopGivesUp
  <2>1. UNCHANGED <<comp, inFlight>>
    BY <1>18 DEF StopGivesUp
  <2>2. QED BY <2>1, EntriesKept, Zenon
<1>19. CASE UNCHANGED supVars
  <2>1. UNCHANGED <<comp, inFlight>>
    BY <1>19 DEF supVars
  <2>2. QED BY <2>1, EntriesKept, Zenon
<1>20. QED
  BY <1>1, <1>2, <1>3, <1>4, <1>5, <1>6, <1>7, <1>8, <1>9, <1>10, <1>11, <1>12, <1>13,
     <1>14,
     <1>15, <1>16, <1>17, <1>18, <1>19, Zenon DEF SupNext, SupSteps

\* SupInv holds in every reachable state.
LEMMA SupReaches == SupSpec => []SupInv
<1> QED
  BY InitSup, NextLock, NextRepairs, NextAttempts, PTL DEF SupSpec, SupInv

\* Whatever dies and restarts, one supervisor is past the lock, no component is
\* repaired by two of them, and FAILED is said of one whose attempts are used up
\* (supervisor.ts: acquire, repair, observe).
THEOREM SupervisionIsSafe == SupSpec => []SupervisorSafe
<1>1. SupInv => SupervisorSafe
  <2> SUFFICES ASSUME SupInv PROVE SupervisorSafe
    OBVIOUS
  <2>1. OneSupervisor
    BY PastSettled DEF SupInv, OneSupervisor
  <2>2. OneRepair
    BY <2>1 DEF SupInv, RepairsHeld, OneRepair, OneSupervisor
  <2>3. FailedIsExhausted
    BY DEF SupInv, AttemptsCounted, Honest, FailedIsExhausted
  <2>4. QED BY <2>1, <2>2, <2>3 DEF SupervisorSafe
<1>2. QED BY <1>1, SupReaches, PTL

-----------------------------------------------------------------------------
(* NativeTurns: the inductive invariant TurnInv.                               *)
Answers == {"ack", "reject"}
TurnOutcomes == {"completed", "failed"}
Wire == 1..Len(wire)
SendPlaces == {"new", "read", "ready", "policy", "post", "busy", "stop", "stopping", "turn",
   "output", "done"}
Unasked == {"new", "read", "ready", "policy", "busy", "stop", "stopping"}

Kinds == Answers \cup TurnOutcomes \cup {"stopped"}
Messages == [kind: Kinds, of: Sends \cup {NoSend}]
TurnTypes ==
  /\ sendAt \in [Sends -> SendPlaces]
  /\ waiter \in Sends \cup {NoSend} /\ turn \in Sends \cup {NoSend}
  /\ resolved \in [Sends -> {"none"} \cup TurnOutcomes]
  /\ requested \subseteq Sends \cup {Stop}
  /\ answer \in [Sends -> {"none", "completed", "failed", "busy"}]
  /\ ended \in [Sends -> {"none"} \cup TurnOutcomes]
  /\ accepted \in [Sends -> 0..1] /\ givenUp \in Nat
  /\ wire \in Seq(Messages)
(* A request is answered once: what was not asked for yet, or was not read    *)
(* yet, has no answer on the wire and was not accepted.                       *)
AnswersTo(x, i) == wire[i].kind \in Answers /\ wire[i].of = x
Unanswered ==
  \A x \in Sends :
    sendAt[x] \in Unasked \/ x \in requested => accepted[x] = 0 /\ \A i \in Wire : ~AnswersTo(x, i)
UnaskedUnsent == \A x \in Sends : sendAt[x] \in Unasked => x \notin requested
OneAnswer == \A x \in Sends : \A i, j \in Wire : AnswersTo(x, i) /\ AnswersTo(x, j) => i = j
OfSends == \A i \in Wire : wire[i].kind \in Answers \cup TurnOutcomes => wire[i].of \in Sends
RejectedIsNot == \A i \in Wire : wire[i].kind = "reject" => accepted[wire[i].of] = 0
Returned ==
  \A x \in Sends :
    (answer[x] # "none" => sendAt[x] = "done") /\ (sendAt[x] = "policy" => effortPolicy)
AskedOnce ==
  Unanswered /\ UnaskedUnsent /\ OneAnswer /\ OfSends /\ RejectedIsNot /\ Returned
(* A turn is of an accepted instruction and ends once, as the wire says.      *)
RunsAccepted == turn # NoSend => accepted[turn] = 1 /\ ended[turn] = "none"
EndedAccepted == \A x \in Sends : ended[x] # "none" => accepted[x] = 1
EndIsSaid == \A i \in Wire : wire[i].kind \in TurnOutcomes => ended[wire[i].of] = wire[i].kind
EndsOnce == RunsAccepted /\ EndedAccepted /\ EndIsSaid
(* While nobody ran out of time and nothing is awaited before a registration, *)
(* the waiter is of whoever is asked for, runs, has ended or was rejected.    *)
Undisturbed == givenUp = 0 /\ ~effortPolicy
WaiterAsked == \A x \in Sends : x \in requested => waiter = x
WaiterRuns == turn # NoSend => waiter = turn
WaiterEnded == \A i \in Wire : wire[i].kind \in TurnOutcomes => waiter = wire[i].of
OneEnd == \A i, j \in Wire : wire[i].kind \in TurnOutcomes /\ wire[j].kind \in TurnOutcomes => i = j
WaiterRejected ==
  \A i \in Wire : wire[i].kind = "reject" /\ sendAt[wire[i].of] = "post" => waiter = wire[i].of
BusyUnasked == \A x \in Sends : answer[x] = "busy" => accepted[x] = 0 /\ x \notin requested
CompletedIsOwn ==
  \A x \in Sends :
    resolved[x] = "completed" \/ sendAt[x] = "output" \/ answer[x] = "completed" =>
      ended[x] = "completed"
Waited ==
  /\ WaiterAsked /\ WaiterRuns /\ WaiterEnded /\ OneEnd /\ WaiterRejected
  /\ BusyUnasked /\ CompletedIsOwn
TurnInv == TurnTypes /\ AskedOnce /\ EndsOnce /\ (Undisturbed => Waited)

\* A message is written at the end of the wire.
LEMMA Pushed ==
  ASSUME NEW S, NEW w \in Seq(S), NEW m \in S
  PROVE  /\ w \o <<m>> \in Seq(S) /\ Len(w \o <<m>>) = Len(w) + 1
         /\ \A i \in 1..Len(w) : (w \o <<m>>)[i] = w[i]
         /\ (w \o <<m>>)[Len(w) + 1] = m
  BY SMT

\* Two messages are.
LEMMA PushedTwice ==
  ASSUME NEW S, NEW w \in Seq(S), NEW m \in S, NEW n \in S
  PROVE  /\ w \o <<m, n>> \in Seq(S) /\ Len(w \o <<m, n>>) = Len(w) + 2
         /\ \A i \in 1..Len(w) : (w \o <<m, n>>)[i] = w[i]
         /\ (w \o <<m, n>>)[Len(w) + 1] = m /\ (w \o <<m, n>>)[Len(w) + 2] = n
  BY SMT

\* A message is read from its front.
LEMMA Popped ==
  ASSUME NEW S, NEW w \in Seq(S), w # <<>>
  PROVE  /\ Tail(w) \in Seq(S) /\ Len(w) \in Nat \ {0} /\ Len(Tail(w)) = Len(w) - 1
         /\ \A i \in 1..(Len(w) - 1) : Tail(w)[i] = w[i + 1]
         /\ Head(w) = w[1]
  BY SMT

\* What a message says.
LEMMA Said ==
  ASSUME NEW k \in Kinds, NEW x \in Sends \cup {NoSend}
  PROVE  Message(k, x) \in Messages /\ Message(k, x).kind = k /\ Message(k, x).of = x
  BY Zenon DEF Message, Messages

\* The wire and one more message.
Longer(n, m) ==
  /\ n \notin Wire /\ Wire' = Wire \cup {n}
  /\ \A i \in Wire : wire'[i] = wire[i]
  /\ wire'[n] = m
\* The wire without its first message.
Later(i) == i + 1
Shorter ==
  /\ 1 \in Wire
  /\ \A i \in Wire' : Later(i) \in Wire /\ Later(i) # 1 /\ wire'[i] = wire[Later(i)]
  /\ \A i, j \in Wire' : Later(i) = Later(j) => i = j

\* Writes, by positions of the wire: nothing else of a sequence is used below.
LEMMA WritesOne ==
  ASSUME wire \in Seq(Messages), NEW k \in Kinds, NEW x \in Sends \cup {NoSend},
         Writes(<<Message(k, x)>>)
  PROVE  wire' \in Seq(Messages) /\ \E n, m : Longer(n, m) /\ m.kind = k /\ m.of = x
<1> DEFINE m == Message(k, x)
<1>1. m \in Messages /\ m.kind = k /\ m.of = x
  BY Said
<1> HIDE DEF m
<1>2. wire' = wire \o <<m>> /\ wire \in Seq(Messages)
  BY DEF Writes, m
<1>3. wire' \in Seq(Messages) /\ Len(wire) \in Nat /\ Len(wire') = Len(wire) + 1
      /\ (\A i \in 1..Len(wire) : wire'[i] = wire[i]) /\ wire'[Len(wire) + 1] = m
  BY <1>1, <1>2, Pushed, LenProperties
<1>4. Longer(Len(wire) + 1, m)
  BY <1>3, SMT DEF Longer, Wire
<1>5. QED BY <1>1, <1>3, <1>4

\* The same of two messages, the second of which says that a stop was obeyed.
LEMMA WritesTwo ==
  ASSUME wire \in Seq(Messages), NEW k \in Kinds, NEW x \in Sends \cup {NoSend},
         Writes(<<Message(k, x), Message("stopped", NoSend)>>)
  PROVE  /\ wire' \in Seq(Messages)
         /\ \E n, m, o, p : /\ n \notin Wire /\ o \notin Wire /\ n # o /\ Wire' = Wire \cup {n, o}
                             /\ (\A i \in Wire : wire'[i] = wire[i])
                             /\ wire'[n] = m /\ wire'[o] = p
                             /\ m.kind = k /\ m.of = x /\ p.kind = "stopped" /\ p.of = NoSend
<1> DEFINE m == Message(k, x)
           p == Message("stopped", NoSend)
           n == Len(wire) + 1
           o == Len(wire) + 2
<1>1. m \in Messages /\ m.kind = k /\ m.of = x
  BY Said
<1>2. p \in Messages /\ p.kind = "stopped" /\ p.of = NoSend
  BY Said DEF Kinds
<1> HIDE DEF m, p
<1>3. wire' = wire \o <<m, p>> /\ wire \in Seq(Messages)
  BY DEF Writes, m, p
<1>4. wire' \in Seq(Messages) /\ Len(wire) \in Nat /\ Len(wire') = Len(wire) + 2
      /\ (\A i \in 1..Len(wire) : wire'[i] = wire[i]) /\ wire'[n] = m /\ wire'[o] = p
  BY <1>1, <1>2, <1>3, PushedTwice, LenProperties
<1>5. n \notin Wire /\ o \notin Wire /\ n # o /\ Wire' = Wire \cup {n, o}
  BY <1>4, SMT DEF Wire
<1>6. \A i \in Wire : wire'[i] = wire[i]
  BY <1>4 DEF Wire
<1> HIDE DEF n, o
<1>7. QED BY <1>1, <1>2, <1>4, <1>5, <1>6

\* Reads, by positions of the wire.
LEMMA ReadsOne ==
  ASSUME wire \in Seq(Messages), NEW k, Reads(k)
  PROVE  wire' \in Seq(Messages) /\ Shorter /\ Head(wire) = wire[1] /\ wire[1].kind = k
<1>1. wire \in Seq(Messages) /\ wire # <<>> /\ wire' = Tail(wire) /\ Head(wire).kind = k
  BY DEF Reads
<1>2. /\ wire' \in Seq(Messages) /\ Len(wire) \in Nat \ {0} /\ Len(wire') = Len(wire) - 1
      /\ \A i \in 1..(Len(wire) - 1) : wire'[i] = wire[i + 1]
      /\ Head(wire) = wire[1]
  BY <1>1, Popped
<1>3. Shorter
  BY <1>2, SMT DEF Shorter, Later, Wire
<1>4. QED BY <1>1, <1>2, <1>3

\* A message that answers nobody, or somebody for the first time, leaves every
\* request with one answer at most.
LEMMA OneMoreAnswer ==
  ASSUME OneAnswer, NEW n, NEW m, Longer(n, m),
         m.kind \in Answers => \A i \in Wire : ~AnswersTo(m.of, i)
  PROVE  OneAnswer'
  BY SMT DEF OneAnswer, AnswersTo, Longer

\* A message that is no answer leaves the requests unanswered.
LEMMA StillUnanswered ==
  ASSUME Unanswered, NEW n, NEW m, Longer(n, m), m.kind \notin Answers,
         UNCHANGED <<sendAt, accepted>>, requested' \subseteq requested
  PROVE  Unanswered'
  BY SMT DEF Unanswered, AnswersTo, Longer

\* Nothing was asked for at first.
LEMMA InitTurn == TurnInit => TurnInv
<1> SUFFICES ASSUME TurnInit PROVE TurnInv
  OBVIOUS
<1> USE TurnConstants DEF TurnInit, Wire, Stop
<1>1. TurnTypes
  BY SMT DEF TurnTypes, SendPlaces, TurnOutcomes, Answers
<1>2. AskedOnce
  BY SMT DEF AskedOnce, Unanswered, UnaskedUnsent, OneAnswer, OfSends, RejectedIsNot,
     Returned,
         AnswersTo, Unasked
<1>3. EndsOnce /\ Waited
  BY SMT DEF EndsOnce, RunsAccepted, EndedAccepted, EndIsSaid, Waited, WaiterAsked,
     WaiterRuns,
         WaiterEnded, OneEnd, WaiterRejected, BusyUnasked, CompletedIsOwn
<1>4. QED BY <1>1, <1>2, <1>3 DEF TurnInv

\* Every step of a call, of the runtime and of the pipe between them.
LEMMA NextTurn == TurnInv /\ [TurnNext]_turnVars => TurnInv'
<1> SUFFICES ASSUME TurnInv, [TurnNext]_turnVars PROVE TurnInv'
  OBVIOUS
<1>0. TurnTypes /\ AskedOnce /\ EndsOnce /\ (Undisturbed => Waited)
  BY DEF TurnInv
<1> USE TurnConstants DEF nativeSide, callSide, posted, Answers, TurnOutcomes, Unasked, SendPlaces,
     TurnTypes, AskedOnce, AnswersTo, Unanswered, UnaskedUnsent, OneAnswer, OfSends, RejectedIsNot,
     Returned, EndsOnce, RunsAccepted, EndedAccepted, EndIsSaid, Undisturbed, Waited, WaiterAsked,
     WaiterRuns, WaiterEnded, OneEnd, WaiterRejected, BusyUnasked, CompletedIsOwn
<1>1. ASSUME NEW x \in Sends, SendBegins(x) PROVE TurnInv'
  <2>1. TurnTypes'
    BY <1>0, <1>1, SMTT(40) DEF SendBegins, Goes
  <2>2. AskedOnce'
    BY <1>0, <1>1, SMTT(40) DEF Wire, SendBegins, Goes
  <2>3. EndsOnce'
    BY <1>0, <1>1, SMTT(40) DEF Wire, SendBegins, Goes
  <2>4. (Undisturbed => Waited)'
    BY <1>0, <1>1, SMTT(40) DEF Wire, SendBegins, Goes
  <2>5. QED BY <2>1, <2>2, <2>3, <2>4 DEF TurnInv
<1>2. ASSUME NEW x \in Sends, MarkerRead(x) PROVE TurnInv'
  <2>1. TurnTypes'
    BY <1>0, <1>2, SMTT(40) DEF MarkerRead, Goes
  <2>2. AskedOnce'
    BY <1>0, <1>2, SMTT(40) DEF Wire, MarkerRead, Goes
  <2>3. EndsOnce'
    BY <1>0, <1>2, SMTT(40) DEF Wire, MarkerRead, Goes
  <2>4. (Undisturbed => Waited)'
    BY <1>0, <1>2, SMTT(40) DEF Wire, MarkerRead, Goes
  <2>5. QED BY <2>1, <2>2, <2>3, <2>4 DEF TurnInv
<1>3. ASSUME NEW x \in Sends, ProviderSend(x) PROVE TurnInv'
  <2>1. TurnTypes'
    BY <1>0, <1>3, SMTT(40) DEF ProviderSend, TurnWaiting, Returns, Goes, Posts, posted
  <2>2. AskedOnce'
    BY <1>0, <1>3, SMTT(40) DEF Wire, ProviderSend, TurnWaiting, Returns, Goes, Posts,
       posted
  <2>3. EndsOnce'
    BY <1>0, <1>3, SMTT(40) DEF Wire, ProviderSend, TurnWaiting, Returns, Goes, Posts,
       posted
  <2>4. (Undisturbed => Waited)'
    BY <1>0, <1>3, SMTT(40) DEF Wire, ProviderSend, TurnWaiting, Returns, Goes, Posts,
       posted
  <2>5. QED BY <2>1, <2>2, <2>3, <2>4 DEF TurnInv
<1>4. ASSUME NEW x \in Sends, PolicyRead(x) PROVE TurnInv'
  <2>1. TurnTypes'
    BY <1>0, <1>4, SMTT(40) DEF PolicyRead, Posts, Goes
  <2>2. AskedOnce'
    BY <1>0, <1>4, SMTT(40) DEF Wire, PolicyRead, Posts, Goes
  <2>3. EndsOnce'
    BY <1>0, <1>4, SMTT(40) DEF Wire, PolicyRead, Posts, Goes
  <2>4. (Undisturbed => Waited)'
    BY <1>0, <1>4, SMTT(40) DEF Wire, PolicyRead, Posts, Goes
  <2>5. QED BY <2>1, <2>2, <2>3, <2>4 DEF TurnInv
<1>5. ASSUME NEW x \in Sends, Retries(x) PROVE TurnInv'
  <2>1. TurnTypes'
    BY <1>0, <1>5, SMTT(40) DEF Retries, Goes
  <2>2. AskedOnce'
    BY <1>0, <1>5, SMTT(40) DEF Wire, Retries, Goes
  <2>3. EndsOnce'
    BY <1>0, <1>5, SMTT(40) DEF Wire, Retries, Goes
  <2>4. (Undisturbed => Waited)'
    BY <1>0, <1>5, SMTT(40) DEF Wire, Retries, Goes
  <2>5. QED BY <2>1, <2>2, <2>3, <2>4 DEF TurnInv
<1>6. ASSUME NEW x \in Sends, Judges(x) PROVE TurnInv'
  <2>1. TurnTypes'
    BY <1>0, <1>6, SMTT(40) DEF Judges, Goes, Returns
  <2>2. AskedOnce'
    BY <1>0, <1>6, SMTT(40) DEF Wire, Judges, Goes, Returns
  <2>3. EndsOnce'
    BY <1>0, <1>6, SMTT(40) DEF Wire, Judges, Goes, Returns
  <2>4. (Undisturbed => Waited)'
    BY <1>0, <1>6, SMTT(40) DEF Wire, Judges, Goes, Returns
  <2>5. QED BY <2>1, <2>2, <2>3, <2>4 DEF TurnInv
<1>7. ASSUME NEW x \in Sends, RecoveryStops(x) PROVE TurnInv'
  <2>1. TurnTypes'
    BY <1>0, <1>7, SMTT(40) DEF RecoveryStops, Goes
  <2>2. AskedOnce'
    BY <1>0, <1>7, SMTT(40) DEF Wire, RecoveryStops, Goes
  <2>3. EndsOnce'
    BY <1>0, <1>7, SMTT(40) DEF Wire, RecoveryStops, Goes
  <2>4. (Undisturbed => Waited)'
    BY <1>0, <1>7, SMTT(40) DEF Wire, RecoveryStops, Goes
  <2>5. QED BY <2>1, <2>2, <2>3, <2>4 DEF TurnInv
<1>8. ASSUME NEW x \in Sends, TurnKnown(x) PROVE TurnInv'
  <2>1. TurnTypes'
    BY <1>0, <1>8, SMTT(40) DEF TurnKnown, Goes, Returns
  <2>2. AskedOnce'
    BY <1>0, <1>8, SMTT(40) DEF Wire, TurnKnown, Goes, Returns
  <2>3. EndsOnce'
    BY <1>0, <1>8, SMTT(40) DEF Wire, TurnKnown, Goes, Returns
  <2>4. (Undisturbed => Waited)'
    BY <1>0, <1>8, SMTT(40) DEF Wire, TurnKnown, Goes, Returns
  <2>5. QED BY <2>1, <2>2, <2>3, <2>4 DEF TurnInv
<1>9. ASSUME NEW x \in Sends, OutputRead(x) PROVE TurnInv'
  <2>1. TurnTypes'
    BY <1>0, <1>9, SMTT(40) DEF OutputRead, Goes, Returns
  <2>2. AskedOnce'
    BY <1>0, <1>9, SMTT(40) DEF Wire, OutputRead, Goes, Returns
  <2>3. EndsOnce'
    BY <1>0, <1>9, SMTT(40) DEF Wire, OutputRead, Goes, Returns
  <2>4. (Undisturbed => Waited)'
    BY <1>0, <1>9, SMTT(40) DEF Wire, OutputRead, Goes, Returns
  <2>5. QED BY <2>1, <2>2, <2>3, <2>4 DEF TurnInv
<1>10. ASSUME NEW x \in Sends, WindowPasses(x) PROVE TurnInv'
  <2>1. TurnTypes'
    BY <1>0, <1>10, SMTT(40) DEF WindowPasses
  <2>2. AskedOnce'
    BY <1>0, <1>10, SMTT(40) DEF Wire, WindowPasses
  <2>3. EndsOnce'
    BY <1>0, <1>10, SMTT(40) DEF Wire, WindowPasses
  <2>4. (Undisturbed => Waited)'
    BY <1>0, <1>10, SMTT(40) DEF Wire, WindowPasses
  <2>5. QED BY <2>1, <2>2, <2>3, <2>4 DEF TurnInv
<1>11. ASSUME NEW x \in Sends, NativeSend(x) PROVE TurnInv'
  <2>1. CASE slot = "free"
    <3>1. Writes(<<Message("ack", x)>>)
      BY <1>11, <2>1 DEF NativeSend
    <3>2. PICK n, m : Longer(n, m) /\ m.kind = "ack" /\ m.of = x
      BY <1>0, <3>1, WritesOne, SMT DEF Kinds
    <3>3. wire' \in Seq(Messages)
      BY <1>0, <3>1, WritesOne, SMT DEF Kinds
    <3>11. TurnTypes'
      <4>1. accepted[x] = 0 /\ accepted' = [accepted EXCEPT ![x] = @ + 1]
        BY <1>0, <1>11, <2>1 DEF AskedOnce, NativeSend
      <4>2. accepted' \in [Sends -> 0..1]
        BY <1>0, <4>1, SMT
      <4>3. /\ turn' = x /\ requested' = requested \ {x}
            /\ UNCHANGED <<sendAt, waiter, resolved, answer, ended, givenUp>>
        BY <1>11, <2>1 DEF NativeSend
      <4>4. x \in Sends
        BY <1>11
      <4>5. QED BY <1>0, <3>3, <4>2, <4>3, <4>4 DEF TurnTypes
    <3>12. AskedOnce'
      <4>1. Unanswered'
        <5>1. SUFFICES ASSUME NEW y \in Sends, sendAt[y] \in Unasked \/ y \in requested'
                       PROVE  accepted'[y] = 0 /\ \A i \in Wire' : ~AnswersTo(y, i)'
          BY <1>11 DEF NativeSend, Unanswered
        <5>2. y # x /\ (sendAt[y] \in Unasked \/ y \in requested)
          BY <1>0, <1>11, <5>1 DEF NativeSend, AskedOnce, UnaskedUnsent
        <5>3. accepted'[y] = accepted[y]
          BY <1>0, <1>11, <2>1, <5>2 DEF NativeSend, TurnTypes
        <5>4. accepted[y] = 0 /\ \A i \in Wire : ~AnswersTo(y, i)
          BY <1>0, <5>2 DEF AskedOnce, Unanswered
        <5>5. ~AnswersTo(y, n)'
          BY <3>2, <5>2 DEF Longer, AnswersTo
        <5>6. \A i \in Wire : ~AnswersTo(y, i)'
          BY <3>2, <5>4 DEF Longer, AnswersTo
        <5>7. Wire' = Wire \cup {n}
          BY <3>2 DEF Longer
        <5>8. QED BY <5>3, <5>4, <5>5, <5>6, <5>7, Zenon
      <4>2. UnaskedUnsent'
        BY <1>0, <1>11, <3>1, <3>2, <3>3, SMTT(40) DEF NativeSend, Longer
      <4>3. OneAnswer'
        BY <1>0, <1>11, <3>2, OneMoreAnswer DEF NativeSend
      <4>4. OfSends'
        BY <1>0, <1>11, <3>1, <3>2, <3>3, SMTT(40) DEF NativeSend, Longer
      <4>5. RejectedIsNot'
        BY <1>0, <1>11, <3>1, <3>2, <3>3, SMTT(40) DEF NativeSend, Longer
      <4>6. Returned'
        BY <1>0, <1>11, <3>1, <3>2, <3>3, SMTT(40) DEF NativeSend, Longer
      <4>8. QED BY <4>1, <4>2, <4>3, <4>4, <4>5, <4>6, Zenon DEF AskedOnce
    <3>13. EndsOnce'
      BY <1>0, <1>11, <3>1, <3>2, <3>3, SMTT(40) DEF NativeSend, Longer
    <3>14. (Undisturbed => Waited)'
      <4>1. SUFFICES ASSUME Undisturbed' PROVE Waited'
        OBVIOUS
      <4>2. Undisturbed /\ Waited
        BY <4>1, <1>0, <1>11, <2>1, <3>2, <3>3, SMTT(40) DEF NativeSend, Longer
      <4>3. WaiterAsked'
        BY <4>2, <1>0, <1>11, <2>1, <3>2, <3>3, SMTT(40) DEF NativeSend, Longer
      <4>4. WaiterRuns'
        BY <4>2, <1>0, <1>11, <2>1, <3>2, <3>3, SMTT(40) DEF NativeSend, Longer
      <4>5. WaiterEnded'
        BY <4>2, <1>0, <1>11, <2>1, <3>2, <3>3, SMTT(40) DEF NativeSend, Longer
      <4>6. OneEnd'
        <5>1. \A i \in Wire' : wire'[i].kind \in TurnOutcomes => i \in Wire /\ wire'[i] = wire[i]
          BY <3>2, SMT DEF Longer
        <5>2. QED BY <4>2, <5>1, SMT
      <4>7. WaiterRejected'
        BY <4>2, <1>0, <1>11, <2>1, <3>2, <3>3, SMTT(40) DEF NativeSend, Longer
      <4>8. BusyUnasked'
        BY <4>2, <1>0, <1>11, <2>1, <3>2, <3>3, SMTT(40) DEF NativeSend, Longer
      <4>9. CompletedIsOwn'
        BY <4>2, <1>0, <1>11, <2>1, <3>2, <3>3, SMTT(40) DEF NativeSend, Longer
      <4>10. QED BY <4>3, <4>4, <4>5, <4>6, <4>7, <4>8, <4>9, Zenon DEF Waited
    <3>15. QED BY <3>11, <3>12, <3>13, <3>14 DEF TurnInv
  <2>2. CASE slot # "free"
    <3>1. Writes(<<Message("reject", x)>>)
      BY <1>11, <2>2 DEF NativeSend
    <3>2. PICK n, m : Longer(n, m) /\ m.kind = "reject" /\ m.of = x
      BY <1>0, <3>1, WritesOne, SMT DEF Kinds
    <3>3. wire' \in Seq(Messages)
      BY <1>0, <3>1, WritesOne, SMT DEF Kinds
    <3>11. TurnTypes'
      BY <1>0, <1>11, <2>2, <3>2, <3>3, SMTT(40) DEF NativeSend, Longer
    <3>12. AskedOnce'
      <4>1. Unanswered'
        BY <1>0, <1>11, <2>2, <3>2, <3>3, SMTT(40) DEF NativeSend, Longer
      <4>2. UnaskedUnsent'
        BY <1>0, <1>11, <2>2, <3>2, <3>3, SMTT(40) DEF NativeSend, Longer
      <4>3. OneAnswer'
        BY <1>0, <1>11, <3>2, OneMoreAnswer DEF NativeSend
      <4>4. OfSends'
        BY <1>0, <1>11, <2>2, <3>2, <3>3, SMTT(40) DEF NativeSend, Longer
      <4>5. RejectedIsNot'
        BY <1>0, <1>11, <2>2, <3>2, <3>3, SMTT(40) DEF NativeSend, Longer
      <4>6. Returned'
        BY <1>0, <1>11, <2>2, <3>2, <3>3, SMTT(40) DEF NativeSend, Longer
      <4>8. QED BY <4>1, <4>2, <4>3, <4>4, <4>5, <4>6, Zenon DEF AskedOnce
    <3>13. EndsOnce'
      BY <1>0, <1>11, <2>2, <3>2, <3>3, SMTT(40) DEF NativeSend, Longer
    <3>14. (Undisturbed => Waited)'
      <4>1. SUFFICES ASSUME Undisturbed' PROVE Waited'
        OBVIOUS
      <4>2. Undisturbed /\ Waited
        BY <4>1, <1>0, <1>11, <2>2, <3>2, <3>3, SMTT(40) DEF NativeSend, Longer
      <4>3. WaiterAsked'
        BY <4>2, <1>0, <1>11, <2>2, <3>2, <3>3, SMTT(40) DEF NativeSend, Longer
      <4>4. WaiterRuns'
        BY <4>2, <1>0, <1>11, <2>2, <3>2, <3>3, SMTT(40) DEF NativeSend, Longer
      <4>5. WaiterEnded'
        BY <4>2, <1>0, <1>11, <2>2, <3>2, <3>3, SMTT(40) DEF NativeSend, Longer
      <4>6. OneEnd'
        BY <4>2, <1>0, <1>11, <2>2, <3>2, <3>3, SMTT(40) DEF NativeSend, Longer
      <4>7. WaiterRejected'
        BY <4>2, <1>0, <1>11, <2>2, <3>2, <3>3, SMTT(40) DEF NativeSend, Longer
      <4>8. BusyUnasked'
        BY <4>2, <1>0, <1>11, <2>2, <3>2, <3>3, SMTT(40) DEF NativeSend, Longer
      <4>9. CompletedIsOwn'
        BY <4>2, <1>0, <1>11, <2>2, <3>2, <3>3, SMTT(40) DEF NativeSend, Longer
      <4>10. QED BY <4>3, <4>4, <4>5, <4>6, <4>7, <4>8, <4>9, Zenon DEF Waited
    <3>15. QED BY <3>11, <3>12, <3>13, <3>14 DEF TurnInv
  <2>3. QED BY <2>1, <2>2
<1>12. CASE NativeStop
  <2>1. CASE turn = NoSend
    <3>1. Writes(<<Message("stopped", NoSend)>>)
      BY <1>12, <2>1 DEF NativeStop
    <3>2. PICK n, m : Longer(n, m) /\ m.kind = "stopped" /\ m.of = NoSend
      BY <1>0, <3>1, WritesOne, SMT DEF Kinds
    <3>3. wire' \in Seq(Messages)
      BY <1>0, <3>1, WritesOne, SMT DEF Kinds
    <3>11. TurnTypes'
      BY <1>0, <1>12, <3>1, <3>2, <3>3, SMTT(40) DEF NativeStop, Longer
    <3>12. AskedOnce'
      <4>1. Unanswered'
        BY <1>0, <1>12, <3>1, <3>2, <3>3, SMTT(40) DEF NativeStop, Longer
      <4>2. UnaskedUnsent'
        BY <1>0, <1>12, <3>1, <3>2, <3>3, SMTT(40) DEF NativeStop, Longer
      <4>3. OneAnswer'
        BY <1>0, <3>2, OneMoreAnswer
      <4>4. OfSends'
        BY <1>0, <1>12, <3>1, <3>2, <3>3, SMTT(40) DEF NativeStop, Longer
      <4>5. RejectedIsNot'
        BY <1>0, <1>12, <3>1, <3>2, <3>3, SMTT(40) DEF NativeStop, Longer
      <4>6. Returned'
        BY <1>0, <1>12, <3>1, <3>2, <3>3, SMTT(40) DEF NativeStop, Longer
      <4>7. QED BY <4>1, <4>2, <4>3, <4>4, <4>5, <4>6, Zenon DEF AskedOnce
    <3>13. EndsOnce'
      BY <1>0, <1>12, <3>1, <3>2, <3>3, SMTT(40) DEF NativeStop, Longer
    <3>14. (Undisturbed => Waited)'
      <4>1. SUFFICES ASSUME Undisturbed' PROVE Waited'
        OBVIOUS
      <4>2. Undisturbed /\ Waited
        BY <4>1, <1>0, <1>12, <3>1, <3>2, <3>3, SMTT(40) DEF NativeStop, Longer
      <4>3. WaiterAsked'
        BY <4>2, <1>0, <1>12, <3>1, <3>2, <3>3, SMTT(40) DEF NativeStop, Longer
      <4>4. WaiterRuns'
        BY <4>2, <1>0, <1>12, <3>1, <3>2, <3>3, SMTT(40) DEF NativeStop, Longer
      <4>5. WaiterEnded'
        BY <4>2, <1>0, <1>12, <3>1, <3>2, <3>3, SMTT(40) DEF NativeStop, Longer
      <4>6. OneEnd'
        BY <4>2, <1>0, <1>12, <3>1, <3>2, <3>3, SMTT(40) DEF NativeStop, Longer
      <4>7. WaiterRejected'
        BY <4>2, <1>0, <1>12, <3>1, <3>2, <3>3, SMTT(40) DEF NativeStop, Longer
      <4>8. BusyUnasked'
        BY <4>2, <1>0, <1>12, <3>1, <3>2, <3>3, SMTT(40) DEF NativeStop, Longer
      <4>9. CompletedIsOwn'
        BY <4>2, <1>0, <1>12, <3>1, <3>2, <3>3, SMTT(40) DEF NativeStop, Longer
      <4>10. QED BY <4>3, <4>4, <4>5, <4>6, <4>7, <4>8, <4>9, Zenon DEF Waited
    <3>15. QED BY <3>11, <3>12, <3>13, <3>14 DEF TurnInv
  <2>2. CASE turn # NoSend
    <3>1. Writes(<<Message("failed", turn), Message("stopped", NoSend)>>)
      BY <1>12, <2>2 DEF NativeStop
    <3>4. "failed" \in Kinds /\ turn \in Sends \cup {NoSend}
      BY <1>0 DEF TurnTypes, Kinds
    <3>2. PICK n, m, o, p :
             /\ n \notin Wire /\ o \notin Wire /\ n # o /\ Wire' = Wire \cup {n, o}
             /\ (\A i \in Wire : wire'[i] = wire[i])
             /\ wire'[n] = m /\ wire'[o] = p
             /\ m.kind = "failed" /\ m.of = turn /\ p.kind = "stopped" /\ p.of = NoSend
      BY <1>0, <3>1, <3>4, WritesTwo
    <3>3. wire' \in Seq(Messages)
      BY <1>0, <3>1, <3>4, WritesTwo
    <3>11. TurnTypes'
      <4>1. /\ turn' = NoSend /\ requested' = requested \ {Stop}
            /\ ended' = [ended EXCEPT ![turn] = "failed"]
            /\ UNCHANGED <<sendAt, waiter, resolved, answer, accepted, givenUp>>
        BY <1>12, <2>2 DEF NativeStop
      <4>2. ended' \in [Sends -> {"none"} \cup TurnOutcomes]
        <5>1. "failed" \in {"none"} \cup TurnOutcomes
          BY SMT DEF TurnOutcomes
        <5>2. QED BY <1>0, <4>1, <5>1, Zenon DEF TurnTypes
      <4>3. QED BY <1>0, <3>3, <4>1, <4>2, SMTT(40)
    <3>12. AskedOnce'
      <4>1. Unanswered'
        BY <1>0, <1>12, <2>2, <3>2, <3>3, SMTT(40) DEF NativeStop
      <4>2. UnaskedUnsent'
        BY <1>0, <1>12, <2>2, <3>2, <3>3, SMTT(40) DEF NativeStop
      <4>3. OneAnswer'
        BY <1>0, <1>12, <2>2, <3>2, <3>3, SMTT(40) DEF NativeStop
      <4>4. OfSends'
        BY <1>0, <1>12, <2>2, <3>2, <3>3, SMTT(40) DEF NativeStop
      <4>5. RejectedIsNot'
        BY <1>0, <1>12, <2>2, <3>2, <3>3, SMTT(40) DEF NativeStop
      <4>6. Returned'
        BY <1>0, <1>12, <2>2, <3>2, <3>3, SMTT(40) DEF NativeStop
      <4>8. QED BY <4>1, <4>2, <4>3, <4>4, <4>5, <4>6, Zenon DEF AskedOnce
    <3>13. EndsOnce'
      BY <1>0, <1>12, <2>2, <3>2, <3>3, SMTT(40) DEF NativeStop
    <3>14. (Undisturbed => Waited)'
      <4>1. SUFFICES ASSUME Undisturbed' PROVE Waited'
        OBVIOUS
      <4>2. Undisturbed /\ Waited
        BY <4>1, <1>0, <1>12, <2>2, <3>2, <3>3, SMTT(40) DEF NativeStop
      <4>3. WaiterAsked'
        BY <4>2, <1>0, <1>12, <2>2, <3>2, <3>3, SMTT(40) DEF NativeStop
      <4>4. WaiterRuns'
        BY <4>2, <1>0, <1>12, <2>2, <3>2, <3>3, SMTT(40) DEF NativeStop
      <4>5. WaiterEnded'
        BY <4>2, <1>0, <1>12, <2>2, <3>2, <3>3, SMTT(40) DEF NativeStop
      <4>6. OneEnd'
        <5>1. \A i \in Wire : wire[i].kind \notin TurnOutcomes
          BY <1>0, <4>2, <2>2, SMT
        <5>2. QED BY <5>1, <3>2, SMT DEF Longer
      <4>7. WaiterRejected'
        BY <4>2, <1>0, <1>12, <2>2, <3>2, <3>3, SMTT(40) DEF NativeStop
      <4>8. BusyUnasked'
        BY <4>2, <1>0, <1>12, <2>2, <3>2, <3>3, SMTT(40) DEF NativeStop
      <4>9. CompletedIsOwn'
        BY <4>2, <1>0, <1>12, <2>2, <3>2, <3>3, SMTT(40) DEF NativeStop
      <4>10. QED BY <4>3, <4>4, <4>5, <4>6, <4>7, <4>8, <4>9, Zenon DEF Waited
    <3>15. QED BY <3>11, <3>12, <3>13, <3>14 DEF TurnInv
  <2>3. QED BY <2>1, <2>2
<1>13. CASE TurnEnds
  <2>1. PICK s \in TurnOutcomes : /\ ended' = [ended EXCEPT ![turn] = s]
                         /\ Writes(<<Message(s, turn)>>)
    BY <1>13 DEF TurnEnds
  <2>5. s \in Kinds /\ turn \in Sends \cup {NoSend}
    BY <1>0 DEF TurnTypes, Kinds
  <2>2. PICK n, m : Longer(n, m) /\ m.kind = s /\ m.of = turn
    BY <1>0, <2>1, <2>5, WritesOne
  <2>3. wire' \in Seq(Messages)
    BY <1>0, <2>1, <2>5, WritesOne
  <2>4. /\ turn # NoSend /\ turn' = NoSend
        /\ UNCHANGED <<callSide, sendAt, evidence, waiter, resolved, stopping, requested, answer,
                 givenUp, accepted>>
    BY <1>13 DEF TurnEnds
  <2>11. TurnTypes'
    BY <1>0, <2>1, <2>2, <2>3, <2>4, SMTT(40) DEF Longer
  <2>12. AskedOnce'
    <3>1. Unanswered'
      BY <1>0, <2>1, <2>2, <2>4, StillUnanswered, SMT
    <3>2. UnaskedUnsent'
      BY <1>0, <2>1, <2>2, <2>3, <2>4, SMTT(40) DEF Longer
    <3>3. OneAnswer'
      BY <1>0, <2>1, <2>2, OneMoreAnswer
    <3>4. OfSends'
      BY <1>0, <2>1, <2>2, <2>3, <2>4, SMTT(40) DEF Longer
    <3>5. RejectedIsNot'
      BY <1>0, <2>1, <2>2, <2>3, <2>4, SMTT(40) DEF Longer
    <3>6. Returned'
      BY <1>0, <2>1, <2>2, <2>3, <2>4, SMTT(40) DEF Longer
    <3>8. QED BY <3>1, <3>2, <3>3, <3>4, <3>5, <3>6, Zenon DEF AskedOnce
  <2>13. EndsOnce'
    <3>1. RunsAccepted'
      BY <1>0, <2>1, <2>2, <2>3, <2>4, SMTT(40) DEF Longer
    <3>2. EndedAccepted'
      BY <1>0, <2>1, <2>2, <2>3, <2>4, SMTT(40) DEF Longer
    <3>3. EndIsSaid'
      BY <1>0, <2>1, <2>2, <2>3, <2>4, SMTT(40) DEF Longer
    <3>4. QED BY <3>1, <3>2, <3>3, Zenon DEF EndsOnce
  <2>14. (Undisturbed => Waited)'
    <3>1. SUFFICES ASSUME Undisturbed' PROVE Waited'
      OBVIOUS
    <3>2. Undisturbed /\ Waited
      BY <3>1, <1>0, <2>1, <2>2, <2>3, <2>4, SMTT(40) DEF Longer
    <3>3. WaiterAsked'
      BY <3>2, <1>0, <2>1, <2>2, <2>3, <2>4, SMTT(40) DEF Longer
    <3>4. WaiterRuns'
      BY <3>2, <1>0, <2>1, <2>2, <2>3, <2>4, SMTT(40) DEF Longer
    <3>5. WaiterEnded'
      BY <3>2, <1>0, <2>1, <2>2, <2>3, <2>4, SMTT(40) DEF Longer
    <3>6. OneEnd'
      <4>1. \A i \in Wire : wire[i].kind \notin TurnOutcomes
        BY <1>0, <3>2, <2>4, SMT
      <4>2. QED BY <4>1, <2>2, <2>1, SMT DEF Longer
    <3>7. WaiterRejected'
      BY <3>2, <1>0, <2>1, <2>2, <2>3, <2>4, SMTT(40) DEF Longer
    <3>8. BusyUnasked'
      BY <3>2, <1>0, <2>1, <2>2, <2>3, <2>4, SMTT(40) DEF Longer
    <3>9. CompletedIsOwn'
      BY <3>2, <1>0, <2>1, <2>2, <2>3, <2>4, SMTT(40) DEF Longer
    <3>10. QED BY <3>3, <3>4, <3>5, <3>6, <3>7, <3>8, <3>9, Zenon DEF Waited
  <2>15. QED BY <2>11, <2>12, <2>13, <2>14 DEF TurnInv
<1>14. CASE ReadsAck
  <2>1. /\ wire' \in Seq(Messages) /\ Shorter
        /\ Head(wire) = wire[1] /\ wire[1].kind = "ack"
    BY <1>0, <1>14, ReadsOne DEF ReadsAck
  <2>11. TurnTypes'
    BY <1>0, <1>14, <2>1, SMTT(40) DEF ReadsAck, Goes, Shorter
  <2>12. AskedOnce'
    <3>1. Unanswered'
      BY <1>0, <1>14, <2>1, SMTT(40) DEF ReadsAck, Goes, Shorter
    <3>2. UnaskedUnsent'
      BY <1>0, <1>14, <2>1, SMTT(40) DEF ReadsAck, Goes, Shorter
    <3>3. OneAnswer'
      BY <1>0, <1>14, <2>1, SMTT(40) DEF ReadsAck, Goes, Shorter
    <3>4. OfSends'
      BY <1>0, <1>14, <2>1, SMTT(40) DEF ReadsAck, Goes, Shorter
    <3>5. RejectedIsNot'
      BY <1>0, <1>14, <2>1, SMTT(40) DEF ReadsAck, Goes, Shorter
    <3>6. Returned'
      BY <1>0, <1>14, <2>1, SMTT(40) DEF ReadsAck, Goes, Shorter
    <3>7. QED BY <3>1, <3>2, <3>3, <3>4, <3>5, <3>6, Zenon DEF AskedOnce
  <2>13. EndsOnce'
    BY <1>0, <1>14, <2>1, SMTT(40) DEF ReadsAck, Goes, Shorter
  <2>14. (Undisturbed => Waited)'
    <3>1. SUFFICES ASSUME Undisturbed' PROVE Waited'
      OBVIOUS
    <3>2. Undisturbed /\ Waited
      BY <3>1, <1>0, <1>14, <2>1, SMTT(40) DEF ReadsAck, Goes, Shorter
    <3>3. WaiterAsked'
      BY <3>2, <1>0, <1>14, <2>1, SMTT(40) DEF ReadsAck, Goes, Shorter
    <3>4. WaiterRuns'
      BY <3>2, <1>0, <1>14, <2>1, SMTT(40) DEF ReadsAck, Goes, Shorter
    <3>5. WaiterEnded'
      BY <3>2, <1>0, <1>14, <2>1, SMTT(40) DEF ReadsAck, Goes, Shorter
    <3>6. OneEnd'
      BY <3>2, <1>0, <1>14, <2>1, SMTT(40) DEF ReadsAck, Goes, Shorter
    <3>7. WaiterRejected'
      BY <3>2, <1>0, <1>14, <2>1, SMTT(40) DEF ReadsAck, Goes, Shorter
    <3>8. BusyUnasked'
      BY <3>2, <1>0, <1>14, <2>1, SMTT(40) DEF ReadsAck, Goes, Shorter
    <3>9. CompletedIsOwn'
      BY <3>2, <1>0, <1>14, <2>1, SMTT(40) DEF ReadsAck, Goes, Shorter
    <3>10. QED BY <3>3, <3>4, <3>5, <3>6, <3>7, <3>8, <3>9, Zenon DEF Waited
  <2>15. QED BY <2>11, <2>12, <2>13, <2>14 DEF TurnInv
<1>15. CASE ReadsReject
  <2>1. /\ wire' \in Seq(Messages) /\ Shorter
        /\ Head(wire) = wire[1] /\ wire[1].kind = "reject"
    BY <1>0, <1>15, ReadsOne DEF ReadsReject
  <2>11. TurnTypes'
    BY <1>0, <1>15, <2>1, SMTT(40) DEF ReadsReject, Goes, Shorter
  <2>12. AskedOnce'
    <3>1. Unanswered'
      BY <1>0, <1>15, <2>1, SMTT(40) DEF ReadsReject, Goes, Shorter
    <3>2. UnaskedUnsent'
      BY <1>0, <1>15, <2>1, SMTT(40) DEF ReadsReject, Goes, Shorter
    <3>3. OneAnswer'
      BY <1>0, <1>15, <2>1, SMTT(40) DEF ReadsReject, Goes, Shorter
    <3>4. OfSends'
      BY <1>0, <1>15, <2>1, SMTT(40) DEF ReadsReject, Goes, Shorter
    <3>5. RejectedIsNot'
      BY <1>0, <1>15, <2>1, SMTT(40) DEF ReadsReject, Goes, Shorter
    <3>6. Returned'
      BY <1>0, <1>15, <2>1, SMTT(40) DEF ReadsReject, Goes, Shorter
    <3>7. QED BY <3>1, <3>2, <3>3, <3>4, <3>5, <3>6, Zenon DEF AskedOnce
  <2>13. EndsOnce'
    BY <1>0, <1>15, <2>1, SMTT(40) DEF ReadsReject, Goes, Shorter
  <2>14. (Undisturbed => Waited)'
    <3>1. SUFFICES ASSUME Undisturbed' PROVE Waited'
      OBVIOUS
    <3>2. Undisturbed /\ Waited
      BY <3>1, <1>0, <1>15, <2>1, SMTT(40) DEF ReadsReject, Goes, Shorter
    <3>3. WaiterAsked'
      BY <3>2, <1>0, <1>15, <2>1, SMTT(40) DEF ReadsReject, Goes, Shorter
    <3>4. WaiterRuns'
      BY <3>2, <1>0, <1>15, <2>1, SMTT(40) DEF ReadsReject, Goes, Shorter
    <3>5. WaiterEnded'
      BY <3>2, <1>0, <1>15, <2>1, SMTT(40) DEF ReadsReject, Goes, Shorter
    <3>6. OneEnd'
      BY <3>2, <1>0, <1>15, <2>1, SMTT(40) DEF ReadsReject, Goes, Shorter
    <3>7. WaiterRejected'
      BY <3>2, <1>0, <1>15, <2>1, SMTT(40) DEF ReadsReject, Goes, Shorter
    <3>8. BusyUnasked'
      BY <3>2, <1>0, <1>15, <2>1, SMTT(40) DEF ReadsReject, Goes, Shorter
    <3>9. CompletedIsOwn'
      BY <3>2, <1>0, <1>15, <2>1, SMTT(40) DEF ReadsReject, Goes, Shorter
    <3>10. QED BY <3>3, <3>4, <3>5, <3>6, <3>7, <3>8, <3>9, Zenon DEF Waited
  <2>15. QED BY <2>11, <2>12, <2>13, <2>14 DEF TurnInv
<1>16. ASSUME NEW s \in TurnOutcomes, ReadsEnd(s) PROVE TurnInv'
  <2>1. /\ wire' \in Seq(Messages) /\ Shorter
        /\ Head(wire) = wire[1] /\ wire[1].kind = s
    BY <1>0, <1>16, ReadsOne DEF ReadsEnd
  <2>11. TurnTypes'
    BY <1>0, <1>16, <2>1, SMTT(40) DEF ReadsEnd, Shorter
  <2>12. AskedOnce'
    BY <1>0, <1>16, <2>1, SMTT(40) DEF ReadsEnd, Shorter
  <2>13. EndsOnce'
    BY <1>0, <1>16, <2>1, SMTT(40) DEF ReadsEnd, Shorter
  <2>14. (Undisturbed => Waited)'
    BY <1>0, <1>16, <2>1, SMTT(40) DEF ReadsEnd, Shorter
  <2>15. QED BY <2>11, <2>12, <2>13, <2>14 DEF TurnInv
<1>17. CASE ReadsStopped
  <2>1. /\ wire' \in Seq(Messages) /\ Shorter
        /\ Head(wire) = wire[1] /\ wire[1].kind = "stopped"
    BY <1>0, <1>17, ReadsOne DEF ReadsStopped
  <2>11. TurnTypes'
    BY <1>0, <1>17, <2>1, SMTT(40) DEF ReadsStopped, Shorter
  <2>12. AskedOnce'
    <3>1. Unanswered'
      BY <1>0, <1>17, <2>1, SMTT(40) DEF ReadsStopped, Shorter
    <3>2. UnaskedUnsent'
      BY <1>0, <1>17, <2>1, SMTT(40) DEF ReadsStopped, Shorter
    <3>3. OneAnswer'
      BY <1>0, <1>17, <2>1, SMTT(40) DEF ReadsStopped, Shorter
    <3>4. OfSends'
      BY <1>0, <1>17, <2>1, SMTT(40) DEF ReadsStopped, Shorter
    <3>5. RejectedIsNot'
      BY <1>0, <1>17, <2>1, SMTT(40) DEF ReadsStopped, Shorter
    <3>6. Returned'
      BY <1>0, <1>17, <2>1, SMTT(40) DEF ReadsStopped, Shorter
    <3>8. QED BY <3>1, <3>2, <3>3, <3>4, <3>5, <3>6, Zenon DEF AskedOnce
  <2>13. EndsOnce'
    BY <1>0, <1>17, <2>1, SMTT(40) DEF ReadsStopped, Shorter
  <2>14. (Undisturbed => Waited)'
    <3>1. SUFFICES ASSUME Undisturbed' PROVE Waited'
      OBVIOUS
    <3>2. Undisturbed /\ Waited
      BY <1>0, <1>17, <3>1 DEF ReadsStopped
    <3>3. WaiterAsked'
      BY <3>2, <1>0, <1>17, <2>1, SMTT(40) DEF ReadsStopped, Shorter
    <3>4. WaiterRuns'
      BY <3>2, <1>0, <1>17, <2>1, SMTT(40) DEF ReadsStopped, Shorter
    <3>5. WaiterEnded'
      BY <3>2, <1>0, <1>17, <2>1, SMTT(40) DEF ReadsStopped, Shorter
    <3>6. OneEnd'
      BY <3>2, <1>0, <1>17, <2>1, SMTT(40) DEF ReadsStopped, Shorter
    <3>7. WaiterRejected'
      BY <3>2, <1>0, <1>17, <2>1, SMTT(40) DEF ReadsStopped, Shorter
    <3>8. BusyUnasked'
      BY <3>2, <1>0, <1>17, <2>1, SMTT(40) DEF ReadsStopped, Shorter
    <3>9. CompletedIsOwn'
      BY <3>2, <1>0, <1>17, <2>1, SMTT(40) DEF ReadsStopped, Shorter
    <3>10. QED BY <3>3, <3>4, <3>5, <3>6, <3>7, <3>8, <3>9, Zenon DEF Waited
  <2>15. QED BY <2>11, <2>12, <2>13, <2>14 DEF TurnInv
<1>18. ASSUME NEW x \in Sends, RequestTimesOut(x) PROVE TurnInv'
  <2>1. TurnTypes'
    BY <1>0, <1>18, SMTT(40) DEF RequestTimesOut, OutOfTime, Returns, Goes
  <2>2. AskedOnce'
    BY <1>0, <1>18, SMTT(40) DEF Wire, RequestTimesOut, OutOfTime, Returns, Goes
  <2>3. EndsOnce'
    BY <1>0, <1>18, SMTT(40) DEF Wire, RequestTimesOut, OutOfTime, Returns, Goes
  <2>4. (Undisturbed => Waited)'
    BY <1>0, <1>18, SMTT(40) DEF Wire, RequestTimesOut, OutOfTime, Returns, Goes
  <2>5. QED BY <2>1, <2>2, <2>3, <2>4 DEF TurnInv
<1>19. ASSUME NEW x \in Sends, BudgetOver(x) PROVE TurnInv'
  <2>1. TurnTypes'
    BY <1>0, <1>19, SMTT(40) DEF BudgetOver
  <2>2. AskedOnce'
    BY <1>0, <1>19, SMTT(40) DEF Wire, BudgetOver
  <2>3. EndsOnce'
    BY <1>0, <1>19, SMTT(40) DEF Wire, BudgetOver
  <2>4. (Undisturbed => Waited)'
    BY <1>0, <1>19, SMTT(40) DEF Wire, BudgetOver
  <2>5. QED BY <2>1, <2>2, <2>3, <2>4 DEF TurnInv
<1>20. CASE StopLapses
  <2>1. TurnTypes'
    BY <1>0, <1>20, SMTT(40) DEF StopLapses
  <2>2. AskedOnce'
    BY <1>0, <1>20, SMTT(40) DEF Wire, StopLapses
  <2>3. EndsOnce'
    BY <1>0, <1>20, SMTT(40) DEF Wire, StopLapses
  <2>4. (Undisturbed => Waited)'
    BY <1>0, <1>20, SMTT(40) DEF Wire, StopLapses
  <2>5. QED BY <2>1, <2>2, <2>3, <2>4 DEF TurnInv
<1>21. CASE UNCHANGED turnVars
  BY <1>0, <1>21, SMTT(40) DEF TurnInv, Wire, turnVars
<1>22. QED
  BY <1>1, <1>2, <1>3, <1>4, <1>5, <1>6, <1>7, <1>8, <1>9, <1>10, <1>11, <1>12, <1>13,
     <1>14,
     <1>15, <1>16, <1>17, <1>18, <1>19, <1>20, <1>21, Zenon DEF TurnNext, PipeSteps, SendSteps, TurnOutcomes

\* Whatever is retried, an instruction is accepted once, and while nobody ran out
\* of time and no effort policy is awaited, send() answers with the outcome of its
\* own turn (official.ts: sendInner, postTurn, onNotification).
THEOREM AnswersAreOwn == TurnSpec => []TurnSafe
<1>1. TurnInv => TurnSafe
  <2> SUFFICES ASSUME TurnInv PROVE TurnSafe
    OBVIOUS
  <2>1. AcceptedOnce
    BY SMT DEF TurnInv, TurnTypes, AcceptedOnce
  <2>2. AnswerIsOwn
    BY DEF TurnInv, Undisturbed, Waited, BusyUnasked, CompletedIsOwn, AnswerIsOwn
  <2>3. QED BY <2>1, <2>2 DEF TurnSafe
<1>2. QED BY <1>1, InitTurn, NextTurn, PTL DEF TurnSpec
-----------------------------------------------------------------------------
(* Supervisor: the types of the variables that SupInv leaves open.            *)
LockRecords == [by: Sups \cup {NoSup}, gen: 0..MaxStarts]
SupRest ==
  /\ supGen \in [Sups -> 0..MaxStarts] /\ pipe \in Sups \cup {NoSup}
  /\ platform \in {"win32", "posix"} /\ supLock \in LockRecords /\ stopper \in LockRecords
  /\ supStop \in [Sups -> BOOLEAN] /\ sawCore \in [Sups -> BOOLEAN]
  /\ supTodo \in [Sups -> Seq(Components)] /\ inFlight \in [Sups -> SUBSET Components]
  /\ up \subseteq Components /\ launched \subseteq Components /\ failures \in 0..MaxFailures

\* The record of a process names it and its generation.
LEMMA RecordTyped ==
  ASSUME SupRest, NEW s \in Sups
  PROVE  Record(s) \in LockRecords /\ NoRecord \in LockRecords
  BY SupConstants, SMT DEF SupRest, Record, NoRecord, LockRecords
\* The first component to look at is one, and the others remain.
LEMMA TodoTyped ==
  ASSUME SupRest, NEW s \in Sups, supTodo[s] # <<>>
  PROVE  Head(supTodo[s]) \in Components /\ Tail(supTodo[s]) \in Seq(Components)
<1>1. supTodo[s] \in Seq(Components)
  BY DEF SupRest
<1>2. QED BY <1>1, SMT
\* One more action is under way.
LEMMA FlightTyped ==
  ASSUME SupRest, NEW s \in Sups, NEW c \in Components,
         UNCHANGED inFlight \/ inFlight' = [inFlight EXCEPT ![s] = @ \cup {c}]
  PROVE  inFlight' \in [Sups -> SUBSET Components]
<1>1. inFlight[s] \cup {c} \in SUBSET Components
  BY Zenon DEF SupRest
<1>2. QED BY <1>1, Zenon DEF SupRest
\* A process that leaves leaves nothing behind.
LEMMA LeavesTyped ==
  ASSUME SupRest, NEW s \in Sups, Leaves(s)
  PROVE  /\ pipe' \in Sups \cup {NoSup} /\ supStop' \in [Sups -> BOOLEAN]
         /\ sawCore' \in [Sups -> BOOLEAN] /\ supTodo' \in [Sups -> Seq(Components)]
         /\ inFlight' \in [Sups -> SUBSET Components]
<1>1. <<>> \in Seq(Components)
  BY SMT
<1>2. QED BY <1>1, Zenon DEF SupRest, Leaves, FreePipe

\* Every step of the supervisor keeps the types of its other variables.
LEMMA NextSupRest == SupRest /\ [SupNext]_supVars => SupRest'
<1> SUFFICES ASSUME SupRest, [SupNext]_supVars PROVE SupRest'
  OBVIOUS
<1> USE DEF mine, world, At
<1>1. ASSUME NEW s \in Sups, Starts(s) PROVE SupRest'
  <2>1. supGen \in [Sups -> 0..MaxStarts] /\ supGen[s] + 1 \in 0..MaxStarts
    BY <1>1, SupConstants, SMT DEF Starts, SupRest
  <2>2. supGen' \in [Sups -> 0..MaxStarts]
    BY <1>1, <2>1, Zenon DEF Starts
  <2>3. QED BY <1>1, <2>2, Zenon DEF Starts, SupRest
<1>2. ASSUME NEW s \in Sups, TakeMutex(s) PROVE SupRest'
  BY <1>2, SMT DEF TakeMutex, SupRest
<1>3. ASSUME NEW s \in Sups, ReadLockFile(s) PROVE SupRest'
  BY <1>3, RecordTyped, Zenon DEF ReadLockFile, FreePipe, SupRest
<1>4. ASSUME NEW s \in Sups, WriteLockFile(s) PROVE SupRest'
  <2>1. /\ UNCHANGED <<supGen, platform, supStop, sawCore, inFlight, up, launched, failures>>
        /\ supTodo' = [supTodo EXCEPT ![s] = Boot] /\ UNCHANGED stopper
        /\ supLock' \in {supLock, Record(s)}
        /\ pipe' \in {pipe, NoSup}
    BY <1>4, Zenon DEF WriteLockFile, Create, FreePipe
  <2>2. supLock' \in LockRecords
    BY <2>1, RecordTyped, Zenon DEF SupRest
  <2>3. Boot \in Seq(Components)
    BY SupConstants, Zenon
  <2>4. supTodo' \in [Sups -> Seq(Components)]
    BY <2>1, <2>3, Zenon DEF SupRest
  <2>5. pipe' \in Sups \cup {NoSup}
    BY <2>1, Zenon DEF SupRest
  <2>6. QED BY <2>1, <2>2, <2>4, <2>5, Zenon DEF SupRest
<1>5. ASSUME NEW s \in Sups, Bootstrap(s) PROVE SupRest'
  <2>1. CASE supTodo[s] = <<>>
    BY <1>5, <2>1, Zenon DEF Bootstrap, SupRest
  <2>2. CASE supTodo[s] # <<>>
    <3>4. UNCHANGED inFlight \/ inFlight' = [inFlight EXCEPT ![s] = @ \cup {Head(supTodo[s])}]
      BY <1>5, <2>2, Zenon DEF Bootstrap, Attempt
    <3>1. inFlight' \in [Sups -> SUBSET Components]
      BY <2>2, <3>4, TodoTyped, FlightTyped
    <3>2. supTodo' \in [Sups -> Seq(Components)]
      BY <1>5, <2>2, TodoTyped, Zenon DEF Bootstrap, SupRest
    <3>3. QED BY <1>5, <3>1, <3>2, Zenon DEF Bootstrap, SupRest
  <2>3. QED BY <2>1, <2>2
<1>6. ASSUME NEW s \in Sups, TickBegins(s) PROVE SupRest'
  <2>1. (Core \in up) \in BOOLEAN /\ Order \in Seq(Components)
    BY SupConstants
  <2>2. sawCore' \in [Sups -> BOOLEAN]
    BY <1>6, SMT DEF TickBegins, SupRest
  <2>3. QED BY <1>6, <2>1, <2>2, Zenon DEF TickBegins, SupRest
<1>7. ASSUME NEW s \in Sups, Observe(s) PROVE SupRest'
  <2>1. supTodo' \in [Sups -> Seq(Components)]
    BY <1>7, TodoTyped, Zenon DEF Observe, SupRest
  <2>2. UNCHANGED inFlight \/ inFlight' = [inFlight EXCEPT ![s] = @ \cup {Head(supTodo[s])}]
    BY <1>7, Zenon DEF Observe, Attempt
  <2>3. inFlight' \in [Sups -> SUBSET Components]
    <3>1. supTodo[s] # <<>>
      BY <1>7, Zenon DEF Observe
    <3>2. Head(supTodo[s]) \in Components
      BY <3>1, TodoTyped, Zenon
    <3>3. QED BY <2>2, <3>2, FlightTyped, Zenon
  <2>4. UNCHANGED <<supGen, platform, pipe, supLock, supStop, stopper, sawCore, up, launched,
                    failures>>
    BY <1>7, Zenon DEF Observe
  <2>5. QED BY <2>1, <2>3, <2>4, Zenon DEF SupRest
<1>8. ASSUME NEW s \in Sups, TickEnds(s) \/ Drain(s) PROVE SupRest'
  BY <1>8, Zenon DEF TickEnds, Drain, SupRest
<1>9. ASSUME NEW s \in Sups, ReleaseLock(s) PROVE SupRest'
  BY <1>9, RecordTyped, Zenon DEF ReleaseLock, FreePipe, SupRest
<1>10. ASSUME NEW s \in Sups, Killed(s) PROVE SupRest'
  BY <1>10, LeavesTyped, Zenon DEF Killed, SupRest
<1>11. ASSUME NEW s \in Sups, NEW c \in Components, DelayOver(s, c) PROVE SupRest'
  BY <1>11, Zenon DEF DelayOver, SupRest
<1>12. ASSUME NEW s \in Sups, NEW c \in Components, ActionSettles(s, c) PROVE SupRest'
  <2>1. inFlight' \in [Sups -> SUBSET Components]
    BY <1>12, SMT DEF ActionSettles, Unfenced, SupRest
  <2>2. QED BY <1>12, <2>1, Zenon DEF ActionSettles, SupRest
<1>13. ASSUME NEW c \in Components, ComesUp(c) PROVE SupRest'
  BY <1>13, Zenon DEF ComesUp, SupRest
<1>14. ASSUME NEW c \in Components, Fails(c) PROVE SupRest'
  <2>1. failures' \in 0..MaxFailures
    BY <1>14, SupConstants, SMT DEF Fails, SupRest
  <2>2. QED BY <1>14, <2>1, Zenon DEF Fails, SupRest
<1>15. CASE StopCommand
  <2>1. supLock.by \in Sups
    BY <1>15, Zenon DEF StopCommand, AliveGen, SupRest, LockRecords
  <2>2. QED BY <1>15, <2>1, LeavesTyped, Zenon DEF StopCommand, SupRest
<1>16. CASE StopEnds \/ StopGivesUp
  <2>1. NoRecord \in LockRecords
    BY SupConstants, SMT DEF NoRecord, LockRecords
  <2>2. QED BY <1>16, <2>1, Zenon DEF StopEnds, StopGivesUp, SupRest
<1>17. CASE UNCHANGED supVars
  BY <1>17, Zenon DEF supVars, SupRest
<1>18. QED
  BY <1>1, <1>2, <1>3, <1>4, <1>5, <1>6, <1>7, <1>8, <1>9, <1>10, <1>11, <1>12, <1>13,
     <1>14,
     <1>15, <1>16, <1>17 DEF SupNext, SupSteps

\* The variables of the supervisor keep their types.
THEOREM SupervisorTypes == SupSpec => []SupTypeOK
<1>1. SupInit => SupRest
  <2> SUFFICES ASSUME SupInit PROVE SupRest
    OBVIOUS
  <2>1. NoRecord \in LockRecords /\ <<>> \in Seq(Components) /\ failures \in 0..MaxFailures
    BY SupConstants, SMT DEF SupInit, NoRecord, LockRecords
  <2>2. supGen \in [Sups -> 0..MaxStarts]
    BY SupConstants, SMT DEF SupInit
  <2>3. QED BY <2>1, <2>2, Zenon DEF SupInit, SupRest
<1>2. SupInv /\ SupRest => SupTypeOK
  <2> SUFFICES ASSUME SupInv, SupRest PROVE SupTypeOK
    OBVIOUS
  <2>1. supAt \in [Sups -> {"down", "mutex", "read", "write"} \cup Past]
    BY DEF SupInv, LockHeld, Places
  <2>2. comp \in [Sups -> [Components -> Status]]
    BY DEF SupInv, AttemptsCounted
  <2>3. QED BY <2>1, <2>2, Zenon DEF SupRest, SupTypeOK, LockRecords, Status, States
<1>3. QED BY <1>1, <1>2, SupReaches, NextSupRest, PTL DEF SupSpec

(* NativeTurns: the types of the variables that TurnInv leaves open.          *)
TurnCounts == givenUp \in 0..MaxGivenUp /\ stales \in 0..MaxStale
TurnFlags ==
  /\ slot \in {"free", "running", "stale"} /\ (turn # NoSend <=> slot = "running")
  /\ evidence \in BOOLEAN /\ stopping \in BOOLEAN /\ history \in BOOLEAN

\* Every step keeps the counters of the turns within their bounds.
LEMMA NextTurnCounts == TurnCounts /\ [TurnNext]_turnVars => TurnCounts'
<1> SUFFICES ASSUME TurnCounts, [TurnNext]_turnVars PROVE TurnCounts'
  OBVIOUS
<1> USE DEF nativeSide, callSide, posted
<1>1. \/ UNCHANGED <<givenUp, stales>>
      \/ givenUp < MaxGivenUp /\ givenUp' = givenUp + 1 /\ UNCHANGED stales
      \/ stales < MaxStale /\ stales' = stales + 1 /\ UNCHANGED givenUp
  BY ZenonT(30)
     DEF turnVars, TurnNext, SendSteps, PipeSteps, SendBegins, MarkerRead, ProviderSend,
         PolicyRead, Retries, WindowPasses, Judges, RecoveryStops, NativeSend, NativeStop,
         TurnEnds, ReadsAck, ReadsReject, ReadsEnd, ReadsStopped, RequestTimesOut, BudgetOver,
         StopLapses, TurnKnown, OutputRead
<1>2. QED BY <1>1, TurnConstants, SMT DEF TurnCounts

\* Every step keeps the flags of the turns.
LEMMA NextTurnFlags == TurnInv /\ TurnFlags /\ [TurnNext]_turnVars => TurnFlags'
<1> SUFFICES ASSUME TurnInv, TurnFlags, [TurnNext]_turnVars PROVE TurnFlags'
  OBVIOUS
<1> USE TurnConstants DEF nativeSide, callSide, posted, TurnFlags, Goes, Returns
<1>1. TurnTypes
  BY DEF TurnInv
<1>2. ASSUME NEW x \in Sends,
             \/ SendBegins(x) \/ MarkerRead(x) \/ PolicyRead(x) \/ Retries(x) \/ WindowPasses(x)
             \/ RecoveryStops(x)
      PROVE TurnFlags'
  BY <1>2, Zenon DEF SendBegins, MarkerRead, PolicyRead, Posts, Retries, WindowPasses,
     RecoveryStops
<1>3. ASSUME NEW x \in Sends, ProviderSend(x) PROVE TurnFlags'
  BY <1>3, Zenon DEF ProviderSend, Posts
<1>4. ASSUME NEW x \in Sends, Judges(x) PROVE TurnFlags'
  BY <1>4, Zenon DEF Judges
<1>5. ASSUME NEW x \in Sends, NativeSend(x) PROVE TurnFlags'
  <2>1. UNCHANGED <<evidence, stopping, history>>
    BY <1>5 DEF NativeSend
  <2>2. CASE slot = "free"
    BY <1>5, <2>1, <2>2, Zenon DEF NativeSend
  <2>3. CASE slot # "free"
    BY <1>5, <2>1, <2>3, Zenon DEF NativeSend
  <2>4. QED BY <2>2, <2>3
<1>6. CASE NativeStop
  BY <1>6, Zenon DEF NativeStop
<1>7. CASE TurnEnds
  BY <1>7, Zenon DEF TurnEnds
<1>8. CASE ReadsAck \/ ReadsReject \/ ReadsEnd("completed") \/ ReadsEnd("failed") \/ ReadsStopped
  BY <1>8, Zenon DEF ReadsAck, ReadsReject, ReadsEnd, ReadsStopped
<1>9. ASSUME NEW x \in Sends, RequestTimesOut(x) \/ BudgetOver(x) PROVE TurnFlags'
  BY <1>9, Zenon DEF RequestTimesOut, OutOfTime, BudgetOver
<1>10. ASSUME NEW x \in Sends, TurnKnown(x) \/ OutputRead(x) PROVE TurnFlags'
  BY <1>10, Zenon DEF TurnKnown, OutputRead
<1>11. CASE StopLapses \/ UNCHANGED turnVars
  BY <1>11, Zenon DEF StopLapses, turnVars
<1>12. QED
  BY <1>2, <1>3, <1>4, <1>5, <1>6, <1>7, <1>8, <1>9, <1>10, <1>11
     DEF TurnNext, SendSteps, PipeSteps

\* The variables of the turns keep their types.
THEOREM TurnsTyped == TurnSpec => []TurnTypeOK
<1>1. TurnInit => TurnFlags
  BY Zenon DEF TurnInit, TurnFlags
<1>2. TurnInit => TurnCounts
  BY TurnConstants, SMT DEF TurnInit, TurnCounts
<1>3. TurnInv /\ TurnFlags /\ TurnCounts => TurnTypeOK
  BY Zenon DEF TurnInv, TurnTypes, TurnFlags, TurnCounts, TurnTypeOK, SendPlaces,
     TurnOutcomes
<1>4. QED
  BY <1>1, <1>2, <1>3, InitTurn, NextTurn, NextTurnFlags, NextTurnCounts, PTL DEF TurnSpec
-----------------------------------------------------------------------------
(* QueueCoordinator: the types, and the inductive invariant QueueInv.          *)
Sending == {"send", "sent", "start"}
TickPlaces == {"status", "cancel", "poll", "write"} \cup Sending
Works == [at: {"new", "off", "idle", "status", "cancel", "poll", "send", "sent", "start",
               "write"},
          known: SUBSET Entries, fails: [Entries -> 0..(ErrorLimit - 1)], rest: SUBSET Entries,
          again: SUBSET Entries, up: BOOLEAN]
WorkTyped ==
  /\ work \in [Workers -> Works]
  /\ \A w \in Workers : work[w].at \in Sending => work[w].rest # {}
FilesTyped ==
  /\ listed \in 0..MaxEntries /\ withdrawn \subseteq Entries /\ started \subseteq Entries
  /\ file \in [owner: Workers \cup {NoWorker}, stopped: BOOLEAN, tracked: SUBSET Entries]
  /\ {fresh, held, overlap} \subseteq BOOLEAN /\ told \subseteq Entries
  /\ halted \subseteq Workers /\ unseen \subseteq Entries /\ upsets \in 0..MaxUpsets
EndsTyped ==
  /\ verdict \in [Entries -> Ends \cup {"none"}]
  /\ lane \in [Entries -> LaneEnds \cup {"none", "running"}]
QueueTyped == WorkTyped /\ FilesTyped /\ EndsTyped

\* The first task of a loop is one of it.
LEMMA FirstOf == ASSUME NEW S \in SUBSET Entries, S # {} PROVE Min(S) \in S
<1> DEFINE R == OpToRel(<, Nat)
<1>1. S \subseteq Nat
  BY QueueConstants, SMT DEF Entries
<1>2. IsWellFoundedOn(R, Nat)
  BY NatLessThanWellFounded
<1>3. \E x \in S : \A y \in S : <<y, x>> \notin R
  <2> HIDE DEF R
  <2>1. QED BY <1>1, <1>2, WFMin, Zenon
<1>4. \A x, y \in Nat : <<y, x>> \notin R => x =< y
  BY SMT DEF OpToRel
<1>. HIDE DEF R
<1>6. \E x \in S : \A y \in S : x =< y
  BY <1>1, <1>3, <1>4, Zenon
<1>5. QED BY <1>6, Zenon DEF Min

\* The parts of a tick.
LEMMA WorkParts ==
  ASSUME NEW r \in Works
  PROVE  /\ r.known \in SUBSET Entries /\ r.fails \in [Entries -> 0..(ErrorLimit - 1)]
         /\ r.rest \in SUBSET Entries /\ r.again \in SUBSET Entries /\ r.up \in BOOLEAN
  BY Zenon DEF Works

\* A tick goes on to another place, or to the next loop of it.
LEMMA WorkAt ==
  ASSUME NEW r \in Works, NEW p \in {"idle"} \cup TickPlaces
  PROVE  LET s == [r EXCEPT !.at = p]
         IN  s \in Works /\ s.at = p /\ s.rest = r.rest
             /\ s.again = r.again /\ s.known = r.known /\ s.fails = r.fails
<1>1. [r EXCEPT !.at = p] \in Works
  BY Zenon DEF Works, TickPlaces, Sending
<1>2. QED BY <1>1, SMT DEF Works

\* A tick moves to another place with another list.
LEMMA WorkRest ==
  ASSUME NEW r \in Works, NEW S \in SUBSET Entries, NEW A \in SUBSET Entries,
         NEW p \in {"idle"} \cup TickPlaces
  PROVE  LET s == [r EXCEPT !.at = p, !.rest = S, !.again = A]
         IN  s \in Works /\ s.at = p /\ s.rest = S /\ s.again = A
<1>1. [r EXCEPT !.at = p, !.rest = S, !.again = A] \in Works
  BY Zenon DEF Works, TickPlaces, Sending
<1>2. QED BY <1>1, SMT DEF Works

\* A tick leaves the first of its list behind.
LEMMA WorkPasses ==
  ASSUME NEW r \in Works, NEW e
  PROVE  LET s == [r EXCEPT !.rest = @ \ {e}]
         IN  s \in Works /\ s.at = r.at /\ s.rest = r.rest \ {e}
             /\ s.again = r.again /\ s.known = r.known /\ s.fails = r.fails
<1>1. r.rest \ {e} \in SUBSET Entries
  BY WorkParts, Zenon
<1>2. [r EXCEPT !.rest = r.rest \ {e}] \in Works
  BY <1>1, Zenon DEF Works
<1>3. QED BY <1>2, SMT DEF Works
Counts(r, e, n) == [r EXCEPT !.fails[e] = n]
Knows(r, K, e, n) == [r EXCEPT !.known = K, !.fails[e] = n]
IsSent(r, K, e, n) == [r EXCEPT !.at = "start", !.known = K, !.fails[e] = n]

\* A tick counts the errors of a task.
LEMMA WorkCounts ==
  ASSUME NEW r \in Works, NEW e \in Entries, NEW n \in 0..(ErrorLimit - 1)
  PROVE  /\ Counts(r, e, n) \in Works /\ Counts(r, e, n).at = r.at
         /\ Counts(r, e, n).rest = r.rest /\ Counts(r, e, n).again = r.again
<1>1. [r.fails EXCEPT ![e] = n] \in [Entries -> 0..(ErrorLimit - 1)]
  BY WorkParts, SMT
<1>2. [r EXCEPT !.fails = [r.fails EXCEPT ![e] = n]] \in Works
  BY <1>1, Zenon DEF Works
<1>3. QED BY <1>2, SMT DEF Works, Counts

\* A tick changes the tasks it knows.
LEMMA WorkKnows ==
  ASSUME NEW r \in Works, NEW K \in SUBSET Entries, NEW e \in Entries, NEW n \in 0..(ErrorLimit - 1)
  PROVE  /\ Knows(r, K, e, n) \in Works /\ Knows(r, K, e, n).at = r.at
         /\ Knows(r, K, e, n).rest = r.rest /\ Knows(r, K, e, n).again = r.again
         /\ IsSent(r, K, e, n) \in Works /\ IsSent(r, K, e, n).at = "start"
         /\ IsSent(r, K, e, n).rest = r.rest /\ IsSent(r, K, e, n).again = r.again
<1>1. [r.fails EXCEPT ![e] = n] \in [Entries -> 0..(ErrorLimit - 1)]
  BY WorkParts, SMT
<1>3. [r EXCEPT !.known = K, !.fails = [r.fails EXCEPT ![e] = n]] \in Works
  BY <1>1, Zenon DEF Works
<1>4. [r EXCEPT !.at = "start", !.known = K, !.fails = [r.fails EXCEPT ![e] = n]] \in Works
  BY <1>1, Zenon DEF Works
<1>8. /\ Knows(r, K, e, n) \in Works /\ Knows(r, K, e, n).at = r.at
      /\ Knows(r, K, e, n).rest = r.rest /\ Knows(r, K, e, n).again = r.again
  BY <1>3, SMT DEF Works, Knows
<1>6. /\ IsSent(r, K, e, n) \in Works /\ IsSent(r, K, e, n).at = "start"
      /\ IsSent(r, K, e, n).rest = r.rest /\ IsSent(r, K, e, n).again = r.again
  BY <1>4, SMT DEF Works, IsSent
<1>7. QED BY <1>6, <1>8

(* What becomes of the tick of a process.                                      *)
WorkGoes(w, r) ==
  /\ r \in Works /\ (r.at \in Sending => r.rest # {})
  /\ work' = [work EXCEPT ![w] = r]
(* The tick is at the end of a loop, or goes on with less of it.              *)
LoopsOn(o, r) ==
  /\ r.at \in {"write", "send"} /\ r.again \subseteq o.again
  /\ r.at = "send" => r.rest \subseteq o.rest
CancelsOn(o, r) ==
  /\ r.at \in {"cancel", "poll", "write"} /\ r.again \subseteq o.again
  /\ r.at = "cancel" => r.rest = o.rest /\ r.again = o.again

\* No task is a set of tasks.
LEMMA EmptyEntries == {} \in SUBSET Entries
  BY Zenon

\* Where the cancellations go on to.
LEMMA CancelsNextIs ==
  ASSUME NEW r \in Works, r.at = "cancel"
  PROVE  CancelsNext(r) \in Works /\ CancelsOn(r, CancelsNext(r))
<1>1. CASE r.rest # {}
  BY <1>1, Zenon DEF CancelsNext, CancelsOn
<1>2. CASE r.rest = {} /\ r.up
  <2>1. CancelsNext(r) = [r EXCEPT !.at = "poll", !.rest = r.known, !.again = {}]
    BY <1>2, Zenon DEF CancelsNext
  <2> DEFINE s == [r EXCEPT !.at = "poll", !.rest = r.known, !.again = {}]
  <2>6. s \in Works
    BY WorkParts, EmptyEntries, Zenon DEF Works
  <2>5. s \in Works /\ s.at = "poll" /\ s.again = {}
    BY <2>6, SMT DEF Works
  <2> HIDE DEF s
  <2>3. CancelsNext(r) \in Works /\ CancelsNext(r).at = "poll" /\ CancelsNext(r).again = {}
    BY <2>1, <2>5, Zenon DEF s
  <2>4. QED BY <2>3, SMT DEF CancelsOn
<1>3. CASE r.rest = {} /\ ~r.up
  <2>1. CancelsNext(r) = [r EXCEPT !.at = "write", !.again = {}]
    BY <1>3, Zenon DEF CancelsNext
  <2>2. [r EXCEPT !.at = "write", !.again = {}] \in Works
    BY Zenon DEF Works
  <2>3. QED BY <2>1, <2>2, SMT DEF CancelsOn, Works
<1>4. QED BY <1>1, <1>2, <1>3

\* Where the loop of the claims goes on to.
LEMMA ClaimsNextIs ==
  ASSUME NEW r \in Works
  PROVE  LET s == ClaimsNext(r)
         IN  s \in Works /\ LoopsOn(r, s) /\ (s.at \in Sending => s.rest # {})
<1>1. CASE r.rest = {} \/ held \/ Cardinality(r.known) >= MaxParallel
  <2>1. ClaimsNext(r) = [r EXCEPT !.at = "write", !.rest = {}, !.again = {}]
    BY <1>1, Zenon DEF ClaimsNext
  <2> DEFINE s == [r EXCEPT !.at = "write", !.rest = {}, !.again = {}]
  <2>6. s \in Works
    BY EmptyEntries, Zenon DEF Works
  <2>5. s \in Works /\ s.at = "write" /\ s.again = {}
    BY <2>6, SMT DEF Works
  <2> HIDE DEF s
  <2>3. ClaimsNext(r) \in Works /\ ClaimsNext(r).at = "write" /\ ClaimsNext(r).again = {}
    BY <2>1, <2>5, Zenon DEF s
  <2>4. QED BY <2>3, SMT DEF LoopsOn, Sending
<1>2. CASE ~(r.rest = {} \/ held \/ Cardinality(r.known) >= MaxParallel)
  <2>1. ClaimsNext(r) = [r EXCEPT !.at = "send"]
    BY <1>2, Zenon DEF ClaimsNext
  <2>2. "send" \in {"idle"} \cup TickPlaces
    BY DEF TickPlaces, Sending
  <2>3. /\ ClaimsNext(r) \in Works /\ ClaimsNext(r).at = "send"
        /\ ClaimsNext(r).again = r.again /\ ClaimsNext(r).rest = r.rest
    BY <2>1, <2>2, WorkAt
  <2>4. QED BY <1>2, <2>3, SMT DEF LoopsOn, Sending
<1>3. QED BY <1>1, <1>2

\* A process that is off has no tick.
LEMMA NoTickIs == NoTick \in Works /\ NoTick.at = "off" /\ NoTick.again = {}
<1>1. 0 \in 0..(ErrorLimit - 1)
  BY QueueConstants, SMT
<1>2. [e \in Entries |-> 0] \in [Entries -> 0..(ErrorLimit - 1)]
  BY <1>1, Zenon
<1>3. NoTick \in Works
  BY <1>2, EmptyEntries, Zenon DEF NoTick, Works
<1>4. QED BY <1>3, SMT DEF NoTick

\* A process boots into an idle tick.
LEMMA BootsGoes ==
  ASSUME QueueTyped, NEW w \in Workers, Boots(w)
  PROVE  \E r : WorkGoes(w, r) /\ r.at = "idle" /\ r.again = {}
<1> DEFINE r == [NoTick EXCEPT !.at = "idle", !.known = file.tracked]
<1>1. file.tracked \in SUBSET Entries
  BY Zenon DEF QueueTyped, FilesTyped
<1>2. r \in Works
  BY <1>1, NoTickIs, Zenon DEF Works
<1>3. r.at = "idle" /\ r.again = {}
  BY <1>2, SMT DEF NoTick
<1>4. work' = [work EXCEPT ![w] = r]
  BY DEF Boots, Tick
<1> HIDE DEF r
<1>5. "idle" \notin Sending
  BY SMT DEF Sending
<1>6. QED BY <1>2, <1>3, <1>4, <1>5, Zenon DEF WorkGoes

\* A step within a tick changes the place.
LEMMA StepsGoes ==
  ASSUME QueueTyped, NEW w \in Workers, NEW p \in {"idle"} \cup TickPlaces, StepsTo(w, p),
         p \in Sending => work[w].rest # {}
  PROVE  \E r : WorkGoes(w, r) /\ r.at = p /\ r.again = work[w].again /\ r.rest = work[w].rest
<1>1. work[w] \in Works
  BY Zenon DEF QueueTyped, WorkTyped
<1> DEFINE r == [work[w] EXCEPT !.at = p]
<1>2. r \in Works /\ r.at = p /\ r.rest = work[w].rest /\ r.again = work[w].again
  BY <1>1, WorkAt
<1>3. work' = [work EXCEPT ![w] = r]
  BY DEF StepsTo, Tick
<1> HIDE DEF r
<1>4. QED BY <1>2, <1>3, Zenon DEF WorkGoes

\* What a tick takes from the views: the tasks that run.
LEMMA NativeGoes ==
  ASSUME QueueTyped, NEW w \in Workers, NativeStatus(w)
  PROVE  \E r : /\ WorkGoes(w, r) /\ r.at \in {"cancel", "poll", "write"}
                /\ r.again \subseteq {e \in Views : StatusFor(e) = "running"}
                /\ r.at = "cancel" =>
                     /\ r.rest = {e \in Views \cap withdrawn : verdict[e] = "none"}
                     /\ r.again = {e \in Views : StatusFor(e) = "running"}
<1> DEFINE S == {e \in Views \cap withdrawn : verdict[e] = "none"}
           A == {e \in Views : StatusFor(e) = "running"}
<1>1. S \in SUBSET Entries /\ A \in SUBSET Entries
  BY DEF Views
<1>2. PICK b \in BOOLEAN : Tick(w, CancelsNext([work[w] EXCEPT !.at = "cancel", !.up = b,
                                                               !.rest = S, !.again = A]))
  BY DEF NativeStatus
<1> DEFINE o == [work[w] EXCEPT !.at = "cancel", !.up = b, !.rest = S, !.again = A]
<1> HIDE DEF S, A
<1>3. work[w] \in Works
  BY Zenon DEF QueueTyped, WorkTyped
<1>4. o \in Works
  BY <1>1, <1>3, Zenon DEF Works
<1>5. o.at = "cancel" /\ o.rest = S /\ o.again = A
  BY <1>4, SMT DEF Works
<1> HIDE DEF o
<1>6. CancelsNext(o) \in Works /\ CancelsOn(o, CancelsNext(o))
  BY <1>4, <1>5, CancelsNextIs
<1>7. work' = [work EXCEPT ![w] = CancelsNext(o)]
  BY <1>2 DEF Tick, o
<1>8. CancelsNext(o).at \notin Sending
  BY <1>6, SMT DEF CancelsOn, Sending
<1>9. QED BY <1>5, <1>6, <1>7, <1>8, Zenon DEF WorkGoes, CancelsOn, S, A

\* A tick that leaves its first task behind is one.
LEMMA RestGoes ==
  ASSUME QueueTyped, NEW w \in Workers
  PROVE  /\ work[w] \in Works
         /\ Passes(w) \in Works /\ Passes(w).at = work[w].at
         /\ Passes(w).rest = work[w].rest \ {First(w)} /\ Passes(w).again = work[w].again
         /\ Passes(w).known = work[w].known /\ Passes(w).fails = work[w].fails
         /\ work[w].rest # {} => First(w) \in work[w].rest /\ First(w) \in Entries
<1>1. work[w] \in Works
  BY Zenon DEF QueueTyped, WorkTyped
<1>2. work[w].rest # {} => First(w) \in work[w].rest /\ First(w) \in Entries
  BY <1>1, WorkParts, FirstOf, Zenon DEF First
<1>3. QED BY <1>1, <1>2, WorkPasses, Zenon DEF Passes

\* A cancellation leads to the next one, to the polls or to the write.
LEMMA CancelGoes ==
  ASSUME QueueTyped, NEW w \in Workers, ResolvesCancel(w)
  PROVE  \E r : /\ WorkGoes(w, r) /\ r.at \in {"cancel", "poll", "write"}
                /\ r.again \subseteq work[w].again
                /\ r.at = "cancel" => /\ r.rest = work[w].rest \ {First(w)}
                                      /\ r.again = work[w].again
<1>1. work[w].at = "cancel" /\ work' = [work EXCEPT ![w] = CancelsNext(Passes(w))]
  BY Zenon DEF ResolvesCancel, Tick
<1>2. /\ CancelsNext(Passes(w)) \in Works /\ CancelsOn(Passes(w), CancelsNext(Passes(w)))
  BY <1>1, RestGoes, CancelsNextIs, Zenon
<1>3. CancelsNext(Passes(w)).at \notin Sending
  BY <1>2, SMT DEF CancelsOn, Sending
<1>4. QED BY <1>1, <1>2, <1>3, RestGoes, Zenon DEF WorkGoes, CancelsOn
(* A poll of a task: the worker goes on to the next one. *)
LEMMA PollGoes ==
  ASSUME QueueTyped, NEW w \in Workers, Polls(w)
  PROVE  \E r : WorkGoes(w, r) /\ r.at = "poll" /\ r.again = work[w].again
<1> DEFINE e == First(w)  p == Passes(w)
<1>1. work[w].at = "poll" /\ e \in Entries /\ p \in Works /\ p.at = "poll"
      /\ p.again = work[w].again /\ p.fails = work[w].fails
  BY RestGoes, Zenon DEF Polls
<1> DEFINE Ok(r) == r \in Works /\ r.at = "poll" /\ r.again = work[w].again
<1>2. 0 \in 0..(ErrorLimit - 1)
  BY QueueConstants, SMT
<1>3. p.known \in SUBSET Entries /\ p.known \ {e} \in SUBSET Entries
      /\ p.fails[e] \in 0..(ErrorLimit - 1)
  BY <1>1, WorkParts, SMT
<1>4. \E r : Ok(r) /\ work' = [work EXCEPT ![w] = r]
  <2>1. CASE Forgets(w, e)
    <3>1. work' = [work EXCEPT ![w] = Knows(p, p.known \ {e}, e, 0)]
      BY <2>1, Zenon DEF Forgets, Tick, Knows
    <3> HIDE DEF p, e
    <3>2. Ok(Knows(p, p.known \ {e}, e, 0))
      BY <1>1, <1>2, <1>3, WorkKnows, SMT
    <3>3. QED BY <3>1, <3>2
  <2>2. CASE Tick(w, [p EXCEPT !.fails[e] = 0])
    <3>1. work' = [work EXCEPT ![w] = Counts(p, e, 0)]
      BY <2>2, Zenon DEF Tick, Counts
    <3> HIDE DEF p, e
    <3>2. Ok(Counts(p, e, 0))
      BY <1>1, <1>2, <1>3, WorkCounts, SMT
    <3>3. QED BY <3>1, <3>2
  <2>3. CASE work[w].fails[e] + 1 < ErrorLimit /\ Tick(w, [p EXCEPT !.fails[e] = @ + 1])
    <3>1. work' = [work EXCEPT ![w] = Counts(p, e, p.fails[e] + 1)]
      BY <2>3, Zenon DEF Tick, Counts
    <3>2. p.fails[e] + 1 \in 0..(ErrorLimit - 1)
      BY <1>1, <1>3, <2>3, QueueConstants, SMT
    <3> HIDE DEF p, e
    <3>3. Ok(Counts(p, e, p.fails[e] + 1))
      BY <1>1, <1>3, <3>2, WorkCounts, SMT
    <3>4. QED BY <3>1, <3>3
  <2>4. QED BY <2>1, <2>2, <2>3, Zenon DEF Polls, GivesUp
<1>5. "poll" \notin Sending
  BY SMT DEF Sending
<1>6. QED BY <1>4, <1>5, Zenon DEF WorkGoes

\* The loop of the claims starts over tasks that may be claimed.
LEMMA ClaimGoes ==
  ASSUME QueueTyped, NEW w \in Workers, Claims(w)
  PROVE  \E r : /\ WorkGoes(w, r) /\ r.at \in {"write", "send"}
                /\ r.again \subseteq Interrupted(w)
                /\ r.at = "send" => r.rest \subseteq Claimable(w)
<1> DEFINE o == [work[w] EXCEPT !.rest = Claimable(w), !.again = Interrupted(w)]
<1>1. Claimable(w) \in SUBSET Entries /\ Interrupted(w) \in SUBSET Entries
  BY Zenon DEF Claimable, Interrupted, Views
<1>2. work[w] \in Works
  BY RestGoes
<1>3. o \in Works
  BY <1>1, <1>2, Zenon DEF Works
<1>4. o.rest = Claimable(w) /\ o.again = Interrupted(w)
  BY <1>3, SMT DEF Works
<1>5. work' = [work EXCEPT ![w] = ClaimsNext(o)]
  BY Zenon DEF Claims, Tick
<1> HIDE DEF o
<1>6. ClaimsNext(o) \in Works /\ LoopsOn(o, ClaimsNext(o))
      /\ (ClaimsNext(o).at \in Sending => ClaimsNext(o).rest # {})
  BY <1>3, ClaimsNextIs
<1>7. WorkGoes(w, ClaimsNext(o))
  BY <1>5, <1>6, Zenon DEF WorkGoes
<1>8. QED BY <1>4, <1>6, <1>7, Zenon DEF LoopsOn
(* A task of the loop is done with. *)
LEMMA LoopGoes ==
  ASSUME QueueTyped, NEW w \in Workers, NEW o \in Works, Tick(w, ClaimsNext(o)),
         o.rest \subseteq work[w].rest, o.again = work[w].again
  PROVE  \E r : WorkGoes(w, r) /\ LoopsOn(work[w], r)
<1>1. work' = [work EXCEPT ![w] = ClaimsNext(o)]
  BY DEF Tick
<1>2. LoopsOn(work[w], ClaimsNext(o))
  BY ClaimsNextIs, Zenon DEF LoopsOn
<1>3. QED BY <1>1, <1>2, ClaimsNextIs, Zenon DEF WorkGoes

\* The loop goes on to its next task.
LEMMA NextOfLoop ==
  ASSUME QueueTyped, NEW w \in Workers, Tick(w, ClaimsNext(Passes(w)))
  PROVE  \E r : WorkGoes(w, r) /\ LoopsOn(work[w], r)
<1>1. Passes(w).rest \subseteq work[w].rest
  BY RestGoes, Zenon
<1>2. QED BY <1>1, RestGoes, LoopGoes

\* An answer leads to the START receipt, or to the next task.
LEMMA AnsweredGoes ==
  ASSUME QueueTyped, NEW w \in Workers, SubmitAnswered(w)
  PROVE  \/ First(w) \in work[w].again /\ \E r : WorkGoes(w, r) /\ LoopsOn(work[w], r)
         \/ \E r : /\ WorkGoes(w, r) /\ r.at = "start" /\ r.rest = work[w].rest
                   /\ r.again = work[w].again
         \/ unseen' = unseen \cup {First(w)} /\ \E r : WorkGoes(w, r) /\ LoopsOn(work[w], r)
<1> DEFINE e == First(w)
<1>1. work[w].rest # {} /\ work[w] \in Works /\ e \in Entries
  BY RestGoes, SMT DEF SubmitAnswered, QueueTyped, WorkTyped, Sending
<1>2. 0 \in 0..(ErrorLimit - 1)
  BY QueueConstants, SMT
<1>3. CASE /\ e \in work[w].again
           /\ Tick(w, ClaimsNext([Passes(w) EXCEPT !.known = @ \cup {e}, !.fails[e] = 0]))
  <2> DEFINE o == Knows(Passes(w), Passes(w).known \cup {e}, e, 0)
  <2>1. Passes(w).known \cup {e} \in SUBSET Entries
    BY <1>1, RestGoes, WorkParts, Zenon
  <2>2. Tick(w, ClaimsNext(o))
    BY <1>3 DEF Knows
  <2> HIDE DEF e
  <2>3. o \in Works /\ o.rest = Passes(w).rest /\ o.again = Passes(w).again
    BY <1>1, <1>2, <2>1, RestGoes, WorkKnows, SMT
  <2> HIDE DEF o
  <2>4. o.rest \subseteq work[w].rest /\ o.again = work[w].again
    BY <2>3, RestGoes, Zenon
  <2>5. QED BY <1>3, <2>2, <2>3, <2>4, LoopGoes DEF e
<1>4. CASE Tick(w, [work[w] EXCEPT !.at = "start", !.known = @ \cup {e}, !.fails[e] = 0])
  <2> DEFINE r == IsSent(work[w], work[w].known \cup {e}, e, 0)
  <2>1. work[w].known \cup {e} \in SUBSET Entries
    BY <1>1, WorkParts, Zenon
  <2>2. work' = [work EXCEPT ![w] = r]
    BY <1>4 DEF Tick, IsSent
  <2> HIDE DEF e
  <2>3. r \in Works /\ r.at = "start" /\ r.rest = work[w].rest
                   /\ r.again = work[w].again
    BY <1>1, <1>2, <2>1, WorkKnows, SMT
  <2> HIDE DEF r
  <2>4. QED BY <1>1, <2>2, <2>3, Zenon DEF WorkGoes
<1>5. CASE unseen' = unseen \cup {e} /\ Tick(w, ClaimsNext(Passes(w)))
  BY <1>5, NextOfLoop, Zenon
<1>6. QED BY <1>3, <1>4, <1>5, Zenon DEF SubmitAnswered

\* A process that vanishes is off.
LEMMA VanishGoes ==
  ASSUME NEW w \in Workers, Vanishes(w)
  PROVE  \E r : WorkGoes(w, r) /\ r.at = "off" /\ r.again = {}
<1>1. "off" \notin Sending
  BY SMT DEF Sending
<1>2. work' = [work EXCEPT ![w] = NoTick]
  BY DEF Vanishes, Tick
<1>3. QED BY <1>1, <1>2, NoTickIs, Zenon DEF WorkGoes

\* A step of a tick keeps the ticks typed.
LEMMA Moved ==
  ASSUME WorkTyped, NEW w \in Workers, NEW r, WorkGoes(w, r)
  PROVE  WorkTyped'
<1>1. work' \in [Workers -> Works]
  BY Zenon DEF WorkTyped, WorkGoes
<1>2. work'[w] = r /\ \A v \in Workers \ {w} : work'[v] = work[v]
  BY SMT DEF WorkTyped, WorkGoes
<1>3. QED BY <1>1, <1>2, SMT DEF WorkTyped, WorkGoes

\* A tick begins with the status.
LEMMA Begins ==
  ASSUME QueueTyped, NEW w \in Workers, BeginsTick(w)
  PROVE  \E r : WorkGoes(w, r) /\ r.at = "status" /\ r.again = work[w].again
<1>1. "status" \in TickPlaces /\ "status" \notin Sending /\ StepsTo(w, "status")
  BY SMT DEF BeginsTick, TickPlaces, Sending
<1>2. QED BY <1>1, StepsGoes

\* A tick ends with the heartbeat.
LEMMA StateWrites ==
  ASSUME QueueTyped, NEW w \in Workers, WritesState(w)
  PROVE  \E r : WorkGoes(w, r) /\ r.at = "idle" /\ r.again = work[w].again
<1>1. "idle" \notin Sending /\ StepsTo(w, "idle")
  BY SMT DEF WritesState, Sending
<1>2. QED BY <1>1, StepsGoes

\* A submission is admitted, or the loop goes on.
LEMMA SubmitSends ==
  ASSUME QueueTyped, NEW w \in Workers, Submits(w)
  PROVE  \/ UNCHANGED lane /\ \E r : WorkGoes(w, r) /\ LoopsOn(work[w], r)
         \/ /\ lane' = [lane EXCEPT ![First(w)] = IF @ = "none" THEN "running" ELSE @]
            /\ \E r : /\ WorkGoes(w, r) /\ r.at = "sent" /\ r.rest = work[w].rest
                      /\ r.again = work[w].again
<1>1. CASE UNCHANGED lane /\ Tick(w, ClaimsNext(Passes(w)))
  BY <1>1, NextOfLoop
<1>2. CASE /\ lane' = [lane EXCEPT ![First(w)] = IF @ = "none" THEN "running" ELSE @]
           /\ StepsTo(w, "sent")
  <2>1. "sent" \in TickPlaces /\ work[w].rest # {}
    BY SMT DEF Submits, TickPlaces, Sending, QueueTyped, WorkTyped
  <2>2. \E r : WorkGoes(w, r) /\ r.at = "sent" /\ r.rest = work[w].rest /\ r.again = work[w].again
    BY <1>2, <2>1, StepsGoes
  <2>3. QED BY <1>2, <2>2
<1>3. QED BY <1>1, <1>2, Zenon DEF Submits

\* After the START receipt the loop goes on.
LEMMA Starting ==
  ASSUME QueueTyped, NEW w \in Workers, StartReceipt(w)
  PROVE  \E r : WorkGoes(w, r) /\ LoopsOn(work[w], r)
  BY NextOfLoop, Zenon DEF StartReceipt

\* A step of a process changes its own tick only.
LEMMA StepMoves ==
  ASSUME QueueTyped, NEW w \in Workers, Boots(w) \/ TickStep(w) \/ Exits(w) \/ Dies(w)
  PROVE  \E r : WorkGoes(w, r)
  BY BootsGoes, Begins, NativeGoes, CancelGoes, PollGoes, ClaimGoes, SubmitSends,
     AnsweredGoes,
     Starting, StateWrites, VanishGoes, Zenon DEF TickStep, Exits, Dies

\* The first task of a list is in it.
LEMMA FirstThere ==
  ASSUME QueueTyped, NEW w \in Workers, work[w].at \in Sending \/ work[w].rest # {}
  PROVE  First(w) \in Entries /\ First(w) \in work[w].rest
  BY RestGoes, Zenon DEF QueueTyped, WorkTyped

\* A receipt keeps the verdicts typed.
LEMMA ReceiptTyped ==
  ASSUME EndsTyped, NEW e \in Entries, NEW x \in Ends, Receipt(e, x)
  PROVE  verdict' \in [Entries -> Ends \cup {"none"}]
  BY SMT DEF EndsTyped, Receipt

\* The upsets are counted up to their bound.
LEMMA UpsetTyped ==
  ASSUME FilesTyped, Upset \/ UNCHANGED upsets
  PROVE  upsets' \in 0..MaxUpsets
  BY QueueConstants, SMT DEF FilesTyped, Upset

\* The events of the terminal receipts.
LEMMA EventsAreEnds == ASSUME NEW x \in LaneEnds PROVE EventOf[x] \in Ends
  BY SMT DEF LaneEnds, EventOf, Ends

\* Every step keeps QueueTyped.
LEMMA NextTyped == QueueTyped /\ [QueueNext]_queueVars => QueueTyped'
<1> SUFFICES ASSUME QueueTyped, [QueueNext]_queueVars PROVE QueueTyped'
  OBVIOUS
<1> USE DEF queueFiles, receipts, laneSide
<1>1. ASSUME NEW w \in Workers, Boots(w) \/ TickStep(w) \/ Exits(w) \/ Dies(w)
      PROVE  WorkTyped'
  BY <1>1, StepMoves, Moved, Zenon DEF QueueTyped
<1>2. CASE UNCHANGED queueVars
  BY <1>2, SMT DEF QueueTyped, WorkTyped, FilesTyped, EndsTyped, queueVars
<1>3. CASE Enqueues \/ Pauses \/ GrowsOld
  <2>1. UNCHANGED <<work, verdict, lane>>
    BY <1>3, SMT DEF Enqueues, Pauses, GrowsOld
  <2>2. WorkTyped' /\ EndsTyped'
    BY <2>1, SMT DEF QueueTyped, WorkTyped, EndsTyped
  <2>3. upsets' \in 0..MaxUpsets
    BY <1>3, UpsetTyped, SMT DEF Enqueues, Pauses, GrowsOld, QueueTyped
  <2>4. listed' \in 0..MaxEntries
    BY <1>3, QueueConstants, SMT DEF Enqueues, Pauses, GrowsOld, QueueTyped, FilesTyped
  <2>6. UNCHANGED <<withdrawn, started, file, told, halted, unseen, overlap>>
    BY <1>3, Zenon DEF Enqueues, Pauses, GrowsOld
  <2>7. held' \in BOOLEAN /\ fresh' \in BOOLEAN
    BY <1>3, Zenon DEF Enqueues, Pauses, GrowsOld, QueueTyped, FilesTyped
  <2>8. FilesTyped'
    BY <2>3, <2>4, <2>6, <2>7, SMT DEF QueueTyped, FilesTyped
  <2>5. QED BY <2>2, <2>8 DEF QueueTyped
<1>4. ASSUME NEW e \in Entries, RequestsCancel(e)
      PROVE  QueueTyped'
  <2>1. upsets' \in 0..MaxUpsets
    BY <1>4, UpsetTyped DEF RequestsCancel, QueueTyped
  <2>2. QED
    BY <1>4, <2>1, SMT DEF RequestsCancel, QueueTyped, WorkTyped, EndsTyped, FilesTyped
<1>5. ASSUME NEW e \in Entries, NativeEnds(e)
      PROVE  QueueTyped'
  <2>1. PICK x \in LaneEnds : lane' = [lane EXCEPT ![e] = x]
    <3>1. {"completed", "failed"} \subseteq LaneEnds
      BY DEF LaneEnds
    <3>2. QED BY <1>5, <3>1, Zenon DEF NativeEnds
  <2>2. EndsTyped'
    BY <1>5, <2>1, SMT DEF NativeEnds, QueueTyped, EndsTyped
  <2>3. QED BY <1>5, <2>2, SMT DEF NativeEnds, QueueTyped, WorkTyped, FilesTyped
<1>6. ASSUME NEW w \in Workers, Boots(w)
      PROVE  QueueTyped'
  <2>1. FilesTyped' /\ EndsTyped'
    BY <1>6, UpsetTyped, SMT DEF Boots, QueueTyped, FilesTyped, EndsTyped
  <2>2. QED BY <1>1, <1>6, <2>1 DEF QueueTyped
<1>7. ASSUME NEW w \in Workers, BeginsTick(w)
      PROVE  QueueTyped'
  <2>1. overlap' \in BOOLEAN
    BY <1>7, SMT DEF BeginsTick
  <2>2. FilesTyped' /\ EndsTyped'
    BY <1>7, <2>1, SMT DEF BeginsTick, QueueTyped, FilesTyped, EndsTyped
  <2>3. QED BY <1>1, <1>7, <2>2 DEF QueueTyped, TickStep
<1>8. ASSUME NEW w \in Workers, NativeStatus(w)
      PROVE  QueueTyped'
  <2>1. upsets' \in 0..MaxUpsets
    BY <1>8, UpsetTyped DEF NativeStatus, QueueTyped
  <2>2. FilesTyped' /\ EndsTyped'
    BY <1>8, <2>1, SMT DEF NativeStatus, QueueTyped, FilesTyped, EndsTyped
  <2>3. QED BY <1>1, <1>8, <2>2 DEF QueueTyped, TickStep
<1>9. ASSUME NEW w \in Workers, ResolvesCancel(w)
      PROVE  QueueTyped'
  <2>1. First(w) \in Entries
    BY <1>9, FirstThere DEF ResolvesCancel
  <2>2. upsets' \in 0..MaxUpsets
    BY <1>9, UpsetTyped, Zenon DEF ResolvesCancel, QueueTyped
  <2>3. told' \subseteq Entries
    BY <1>9, <2>1, Zenon DEF ResolvesCancel, QueueTyped, FilesTyped
  <2>4. "CANCELLED" \in Ends
    BY SMT DEF Ends
  <2>5. verdict' \in [Entries -> Ends \cup {"none"}]
    BY <1>9, <2>1, <2>4, ReceiptTyped, Zenon DEF ResolvesCancel, QueueTyped, EndsTyped
  <2>6. UNCHANGED <<listed, withdrawn, held, started, file, fresh, lane, halted, unseen, overlap>>
    BY <1>9 DEF ResolvesCancel
  <2>7. FilesTyped' /\ EndsTyped'
    BY <2>2, <2>3, <2>5, <2>6, SMT DEF QueueTyped, FilesTyped, EndsTyped
  <2>8. QED BY <1>1, <1>9, <2>7 DEF QueueTyped, TickStep
<1>10. ASSUME NEW w \in Workers, Polls(w)
       PROVE  QueueTyped'
  <2>1. First(w) \in Entries
    BY <1>10, FirstThere DEF Polls
  <2>2. upsets' \in 0..MaxUpsets
    BY <1>10, UpsetTyped, Zenon DEF Polls, QueueTyped
  <2>3. "FAILED" \in Ends
    BY SMT DEF Ends
  <2>4. verdict' \in [Entries -> Ends \cup {"none"}]
    BY <1>10, <2>1, <2>3, EventsAreEnds, ReceiptTyped, Zenon DEF Polls, GivesUp,
       QueueTyped, EndsTyped
  <2>5. UNCHANGED <<listed, withdrawn, held, started, file, fresh, lane, told, halted, unseen,
                    overlap>>
    BY <1>10 DEF Polls
  <2>6. FilesTyped' /\ EndsTyped'
    BY <2>2, <2>4, <2>5, SMT DEF QueueTyped, FilesTyped, EndsTyped
  <2>7. QED BY <1>1, <1>10, <2>6 DEF QueueTyped, TickStep
<1>11. ASSUME NEW w \in Workers, Claims(w)
       PROVE  QueueTyped'
  <2>1. FilesTyped' /\ EndsTyped'
    BY <1>11, SMT DEF Claims, QueueTyped, FilesTyped, EndsTyped
  <2>2. QED BY <1>1, <1>11, <2>1 DEF QueueTyped, TickStep
<1>12. ASSUME NEW w \in Workers, Submits(w)
       PROVE  QueueTyped'
  <2>1. First(w) \in Entries
    BY <1>12, FirstThere DEF Submits, Sending
  <2>2. upsets' \in 0..MaxUpsets
    BY <1>12, UpsetTyped, Zenon DEF Submits, QueueTyped
  <2>3. lane' \in [Entries -> LaneEnds \cup {"none", "running"}]
    BY <1>12, <2>1, SubmitSends, SMT DEF QueueTyped, EndsTyped
  <2>4. UNCHANGED <<listed, withdrawn, held, started, verdict, file, fresh, told, halted, unseen, overlap>>
    BY <1>12 DEF Submits
  <2>5. FilesTyped' /\ EndsTyped'
    BY <2>2, <2>3, <2>4, SMT DEF QueueTyped, FilesTyped, EndsTyped
  <2>6. QED BY <1>1, <1>12, <2>5 DEF QueueTyped, TickStep
<1>13. ASSUME NEW w \in Workers, SubmitAnswered(w)
       PROVE  QueueTyped'
  <2>1. First(w) \in Entries
    BY <1>13, FirstThere DEF SubmitAnswered, Sending
  <2>2. upsets' \in 0..MaxUpsets
    BY <1>13, UpsetTyped, Zenon DEF SubmitAnswered, QueueTyped
  <2>3. unseen' \subseteq Entries
    BY <1>13, <2>1, Zenon DEF SubmitAnswered, QueueTyped, FilesTyped
  <2>4. UNCHANGED <<listed, withdrawn, held, started, verdict, file, fresh, lane, told, halted, overlap>>
    BY <1>13 DEF SubmitAnswered
  <2>5. FilesTyped' /\ EndsTyped'
    BY <2>2, <2>3, <2>4, SMT DEF QueueTyped, FilesTyped, EndsTyped
  <2>6. QED BY <1>1, <1>13, <2>5 DEF QueueTyped, TickStep
<1>14. ASSUME NEW w \in Workers, StartReceipt(w)
       PROVE  QueueTyped'
  <2>1. First(w) \in Entries
    BY <1>14, FirstThere DEF StartReceipt, Sending
  <2>2. upsets' \in 0..MaxUpsets
    BY <1>14, UpsetTyped, Zenon DEF StartReceipt, QueueTyped
  <2>3. unseen' \subseteq Entries /\ started' \subseteq Entries
    BY <1>14, <2>1, Zenon DEF StartReceipt, QueueTyped, FilesTyped
  <2>4. UNCHANGED <<listed, withdrawn, held, verdict, file, fresh, lane, told, halted, overlap>>
    BY <1>14 DEF StartReceipt
  <2>5. FilesTyped' /\ EndsTyped'
    BY <2>2, <2>3, <2>4, SMT DEF QueueTyped, FilesTyped, EndsTyped
  <2>6. QED BY <1>1, <1>14, <2>5 DEF QueueTyped, TickStep
<1>15. ASSUME NEW w \in Workers, WritesState(w) \/ Stops(w)
       PROVE  FilesTyped' /\ EndsTyped'
  <2>1. work[w] \in Works
    BY RestGoes
  <2>2. file' \in [owner: Workers \cup {NoWorker}, stopped: BOOLEAN, tracked: SUBSET Entries]
    <3>1. PICK b \in BOOLEAN : file' = [owner |-> w, stopped |-> b, tracked |-> work[w].known]
      BY <1>15 DEF WritesState, Stops
    <3>2. work[w].known \in SUBSET Entries
      BY <2>1, WorkParts
    <3>3. QED BY <3>1, <3>2, Zenon
  <2>3. upsets' \in 0..MaxUpsets
    BY <1>15, UpsetTyped, Zenon DEF WritesState, Stops, QueueTyped
  <2>4. fresh' \in BOOLEAN /\ halted' \subseteq Workers
    BY <1>15, Zenon DEF WritesState, Stops, QueueTyped, FilesTyped
  <2>5. UNCHANGED <<listed, withdrawn, held, started, verdict, lane, told, unseen, overlap>>
    BY <1>15 DEF WritesState, Stops
  <2>6. QED BY <2>2, <2>3, <2>4, <2>5, SMT DEF QueueTyped, FilesTyped, EndsTyped
<1>16. ASSUME NEW w \in Workers, WritesState(w)
       PROVE  QueueTyped'
  BY <1>1, <1>15, <1>16 DEF QueueTyped, TickStep
<1>17. ASSUME NEW w \in Workers, Stops(w)
       PROVE  QueueTyped'
  <2>1. WorkTyped'
    BY <1>17, SMT DEF Stops, QueueTyped, WorkTyped
  <2>2. QED BY <1>15, <1>17, <2>1 DEF QueueTyped
<1>18. ASSUME NEW w \in Workers, Exits(w) \/ Dies(w)
       PROVE  QueueTyped'
  <2>1. work[w].at \in {"sent", "start"} => First(w) \in Entries
    BY FirstThere, SMT DEF Sending
  <2>2. upsets' \in 0..MaxUpsets
    BY <1>18, UpsetTyped, Zenon DEF Exits, Dies, QueueTyped
  <2>3. Vanishes(w)
    BY <1>18 DEF Exits, Dies
  <2>4. unseen' \subseteq Entries
    BY <2>1, <2>3, Zenon DEF Vanishes, QueueTyped, FilesTyped
  <2>5. UNCHANGED <<listed, withdrawn, held, started, verdict, file, fresh, lane, told, halted, overlap>>
    BY <2>3 DEF Vanishes
  <2>6. FilesTyped' /\ EndsTyped'
    BY <2>2, <2>4, <2>5, SMT DEF QueueTyped, FilesTyped, EndsTyped
  <2>7. QED BY <1>1, <1>18, <2>6 DEF QueueTyped
<1>19. QED
  BY <1>2, <1>3, <1>4, <1>5, <1>6, <1>7, <1>8, <1>9, <1>10, <1>11, <1>12, <1>13, <1>14,
     <1>16,
     <1>17, <1>18 DEF QueueNext, TickStep

(* An admission is known by its START receipt, is about to be known, or was    *)
(* lost sight of; what is about to be known was admitted.                      *)
Waits(r, e) == r.at \in {"sent", "start"} /\ Min(r.rest) = e
AdmissionsKnown ==
  \A e \in Entries : lane[e] # "none" =>
    e \in started \/ e \in unseen \/ \E w \in Workers : Waits(work[w], e)
PendingAdmitted == \A w \in Workers, e \in Entries : Waits(work[w], e) => lane[e] # "none"
AgainStarted == \A w \in Workers : work[w].again \subseteq started
TicksAlone == overlap \/ \A v, w \in Workers : Ticking(v) /\ Ticking(w) => v = w
(* What a tick is about to admit has no verdict, and what it is about to       *)
(* cancel was not admitted, as far as the coordinator sees.                    *)
ClaimsOpen ==
  \A w \in Workers : work[w].at \in Sending =>
    \A e \in work[w].rest : verdict[e] = "none" \/ overlap
CancelsSound ==
  \A w \in Workers : work[w].at = "cancel" =>
    \A e \in work[w].rest \ work[w].again : lane[e] = "none" \/ e \in unseen \/ overlap
SeenInv == AdmissionsKnown /\ PendingAdmitted /\ AgainStarted
SoundInv == TicksAlone /\ ClaimsOpen /\ CancelsSound /\ ReceiptsAreTrue
QueueInv == QueueTyped /\ SeenInv /\ SoundInv

Resting == {"new", "idle", "off"}
(* A step whose tick becomes r keeps sight of the admissions, or keeps the    *)
(* verdicts sound.                                                            *)
Sighted(w, r) ==
  /\ started \subseteq started' /\ unseen \ unseen' \subseteq started'
  /\ r.again \subseteq started'
  /\ \A e \in Entries :
       /\ lane[e] # "none" => lane'[e] # "none"
       /\ lane'[e] # "none" => lane[e] # "none" \/ Waits(r, e)
       /\ Waits(work[w], e) => Waits(r, e) \/ e \in started' \/ e \in unseen'
       /\ Waits(r, e) => lane'[e] # "none"
Sounds(w, r) ==
  /\ Ticking(w) \/ (UNCHANGED <<verdict, lane>> /\ unseen \subseteq unseen')
  /\ overlap => overlap'
  /\ r.at \in Resting \/ Ticking(w) \/ overlap' \/ \A v \in Workers : ~Ticking(v)
  /\ r.at \in Sending => \A e \in r.rest : verdict'[e] = "none" \/ overlap'
  /\ r.at = "cancel" =>
       \A e \in r.rest \ r.again : lane'[e] = "none" \/ e \in unseen' \/ overlap'

\* A tick leaves the other ones alone.
LEMMA OthersStay ==
  ASSUME QueueTyped, NEW w \in Workers, NEW r, WorkGoes(w, r)
  PROVE  work'[w] = r /\ \A v \in Workers \ {w} : work'[v] = work[v]
  BY SMT DEF WorkGoes, QueueTyped, WorkTyped

\* A tick that keeps sight of the admissions keeps SeenInv.
LEMMA SightKept ==
  ASSUME QueueTyped, SeenInv, NEW w \in Workers, NEW r, WorkGoes(w, r), Sighted(w, r)
  PROVE  SeenInv'
<1>1. work'[w] = r /\ \A v \in Workers \ {w} : work'[v] = work[v]
  BY OthersStay
<1>2. AgainStarted'
  BY <1>1, SMT DEF SeenInv, AgainStarted, Sighted
<1>3. PendingAdmitted'
  BY <1>1, SMT DEF SeenInv, PendingAdmitted, Sighted
<1>4. AdmissionsKnown'
  <2> SUFFICES ASSUME NEW e \in Entries, lane'[e] # "none"
               PROVE  e \in started' \/ e \in unseen' \/ \E v \in Workers : Waits(work'[v], e)
    BY Zenon DEF AdmissionsKnown
  <2>1. CASE lane[e] # "none" /\ \E v \in Workers : Waits(work[v], e)
    BY <1>1, <2>1, Zenon DEF Sighted
  <2>2. QED BY <1>1, <2>1, Zenon DEF SeenInv, AdmissionsKnown, Sighted
<1>5. QED BY <1>2, <1>3, <1>4 DEF SeenInv

\* A tick that writes nothing untrue keeps SoundInv.
LEMMA SoundKept ==
  ASSUME QueueTyped, SoundInv, NEW w \in Workers, NEW r, WorkGoes(w, r), Sounds(w, r),
         ReceiptsAreTrue', started \subseteq started'
  PROVE  SoundInv'
<1>1. work'[w] = r /\ \A v \in Workers \ {w} : work'[v] = work[v]
  BY OthersStay
<1>2. TicksAlone'
  BY <1>1, SMT DEF SoundInv, TicksAlone, Sounds, Ticking, Resting
<1>3. ASSUME NEW v \in Workers \ {w}, Ticking(v)
      PROVE  overlap' \/ (UNCHANGED <<verdict, lane>> /\ unseen \subseteq unseen')
  BY <1>3, SMT DEF SoundInv, TicksAlone, Sounds
<1>4. ClaimsOpen'
  <2> SUFFICES ASSUME NEW v \in Workers, work'[v].at \in Sending, NEW e \in work'[v].rest
               PROVE  verdict'[e] = "none" \/ overlap'
    BY Zenon DEF ClaimsOpen
  <2>1. CASE v = w
    BY <1>1, <2>1, Zenon DEF Sounds
  <2>2. CASE v # w
    <3>1. work'[v] = work[v] /\ Ticking(v)
      BY <1>1, <2>2, SMT DEF Ticking, Sending
    <3>2. QED BY <1>3, <2>2, <3>1, Zenon DEF SoundInv, ClaimsOpen, Sounds
  <2>3. QED BY <2>1, <2>2
<1>5. CancelsSound'
  <2> SUFFICES ASSUME NEW v \in Workers, work'[v].at = "cancel",
                      NEW e \in work'[v].rest \ work'[v].again
               PROVE  lane'[e] = "none" \/ e \in unseen' \/ overlap'
    BY Zenon DEF CancelsSound
  <2>1. CASE v = w
    BY <1>1, <2>1, Zenon DEF Sounds
  <2>2. CASE v # w
    <3>1. work'[v] = work[v] /\ Ticking(v)
      BY <1>1, <2>2, SMT DEF Ticking
    <3>2. QED BY <1>3, <2>2, <3>1, Zenon DEF SoundInv, CancelsSound, Sounds
  <2>3. QED BY <2>1, <2>2
<1>6. QED BY <1>2, <1>4, <1>5 DEF SoundInv
(* A step of a tick that leaves the lane and the receipts alone. *)
LEMMA Quietly ==
  ASSUME QueueInv, NEW w \in Workers, NEW r, WorkGoes(w, r), Sounds(w, r),
         UNCHANGED <<lane, verdict, started, unseen, overlap>>, r.again \subseteq started,
         \A e \in Entries : Waits(work[w], e) <=> Waits(r, e)
  PROVE  SeenInv' /\ SoundInv'
<1>1. Sighted(w, r)
  BY SMT DEF Sighted, QueueInv, SeenInv, PendingAdmitted
<1>2. ReceiptsAreTrue'
  BY Zenon DEF QueueInv, SoundInv, ReceiptsAreTrue
<1>3. QED BY <1>1, <1>2, SightKept, SoundKept, Zenon DEF QueueInv

\* Who ticks, by its place.
LEMMA TickIs == ASSUME NEW w \in Workers PROVE Ticking(w) <=> work[w].at \notin Resting
  BY SMT DEF Ticking, Resting
(* A task of the loop is done with: it was not admitted, or that is known.     *)
LEMMA LoopSounds ==
  ASSUME QueueInv, NEW w \in Workers, work[w].at \in Sending, NEW r, WorkGoes(w, r),
         LoopsOn(work[w], r),
         UNCHANGED <<lane, verdict, overlap>>, started \subseteq started',
         unseen \ unseen' \subseteq started',
         \A e \in Entries : Waits(work[w], e) => e \in started' \/ e \in unseen'
  PROVE  SeenInv' /\ (ReceiptsAreTrue' => SoundInv')
<1>1. r.at \notin {"sent", "start", "cancel"} /\ Ticking(w)
  BY SMT DEF LoopsOn, Ticking, Sending
<1>2. Sighted(w, r)
  BY <1>1, Zenon DEF Sighted, QueueInv, SeenInv, AgainStarted, LoopsOn, Waits
<1>3. Sounds(w, r)
  BY <1>1, SMT DEF Sounds, QueueInv, SoundInv, ClaimsOpen, LoopsOn, Sending
<1>4. QED BY <1>2, <1>3, SightKept, SoundKept, Zenon DEF QueueInv

\* Every step keeps SeenInv and SoundInv.
LEMMA NextSound == QueueInv /\ [QueueNext]_queueVars => SeenInv' /\ SoundInv'
<1> SUFFICES ASSUME QueueInv, [QueueNext]_queueVars PROVE SeenInv' /\ SoundInv'
  OBVIOUS
<1> USE DEF queueFiles, receipts, laneSide
<1>1. QueueTyped
  BY DEF QueueInv
<1>2. CASE UNCHANGED <<work, lane, verdict, started, unseen, overlap>>
  BY <1>2, SMT DEF QueueInv, SeenInv, SoundInv, AdmissionsKnown, PendingAdmitted,
     AgainStarted,
     TicksAlone, ClaimsOpen, CancelsSound, ReceiptsAreTrue, Waits, Ticking
<1>3. ASSUME NEW e \in Entries, NativeEnds(e)
      PROVE  SeenInv' /\ SoundInv'
  <2>1. PICK x \in LaneEnds : lane' = [lane EXCEPT ![e] = x]
    <3>1. {"completed", "failed"} \subseteq LaneEnds
      BY DEF LaneEnds
    <3>2. QED BY <1>3, <3>1, Zenon DEF NativeEnds
  <2>2. /\ lane[e] = "running" /\ lane'[e] # "none"
        /\ \A d \in Entries \ {e} : lane'[d] = lane[d]
    BY <1>1, <1>3, <2>1, SMT DEF QueueTyped, EndsTyped, NativeEnds, LaneEnds
  <2>3. UNCHANGED <<work, verdict, started, unseen, overlap>>
    BY <1>3 DEF NativeEnds
  <2>4. "running" \notin {"none", "completed", "cancelled"}
    BY SMT
  <2>5. SeenInv'
    BY <2>2, <2>3, SMT DEF QueueInv, SeenInv, AdmissionsKnown, PendingAdmitted,
       AgainStarted, Waits
  <2>6. TicksAlone' /\ ClaimsOpen'
    BY <2>3, SMT DEF QueueInv, SoundInv, TicksAlone, ClaimsOpen, Ticking
  <2>7. CancelsSound'
    <3> SUFFICES ASSUME NEW w \in Workers, work'[w].at = "cancel",
                        NEW d \in work'[w].rest \ work'[w].again
                 PROVE  lane'[d] = "none" \/ d \in unseen' \/ overlap'
      BY Zenon DEF CancelsSound
    <3>1. d \in Entries
      BY <1>1, <2>3, RestGoes, WorkParts, SMT
    <3>2. lane[d] = "none" \/ d \in unseen \/ overlap
      BY <2>3, Zenon DEF QueueInv, SoundInv, CancelsSound
    <3>3. QED BY <2>2, <2>3, <2>4, <3>1, <3>2, Zenon
  <2>8. ReceiptsAreTrue'
    BY <2>2, <2>3, <2>4, SMT DEF QueueInv, SoundInv, ReceiptsAreTrue
  <2>9. QED BY <2>5, <2>6, <2>7, <2>8 DEF SoundInv
<1>4. ASSUME NEW w \in Workers, Boots(w)
      PROVE  SeenInv' /\ SoundInv'
  <2>1. PICK r : WorkGoes(w, r) /\ r.at = "idle" /\ r.again = {}
    BY <1>1, <1>4, BootsGoes
  <2>2. Sounds(w, r) /\ UNCHANGED <<lane, verdict, started, unseen, overlap>>
    BY <1>4, <2>1, SMT DEF Boots, Sounds, Resting, Sending
  <2>3. \A e : ~Waits(work[w], e) /\ ~Waits(r, e)
    BY <1>4, <2>1, SMT DEF Boots, Waits
  <2>4. QED BY <2>1, <2>2, <2>3, Quietly, Zenon
<1>5. ASSUME NEW w \in Workers, BeginsTick(w)
      PROVE  SeenInv' /\ SoundInv'
  <2>1. PICK r : WorkGoes(w, r) /\ r.at = "status" /\ r.again = work[w].again
    BY <1>1, <1>5, Begins
  <2>2. \A e : ~Waits(work[w], e) /\ ~Waits(r, e)
    BY <1>5, <2>1, SMT DEF BeginsTick, Waits
  <2>3. Sighted(w, r)
    BY <1>5, <2>1, <2>2, SMT DEF BeginsTick, Sighted, QueueInv, SeenInv, AgainStarted
  <2>7. r.at \notin Sending /\ r.at # "cancel"
    BY <2>1, SMT DEF Sending
  <2>8. overlap => overlap'
    BY <1>5, Zenon DEF BeginsTick
  <2>9. overlap' \/ \A v \in Workers : ~Ticking(v)
    BY <1>5, Zenon DEF BeginsTick
  <2>4. Sounds(w, r)
    BY <1>5, <2>7, <2>8, <2>9, Zenon DEF BeginsTick, Sounds
  <2>5. ReceiptsAreTrue'
    BY <1>5, Zenon DEF BeginsTick, QueueInv, SoundInv, ReceiptsAreTrue
  <2>6. QED BY <1>1, <1>5, <2>1, <2>3, <2>4, <2>5, SightKept, SoundKept, Zenon
               DEF QueueInv, BeginsTick
<1>6. ASSUME NEW w \in Workers, NativeStatus(w)
      PROVE  SeenInv' /\ SoundInv'
  <2> DEFINE A == {e \in Views : StatusFor(e) = "running"}
             S == {e \in Views \cap withdrawn : verdict[e] = "none"}
  <2>1. PICK r : /\ WorkGoes(w, r) /\ r.at \in {"cancel", "poll", "write"} /\ r.again \subseteq A
                 /\ r.at = "cancel" => r.rest = S /\ r.again = A
    BY <1>1, <1>6, NativeGoes
  <2>2. (\A e : ~Waits(work[w], e) /\ ~Waits(r, e)) /\ Ticking(w) /\ r.at \notin Sending
    BY <1>6, <2>1, SMT DEF NativeStatus, Waits, Ticking, Sending
  <2>3. UNCHANGED <<lane, verdict, started, unseen, overlap>>
    BY <1>6 DEF NativeStatus
  <2>4. A \subseteq started
    <3>1. "running" \notin {"cancel_requested", "queued"} \cup Ends
      BY SMT DEF Ends
    <3>2. \A e \in Entries : verdict[e] = "none" \/ verdict[e] \in Ends
      BY <1>1, Zenon DEF QueueTyped, EndsTyped
    <3>3. \A e \in Entries : StatusFor(e) = "running" => e \in started
      BY <3>1, <3>2, SMT DEF StatusFor
    <3>4. QED BY <3>3, Zenon DEF Views
  <2>5. ASSUME NEW e \in S \ A PROVE e \notin started /\ e \in Entries
    BY SMT DEF StatusFor, Views
  <2>6. \A e \in Entries, v \in Workers : Waits(work[v], e) => overlap \/ v = w
    BY <2>2, SMT DEF Waits, Ticking, QueueInv, SoundInv, TicksAlone
  <2>7. \A e \in S \ A : lane[e] = "none" \/ e \in unseen \/ overlap
    BY <2>2, <2>5, <2>6, Zenon DEF QueueInv, SeenInv, AdmissionsKnown
  <2> HIDE DEF A, S
  <2>8. Sounds(w, r)
    BY <2>1, <2>2, <2>3, <2>7, Zenon DEF Sounds
  <2>9. r.again \subseteq started
    BY <2>1, <2>4, Zenon
  <2>10. QED BY <2>1, <2>2, <2>3, <2>8, <2>9, Quietly, Zenon
<1>7. ASSUME NEW w \in Workers, ResolvesCancel(w)
      PROVE  SeenInv' /\ SoundInv'
  <2>1. PICK r : /\ WorkGoes(w, r) /\ r.at \in {"cancel", "poll", "write"}
                 /\ r.again \subseteq work[w].again
                 /\ r.at = "cancel" => /\ r.rest = work[w].rest \ {First(w)}
                                       /\ r.again = work[w].again
    BY <1>1, <1>7, CancelGoes
  <2>2. /\ UNCHANGED <<lane, started, unseen, overlap>> /\ work[w].at = "cancel"
        /\ First(w) \in work[w].rest /\ First(w) \in Entries
    BY <1>1, <1>7, FirstThere DEF ResolvesCancel
  <2>3. (\A e : ~Waits(work[w], e) /\ ~Waits(r, e)) /\ Ticking(w) /\ r.at \notin Sending
    BY <2>1, <2>2, SMT DEF Waits, Ticking, Sending
  <2>4. Sighted(w, r)
    BY <2>1, <2>2, <2>3, Zenon DEF Sighted, QueueInv, SeenInv, AgainStarted
  <2>5. Sounds(w, r)
    BY <2>1, <2>2, <2>3, Zenon DEF Sounds, QueueInv, SoundInv, CancelsSound
  <2>6. UNCHANGED verdict \/ (First(w) \notin work[w].again /\ Receipt(First(w), "CANCELLED"))
    BY <1>7 DEF ResolvesCancel
  <2>7. \A e \in Entries : \/ verdict'[e] = verdict[e]
                           \/ /\ verdict'[e] = "CANCELLED" /\ e = First(w)
                              /\ First(w) \notin work[w].again
    BY <1>1, <2>2, <2>6, SMT DEF Receipt, QueueTyped, EndsTyped
  <2>8. First(w) \notin work[w].again => lane[First(w)] = "none" \/ First(w) \in unseen \/ overlap
    BY <2>2, Zenon DEF QueueInv, SoundInv, CancelsSound
  <2>9. ReceiptsAreTrue'
    BY <2>2, <2>7, <2>8, SMT DEF QueueInv, SoundInv, ReceiptsAreTrue
  <2>10. QED BY <1>1, <2>1, <2>2, <2>4, <2>5, <2>9, SightKept, SoundKept, Zenon DEF QueueInv
<1>8. ASSUME NEW w \in Workers, Polls(w)
      PROVE  SeenInv' /\ SoundInv'
  <2>1. PICK r : WorkGoes(w, r) /\ r.at = "poll" /\ r.again = work[w].again
    BY <1>1, <1>8, PollGoes
  <2>2. UNCHANGED <<lane, started, unseen, overlap>> /\ work[w].at = "poll" /\ First(w) \in Entries
    BY <1>1, <1>8, FirstThere DEF Polls
  <2>3. (\A e : ~Waits(work[w], e) /\ ~Waits(r, e)) /\ Ticking(w) /\ r.at \notin Sending \cup {"cancel"}
    BY <2>1, <2>2, SMT DEF Waits, Ticking, Sending
  <2>4. Sighted(w, r)
    BY <2>1, <2>2, <2>3, Zenon DEF Sighted, QueueInv, SeenInv, AgainStarted
  <2>5. Sounds(w, r)
    BY <2>2, <2>3, Zenon DEF Sounds
  <2>6. \/ UNCHANGED verdict \/ Receipt(First(w), "FAILED")
        \/ lane[First(w)] \in LaneEnds /\ Receipt(First(w), EventOf[lane[First(w)]])
    BY <1>8 DEF Polls, GivesUp
  <2>7. \A e \in Entries : \/ verdict'[e] = verdict[e] \/ verdict'[e] = "FAILED"
                           \/ lane[e] \in LaneEnds /\ verdict'[e] = EventOf[lane[e]]
    BY <1>1, <2>2, <2>6, SMT DEF Receipt, QueueTyped, EndsTyped
  <2>8. \A x \in LaneEnds : /\ EventOf[x] = "COMPLETED" => x = "completed"
                            /\ EventOf[x] = "CANCELLED" => x = "cancelled"
    BY SMT DEF EventOf, LaneEnds
  <2>9. ReceiptsAreTrue'
    BY <2>2, <2>7, <2>8, SMT DEF QueueInv, SoundInv, ReceiptsAreTrue
  <2>10. QED BY <1>1, <2>1, <2>2, <2>4, <2>5, <2>9, SightKept, SoundKept, Zenon DEF QueueInv
<1>9. ASSUME NEW w \in Workers, Claims(w)
      PROVE  SeenInv' /\ SoundInv'
  <2>1. PICK r : /\ WorkGoes(w, r) /\ r.at \in {"write", "send"} /\ r.again \subseteq Interrupted(w)
                 /\ r.at = "send" => r.rest \subseteq Claimable(w)
    BY <1>1, <1>9, ClaimGoes
  <2>2. UNCHANGED <<lane, verdict, started, unseen, overlap>>
    BY <1>9 DEF Claims
  <2>3. (\A e : ~Waits(work[w], e) /\ ~Waits(r, e)) /\ Ticking(w) /\ r.at # "cancel"
        /\ (r.at \in Sending => r.at = "send")
    BY <1>9, <2>1, SMT DEF Claims, Waits, Ticking, Sending
  <2>4. \A e \in Entries : /\ StatusFor(e) = "running" => e \in started
                           /\ StatusFor(e) \in {"running", "queued"} => verdict[e] = "none"
    <3>1. {"running", "queued"} \cap Ends = {} /\ "running" \notin {"cancel_requested", "queued"}
      BY SMT DEF Ends
    <3>2. \A e \in Entries : verdict[e] = "none" \/ verdict[e] \in Ends
      BY <1>1, Zenon DEF QueueTyped, EndsTyped
    <3>3. QED BY <3>1, <3>2, SMT DEF StatusFor
  <2>5. Interrupted(w) \subseteq started /\ \A e \in Claimable(w) : verdict[e] = "none"
    BY <2>4, SMT DEF Interrupted, Claimable, Views
  <2>6. r.again \subseteq started
    BY <2>1, <2>5, Zenon
  <2>7. Sounds(w, r)
    BY <2>1, <2>2, <2>3, <2>5, Zenon DEF Sounds
  <2>8. QED BY <2>1, <2>2, <2>3, <2>6, <2>7, Quietly, Zenon
<1>10. ASSUME NEW w \in Workers, Submits(w)
       PROVE  SeenInv' /\ SoundInv'
  <2> DEFINE e == First(w)
  <2>1. UNCHANGED <<verdict, started, unseen, overlap>> /\ work[w].at = "send"
    BY <1>10 DEF Submits
  <2>2. "send" \in Sending /\ (\A d : ~Waits(work[w], d)) /\ Ticking(w)
    BY <2>1, SMT DEF Sending, Waits, Ticking
  <2>3. e \in Entries /\ e \in work[w].rest
    BY <1>1, <2>1, <2>2, FirstThere
  <2>4. CASE UNCHANGED lane /\ \E r : WorkGoes(w, r) /\ LoopsOn(work[w], r)
    <3>1. ReceiptsAreTrue'
      BY <2>1, <2>4, Zenon DEF QueueInv, SoundInv, ReceiptsAreTrue
    <3>2. QED BY <2>1, <2>2, <2>4, <3>1, LoopSounds, Zenon
  <2>5. CASE /\ lane' = [lane EXCEPT ![e] = IF @ = "none" THEN "running" ELSE @]
             /\ \E r : /\ WorkGoes(w, r) /\ r.at = "sent" /\ r.rest = work[w].rest
                       /\ r.again = work[w].again
    <3>1. PICK r : /\ WorkGoes(w, r) /\ r.at = "sent" /\ r.rest = work[w].rest
                   /\ r.again = work[w].again
      BY <2>5
    <3>2. \A d \in Entries : Waits(r, d) <=> d = e
      BY <3>1, SMT DEF Waits, First
    <3>3. /\ \A d \in Entries \ {e} : lane'[d] = lane[d]
          /\ lane'[e] = (IF lane[e] = "none" THEN "running" ELSE lane[e])
      BY <1>1, <2>3, <2>5, SMT DEF QueueTyped, EndsTyped
    <3>4. lane'[e] # "none"
      BY <3>3, SMT
    <3>5. Sighted(w, r)
      BY <2>1, <2>2, <3>1, <3>2, <3>3, <3>4, Zenon DEF Sighted, QueueInv, SeenInv,
         AgainStarted
    <3>6. verdict[e] = "none" \/ overlap
      BY <2>1, <2>2, <2>3, <3>1, SMT DEF QueueInv, SoundInv, ClaimsOpen
    <3>7. Sounds(w, r)
      BY <2>1, <2>2, <3>1, SMT DEF Sounds, QueueInv, SoundInv, ClaimsOpen
    <3>8. ReceiptsAreTrue'
      BY <2>1, <3>3, <3>4, <3>6, SMT DEF QueueInv, SoundInv, ReceiptsAreTrue
    <3>9. QED BY <1>1, <2>1, <3>1, <3>5, <3>7, <3>8, SightKept, SoundKept, Zenon
                 DEF QueueInv
  <2>6. QED BY <1>1, <1>10, <2>4, <2>5, SubmitSends, Zenon
<1>11. ASSUME NEW w \in Workers, SubmitAnswered(w)
       PROVE  SeenInv' /\ SoundInv'
  <2> DEFINE e == First(w)
  <2>1. UNCHANGED <<lane, verdict, started, overlap>> /\ work[w].at = "sent" /\ unseen \subseteq unseen'
    BY <1>11, Zenon DEF SubmitAnswered
  <2>2. "sent" \in Sending /\ Ticking(w) /\ \A d : Waits(work[w], d) <=> d = e
    BY <2>1, SMT DEF Sending, Ticking, Waits, First
  <2>3. e \in Entries
    BY <1>1, <2>1, <2>2, FirstThere
  <2>4. ReceiptsAreTrue'
    BY <2>1, Zenon DEF QueueInv, SoundInv, ReceiptsAreTrue
  <2>5. CASE (e \in started' \/ e \in unseen') /\ \E r : WorkGoes(w, r) /\ LoopsOn(work[w], r)
    BY <2>1, <2>2, <2>4, <2>5, LoopSounds, Zenon
  <2>6. CASE \E r : WorkGoes(w, r) /\ r.at = "start" /\ r.rest = work[w].rest
                   /\ r.again = work[w].again
    <3>1. PICK r : WorkGoes(w, r) /\ r.at = "start" /\ r.rest = work[w].rest
                   /\ r.again = work[w].again
      BY <2>6
    <3>2. \A d : Waits(r, d) <=> Waits(work[w], d)
      BY <2>1, <3>1, SMT DEF Waits
    <3>3. Sighted(w, r)
      BY <2>1, <3>1, <3>2, Zenon DEF Sighted, QueueInv, SeenInv, AgainStarted,
         PendingAdmitted
    <3>4. Sounds(w, r)
      BY <2>1, <2>2, <3>1, SMT DEF Sounds, QueueInv, SoundInv, ClaimsOpen
    <3>5. QED BY <1>1, <2>1, <2>4, <3>1, <3>3, <3>4, SightKept, SoundKept, Zenon
                 DEF QueueInv
  <2>7. e \in work[w].again => e \in started'
    BY <2>1, Zenon DEF QueueInv, SeenInv, AgainStarted
  <2>8. QED BY <1>1, <1>11, <2>5, <2>6, <2>7, AnsweredGoes, Zenon
<1>12. ASSUME NEW w \in Workers, StartReceipt(w)
       PROVE  SeenInv' /\ SoundInv'
  <2> DEFINE e == First(w)
  <2>1. UNCHANGED <<lane, verdict, overlap>> /\ work[w].at = "start"
    BY <1>12 DEF StartReceipt
  <2>2. "start" \in Sending /\ Ticking(w) /\ \A d : Waits(work[w], d) <=> d = e
    BY <2>1, SMT DEF Sending, Ticking, Waits, First
  <2>3. e \in Entries /\ e \in work[w].rest
    BY <1>1, <2>1, <2>2, FirstThere
  <2>4. \/ started' = started \cup {e} /\ unseen' = unseen \ {e}
        \/ unseen' = unseen \cup {e} /\ UNCHANGED started
    BY <1>12 DEF StartReceipt
  <2>5. lane[e] # "none" /\ (verdict[e] = "none" \/ overlap)
    BY <2>1, <2>2, <2>3, SMT DEF QueueInv, SeenInv, PendingAdmitted, SoundInv, ClaimsOpen
  <2>6. ReceiptsAreTrue'
    BY <2>1, <2>4, <2>5, SMT DEF QueueInv, SoundInv, ReceiptsAreTrue
  <2>7. SeenInv' /\ (ReceiptsAreTrue' => SoundInv')
    BY <1>1, <1>12, <2>1, <2>2, <2>4, Starting, LoopSounds, Zenon
  <2>8. QED BY <2>6, <2>7
<1>13. ASSUME NEW w \in Workers, WritesState(w)
       PROVE  SeenInv' /\ SoundInv'
  <2>1. PICK r : WorkGoes(w, r) /\ r.at = "idle" /\ r.again = work[w].again
    BY <1>1, <1>13, StateWrites
  <2>2. UNCHANGED <<lane, verdict, started, unseen, overlap>>
    BY <1>13 DEF WritesState
  <2>3. Sounds(w, r) /\ \A e : ~Waits(work[w], e) /\ ~Waits(r, e)
    BY <1>13, <2>1, <2>2, SMT DEF WritesState, Sounds, Resting, Sending, Waits
  <2>4. r.again \subseteq started
    BY <2>1, Zenon DEF QueueInv, SeenInv, AgainStarted
  <2>5. QED BY <2>1, <2>2, <2>3, <2>4, Quietly, Zenon
<1>14. ASSUME NEW w \in Workers, Exits(w) \/ Dies(w)
       PROVE  SeenInv' /\ SoundInv'
  <2>1. Vanishes(w)
    BY <1>14 DEF Exits, Dies
  <2>2. PICK r : WorkGoes(w, r) /\ r.at = "off" /\ r.again = {}
    BY <2>1, VanishGoes
  <2>3. UNCHANGED <<lane, verdict, started, overlap>> /\ unseen \subseteq unseen'
    BY <2>1, Zenon DEF Vanishes
  <2>4. \A e : ~Waits(r, e) /\ (Waits(work[w], e) => e \in unseen')
    BY <2>1, <2>2, SMT DEF Vanishes, Waits, First
  <2>5. Sighted(w, r)
    BY <2>2, <2>3, <2>4, Zenon DEF Sighted
  <2>6. Sounds(w, r)
    BY <2>2, <2>3, SMT DEF Sounds, Resting, Sending
  <2>7. ReceiptsAreTrue'
    BY <2>3, Zenon DEF QueueInv, SoundInv, ReceiptsAreTrue
  <2>8. QED BY <1>1, <2>2, <2>3, <2>5, <2>6, <2>7, SightKept, SoundKept, Zenon DEF QueueInv
<1>15. CASE Enqueues \/ Pauses \/ GrowsOld \/ (\E e \in Entries : RequestsCancel(e))
            \/ (\E w \in Workers : Stops(w)) \/ UNCHANGED queueVars
  <2>1. UNCHANGED <<work, lane, verdict, started, unseen, overlap>>
    BY <1>15, Zenon DEF Enqueues, Pauses, GrowsOld, RequestsCancel, Stops, queueVars
  <2>2. QED BY <1>2, <2>1
<1>16. QED
  BY <1>3, <1>4, <1>5, <1>6, <1>7, <1>8, <1>9, <1>10, <1>11, <1>12, <1>13, <1>14, <1>15
     DEF QueueNext, TickStep

\* QueueInv always holds.
LEMMA QueueReaches == QueueSpec => []QueueInv
<1>1. QueueInit => QueueTyped
  <2> SUFFICES ASSUME QueueInit PROVE QueueTyped
    OBVIOUS
  <2>1. PICK at \in {"new", "off"} : work = [w \in Workers |-> [NoTick EXCEPT !.at = at]]
    BY DEF QueueInit
  <2> DEFINE r == [NoTick EXCEPT !.at = at]
  <2>2. r \in Works
    BY NoTickIs, Zenon DEF Works
  <2>3. r.at = at
    BY <2>2, SMT DEF NoTick
  <2> HIDE DEF r
  <2>4. work = [w \in Workers |-> r]
    BY <2>1 DEF r
  <2>5. WorkTyped
    BY <2>2, <2>3, <2>4, SMT DEF WorkTyped, Sending
  <2>9. file \in [owner: Workers \cup {NoWorker}, stopped: BOOLEAN, tracked: SUBSET Entries]
    BY Zenon DEF QueueInit
  <2>10. listed \in 0..MaxEntries /\ upsets \in 0..MaxUpsets
    BY QueueConstants, SMT DEF QueueInit
  <2>6. FilesTyped
    BY <2>9, <2>10, Zenon DEF QueueInit, FilesTyped
  <2>7. EndsTyped
    BY Zenon DEF QueueInit, EndsTyped
  <2>8. QED BY <2>5, <2>6, <2>7 DEF QueueTyped
<1>2. QueueInit => SeenInv /\ SoundInv
  <2> SUFFICES ASSUME QueueInit PROVE SeenInv /\ SoundInv
    OBVIOUS
  <2>1. PICK at \in {"new", "off"} : work = [w \in Workers |-> [NoTick EXCEPT !.at = at]]
    BY DEF QueueInit
  <2>2. [NoTick EXCEPT !.at = at].again = {} /\ [NoTick EXCEPT !.at = at].at = at
    BY SMT DEF NoTick
  <2>3. \A w \in Workers : work[w].at \in {"new", "off"} /\ work[w].again = {}
    BY <2>1, <2>2, Zenon
  <2>4. \A w \in Workers : work[w].at \notin Sending \cup {"cancel"} /\ ~Ticking(w)
    BY <2>3, SMT DEF Sending, Ticking
  <2>5. SeenInv
    BY <2>3, SMT DEF QueueInit, SeenInv, AdmissionsKnown, PendingAdmitted, AgainStarted,
       Waits
  <2>6. SoundInv
    BY <2>4, SMT DEF QueueInit, SoundInv, TicksAlone, ClaimsOpen, CancelsSound,
       ReceiptsAreTrue
  <2>7. QED BY <2>5, <2>6
<1>3. QueueInv /\ [QueueNext]_queueVars => QueueInv'
  BY NextTyped, NextSound DEF QueueInv
<1>4. QED BY <1>1, <1>2, <1>3, PTL DEF QueueSpec, QueueInv

\* The variables of the queue keep their types.
THEOREM QueueTypes == QueueSpec => []QueueTypeOK
<1>1. QueueInv => QueueTypeOK
  BY Zenon DEF QueueInv, QueueTyped, WorkTyped, FilesTyped, EndsTyped, QueueTypeOK, Works
<1>2. QED BY <1>1, QueueReaches, PTL

\* Whoever dies, stands by or loses an answer, the receipts are the truth of the lane
\* (zcode-coordinator.ts: terminalFromNativeStatus, resolveCancellations), but for a
\* CANCELLED whose admission was lost from sight or that two coordinators worked on.
THEOREM ReceiptsTrue == QueueSpec => []ReceiptsAreTrue
<1>1. QueueInv => ReceiptsAreTrue
  BY DEF QueueInv, SoundInv
<1>2. QED BY <1>1, QueueReaches, PTL
-----------------------------------------------------------------------------
(* The four components side by side, as MCRepairs composes them for TLC: each *)
(* step is a step of one of them and leaves the variables of the others.      *)
LEMMA RepairsParts == RepairsSpec => SupSpec /\ TurnSpec /\ QueueSpec /\ RestartSpec
<1>1. RepairsInit => SupInit /\ TurnInit /\ QueueInit /\ RestartInit
  BY DEF RepairsInit
<1>2. [RepairsNext]_repairsVars =>
        [SupNext]_supVars /\ [TurnNext]_turnVars /\ [QueueNext]_queueVars
          /\ [RestartNext]_restartVars
  BY Zenon DEF RepairsNext, repairsVars
<1>3. QED
  BY <1>1, <1>2, PTL DEF RepairsSpec, SupSpec, TurnSpec, QueueSpec, RestartSpec
\* The variables of the four components keep their types.
THEOREM RepairsTypes == RepairsSpec => []RepairsTypeOK
<1>1. SupTypeOK /\ TurnTypeOK /\ QueueTypeOK /\ RestartTypeOK => RepairsTypeOK
  BY DEF RepairsTypeOK
<1>2. QED
  BY <1>1, RepairsParts, SupervisorTypes, TurnsTyped, QueueTypes, RestartTypes, PTL
================================================================================
