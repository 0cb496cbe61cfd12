------------------------- MODULE TaskManagerProofs -------------------------
(***************************************************************************)
(* Proofs about TaskManager for every number of tasks, queue size, task    *)
(* kinds and sequence of disturbances: the type invariant and writer       *)
(* exclusion, from the inductive invariant Inv.                            *)
(***************************************************************************)
EXTENDS TaskManager, SequenceTheorems, WellFoundedInduction, TLAPS

\* What makes TypeOK and WriterExclusion inductive: a run is published exactly
\* while runTask waits somewhere, only by a manager that has recovered; a run
\* that is not finalized is recorded as running, so that nothing takes its slot
\* for a ghost; runTask knows how it ended before it awaits the cleanup.
RunPublished == pc = "none" <=> active = Nobody
NoRunBeforeRecovery == life \in {"down", "recovering"} => active = Nobody /\ ~collector
LiveRunRecorded ==
    active # Nobody /\ ~rt.finalized => mem[active].status \in {"running", "cancelling"}
EndKnown == pc \in {"verify", "catch", "caught"} => rt.end # "none"

RunInv ==
    /\ RunPublished /\ NoRunBeforeRecovery /\ LiveRunRecorded /\ EndKnown
    /\ WriterExclusion

Inv == TypeOK /\ RunInv

USE DEF durable, queue, run, server, boot, budget

-----------------------------------------------------------------------------
(* Lemmas on the operators of the model *)

\* The task ids differ from the two holders of the slot that are no task.
LEMMA HolderKinds ==
    Nobody \notin Tasks /\ Native \notin Tasks /\ Native # Nobody
  BY SMT DEF Tasks, Nobody, Native

\* A run that starts has a well-formed RuntimeTask.
LEMMA FreshRuntimeType == FreshRuntime \in Runtime
  BY DEF FreshRuntime, Runtime, Settled

\* Sequences of one or two operations are sequences of operations.
LEMMA ShortSequences ==
    ASSUME NEW a \in Op, NEW b \in Op
    PROVE  <<>> \in Seq(Op) /\ <<a>> \in Seq(Op) /\ <<a, b>> \in Seq(Op)
  OBVIOUS

LEMMA OperationTypes ==
    ASSUME NEW t \in Tasks
    PROVE  /\ \A r \in Record : Write(t, r) \in Op
           /\ \A s \in Terminal : Append1(t, s) \in Op
           /\ \A why \in Reasons : Stopped(t, why) \in Op
           /\ Execute(t) \in Op
           /\ Pump \in Op
  BY DEF Op, Write, Append1, Stopped, Execute, Pump

\* ensureExecutionRecord leaves well-formed writes behind.
LEMMA AuditOpsType ==
    ASSUME NEW t \in Tasks, NEW r \in Record, IsTerminal(r), NEW appended \in BOOLEAN
    PROVE  AuditOps(t, r, appended) \in Seq(Op)
<1>1. r.status \in Terminal /\ r.recorded \in BOOLEAN
  BY DEF IsTerminal, Record
<1>2. /\ Write(t, r) \in Op
      /\ Write(t, [r EXCEPT !.recorded = TRUE]) \in Op
      /\ Write(t, [r EXCEPT !.recorded = FALSE]) \in Op
      /\ Append1(t, r.status) \in Op
  <2>1. r \in Record /\ [r EXCEPT !.recorded = TRUE] \in Record
        /\ [r EXCEPT !.recorded = FALSE] \in Record
    BY DEF Record
  <2>2. QED BY <2>1, <1>1, OperationTypes
<1>3. /\ <<Write(t, r)>> \in Seq(Op)
      /\ <<Write(t, [r EXCEPT !.recorded = TRUE])>> \in Seq(Op)
      /\ <<Write(t, [r EXCEPT !.recorded = FALSE])>> \in Seq(Op)
      /\ <<Append1(t, r.status)>> \in Seq(Op)
      /\ <<>> \in Seq(Op)
  BY <1>2, ShortSequences
<1>4. QED BY <1>3, ConcatProperties DEF AuditOps

\* effectiveStatus is a terminal status.
LEMMA OutcomeType ==
    ASSUME NEW r, NEW hasRuntime, NEW runtime, NEW restart,
           NEW completion \in Settled \ {"none"}
    PROVE  Outcome(r, hasRuntime, runtime, completion, restart) \in Terminal
  BY DEF Outcome, Terminal, Settled

\* recordTerminal leaves a well-formed terminal record.
LEMMA FinalRecordType ==
    ASSUME NEW r \in Record \cup {NoRecord}, NEW s \in Terminal, NEW b \in BOOLEAN
    PROVE  /\ [r EXCEPT !.status = s, !.recorded = b] \in Record
           /\ IsTerminal([r EXCEPT !.status = s, !.recorded = b])
<1>1. CASE r \in Record
  BY <1>1 DEF Record, Status, IsTerminal
<1>2. CASE r = NoRecord
  BY <1>2 DEF NoRecord, Record, Status, IsTerminal
<1>3. QED BY <1>1, <1>2

\* What a finalization leaves: well-formed state, other tasks and foreign slot
\* holders untouched, and with a runtime a run that is finalized for good.
LEMMA RecordTerminalEffect ==
    ASSUME TypeOK, NEW t \in Tasks, NEW r \in Record \cup {NoRecord},
           NEW hasRuntime \in BOOLEAN, NEW runtime \in Runtime,
           runtime.finalized = rt.finalized, runtime.end = rt.end,
           NEW completion \in Settled \ {"none"}, NEW restart \in BOOLEAN,
           NEW before \in Seq(Op), NEW after \in Seq(Op),
           RecordTerminal(t, r, hasRuntime, runtime, completion, restart, before, after)
    PROVE  /\ mem' \in [Tasks -> Record \cup {NoRecord}]
           /\ slot' \in Tasks \cup {Nobody, Native}
           /\ rt' \in Runtime
           /\ todo' \in Seq(Op)
           /\ faults' \in 0 .. MaxFaults
           /\ slot' = slot \/ (slot = t /\ slot' = Nobody)
           /\ rt'.end = rt.end
           /\ hasRuntime => rt'.finalized
           /\ ~hasRuntime => rt' = rt
           /\ \A u \in Tasks \ {t} : mem'[u] = mem[u]
<1>1. CASE hasRuntime /\ runtime.finalized
  <2>1. /\ mem' = [mem EXCEPT ![t] = r] /\ todo' = before \o after
        /\ UNCHANGED <<slot, rt, faults>>
    BY <1>1 DEF RecordTerminal
  <2>2. todo' \in Seq(Op)
    BY <2>1, ConcatProperties
  <2>3. QED BY <1>1, <2>1, <2>2 DEF TypeOK
<1>2. CASE ~(hasRuntime /\ runtime.finalized)
  <2> DEFINE status == IF IsTerminal(r) THEN r.status
                       ELSE Outcome(r, hasRuntime, runtime, completion, restart)
             final(fault) == [r EXCEPT !.status = status,
                                 !.recorded = fault \notin AppendFaults \/ Audited(t, status)]
  <2>1. PICK fault \in Faults :
           /\ mem' = [mem EXCEPT ![t] = final(fault)]
           /\ slot' = IF slot = t /\ fault # "release" THEN Nobody ELSE slot
           /\ todo' = before \o AuditOps(t, final(fault), fault # "append") \o after
           /\ rt' = IF hasRuntime THEN [runtime EXCEPT !.finalized = TRUE] ELSE rt
           /\ faults' = IF fault = "none" THEN faults ELSE faults + 1
    BY <1>2, Zenon DEF RecordTerminal
  <2>2. status \in Terminal
    BY OutcomeType DEF IsTerminal
  <2>3. final(fault) \in Record /\ IsTerminal(final(fault))
    <3>1. (fault \notin AppendFaults \/ Audited(t, status)) \in BOOLEAN
      BY DEF Audited
    <3>2. QED BY <2>2, <3>1, FinalRecordType
  <2> HIDE DEF status, final
  <2>4. mem' \in [Tasks -> Record \cup {NoRecord}]
    BY <2>1, <2>3 DEF TypeOK
  <2>5. todo' \in Seq(Op)
    BY <2>1, <2>3, AuditOpsType, ConcatProperties
  <2>6. rt' \in Runtime /\ rt'.end = rt.end /\ (hasRuntime => rt'.finalized)
    BY <2>1 DEF TypeOK, Runtime
  <2>7. faults' \in 0 .. MaxFaults
    BY <2>1, BoundsAssumption, SMT DEF TypeOK, Faults, AppendFaults
  <2>8. \A u \in Tasks \ {t} : mem'[u] = mem[u]
    BY <2>1 DEF TypeOK
  <2>9. QED BY <2>1, <2>4, <2>5, <2>6, <2>7, <2>8 DEF TypeOK
<1>3. QED BY <1>1, <1>2

\* The rest of a handler that has not finished, and its next operation.
LEMMA TodoProperties ==
    ASSUME TypeOK, todo # <<>>
    PROVE  /\ Head(todo) \in Op /\ Tail(todo) \in Seq(Op)
           /\ Head(todo).op = "write" => Head(todo).task \in Tasks /\ Head(todo).rec \in Record
           /\ Head(todo).op = "append" => Head(todo).task \in Tasks /\ Head(todo).status \in Terminal
           /\ Head(todo).op = "stopped" => Head(todo).task \in Tasks /\ Head(todo).reason \in Reasons
           /\ Head(todo).op = "execute" => Head(todo).task \in Tasks
<1>1. Head(todo) \in Op /\ Tail(todo) \in Seq(Op)
  BY HeadTailProperties DEF TypeOK
<1>2. QED BY <1>1 DEF Op

\* stopRuntime up to its first await: well-formed calls, nothing else.
LEMMA BeginStopEffect ==
    ASSUME TypeOK, NEW t \in Tasks, NEW why \in Reasons, NEW before \in Seq(Op),
           NEW others \in SUBSET Stop, BeginStop(t, why, before, others)
    PROVE  /\ todo' \in Seq(Op) /\ stops' \in SUBSET Stop
           /\ client' \in Tasks \cup {Nobody} /\ exiting' \in SUBSET Tasks
<1>1. before \o <<Stopped(t, why)>> \in Seq(Op)
  BY OperationTypes, ShortSequences, ConcatProperties
<1>2. /\ [task |-> t, reason |-> why, stage |-> "closing"] \in Stop
      /\ [task |-> t, reason |-> why, stage |-> "interrupt"] \in Stop
  BY DEF Stop
<1>3. QED BY <1>1, <1>2 DEF BeginStop, CloseServer, TypeOK

\* A step that leaves the run, the collector and the slot alone, and does not
\* take the run's record out of its live states, preserves RunInv.
LEMMA RunUntouched ==
    ASSUME RunInv, UNCHANGED <<active, rt, pc, collector, slot>>,
           life' = life \/ life' \in {"up", "closed"},
           active # Nobody /\ ~rt.finalized /\ mem[active].status \in {"running", "cancelling"}
               => mem'[active].status \in {"running", "cancelling"}
    PROVE  RunInv'
  BY DEF RunInv, RunPublished, NoRunBeforeRecovery, LiveRunRecorded, EndKnown,
         WriterExclusion, LiveRunHoldsSlot, CollectorAlone

-----------------------------------------------------------------------------
(* The rest of the running handler *)

LEMMA WriteTaskInv == Inv /\ WriteTask => Inv'
<1> SUFFICES ASSUME Inv, WriteTask PROVE Inv'
  OBVIOUS
<1>1. disk' \in [Tasks -> Record \cup {NoRecord}]
  <2>1. PICK t \in Tasks, r \in Record : disk' = [disk EXCEPT ![t] = r]
    BY TodoProperties DEF Inv, WriteTask
  <2>2. QED BY <2>1 DEF Inv, TypeOK
<1>2. todo' \in Seq(Op)
  BY TodoProperties DEF Inv, WriteTask
<1>3. UNCHANGED <<log, slot, paused, queue, run, server, boot, collector, turns, budget>>
  BY DEF WriteTask
<1>4. TypeOK'
  BY <1>1, <1>2, <1>3, SMT DEF Inv, TypeOK
<1>5. RunInv'
  BY RunUntouched DEF Inv, WriteTask
<1>6. QED BY <1>4, <1>5 DEF Inv

LEMMA AppendLineInv == Inv /\ AppendLine => Inv'
<1> SUFFICES ASSUME Inv, AppendLine PROVE Inv'
  OBVIOUS
<1>1. log' \in [Tasks -> Seq(Terminal)]
  <2>1. PICK t \in Tasks, s \in Terminal : log' = [log EXCEPT ![t] = Append(log[t], s)]
    BY TodoProperties DEF Inv, AppendLine
  <2>2. Append(log[t], s) \in Seq(Terminal)
    BY AppendProperties DEF Inv, TypeOK
  <2>3. QED BY <2>1, <2>2 DEF Inv, TypeOK
<1>2. todo' \in Seq(Op)
  BY TodoProperties DEF Inv, AppendLine
<1>3. UNCHANGED <<disk, slot, paused, queue, run, server, boot, collector, turns, budget>>
  BY DEF AppendLine
<1>4. TypeOK'
  BY <1>1, <1>2, <1>3, SMTT(60) DEF Inv, TypeOK
<1>5. RunInv'
  BY RunUntouched DEF Inv, AppendLine
<1>6. QED BY <1>4, <1>5 DEF Inv

LEMMA ExecuteGeminiInv == Inv /\ ExecuteGemini => Inv'
<1> SUFFICES ASSUME Inv, ExecuteGemini PROVE Inv'
  OBVIOUS
<1>1. TypeOK'
  <2>1. turns' \in [Tasks -> Nat] /\ todo' \in Seq(Op)
    BY TodoProperties, SMTT(60) DEF Inv, TypeOK, ExecuteGemini
  <2>2. UNCHANGED <<disk, log, slot, paused, life, unloaded, mem, pending, pumpScheduled,
                    collector, active, rt, pc, client, exiting, stops, spent, faults>>
    BY DEF ExecuteGemini
  <2>3. QED BY <2>1, <2>2, ZenonT(60) DEF Inv, TypeOK
<1>2. RunInv'
  BY RunUntouched DEF Inv, ExecuteGemini
<1>3. QED BY <1>1, <1>2 DEF Inv

LEMMA StopReturnsInv == Inv /\ StopReturns => Inv'
<1> SUFFICES ASSUME Inv, StopReturns PROVE Inv'
  OBVIOUS
<1> DEFINE t == Head(todo).task
           why == Head(todo).reason
           status == CASE why = "cancel" -> "cancelled"
                       [] why = "shutdown" -> "interrupted"
                       [] OTHER -> "failed"
           settled == Settle(status, rt)
<1>1. todo # <<>> /\ t \in Tasks /\ why \in Reasons /\ Tail(todo) \in Seq(Op)
  BY TodoProperties DEF Inv, StopReturns
<1>2. status \in Settled \ {"none"} /\ settled \in Runtime
      /\ settled.finalized = rt.finalized /\ settled.end = rt.end
  <2>1. status \in Settled \ {"none"}
    BY DEF Settled
  <2> HIDE DEF status
  <2>2. QED BY <2>1 DEF Inv, TypeOK, Settle, Runtime
<1>3. UNCHANGED <<disk, log, paused, pending, pumpScheduled, active, pc, stops,
                  boot, collector, turns, spent>>
  BY DEF StopReturns
<1>4. CASE why \in {"timeout", "policy"}
  <2>1. /\ rt' = IF active = t THEN settled ELSE rt
        /\ todo' = Tail(todo)
        /\ UNCHANGED <<mem, slot, faults, client, exiting>>
    BY <1>4 DEF StopReturns
  <2> HIDE DEF settled
  <2>2. TypeOK'
    BY <1>1, <1>2, <1>3, <2>1, SMTT(60) DEF Inv, TypeOK
  <2>3. RunInv'
    BY <1>2, <1>3, <2>1 DEF Inv, RunInv, RunPublished, NoRunBeforeRecovery, LiveRunRecorded,
       EndKnown, WriterExclusion, LiveRunHoldsSlot, CollectorAlone
  <2>4. QED BY <2>2, <2>3 DEF Inv
<1>5. CASE why \in {"cancel", "shutdown"} /\ active = t
  <2>1. CloseServer /\ RecordTerminal(t, mem[t], TRUE, settled, status,
                                       why = "shutdown", <<>>, Tail(todo))
    BY <1>5 DEF StopReturns
  <2> HIDE DEF settled, status
  <2>2. /\ mem' \in [Tasks -> Record \cup {NoRecord}]
        /\ slot' \in Tasks \cup {Nobody, Native}
        /\ rt' \in Runtime /\ rt'.finalized /\ rt'.end = rt.end
        /\ todo' \in Seq(Op) /\ faults' \in 0 .. MaxFaults
        /\ slot' = slot \/ slot' = Nobody
    <3>1. <<>> \in Seq(Op) /\ mem[t] \in Record \cup {NoRecord} /\ TypeOK
      BY <1>1, SMTT(60) DEF Inv, TypeOK
    <3>2. (why = "shutdown") \in BOOLEAN /\ TRUE \in BOOLEAN
      OBVIOUS
    <3>3. QED BY <1>1, <1>2, <2>1, <3>1, <3>2, RecordTerminalEffect
  <2>3. TypeOK'
    BY <1>3, <2>1, <2>2 DEF Inv, TypeOK, CloseServer
  <2>4. RunInv'
    BY <1>1, <1>3, <1>5, <2>2, HolderKinds
       DEF Inv, RunInv, RunPublished, NoRunBeforeRecovery, LiveRunRecorded,
           EndKnown, WriterExclusion, LiveRunHoldsSlot, CollectorAlone
  <2>5. QED BY <2>3, <2>4 DEF Inv
<1>6. CASE why \in {"cancel", "shutdown"} /\ active # t
  <2>1. CloseServer /\ todo' = Tail(todo) /\ UNCHANGED <<mem, slot, rt, faults>>
    BY <1>6 DEF StopReturns
  <2>2. TypeOK'
    BY <1>1, <1>3, <2>1 DEF Inv, TypeOK, CloseServer
  <2>3. RunInv'
    BY <1>3, <2>1, RunUntouched DEF Inv
  <2>4. QED BY <2>2, <2>3 DEF Inv
<1>7. QED BY <1>1, <1>4, <1>5, <1>6 DEF Reasons

-----------------------------------------------------------------------------
(* The pump *)

\* The FIFO head of a queue that is not empty is a queued task.
LEMMA QueueHead ==
    ASSUME TypeOK, Queued # {}
    PROVE  NextQueued \in Tasks /\ mem[NextQueued].status = "queued"
<1>1. Queued \subseteq Nat
  BY BoundsAssumption, SMT DEF Queued, Tasks
<1>2. PICK t \in Queued : \A u \in Queued : ~ (<<u, t>> \in OpToRel(<, Nat))
  BY <1>1, NatLessThanWellFounded, WFMin
<1>3. \A u \in Queued : t <= u
  <2>1. ASSUME NEW u \in Queued, u < t PROVE FALSE
    BY <1>1, <1>2, <2>1 DEF OpToRel
  <2>2. QED BY <1>1, <2>1, SMT
<1>4. NextQueued \in Queued
  BY <1>3 DEF NextQueued
<1>5. QED BY <1>4 DEF Queued

\* A record with another status is a well-formed record.
LEMMA StatusUpdateType ==
    ASSUME NEW r \in Record \cup {NoRecord}, NEW s \in Status
    PROVE  [r EXCEPT !.status = s] \in Record /\ [r EXCEPT !.status = s].status = s
<1>1. CASE r \in Record
  BY <1>1 DEF Record
<1>2. CASE r = NoRecord
  BY <1>2 DEF Record, NoRecord
<1>3. QED BY <1>1, <1>2

LEMMA StartCodexInv ==
    ASSUME Inv, CanDispatch, NEW t \in Tasks, NEW rest \in Seq(Op), StartCodex(t, rest),
           UNCHANGED <<disk, log, paused, stops, boot, collector, spent>>,
           pending' \in SUBSET Tasks, pumpScheduled' \in BOOLEAN
    PROVE  Inv'
<1> DEFINE r == [mem[t] EXCEPT !.status = "running"]
<1>1. r \in Record /\ r.status = "running"
  <2>1. mem[t] \in Record \cup {NoRecord} /\ "running" \in Status
    BY DEF Inv, TypeOK, Status
  <2>2. QED BY <2>1, StatusUpdateType
<1>2. /\ slot' = t /\ active' = t /\ rt' = FreshRuntime /\ pc' = "spawn" /\ client' = t
      /\ mem' = [mem EXCEPT ![t] = r] /\ todo' = rest \o <<Write(t, r)>>
      /\ UNCHANGED <<exiting, turns, faults>>
  BY DEF StartCodex
<1> HIDE DEF r
<1>3. todo' \in Seq(Op)
  BY <1>1, <1>2, OperationTypes, ShortSequences, ConcatProperties
<1>4. TypeOK'
  BY <1>1, <1>2, <1>3, FreshRuntimeType, SMTT(60) DEF Inv, TypeOK
<1>5. RunInv'
  BY <1>1, <1>2, HolderKinds
     DEF Inv, TypeOK, CanDispatch, RunInv, RunPublished, NoRunBeforeRecovery, LiveRunRecorded,
         EndKnown, WriterExclusion, LiveRunHoldsSlot, CollectorAlone
<1>6. QED BY <1>4, <1>5 DEF Inv

LEMMA StartGeminiInv ==
    ASSUME Inv, CanDispatch, NEW t \in Tasks, NEW rest \in Seq(Op), StartGemini(t, rest),
           UNCHANGED <<disk, log, paused, stops, boot, collector, spent>>,
           pending' \in SUBSET Tasks, pumpScheduled' \in BOOLEAN
    PROVE  Inv'
<1> DEFINE r == [mem[t] EXCEPT !.status = "running"]
<1>1. r \in Record /\ r.status = "running"
  <2>1. mem[t] \in Record \cup {NoRecord} /\ "running" \in Status
    BY DEF Inv, TypeOK, Status
  <2>2. QED BY <2>1, StatusUpdateType
<1>2. active' = t /\ UNCHANGED <<client, exiting, turns>>
  BY DEF StartGemini
<1>3. CASE mem[t].cancel
  <2> DEFINE final(fault) == [r EXCEPT !.status = "cancelled",
                                       !.recorded = fault \notin AppendFaults]
  <2>1. PICK fault \in Faults :
          /\ pc' = "returned" /\ rt' = [FreshRuntime EXCEPT !.finalized = TRUE]
          /\ slot' = IF fault = "release" THEN t ELSE Nobody
          /\ mem' = [mem EXCEPT ![t] = final(fault)]
          /\ todo' = rest \o <<Write(t, r)>> \o AuditOps(t, final(fault), fault # "append")
          /\ faults' = IF fault = "none" THEN faults ELSE faults + 1
    BY <1>3 DEF StartGemini
  <2> HIDE DEF r
  <2>2. final(fault) \in Record /\ IsTerminal(final(fault))
    <3>1. "cancelled" \in Terminal /\ (fault \notin AppendFaults) \in BOOLEAN
      BY DEF Terminal
    <3>2. QED BY <1>1, <3>1, FinalRecordType
  <2> HIDE DEF final
  <2>3. todo' \in Seq(Op)
    BY <1>1, <2>1, <2>2, OperationTypes, ShortSequences, AuditOpsType, ConcatProperties
  <2>4. faults' \in 0 .. MaxFaults
    BY <2>1, BoundsAssumption, SMT DEF Inv, TypeOK, Faults, AppendFaults
  <2>5. rt' \in Runtime /\ rt'.finalized
    BY <2>1, FreshRuntimeType DEF Runtime
  <2>6. TypeOK'
    BY <1>2, <2>1, <2>2, <2>3, <2>4, <2>5, SMTT(60) DEF Inv, TypeOK
  <2>7. RunInv'
    BY <1>2, <2>1, <2>5, HolderKinds
       DEF Inv, CanDispatch, RunInv, RunPublished, NoRunBeforeRecovery, LiveRunRecorded,
           EndKnown, WriterExclusion, LiveRunHoldsSlot, CollectorAlone
  <2>8. QED BY <2>6, <2>7 DEF Inv
<1>4. CASE ~mem[t].cancel
  <2>1. /\ pc' = "gemini" /\ rt' = FreshRuntime /\ slot' = t
        /\ mem' = [mem EXCEPT ![t] = r]
        /\ todo' = rest \o <<Write(t, r), Execute(t)>>
        /\ UNCHANGED faults
    BY <1>4 DEF StartGemini, HandOver
  <2> HIDE DEF r
  <2>2. todo' \in Seq(Op)
    BY <1>1, <2>1, OperationTypes, ShortSequences, ConcatProperties
  <2>3. mem' \in [Tasks -> Record \cup {NoRecord}]
    BY <1>1, <2>1 DEF Inv, TypeOK
  <2>4. TypeOK'
    BY <1>2, <2>1, <2>2, <2>3, FreshRuntimeType DEF Inv, TypeOK
  <2>5. RunInv'
    BY <1>1, <1>2, <2>1, HolderKinds
       DEF Inv, TypeOK, CanDispatch, RunInv, RunPublished, NoRunBeforeRecovery,
           LiveRunRecorded, EndKnown, WriterExclusion, LiveRunHoldsSlot, CollectorAlone
  <2>6. QED BY <2>4, <2>5 DEF Inv
<1>5. QED BY <1>3, <1>4

LEMMA PumpBodyInv ==
    ASSUME Inv, NEW rest \in Seq(Op), NEW scheduled \in BOOLEAN, PumpBody(rest, scheduled)
    PROVE  Inv'
<1>1. UNCHANGED <<disk, log, paused, stops, boot, collector, spent>>
  BY DEF PumpBody
<1>2. CASE ~CanDispatch
  <2>1. /\ todo' = rest /\ pumpScheduled' = scheduled
        /\ UNCHANGED <<slot, mem, pending, run, client, exiting, turns, faults>>
    BY <1>2 DEF PumpBody
  <2>2. TypeOK'
    BY <1>1, <2>1 DEF Inv, TypeOK
  <2>3. RunInv'
    BY <1>1, <2>1, RunUntouched DEF Inv
  <2>4. QED BY <2>2, <2>3 DEF Inv
<1>3. CASE CanDispatch
  <2> DEFINE t == NextQueued
  <2>1. Dispatch(rest, scheduled)
    BY <1>3 DEF PumpBody
  <2>2. t \in Tasks /\ mem[t].status = "queued"
    BY <1>3, QueueHead DEF Inv, CanDispatch
  <2>3. mem[t] \in Record \cup {NoRecord} /\ active = Nobody /\ ~collector /\ TypeOK /\ life = "up"
    BY <1>3, <2>2 DEF Inv, TypeOK, CanDispatch
  <2>4. CASE /\ StartCodex(t, rest) \/ StartGemini(t, rest)
             /\ pending' = pending \cup {t}
             /\ pumpScheduled' = (scheduled \/ pc' = "returned")
    <3>1. pending' \in SUBSET Tasks /\ pumpScheduled' \in BOOLEAN
      BY <2>2, <2>4 DEF Inv, TypeOK
    <3> HIDE DEF t
    <3>2. QED BY <1>1, <1>3, <2>2, <2>4, <3>1, StartCodexInv, StartGeminiInv
  <2>5. CASE /\ faults < MaxFaults /\ faults' = faults + 1
             /\ mem' = [mem EXCEPT ![t].status = IF mem[t].cancel THEN "cancelled" ELSE "failed",
                                   ![t].recorded = TRUE]
             /\ slot' = ReconciledSlot(mem')
             /\ todo' = rest \o AuditOps(t, mem'[t], TRUE)
             /\ pending' = pending \cup {t}
             /\ pumpScheduled' = TRUE
             /\ UNCHANGED <<run, client, exiting, turns>>
    <3> DEFINE s == IF mem[t].cancel THEN "cancelled" ELSE "failed"
    <3> HIDE DEF t
    <3>1. [mem[t] EXCEPT !.status = s, !.recorded = TRUE] \in Record
          /\ IsTerminal([mem[t] EXCEPT !.status = s, !.recorded = TRUE])
      <4>1. s \in Terminal /\ TRUE \in BOOLEAN
        BY DEF Terminal
      <4> HIDE DEF s
      <4>2. QED BY <2>3, <4>1, FinalRecordType
    <3>2. mem' = [mem EXCEPT ![t] = [mem[t] EXCEPT !.status = s, !.recorded = TRUE]]
      BY <2>2, <2>3, <2>5 DEF TypeOK
    <3> HIDE DEF s
    <3>3. /\ mem'[t] = [mem[t] EXCEPT !.status = s, !.recorded = TRUE]
          /\ mem' \in [Tasks -> Record \cup {NoRecord}]
      BY <2>2, <2>3, <3>1, <3>2 DEF TypeOK
    <3>4. todo' \in Seq(Op)
      BY <2>2, <2>5, <3>1, <3>3, AuditOpsType, ConcatProperties
    <3>5. slot' \in Tasks \cup {Nobody, Native} /\ faults' \in 0 .. MaxFaults
      BY <2>3, <2>5, BoundsAssumption, SMT DEF TypeOK, ReconciledSlot
    <3>6. /\ UNCHANGED <<active, rt, pc, client, exiting, turns>>
          /\ pending' \in SUBSET Tasks /\ pumpScheduled' = TRUE
      BY <2>2, <2>3, <2>5 DEF TypeOK
    <3>7. TypeOK'
      BY <1>1, <2>3, <3>3, <3>4, <3>5, <3>6 DEF TypeOK
    <3>8. RunInv'
      BY <1>1, <2>3, <2>5
         DEF Inv, RunInv, RunPublished, NoRunBeforeRecovery, LiveRunRecorded,
             EndKnown, WriterExclusion, LiveRunHoldsSlot, CollectorAlone
    <3>9. QED BY <3>7, <3>8 DEF Inv
  <2>6. CASE /\ RecordTerminal(t, mem[t], FALSE, rt, "failed", FALSE, rest, <<>>)
             /\ pending' = pending \ {t}
             /\ pumpScheduled' = scheduled
             /\ UNCHANGED <<run, client, exiting, turns>>
    <3> HIDE DEF t
    <3>1. /\ mem' \in [Tasks -> Record \cup {NoRecord}]
          /\ slot' \in Tasks \cup {Nobody, Native}
          /\ todo' \in Seq(Op) /\ faults' \in 0 .. MaxFaults
      <4>1. "failed" \in Settled \ {"none"} /\ FALSE \in BOOLEAN /\ <<>> \in Seq(Op)
            /\ rt \in Runtime
        BY <2>3 DEF Settled, TypeOK
      <4>2. QED BY <2>2, <2>3, <2>6, <4>1, RecordTerminalEffect
    <3>2. TypeOK'
      <4>1. /\ rt' \in Runtime /\ active' \in Tasks \cup {Nobody}
            /\ pending' \in SUBSET Tasks /\ pumpScheduled' \in BOOLEAN
        BY <2>6, <3>1, SMT DEF Inv, TypeOK
      <4>2. QED BY <1>1, <2>6, <3>1, <4>1, Zenon DEF Inv, TypeOK
    <3>3. RunInv'
      BY <1>1, <2>3, <2>6
         DEF Inv, RunInv, RunPublished, NoRunBeforeRecovery, LiveRunRecorded,
             EndKnown, WriterExclusion, LiveRunHoldsSlot, CollectorAlone
    <3>4. QED BY <3>2, <3>3 DEF Inv
  <2>7. QED BY <2>1, <2>4, <2>5, <2>6 DEF Dispatch
<1>4. QED BY <1>2, <1>3

LEMMA PumpNowInv == Inv /\ PumpNow => Inv'
<1> SUFFICES ASSUME Inv, PumpNow PROVE Inv'
  OBVIOUS
<1>1. Tail(todo) \in Seq(Op) /\ pumpScheduled \in BOOLEAN
  BY TodoProperties DEF Inv, TypeOK, PumpNow
<1>2. QED BY <1>1, PumpBodyInv DEF PumpNow

LEMMA PumpMicrotaskInv == Inv /\ PumpMicrotask => Inv'
<1> SUFFICES ASSUME Inv, PumpMicrotask PROVE Inv'
  OBVIOUS
<1>1. <<>> \in Seq(Op) /\ FALSE \in BOOLEAN
  OBVIOUS
<1>2. QED BY <1>1, PumpBodyInv DEF PumpMicrotask

-----------------------------------------------------------------------------
(* Admission and the other writers *)

\* Reconciling the slot never takes it from a run that is not finalized.
LEMMA ReconcileKeepsRun ==
    ASSUME Inv
    PROVE  /\ ReconciledSlot(mem) \in Tasks \cup {Nobody, Native}
           /\ ReconciledSlot(mem) = slot \/ ReconciledSlot(mem) = Nobody
           /\ active # Nobody /\ ~rt.finalized => ReconciledSlot(mem) = slot
<1>1. ReconciledSlot(mem) \in {slot, Nobody}
  BY DEF ReconciledSlot
<1>2. ASSUME active # Nobody, ~rt.finalized
      PROVE  ReconciledSlot(mem) = slot
  <2>1. slot = active /\ mem[active].status \in {"running", "cancelling"}
    BY <1>2 DEF Inv, RunInv, LiveRunRecorded, WriterExclusion, LiveRunHoldsSlot
  <2>2. QED BY <2>1 DEF ReconciledSlot, Live
<1>3. QED BY <1>1, <1>2 DEF Inv, TypeOK

LEMMA SubmitInv == \A t \in Tasks : Inv /\ Submit(t) => Inv'
<1> SUFFICES ASSUME NEW t \in Tasks, Inv, Submit(t) PROVE Inv'
  OBVIOUS
<1> DEFINE r == [status |-> "queued", cancel |-> FALSE, recorded |-> FALSE]
<1>1. /\ mem[t] = NoRecord /\ life = "up"
      /\ UNCHANGED <<disk, log, paused, active, pc, server, boot, collector, turns, spent>>
  BY DEF Submit, Idle
<1>2. r \in Record /\ Write(t, r) \in Op /\ Pump \in Op
  <2>1. r \in Record
    BY DEF Record, Status
  <2> HIDE DEF r
  <2>2. QED BY <2>1, OperationTypes
<1>3. TypeOK /\ (active # Nobody /\ ~rt.finalized => t # active)
  BY <1>1 DEF Inv, RunInv, LiveRunRecorded, NoRecord
<1>4. CASE /\ mem' = [mem EXCEPT ![t] = r]
           /\ pending' = pending \cup {t}
           /\ todo' = <<Write(t, r), Pump>>
           /\ slot' = ReconciledSlot(mem)
           /\ UNCHANGED <<rt, faults, pumpScheduled>>
  <2> HIDE DEF r
  <2>1. todo' \in Seq(Op) /\ mem' \in [Tasks -> Record \cup {NoRecord}]
        /\ pending' \in SUBSET Tasks /\ slot' \in Tasks \cup {Nobody, Native}
    BY <1>2, <1>3, <1>4, ShortSequences, ReconcileKeepsRun DEF TypeOK
  <2>2. TypeOK'
    BY <1>1, <1>3, <1>4, <2>1 DEF TypeOK
  <2>3. active \in Tasks \ {t} => mem'[active] = mem[active]
    BY <1>3, <1>4 DEF TypeOK
  <2>4. RunInv'
    BY <1>1, <1>3, <1>4, <2>3, ReconcileKeepsRun
       DEF Inv, TypeOK, RunInv, RunPublished, NoRunBeforeRecovery, LiveRunRecorded,
           EndKnown, WriterExclusion, LiveRunHoldsSlot, CollectorAlone
  <2>5. QED BY <2>2, <2>4 DEF Inv
<1>5. CASE /\ RecordTerminal(t, r, FALSE, rt, "failed", FALSE, <<Write(t, r)>>, <<>>)
           /\ SchedulePump
           /\ UNCHANGED pending
  <2> HIDE DEF r
  <2>1. /\ mem' \in [Tasks -> Record \cup {NoRecord}]
        /\ slot' \in Tasks \cup {Nobody, Native}
        /\ todo' \in Seq(Op) /\ faults' \in 0 .. MaxFaults
        /\ slot' = slot \/ (slot = t /\ slot' = Nobody)
        /\ rt' = rt
        /\ \A u \in Tasks \ {t} : mem'[u] = mem[u]
    <3>1. "failed" \in Settled \ {"none"} /\ FALSE \in BOOLEAN /\ <<>> \in Seq(Op)
          /\ rt \in Runtime /\ <<Write(t, r)>> \in Seq(Op)
      BY <1>2, <1>3, ShortSequences DEF Settled, TypeOK
    <3>2. QED BY <1>2, <1>3, <1>5, <3>1, RecordTerminalEffect
  <2>2. TypeOK'
    BY <1>1, <1>3, <1>5, <2>1 DEF TypeOK, SchedulePump
  <2>3. RunInv'
    BY <1>1, <1>3, <2>1
       DEF Inv, TypeOK, RunInv, RunPublished, NoRunBeforeRecovery, LiveRunRecorded,
           EndKnown, WriterExclusion, LiveRunHoldsSlot, CollectorAlone
  <2>4. QED BY <2>2, <2>3 DEF Inv
<1>6. QED BY <1>4, <1>5 DEF Submit

LEMMA SetPausedInv == \A p \in BOOLEAN : Inv /\ SetPaused(p) => Inv'
<1> SUFFICES ASSUME NEW p \in BOOLEAN, Inv, SetPaused(p) PROVE Inv'
  OBVIOUS
<1>1. spent' \in 0 .. MaxEvents
  BY BoundsAssumption, SMT DEF Inv, TypeOK, SetPaused, Happens
<1>2. pumpScheduled' \in BOOLEAN
  BY Zenon DEF Inv, TypeOK, SetPaused, SchedulePump
<1>3. paused' \in SUBSET Pauses
  <2>1. paused \subseteq Pauses
    BY DEF Inv, TypeOK
  <2>2. paused' = paused \cup {"queue"} \/ paused' = paused \ {"queue"}
    BY Zenon DEF SetPaused
  <2>3. QED BY <2>1, <2>2, Zenon DEF Pauses
<1>4. TypeOK'
  BY <1>1, <1>2, <1>3 DEF Inv, TypeOK, SetPaused
<1>5. RunInv'
  BY RunUntouched DEF Inv, SetPaused
<1>6. QED BY <1>4, <1>5 DEF Inv

LEMMA SetProductPausedInv == \A p \in BOOLEAN : Inv /\ SetProductPaused(p) => Inv'
<1> SUFFICES ASSUME NEW p \in BOOLEAN, Inv, SetProductPaused(p) PROVE Inv'
  OBVIOUS
<1>1. spent' \in 0 .. MaxEvents
  BY BoundsAssumption, SMT DEF Inv, TypeOK, SetProductPaused, Happens
<1>2. paused' \in SUBSET Pauses
  <2>1. paused \subseteq Pauses
    BY DEF Inv, TypeOK
  <2>2. paused' = paused \cup {"product"} \/ paused' = paused \ {"product"}
    BY Zenon DEF SetProductPaused
  <2>3. QED BY <2>1, <2>2, Zenon DEF Pauses
<1>3. TypeOK'
  BY <1>1, <1>2 DEF Inv, TypeOK, SetProductPaused
<1>4. RunInv'
  BY RunUntouched DEF Inv, SetProductPaused
<1>5. QED BY <1>3, <1>4 DEF Inv

LEMMA NativeAcquireInv == Inv /\ NativeAcquire => Inv'
<1> SUFFICES ASSUME Inv, NativeAcquire PROVE Inv'
  OBVIOUS
<1>1. TypeOK'
  BY BoundsAssumption, SMT DEF Inv, TypeOK, NativeAcquire, Happens
<1>2. active = Nobody /\ ~collector /\ life = "up"
      /\ UNCHANGED <<active, rt, pc, collector, life>>
  BY DEF NativeAcquire, Idle
<1>3. RunInv'
  BY <1>2 DEF Inv, RunInv, RunPublished, NoRunBeforeRecovery,
         LiveRunRecorded, EndKnown, WriterExclusion, LiveRunHoldsSlot, CollectorAlone
<1>4. QED BY <1>1, <1>3 DEF Inv

LEMMA NativeReleaseInv == Inv /\ NativeRelease => Inv'
<1> SUFFICES ASSUME Inv, NativeRelease PROVE Inv'
  OBVIOUS
<1>1. TypeOK'
  BY DEF Inv, TypeOK, NativeRelease, SchedulePump
<1>2. RunInv'
  BY HolderKinds
     DEF Inv, TypeOK, NativeRelease, RunInv, RunPublished, NoRunBeforeRecovery,
         LiveRunRecorded, EndKnown, WriterExclusion, LiveRunHoldsSlot, CollectorAlone
<1>3. QED BY <1>1, <1>2 DEF Inv

LEMMA BeginCollectInv == Inv /\ BeginCollect => Inv'
<1> SUFFICES ASSUME Inv, BeginCollect PROVE Inv'
  OBVIOUS
<1>1. TypeOK'
  BY BoundsAssumption, SMT DEF Inv, TypeOK, BeginCollect, Happens
<1>2. RunInv'
  BY DEF Inv, BeginCollect, Idle, RunInv, RunPublished, NoRunBeforeRecovery,
         LiveRunRecorded, EndKnown, WriterExclusion, LiveRunHoldsSlot, CollectorAlone
<1>3. QED BY <1>1, <1>2 DEF Inv

LEMMA EndCollectInv == Inv /\ EndCollect => Inv'
<1> SUFFICES ASSUME Inv, EndCollect PROVE Inv'
  OBVIOUS
<1>1. pumpScheduled' \in BOOLEAN /\ collector' \in BOOLEAN
  BY DEF Inv, TypeOK, EndCollect, SchedulePump
<1>2. UNCHANGED <<durable, mem, pending, run, server, boot, todo, turns, budget>>
  BY DEF EndCollect
<1>3. TypeOK'
  BY <1>1, <1>2, SMTT(60) DEF Inv, TypeOK
<1>4. RunInv'
  BY DEF Inv, EndCollect, Alive, RunInv, RunPublished, NoRunBeforeRecovery,
         LiveRunRecorded, EndKnown, WriterExclusion, LiveRunHoldsSlot, CollectorAlone
<1>5. QED BY <1>3, <1>4 DEF Inv

-----------------------------------------------------------------------------
(* stopRuntime and its callers *)

\* A stopped call is well formed in each of its stages.
LEMMA StopTypes ==
    ASSUME NEW s \in Stop
    PROVE  /\ s.task \in Tasks /\ s.reason \in Reasons
           /\ [s EXCEPT !.stage = "grace"] \in Stop
           /\ [s EXCEPT !.stage = "closing"] \in Stop
           /\ <<Stopped(s.task, s.reason)>> \in Seq(Op)
<1>1. /\ s.task \in Tasks /\ s.reason \in Reasons
      /\ [s EXCEPT !.stage = "grace"] \in Stop
      /\ [s EXCEPT !.stage = "closing"] \in Stop
  BY DEF Stop
<1>2. QED BY <1>1, OperationTypes, ShortSequences

LEMMA InterruptAnsweredInv == \A s \in stops : Inv /\ InterruptAnswered(s) => Inv'
<1> SUFFICES ASSUME NEW s \in stops, Inv, InterruptAnswered(s) PROVE Inv'
  OBVIOUS
<1>1. s \in Stop
  BY DEF Inv, TypeOK
<1>2. /\ todo' \in Seq(Op) /\ stops' \in SUBSET Stop
      /\ client' \in Tasks \cup {Nobody} /\ exiting' \in SUBSET Tasks
  BY <1>1, StopTypes DEF Inv, TypeOK, InterruptAnswered
<1>3. TypeOK'
  BY <1>2 DEF Inv, TypeOK, InterruptAnswered
<1>4. RunInv'
  BY RunUntouched DEF Inv, InterruptAnswered
<1>5. QED BY <1>3, <1>4 DEF Inv

LEMMA GraceOverInv == \A s \in stops : Inv /\ GraceOver(s) => Inv'
<1> SUFFICES ASSUME NEW s \in stops, Inv, GraceOver(s) PROVE Inv'
  OBVIOUS
<1>1. s \in Stop
  BY DEF Inv, TypeOK
<1>2. /\ todo' \in Seq(Op) /\ stops' \in SUBSET Stop
      /\ client' \in Tasks \cup {Nobody} /\ exiting' \in SUBSET Tasks
  BY <1>1, StopTypes DEF Inv, TypeOK, GraceOver, CloseServer
<1>3. TypeOK'
  BY <1>2 DEF Inv, TypeOK, GraceOver
<1>4. RunInv'
  BY RunUntouched DEF Inv, GraceOver
<1>5. QED BY <1>3, <1>4 DEF Inv

LEMMA CloseAwaitedInv == \A s \in stops : Inv /\ CloseAwaited(s) => Inv'
<1> SUFFICES ASSUME NEW s \in stops, Inv, CloseAwaited(s) PROVE Inv'
  OBVIOUS
<1>1. s \in Stop
  BY DEF Inv, TypeOK
<1>2. /\ todo' \in Seq(Op) /\ stops' \in SUBSET Stop
      /\ client' \in Tasks \cup {Nobody} /\ exiting' \in SUBSET Tasks
  BY <1>1, StopTypes DEF Inv, TypeOK, CloseAwaited
<1>3. TypeOK'
  BY <1>2 DEF Inv, TypeOK, CloseAwaited
<1>4. RunInv'
  BY RunUntouched DEF Inv, CloseAwaited
<1>5. QED BY <1>3, <1>4 DEF Inv

LEMMA ClientExitInv == \A t \in Tasks : Inv /\ ClientExit(t) => Inv'
<1> SUFFICES ASSUME NEW t \in Tasks, Inv, ClientExit(t) PROVE Inv'
  OBVIOUS
<1>1. TypeOK'
  BY DEF Inv, TypeOK, ClientExit
<1>2. RunInv'
  BY RunUntouched DEF Inv, ClientExit
<1>3. QED BY <1>1, <1>2 DEF Inv

LEMMA CancelRecordInv ==
    ASSUME Inv, NEW t \in Tasks, NEW r \in Record \cup {NoRecord}, NEW others \in SUBSET Stop,
           r.status = mem[t].status, CancelRecord(t, r, others), spent' \in 0 .. MaxEvents,
           life \in {"up", "closed"},
           UNCHANGED <<disk, log, paused, active, pc, boot, collector, turns>>
    PROVE  Inv'
<1> DEFINE c == [r EXCEPT !.status = "cancelling"]
<1>1. TypeOK /\ rt \in Runtime /\ <<>> \in Seq(Op) /\ FALSE \in BOOLEAN
      /\ "cancelled" \in Settled \ {"none"}
  BY SMTT(60) DEF Inv, TypeOK, Settled
<1>2. c \in Record /\ c.status = "cancelling"
  <2>1. "cancelling" \in Status
    BY DEF Status
  <2>2. QED BY <2>1, StatusUpdateType
<1> HIDE DEF c
<1>3. <<Write(t, c)>> \in Seq(Op)
  BY <1>2, OperationTypes, ShortSequences
<1>4. CASE r.status = "queued"
  <2>1. /\ pending' = pending \ {t}
        /\ RecordTerminal(t, r, FALSE, rt, "cancelled", FALSE, <<>>, <<>>)
        /\ SchedulePump /\ stops' = others
        /\ UNCHANGED <<client, exiting>>
    BY <1>4 DEF CancelRecord
  <2>2. /\ mem' \in [Tasks -> Record \cup {NoRecord}]
        /\ slot' \in Tasks \cup {Nobody, Native}
        /\ todo' \in Seq(Op) /\ faults' \in 0 .. MaxFaults
        /\ slot' = slot \/ (slot = t /\ slot' = Nobody)
        /\ rt' = rt
        /\ \A u \in Tasks \ {t} : mem'[u] = mem[u]
    BY <1>1, <2>1, RecordTerminalEffect
  <2>3. TypeOK'
    BY <1>1, <2>1, <2>2 DEF TypeOK, SchedulePump
  <2>4. active # Nobody /\ ~rt.finalized => active # t
    BY <1>4 DEF Inv, RunInv, LiveRunRecorded
  <2>5. RunInv'
    BY <1>1, <2>2, <2>4
       DEF Inv, TypeOK, RunInv, RunPublished, NoRunBeforeRecovery, LiveRunRecorded,
           EndKnown, WriterExclusion, LiveRunHoldsSlot, CollectorAlone
  <2>6. QED BY <2>3, <2>5 DEF Inv
<1>5. CASE r.status # "queued" /\ active = t
  <2>1. /\ mem' = [mem EXCEPT ![t] = c]
        /\ BeginStop(t, "cancel", <<Write(t, c)>>, others)
        /\ UNCHANGED <<slot, rt, faults, pending, pumpScheduled>>
    BY <1>5 DEF CancelRecord, c
  <2>2. /\ todo' \in Seq(Op) /\ stops' \in SUBSET Stop
        /\ client' \in Tasks \cup {Nobody} /\ exiting' \in SUBSET Tasks
    <3>1. "cancel" \in Reasons
      BY DEF Reasons
    <3>2. QED BY <1>1, <1>3, <2>1, <3>1, BeginStopEffect
  <2>3. mem' \in [Tasks -> Record \cup {NoRecord}] /\ mem'[t] = c
    BY <1>1, <1>2, <2>1 DEF TypeOK
  <2>4. TypeOK'
    BY <1>1, <2>1, <2>2, <2>3, SMTT(60) DEF TypeOK
  <2>5. RunInv'
    BY <1>2, <1>5, <2>1, <2>3, RunUntouched DEF Inv
  <2>6. QED BY <2>4, <2>5 DEF Inv
<1>6. CASE r.status # "queued" /\ active # t
  <2>1. /\ RecordTerminal(t, c, FALSE, rt, "cancelled", FALSE, <<Write(t, c)>>, <<>>)
        /\ stops' = others
        /\ UNCHANGED <<client, exiting, pending, pumpScheduled>>
    BY <1>6 DEF CancelRecord, c
  <2>2. /\ mem' \in [Tasks -> Record \cup {NoRecord}]
        /\ slot' \in Tasks \cup {Nobody, Native}
        /\ todo' \in Seq(Op) /\ faults' \in 0 .. MaxFaults
        /\ slot' = slot \/ (slot = t /\ slot' = Nobody)
        /\ rt' = rt
        /\ \A u \in Tasks \ {t} : mem'[u] = mem[u]
    BY <1>1, <1>2, <1>3, <2>1, RecordTerminalEffect
  <2>3. TypeOK'
    BY <1>1, <2>1, <2>2 DEF TypeOK
  <2>4. RunInv'
    BY <1>1, <1>6, <2>2
       DEF Inv, TypeOK, RunInv, RunPublished, NoRunBeforeRecovery, LiveRunRecorded,
           EndKnown, WriterExclusion, LiveRunHoldsSlot, CollectorAlone
  <2>5. QED BY <2>3, <2>4 DEF Inv
<1>7. QED BY <1>4, <1>5, <1>6

\* A record with a cancellation request is a well-formed record.
LEMMA CancelFlagType ==
    ASSUME NEW r \in Record
    PROVE  /\ [r EXCEPT !.cancel = TRUE] \in Record
           /\ [r EXCEPT !.cancel = TRUE].status = r.status
  BY DEF Record

LEMMA CancelInv == \A t \in Tasks : Inv /\ Cancel(t) => Inv'
<1> SUFFICES ASSUME NEW t \in Tasks, Inv, Cancel(t) PROVE Inv'
  OBVIOUS
<1> DEFINE r == [mem[t] EXCEPT !.cancel = TRUE]
<1>1. TypeOK /\ life = "up"
      /\ UNCHANGED <<disk, log, paused, active, pc, boot, collector, turns>>
  BY DEF Inv, Cancel, Idle
<1>2. spent' \in 0 .. MaxEvents
  BY <1>1, BoundsAssumption, SMTT(60) DEF TypeOK, Cancel, Happens
<1>3. mem[t] \in Record
  BY <1>1 DEF TypeOK, Cancel, Live, NoRecord
<1>4. r \in Record /\ r.status = mem[t].status
  BY <1>3, CancelFlagType
<1>5. CASE t \in Gemini
  <2>1. /\ mem' = [mem EXCEPT ![t] = r]
        /\ stops' = stops \cup {[task |-> t, reason |-> "cancel", stage |-> "called"]}
        /\ UNCHANGED <<slot, pending, pumpScheduled, rt, client, exiting, todo, faults>>
    BY <1>5 DEF Cancel
  <2>2. stops' \in SUBSET Stop
    BY <1>1, <2>1 DEF TypeOK, Stop, Reasons
  <2> HIDE DEF r
  <2>3. mem' \in [Tasks -> Record \cup {NoRecord}] /\ \A u \in Tasks : mem'[u].status = mem[u].status
    BY <1>1, <1>4, <2>1 DEF TypeOK
  <2>4. TypeOK'
    BY <1>1, <1>2, <2>1, <2>2, <2>3, SMTT(60) DEF TypeOK
  <2>5. RunInv'
    BY <1>1, <2>1, <2>3, RunUntouched DEF Inv, TypeOK
  <2>6. QED BY <2>4, <2>5 DEF Inv
<1>6. CASE t \notin Gemini
  <2>1. CancelRecord(t, r, stops)
    BY <1>6 DEF Cancel
  <2>2. stops \in SUBSET Stop
    BY <1>1 DEF TypeOK
  <2> HIDE DEF r
  <2>3. QED BY <1>1, <1>2, <1>4, <2>1, <2>2, CancelRecordInv
<1>7. QED BY <1>5, <1>6

LEMMA CancelResumesInv == \A s \in stops : Inv /\ CancelResumes(s) => Inv'
<1> SUFFICES ASSUME NEW s \in stops, Inv, CancelResumes(s) PROVE Inv'
  OBVIOUS
<1>1. s.task \in Tasks /\ mem[s.task] \in Record \cup {NoRecord}
      /\ stops \ {s} \in SUBSET Stop
  BY StopTypes DEF Inv, TypeOK
<1>2. /\ CancelRecord(s.task, mem[s.task], stops \ {s}) /\ life = "up"
      /\ UNCHANGED <<disk, log, paused, active, pc, boot, collector, turns, spent>>
  BY DEF CancelResumes
<1>3. spent' \in 0 .. MaxEvents
  BY <1>2 DEF Inv, TypeOK
<1>4. QED BY <1>1, <1>2, <1>3, CancelRecordInv

LEMMA TimeoutTaskInv == Inv /\ TimeoutTask => Inv'
<1> SUFFICES ASSUME Inv, TimeoutTask PROVE Inv'
  OBVIOUS
<1>1. /\ TypeOK /\ active \in Tasks /\ "timeout" \in Reasons /\ <<>> \in Seq(Op)
      /\ stops \in SUBSET Stop
  BY DEF Inv, TypeOK, TimeoutTask, Reasons
<1>2. /\ rt' = [rt EXCEPT !.timedOut = TRUE] /\ BeginStop(active, "timeout", <<>>, stops)
      /\ UNCHANGED <<durable, queue, active, pc, boot, collector, turns, budget>>
  BY DEF TimeoutTask
<1>3. /\ todo' \in Seq(Op) /\ stops' \in SUBSET Stop
      /\ client' \in Tasks \cup {Nobody} /\ exiting' \in SUBSET Tasks
  BY <1>1, <1>2, BeginStopEffect
<1>4. rt' \in Runtime /\ rt'.finalized = rt.finalized /\ rt'.end = rt.end
  BY <1>1, <1>2 DEF TypeOK, Runtime
<1>5. TypeOK'
  BY <1>1, <1>2, <1>3, <1>4 DEF TypeOK
<1>6. RunInv'
  BY <1>2, <1>4 DEF Inv, RunInv, RunPublished, NoRunBeforeRecovery, LiveRunRecorded, EndKnown,
     WriterExclusion, LiveRunHoldsSlot, CollectorAlone
<1>7. QED BY <1>5, <1>6 DEF Inv

LEMMA PolicyAbortInv == Inv /\ PolicyAbort => Inv'
<1> SUFFICES ASSUME Inv, PolicyAbort PROVE Inv'
  OBVIOUS
<1>1. /\ TypeOK /\ active \in Tasks /\ "policy" \in Reasons /\ <<>> \in Seq(Op)
      /\ stops \in SUBSET Stop
  BY DEF Inv, TypeOK, PolicyAbort, Reasons, RunInv, RunPublished
<1>2. /\ rt' = [rt EXCEPT !.failed = TRUE] /\ BeginStop(active, "policy", <<>>, stops)
      /\ UNCHANGED <<durable, queue, active, pc, boot, collector, turns, faults>>
  BY DEF PolicyAbort
<1>3. /\ todo' \in Seq(Op) /\ stops' \in SUBSET Stop
      /\ client' \in Tasks \cup {Nobody} /\ exiting' \in SUBSET Tasks
  BY <1>1, <1>2, BeginStopEffect
<1>4. rt' \in Runtime /\ rt'.finalized = rt.finalized /\ rt'.end = rt.end
  BY <1>1, <1>2 DEF TypeOK, Runtime
<1>5. spent' \in 0 .. MaxEvents
  BY <1>1, BoundsAssumption, SMT DEF TypeOK, PolicyAbort, Happens
<1>6. TypeOK'
  BY <1>1, <1>2, <1>3, <1>4, <1>5, SMTT(60) DEF TypeOK
<1>7. RunInv'
  BY <1>2, <1>4 DEF Inv, RunInv, RunPublished, NoRunBeforeRecovery, LiveRunRecorded, EndKnown,
     WriterExclusion, LiveRunHoldsSlot, CollectorAlone
<1>8. QED BY <1>6, <1>7 DEF Inv

LEMMA CloseInv == Inv /\ Close => Inv'
<1> SUFFICES ASSUME Inv, Close PROVE Inv'
  OBVIOUS
<1>1. /\ TypeOK /\ life = "up" /\ life' = "closed"
      /\ UNCHANGED <<durable, pending, pumpScheduled, active, pc, unloaded, collector, turns,
                     faults>>
  BY DEF Inv, Close, Idle
<1>2. spent' \in 0 .. MaxEvents
  BY <1>1, BoundsAssumption, SMTT(60) DEF TypeOK, Close, Happens
<1>3. CASE active # Nobody /\ Live(mem[active])
  <2> DEFINE r == [mem[active] EXCEPT !.status = "cancelling"]
  <2>1. /\ rt' = [rt EXCEPT !.shutdown = TRUE] /\ mem' = [mem EXCEPT ![active] = r]
        /\ BeginStop(active, "shutdown", <<Write(active, r)>>, stops)
    BY <1>3 DEF Close
  <2>2. active \in Tasks /\ r \in Record /\ r.status = "cancelling"
    <3>1. active \in Tasks /\ mem[active] \in Record \cup {NoRecord} /\ "cancelling" \in Status
      BY <1>1, <1>3 DEF TypeOK, Status
    <3>2. QED BY <3>1, StatusUpdateType
  <2> HIDE DEF r
  <2>3. /\ todo' \in Seq(Op) /\ stops' \in SUBSET Stop
        /\ client' \in Tasks \cup {Nobody} /\ exiting' \in SUBSET Tasks
    <3>1. "shutdown" \in Reasons /\ <<Write(active, r)>> \in Seq(Op) /\ stops \in SUBSET Stop
      BY <1>1, <2>2, OperationTypes, ShortSequences DEF Reasons, TypeOK
    <3>2. QED BY <1>1, <2>1, <2>2, <3>1, BeginStopEffect
  <2>4. rt' \in Runtime /\ rt'.finalized = rt.finalized /\ rt'.end = rt.end
    BY <1>1, <2>1 DEF TypeOK, Runtime
  <2>5. mem' \in [Tasks -> Record \cup {NoRecord}] /\ mem'[active].status = "cancelling"
    BY <1>1, <2>1, <2>2 DEF TypeOK
  <2>6. TypeOK'
    BY <1>1, <1>2, <2>3, <2>4, <2>5 DEF TypeOK
  <2>7. RunInv'
    BY <1>1, <2>4, <2>5 DEF Inv, RunInv, RunPublished, NoRunBeforeRecovery, LiveRunRecorded,
       EndKnown, WriterExclusion, LiveRunHoldsSlot, CollectorAlone
  <2>8. QED BY <2>6, <2>7 DEF Inv
<1>4. CASE ~(active # Nobody /\ Live(mem[active]))
  <2>1. CloseServer /\ UNCHANGED <<rt, mem, stops, todo>>
    BY <1>4 DEF Close
  <2>2. TypeOK'
    BY <1>1, <1>2, <2>1 DEF TypeOK, CloseServer
  <2>3. RunInv'
    BY <1>1, <2>1, RunUntouched DEF Inv
  <2>4. QED BY <2>2, <2>3 DEF Inv
<1>5. QED BY <1>3, <1>4

-----------------------------------------------------------------------------
(* runTask after its awaits *)

\* The finally block keeps the run published until its cleanup is over.
LEMMA EnterFinallyEffect ==
    ASSUME TypeOK, EnterFinally
    PROVE  /\ client' \in Tasks \cup {Nobody} /\ exiting' \in SUBSET Tasks
           /\ pc' \in {"unwound", "unwind"}
  BY DEF TypeOK, EnterFinally, CloseServer

\* Every way in which runTask finalizes its run and enters the finally block.
LEMMA FinalizeInv ==
    ASSUME Inv, pc # "none", NEW runtime \in Runtime, runtime.finalized = rt.finalized,
           runtime.end = rt.end, NEW completion \in Settled \ {"none"}, NEW restart \in BOOLEAN,
           RecordTerminal(active, mem[active], TRUE, runtime, completion, restart, <<>>, <<>>),
           EnterFinally,
           UNCHANGED <<disk, log, paused, pending, pumpScheduled, active, stops, boot,
                       collector, turns, spent>>
    PROVE  Inv'
<1>1. /\ TypeOK /\ active \in Tasks /\ active # Nobody /\ mem[active] \in Record \cup {NoRecord}
      /\ TRUE \in BOOLEAN /\ <<>> \in Seq(Op)
  BY HolderKinds DEF Inv, TypeOK, RunInv, RunPublished
<1>2. /\ mem' \in [Tasks -> Record \cup {NoRecord}]
      /\ slot' \in Tasks \cup {Nobody, Native}
      /\ rt' \in Runtime /\ rt'.finalized
      /\ todo' \in Seq(Op) /\ faults' \in 0 .. MaxFaults
      /\ slot' = slot \/ slot' = Nobody
  BY <1>1, RecordTerminalEffect, ZenonT(200)
<1>3. TypeOK'
  BY <1>1, <1>2, EnterFinallyEffect DEF TypeOK
<1>4. RunInv'
  BY <1>1, <1>2, EnterFinallyEffect
     DEF Inv, RunInv, RunPublished, NoRunBeforeRecovery, LiveRunRecorded,
         EndKnown, WriterExclusion, LiveRunHoldsSlot, CollectorAlone
<1>5. QED BY <1>3, <1>4 DEF Inv

\* The RuntimeTask with its shutdown mark is well formed and as final as before.
LEMMA InterruptedType ==
    ASSUME TypeOK, NEW restart \in BOOLEAN
    PROVE  /\ Interrupted(restart) \in Runtime
           /\ Interrupted(restart).finalized = rt.finalized
           /\ Interrupted(restart).end = rt.end
<1>1. rt \in Runtime /\ [rt EXCEPT !.shutdown = TRUE] \in Runtime
      /\ [rt EXCEPT !.shutdown = TRUE].finalized = rt.finalized
      /\ [rt EXCEPT !.shutdown = TRUE].end = rt.end
  BY DEF TypeOK, Runtime
<1>2. CASE restart
  BY <1>1, <1>2, Zenon DEF Interrupted
<1>3. CASE ~restart
  BY <1>1, <1>3, Zenon DEF Interrupted
<1>4. QED BY <1>2, <1>3

LEMMA ShuttingDownType == ShuttingDown \in BOOLEAN
  BY DEF ShuttingDown

LEMMA RequestAnsweredInv ==
    ASSUME Inv, NEW step \in {"spawn", "thread", "turn"}, NEW next \in {"thread", "turn", "running"},
           RequestAnswered(step, next)
    PROVE  Inv'
<1>1. /\ TypeOK /\ pc = step /\ pc # "none"
      /\ UNCHANGED <<disk, log, paused, pending, pumpScheduled, active, stops, boot, collector,
                     spent>>
  BY DEF Inv, RequestAnswered
<1>2. CASE StopRequested
  <2>1. /\ RecordTerminal(active, mem[active], TRUE, Interrupted(ShuttingDown),
                          StopCompletion, ShuttingDown, <<>>, <<>>)
        /\ EnterFinally /\ UNCHANGED turns
    BY <1>2, Zenon DEF RequestAnswered, AbandonRun
  <2>2. StopCompletion \in Settled \ {"none"} /\ ShuttingDown \in BOOLEAN
    BY ShuttingDownType DEF StopCompletion, Settled
  <2>3. /\ Interrupted(ShuttingDown) \in Runtime
        /\ Interrupted(ShuttingDown).finalized = rt.finalized
        /\ Interrupted(ShuttingDown).end = rt.end
    BY <1>1, <2>2, InterruptedType
  <2>4. QED BY <1>1, <2>1, <2>2, <2>3, FinalizeInv
<1>3. CASE ~StopRequested
  <2>1. /\ pc' = next
        /\ turns' = IF next = "turn" THEN [turns EXCEPT ![active] = @ + 1] ELSE turns
        /\ UNCHANGED <<mem, slot, rt, faults, client, exiting, todo>>
    BY <1>3 DEF RequestAnswered
  <2>2. turns' \in [Tasks -> Nat]
    <3>1. active \in Tasks /\ turns \in [Tasks -> Nat]
      BY <1>1 DEF Inv, TypeOK, RunInv, RunPublished
    <3>2. turns[active] + 1 \in Nat
      BY <3>1, SMT
    <3>3. QED BY <2>1, <3>1, <3>2
  <2>3. TypeOK'
    <3>1. pc' \in {"thread", "turn", "running"}
      BY <2>1
    <3>2. UNCHANGED <<disk, log, slot, paused, mem, pending, pumpScheduled, active, rt, client,
                      exiting, stops, life, unloaded, collector, todo, spent, faults>>
      BY <1>1, <2>1
    <3>3. QED BY <1>1, <2>2, <3>1, <3>2 DEF TypeOK
  <2>4. RunInv'
    BY <1>1, <2>1 DEF Inv, RunInv, RunPublished, NoRunBeforeRecovery, LiveRunRecorded,
       EndKnown, WriterExclusion, LiveRunHoldsSlot, CollectorAlone
  <2>5. QED BY <2>3, <2>4 DEF Inv
<1>4. QED BY <1>2, <1>3

LEMMA RequestFailsInv == Inv /\ RequestFails => Inv'
<1> SUFFICES ASSUME Inv, RequestFails PROVE Inv'
  OBVIOUS
<1> DEFINE end == IF ShuttingDown THEN "interrupted" ELSE IF Cancelled THEN "cancelled" ELSE "failed"
           before == [rt EXCEPT !.end = end, !.failed = @ \/ (end = "failed" /\ ~rt.timedOut)]
<1>1. /\ TypeOK /\ pc # "none"
      /\ UNCHANGED <<durable, queue, active, stops, boot, collector, todo, turns, budget>>
  BY DEF Inv, RequestFails
<1>2. end \in Settled \ {"none"}
  BY DEF Settled
<1>3. before \in Runtime /\ before.finalized = rt.finalized /\ before.end = end
  <2> DEFINE failed == rt.failed \/ (end = "failed" /\ ~rt.timedOut)
  <2>1. before = [rt EXCEPT !.end = end, !.failed = failed]
    <3>1. rt = [finalized |-> rt.finalized, settled |-> rt.settled, failed |-> rt.failed,
                timedOut |-> rt.timedOut, shutdown |-> rt.shutdown, end |-> rt.end]
      BY <1>1 DEF TypeOK, Runtime
    <3> HIDE DEF end
    <3>2. QED BY <3>1, Zenon
  <2>2. failed \in BOOLEAN /\ rt \in Runtime
    BY <1>1 DEF TypeOK, Runtime
  <2> HIDE DEF failed, end, before
  <2>3. [rt EXCEPT !.end = end, !.failed = failed] \in Runtime
    BY <1>2, <2>2 DEF Runtime
  <2>4. [rt EXCEPT !.end = end, !.failed = failed].finalized = rt.finalized
        /\ [rt EXCEPT !.end = end, !.failed = failed].end = end
    BY <2>2 DEF Runtime
  <2>5. QED BY <2>1, <2>3, <2>4
<1>4. CASE rt.finalized
  <2>1. EnterFinally /\ UNCHANGED rt
    BY <1>4 DEF RequestFails
  <2>2. TypeOK'
    BY <1>1, <2>1, EnterFinallyEffect DEF TypeOK
  <2>3. RunInv'
    BY <1>1, <2>1, EnterFinallyEffect DEF Inv, RunInv, RunPublished, NoRunBeforeRecovery,
       LiveRunRecorded, EndKnown, WriterExclusion, LiveRunHoldsSlot, CollectorAlone
  <2>4. QED BY <2>2, <2>3 DEF Inv
<1>5. CASE ~rt.finalized
  <2>1. /\ rt' = Settle(end, before) /\ CloseServer /\ pc' \in {"caught", "catch"}
    BY <1>5 DEF RequestFails
  <2> HIDE DEF end, before
  <2>2. rt' \in Runtime /\ rt'.finalized = rt.finalized /\ rt'.end = end
    BY <1>2, <1>3, <2>1 DEF Settle, Runtime
  <2>3. TypeOK'
    BY <1>1, <2>1, <2>2 DEF TypeOK, CloseServer
  <2>4. RunInv'
    BY <1>1, <1>2, <2>1, <2>2 DEF Inv, RunInv, RunPublished, NoRunBeforeRecovery,
       LiveRunRecorded, EndKnown, WriterExclusion, LiveRunHoldsSlot, CollectorAlone
  <2>5. QED BY <2>3, <2>4 DEF Inv
<1>6. QED BY <1>4, <1>5

LEMMA CatchFinalizesInv == Inv /\ CatchFinalizes => Inv'
<1> SUFFICES ASSUME Inv, CatchFinalizes PROVE Inv'
  OBVIOUS
<1>1. pc # "none" /\ rt \in Runtime /\ rt.end \in Settled \ {"none"}
      /\ (rt.end = "interrupted") \in BOOLEAN
  BY DEF Inv, TypeOK, CatchFinalizes, RunInv, EndKnown, Runtime
<1>2. QED BY <1>1, FinalizeInv DEF CatchFinalizes

LEMMA TurnCompletedInv ==
    \A status \in {"completed", "failed", "interrupted"} : Inv /\ TurnCompleted(status) => Inv'
<1> SUFFICES ASSUME NEW status \in {"completed", "failed", "interrupted"}, Inv,
                    TurnCompleted(status)
             PROVE  Inv'
  OBVIOUS
<1>1. rt' \in Runtime /\ rt'.finalized = rt.finalized /\ rt'.end = rt.end
  BY DEF Inv, TypeOK, TurnCompleted, Runtime, Settled
<1>2. UNCHANGED <<durable, queue, active, pc, server, boot, collector, todo, turns, budget>>
  BY DEF TurnCompleted
<1>3. TypeOK'
  BY <1>1, <1>2 DEF Inv, TypeOK
<1>4. RunInv'
  BY <1>1, <1>2 DEF Inv, RunInv, RunPublished, NoRunBeforeRecovery, LiveRunRecorded, EndKnown,
     WriterExclusion, LiveRunHoldsSlot, CollectorAlone
<1>5. QED BY <1>3, <1>4 DEF Inv

LEMMA RunResumesInv == Inv /\ RunResumes => Inv'
<1> SUFFICES ASSUME Inv, RunResumes PROVE Inv'
  OBVIOUS
<1> DEFINE end == IF ShuttingDown THEN "interrupted" ELSE rt.settled
           verify == /\ end = "completed" /\ ~rt.finalized /\ ~rt.failed
                     /\ active \in Verified /\ ~Cancelled
<1>1. /\ TypeOK /\ pc = "running" /\ rt.settled # "none" /\ rt \in Runtime
      /\ UNCHANGED <<disk, log, paused, pending, pumpScheduled, active, stops, boot,
                     collector, turns, spent>>
  BY DEF Inv, TypeOK, RunResumes
<1>2. end \in Settled \ {"none"} /\ ShuttingDown \in BOOLEAN
  BY <1>1, ShuttingDownType DEF Runtime, Settled
<1>3. CASE verify
  <2>1. /\ pc' = "verify" /\ rt' = [rt EXCEPT !.end = end]
        /\ UNCHANGED <<mem, slot, faults, client, exiting, todo>>
    BY <1>3 DEF RunResumes
  <2> HIDE DEF end, verify
  <2>2. rt' \in Runtime /\ rt'.finalized = rt.finalized /\ rt'.end # "none"
    BY <1>1, <1>2, <2>1 DEF Runtime
  <2>3. TypeOK'
    BY <1>1, <2>1, <2>2 DEF TypeOK
  <2>4. RunInv'
    BY <1>1, <2>1, <2>2 DEF Inv, RunInv, RunPublished, NoRunBeforeRecovery,
       LiveRunRecorded, EndKnown, WriterExclusion, LiveRunHoldsSlot, CollectorAlone
  <2>5. QED BY <2>3, <2>4 DEF Inv
<1>4. CASE ~verify
  <2>1. /\ RecordTerminal(active, mem[active], TRUE, rt, end, ShuttingDown, <<>>, <<>>)
        /\ EnterFinally
    BY <1>4, Zenon DEF RunResumes
  <2> HIDE DEF end
  <2>2. QED BY <1>1, <1>2, <2>1, FinalizeInv
<1>5. QED BY <1>3, <1>4

LEMMA VerifyEndsInv == \A passed \in BOOLEAN : Inv /\ VerifyEnds(passed) => Inv'
<1> SUFFICES ASSUME NEW passed \in BOOLEAN, Inv, VerifyEnds(passed) PROVE Inv'
  OBVIOUS
<1> DEFINE void == StopRequested \/ rt.timedOut
           after == [rt EXCEPT !.failed = @ \/ (~passed /\ ~void)]
<1>1. /\ pc = "verify" /\ rt.end \in Settled \ {"none"} /\ FALSE \in BOOLEAN
      /\ UNCHANGED <<disk, log, paused, pending, pumpScheduled, active, stops, boot,
                     collector, turns, spent>>
  BY DEF Inv, TypeOK, VerifyEnds, RunInv, EndKnown, Runtime
<1>2. RecordTerminal(active, mem[active], TRUE, after, rt.end, FALSE, <<>>, <<>>) /\ EnterFinally
  BY Zenon DEF VerifyEnds
<1>3. after \in Runtime /\ after.finalized = rt.finalized /\ after.end = rt.end
  <2> HIDE DEF void
  <2>1. QED BY DEF Inv, TypeOK, Runtime
<1> HIDE DEF after
<1>4. QED BY <1>1, <1>2, <1>3, FinalizeInv

LEMMA GeminiEndsInv == \A status \in {"completed", "failed"} : Inv /\ GeminiEnds(status) => Inv'
<1> SUFFICES ASSUME NEW status \in {"completed", "failed"}, Inv, GeminiEnds(status) PROVE Inv'
  OBVIOUS
<1> DEFINE end == IF ShuttingDown THEN "interrupted" ELSE IF Cancelled THEN "cancelled" ELSE status
<1>1. /\ TypeOK /\ pc = "gemini" /\ ShuttingDown \in BOOLEAN /\ end \in Settled \ {"none"}
      /\ UNCHANGED <<disk, log, paused, pending, pumpScheduled, active, stops, boot,
                     collector, turns, spent>>
  BY ShuttingDownType DEF Inv, GeminiEnds, Settled
<1>2. /\ RecordTerminal(active, mem[active], TRUE, Interrupted(ShuttingDown),
                        end, ShuttingDown, <<>>, <<>>)
      /\ EnterFinally
  BY Zenon DEF GeminiEnds
<1> HIDE DEF end
<1>3. QED BY <1>1, <1>2, InterruptedType, FinalizeInv

LEMMA RetireInv == Inv /\ Retire => Inv'
<1> SUFFICES ASSUME Inv, Retire PROVE Inv'
  OBVIOUS
<1>1. TypeOK'
  BY FreshRuntimeType DEF Inv, TypeOK, Retire, SchedulePump
<1>2. RunInv'
  BY HolderKinds DEF Inv, Retire, RunInv, RunPublished, NoRunBeforeRecovery, LiveRunRecorded,
     EndKnown, WriterExclusion, LiveRunHoldsSlot, CollectorAlone
<1>3. QED BY <1>1, <1>2 DEF Inv

LEMMA RunStepInv == Inv /\ RunStep => Inv'
<1> SUFFICES ASSUME Inv, RunStep PROVE Inv'
  OBVIOUS
<1>1. CASE RequestAnswered("spawn", "thread")
  BY <1>1, RequestAnsweredInv
<1>2. CASE RequestAnswered("thread", "turn")
  BY <1>2, RequestAnsweredInv
<1>3. CASE RequestAnswered("turn", "running")
  BY <1>3, RequestAnsweredInv
<1>4. QED BY <1>1, <1>2, <1>3, RequestFailsInv, CatchFinalizesInv, RunResumesInv, VerifyEndsInv,
             GeminiEndsInv, RetireInv DEF RunStep

LEMMA GetInv == \A t \in Tasks : Inv /\ Get(t) => Inv'
<1> SUFFICES ASSUME NEW t \in Tasks, Inv, Get(t) PROVE Inv'
  OBVIOUS
<1> DEFINE r == [mem[t] EXCEPT !.recorded = TRUE]
<1>1. IsTerminal(mem[t]) /\ mem' = [mem EXCEPT ![t] = r] /\ todo' = AuditOps(t, r, TRUE)
  BY DEF Get
<1>2. /\ TypeOK
      /\ UNCHANGED <<durable, pending, pumpScheduled, run, server, boot, collector, turns, budget>>
  BY DEF Inv, Get
<1>3. mem[t] \in Record
  BY <1>1, <1>2 DEF TypeOK, IsTerminal, Terminal, NoRecord
<1>4. r \in Record /\ IsTerminal(r) /\ r.status = mem[t].status
  BY <1>1, <1>3 DEF Record, IsTerminal
<1> HIDE DEF r
<1>5. todo' \in Seq(Op)
  BY <1>1, <1>4, AuditOpsType
<1>6. mem' \in [Tasks -> Record \cup {NoRecord}]
      /\ \A u \in Tasks : mem'[u].status = mem[u].status
  BY <1>1, <1>2, <1>4 DEF TypeOK
<1>7. TypeOK'
  BY <1>2, <1>5, <1>6, SMTT(60) DEF TypeOK
<1>8. RunInv'
  BY <1>2, <1>6, RunUntouched DEF Inv, TypeOK
<1>9. QED BY <1>7, <1>8 DEF Inv

-----------------------------------------------------------------------------
(* Process death and recovery *)

\* Whatever the process was doing, its death forgets the run.
LEMMA DieInv ==
    ASSUME Inv, Die, spent' \in 0 .. MaxEvents
    PROVE  Inv'
<1>1. [t \in Tasks |-> NoRecord] \in [Tasks -> Record \cup {NoRecord}] /\ <<>> \in Seq(Op)
  OBVIOUS
<1>2. TypeOK'
  BY <1>1, FreshRuntimeType DEF Inv, TypeOK, Die
<1>3. RunInv'
  BY DEF Die, RunInv, RunPublished, NoRunBeforeRecovery, LiveRunRecorded, EndKnown,
         WriterExclusion, LiveRunHoldsSlot, CollectorAlone
<1>4. QED BY <1>2, <1>3 DEF Inv

LEMMA CrashInv == Inv /\ Crash => Inv'
<1> SUFFICES ASSUME Inv, Crash PROVE Inv'
  OBVIOUS
<1>1. spent' \in 0 .. MaxEvents
  BY BoundsAssumption, SMT DEF Inv, TypeOK, Crash, Happens
<1>2. QED BY <1>1, DieInv DEF Crash

LEMMA ExitInv == Inv /\ Exit => Inv'
<1> SUFFICES ASSUME Inv, Exit PROVE Inv'
  OBVIOUS
<1>1. spent' \in 0 .. MaxEvents
  BY DEF Inv, TypeOK, Exit
<1>2. QED BY <1>1, DieInv DEF Exit

LEMMA BootInv == Inv /\ Boot => Inv'
<1> SUFFICES ASSUME Inv, Boot PROVE Inv'
  OBVIOUS
<1>1. TypeOK'
  BY DEF Inv, TypeOK, Boot
<1>2. RunInv'
  BY DEF Inv, Boot, RunInv, RunPublished, NoRunBeforeRecovery, LiveRunRecorded, EndKnown,
         WriterExclusion, LiveRunHoldsSlot, CollectorAlone
<1>3. QED BY <1>1, <1>2 DEF Inv

\* While the manager recovers, nothing runs: repairs of records and of the slot
\* cannot disturb a run.
LEMMA RecoveryKeepsRunInv ==
    ASSUME RunInv, life = "recovering", life' \in {"recovering", "up"},
           UNCHANGED <<active, rt, pc, collector>>
    PROVE  RunInv'
  BY DEF RunInv, RunPublished, NoRunBeforeRecovery, LiveRunRecorded, EndKnown,
         WriterExclusion, LiveRunHoldsSlot, CollectorAlone

LEMMA LoadTaskInv == \A t \in Tasks : Inv /\ LoadTask(t) => Inv'
<1> SUFFICES ASSUME NEW t \in Tasks, Inv, LoadTask(t) PROVE Inv'
  OBVIOUS
<1> DEFINE r == mem[t]
           repaired == [status |-> LineOf(t), recorded |-> TRUE,
                        cancel |-> r.cancel \/ LineOf(t) = "cancelled"]
           end == IF r.status = "queued" THEN "cancelled" ELSE "interrupted"
<1>1. /\ TypeOK /\ RunInv /\ life = "recovering" /\ r \in Record \cup {NoRecord}
      /\ unloaded' \in SUBSET Tasks /\ <<>> \in Seq(Op) /\ todo = <<>>
      /\ UNCHANGED <<disk, log, paused, pending, pumpScheduled, active, pc, server, life,
                     collector, turns, spent>>
  BY DEF Inv, TypeOK, LoadTask
<1>2. ASSUME rt' = rt,
             mem' \in [Tasks -> Record \cup {NoRecord}], slot' \in Tasks \cup {Nobody, Native},
             todo' \in Seq(Op), faults' \in 0 .. MaxFaults
      PROVE  Inv'
  <2>1. TypeOK'
    BY <1>1, <1>2 DEF TypeOK
  <2>2. RunInv'
    BY <1>1, <1>2, RecoveryKeepsRunInv
  <2>3. QED BY <2>1, <2>2 DEF Inv
<1>3. CASE IsTerminal(r)
  <2> DEFINE final == [r EXCEPT !.recorded = TRUE]
  <2>1. r \in Record
    BY <1>1, <1>3 DEF IsTerminal, Terminal, NoRecord
  <2>2. final \in Record /\ IsTerminal(final)
    BY <1>3, <2>1 DEF Record, IsTerminal
  <2>3. /\ mem' = [mem EXCEPT ![t] = final]
        /\ todo' = IF r.recorded /\ Audited(t, r.status) THEN <<>> ELSE AuditOps(t, mem'[t], TRUE)
        /\ UNCHANGED <<slot, rt, faults>>
    BY <1>3 DEF LoadTask
  <2> HIDE DEF final
  <2>4. mem' \in [Tasks -> Record \cup {NoRecord}] /\ mem'[t] = final
    BY <1>1, <2>2, <2>3 DEF TypeOK
  <2>5. todo' \in Seq(Op)
    BY <1>1, <2>2, <2>3, <2>4, AuditOpsType
  <2>6. QED BY <1>1, <1>2, <2>3, <2>4, <2>5 DEF TypeOK
<1>4. CASE ~IsTerminal(r) /\ log[t] # <<>>
  <2>1. /\ mem' = [mem EXCEPT ![t] = repaired] /\ todo' = <<Write(t, repaired)>>
        /\ slot' = IF slot = t THEN Nobody ELSE slot
        /\ UNCHANGED <<rt, faults>>
    BY <1>4 DEF LoadTask
  <2>2. repaired \in Record
    <3> HIDE DEF r
    <3>1. LineOf(t) \in Terminal
      <4>1. log[t] \in Seq(Terminal) /\ log[t] # <<>>
        BY <1>1, <1>4 DEF TypeOK
      <4>2. Len(log[t]) \in 1 .. Len(log[t])
        BY <4>1, SMT
      <4>3. QED BY <4>1, <4>2, ElementOfSeq DEF LineOf
    <3>2. (r.cancel \/ LineOf(t) = "cancelled") \in BOOLEAN /\ LineOf(t) \in Status
      BY <3>1 DEF Status
    <3>3. QED BY <3>2 DEF Record
  <2> HIDE DEF repaired
  <2>3. todo' \in Seq(Op)
    BY <2>1, <2>2, OperationTypes, ShortSequences
  <2>4. QED BY <1>1, <1>2, <2>1, <2>2, <2>3 DEF TypeOK
<1>5. CASE ~IsTerminal(r) /\ log[t] = <<>> /\ Replayed(r)
  <2>1. UNCHANGED <<mem, slot, rt, faults, todo>>
    BY <1>5 DEF LoadTask
  <2>2. QED BY <1>1, <1>2, <2>1 DEF TypeOK
<1>6. CASE ~IsTerminal(r) /\ log[t] = <<>> /\ ~Replayed(r)
  <2>1. RecordTerminal(t, r, FALSE, rt, end, TRUE, <<>>, <<>>)
    BY <1>6, Zenon DEF LoadTask
  <2>2. end \in Settled \ {"none"} /\ FALSE \in BOOLEAN /\ TRUE \in BOOLEAN /\ rt \in Runtime
    BY <1>1 DEF Settled, TypeOK
  <2> HIDE DEF end, r
  <2>3. /\ mem' \in [Tasks -> Record \cup {NoRecord}]
        /\ slot' \in Tasks \cup {Nobody, Native}
        /\ todo' \in Seq(Op) /\ faults' \in 0 .. MaxFaults
        /\ rt' = rt
    BY <1>1, <2>1, <2>2, RecordTerminalEffect
  <2>4. QED BY <1>2, <2>3
<1>7. QED BY <1>3, <1>4, <1>5, <1>6

LEMMA FinishBootInv == Inv /\ FinishBoot => Inv'
<1> SUFFICES ASSUME Inv, FinishBoot PROVE Inv'
  OBVIOUS
<1>1. TypeOK'
  BY ReconcileKeepsRun DEF Inv, TypeOK, FinishBoot
<1>2. RunInv'
  BY RecoveryKeepsRunInv DEF Inv, FinishBoot
<1>3. QED BY <1>1, <1>2 DEF Inv

-----------------------------------------------------------------------------
(* The theorems *)

LEMMA InitInv == Init => Inv
<1> SUFFICES ASSUME Init PROVE Inv
  OBVIOUS
<1>1. TypeOK
  <2>1. [t \in Tasks |-> NoRecord] \in [Tasks -> Record \cup {NoRecord}]
    OBVIOUS
  <2>2. [t \in Tasks |-> <<>>] \in [Tasks -> Seq(Terminal)] /\ [t \in Tasks |-> 0] \in [Tasks -> Nat]
    OBVIOUS
  <2>3. 0 \in 0 .. MaxEvents /\ 0 \in 0 .. MaxFaults
    BY BoundsAssumption, SMT
  <2>4. <<>> \in Seq(Op)
    OBVIOUS
  <2>5. QED BY <2>1, <2>2, <2>3, <2>4, FreshRuntimeType DEF Init, TypeOK
<1>2. RunInv
  BY DEF Init, RunInv, RunPublished, NoRunBeforeRecovery, LiveRunRecorded, EndKnown,
         WriterExclusion, LiveRunHoldsSlot, CollectorAlone
<1>3. QED BY <1>1, <1>2 DEF Inv

LEMMA NextInv == Inv /\ [Next]_vars => Inv'
<1> SUFFICES ASSUME Inv, [Next]_vars PROVE Inv'
  OBVIOUS
<1>1. CASE HandlerStep
  BY <1>1, WriteTaskInv, AppendLineInv, ExecuteGeminiInv, PumpNowInv, StopReturnsInv
     DEF HandlerStep
<1>2. CASE RunStep
  BY <1>2, RunStepInv
<1>3. CASE StopStep
  BY <1>3, InterruptAnsweredInv, GraceOverInv, CloseAwaitedInv, CancelResumesInv, ClientExitInv
     DEF StopStep
<1>4. CASE RecoveryStep
  BY <1>4, BootInv, LoadTaskInv, FinishBootInv DEF RecoveryStep
<1>5. CASE Environment
  BY <1>5, SubmitInv, CancelInv, GetInv, SetPausedInv, SetProductPausedInv, TurnCompletedInv, PolicyAbortInv,
     NativeAcquireInv, NativeReleaseInv, BeginCollectInv, CloseInv, CrashInv DEF Environment
<1>6. CASE UNCHANGED vars
  <2>1. UNCHANGED <<disk, log, slot, paused, mem, pending, pumpScheduled, active, rt, pc, client,
                    exiting, stops, life, unloaded, collector, todo, turns, spent, faults>>
    BY <1>6 DEF vars
  <2>2. TypeOK'
    BY <2>1 DEF Inv, TypeOK
  <2>3. RunInv'
    BY <2>1, RunUntouched DEF Inv
  <2>4. QED BY <2>2, <2>3 DEF Inv
<1>7. QED BY <1>1, <1>2, <1>3, <1>4, <1>5, <1>6, PumpMicrotaskInv, TimeoutTaskInv, EndCollectInv,
             ExitInv DEF Next

LEMMA Invariance == Spec => []Inv
  BY InitInv, NextInv, PTL DEF Spec

\* In every reachable state every variable has its type, whatever the number of
\* tasks, the queue size and the disturbances.
THEOREM TypeCorrect == Spec => []TypeOK
<1>1. Inv => TypeOK
  BY DEF Inv
<1>2. QED BY <1>1, Invariance, PTL

\* Writer exclusion for every instance: a run that is not finalized holds the
\* durable slot, so that no native task and no collector writes beside it.
THEOREM WritersExclude == Spec => []WriterExclusion
<1>1. Inv => WriterExclusion
  BY DEF Inv, RunInv
<1>2. QED BY <1>1, Invariance, PTL
=============================================================================
