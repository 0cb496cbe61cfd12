------------------------- MODULE OrchestratorProofs -------------------------
(***************************************************************************)
(* Proofs about Orchestrator for every set of runs, plan length, bound and *)
(* sequence of disturbances.  The inductive invariant OpInv says what a    *)
(* call in progress may rely on: it is alone, and its copy of the run is   *)
(* the durable one up to the task id that it is about to save.             *)
(***************************************************************************)
EXTENDS Orchestrator, SequenceTheorems, WellFoundedInduction, TLAPS

\* A run that is not complete has a step to work on.
GoodRun == {w \in Run : w.state # "COMPLETE" => w.step < Steps}

\* What a call knows at the place where it stands.
GoodOp == {o \in Op :
    /\ o.at # "next" => o.run \in Runs /\ o.work \in GoodRun
    /\ o.at \notin {"next", "advance"} => o.work.step < Steps
    /\ o.at \in {"pump", "bind", "view"} => o.work.task \in Tasks
    /\ o.at \in {"resolve", "submit"} => ~o.work.paused
    /\ o.at = "evidence" =>
         \E i \in DOMAIN o.work.audits :
            o.work.audits[i].task = o.work.task /\ o.work.audits[i].verdict = "none"}

\* The copy o.work against the durable run.
Current(o, durable) ==
    o.at # "next" =>
        /\ durable \in GoodRun
        /\ o.work.audits = durable.audits /\ o.work.paused = durable.paused
        /\ o.work.state = durable.state
        /\ o.work.step = durable.step /\ o.work.attempt = durable.attempt
        /\ o.at \notin {"pump", "bind"} => o.work.task = durable.task

RunsInv == runs \in [Runs -> GoodRun \cup {NoRun}]
CallsInv ==
    /\ op \in [Calls -> GoodOp \cup {NoOp}]
    /\ \A c \in Calls : op[c] # NoOp => op[c].rest \subseteq Persisted
OneCall == \A c, d \in Calls : op[c] # NoOp /\ op[d] # NoOp => c = d
WorkIsCurrent == \A c \in Calls : op[c] # NoOp => Current(op[c], runs[op[c].run])

OpInv == RunsInv /\ CallsInv /\ OneCall /\ WorkIsCurrent

LaneType ==
    /\ disk \in [Tasks -> Status \cup {"absent"}]
    /\ key \in [Tasks -> Key \cup {NoKey}]
    /\ mem \in [Tasks -> Status \cup {"absent"}]
    /\ active \in Tasks \cup {Nobody}
    /\ attached \in BOOLEAN /\ pumpDue \in BOOLEAN

WorldType ==
    /\ productPaused \in BOOLEAN /\ authorized \in BOOLEAN /\ up \in BOOLEAN
    /\ spent \in 0 .. MaxEvents /\ faults \in 0 .. MaxFaults

Inv == OpInv /\ LaneType /\ WorldType

USE DEF world, lane, budget

-----------------------------------------------------------------------------
(* Lemmas on runs and calls *)

LEMMA RunTypes ==
    /\ FreshRun \in GoodRun
    /\ NoRun \notin Run /\ NoRun \notin GoodRun
    /\ Nobody \notin Tasks
<1>1. FreshRun \in Run
  BY BoundsAssumption, SMT DEF FreshRun, Run, RunState, Nobody
<1>2. FreshRun.step < Steps
  BY BoundsAssumption DEF FreshRun
<1>3. NoRun \notin Run
  BY SMT DEF NoRun, Run, RunState
<1> QED
  BY <1>1, <1>2, <1>3, SMT DEF GoodRun, Tasks, Nobody

\* Fields of a run.
LEMMA RunFields ==
    ASSUME NEW w \in Run
    PROVE  /\ w.state \in RunState /\ w.paused \in BOOLEAN
           /\ w.step \in 0 .. Steps /\ w.attempt \in 1 .. MaxAttempts
           /\ w.task \in Tasks \cup {Nobody} /\ w.audits \in Seq(Audit)
  BY DEF Run

\* Changing one field of a run.
LEMMA RunUpdates ==
    ASSUME NEW w \in Run
    PROVE  /\ \A s \in RunState : [w EXCEPT !.state = s] \in Run
           /\ \A p \in BOOLEAN : [w EXCEPT !.paused = p] \in Run
           /\ \A t \in Tasks \cup {Nobody} : [w EXCEPT !.task = t] \in Run
           /\ \A a \in Seq(Audit) : [w EXCEPT !.audits = a] \in Run
  BY DEF Run

\* A verdict or a claim leaves the type and the other audits of a run alone.
LEMMA AuditUpdates ==
    ASSUME NEW w \in Run, NEW i \in DOMAIN w.audits
    PROVE  /\ \A v \in Verdict :
                /\ [w EXCEPT !.audits[i].verdict = v] \in Run
                /\ DOMAIN [w EXCEPT !.audits[i].verdict = v].audits = DOMAIN w.audits
                /\ \A j \in DOMAIN w.audits : j # i =>
                     [w EXCEPT !.audits[i].verdict = v].audits[j] = w.audits[j]
           /\ [w EXCEPT !.audits[i].claimed = TRUE] \in Run
           /\ DOMAIN [w EXCEPT !.audits[i].claimed = TRUE].audits = DOMAIN w.audits
           /\ \A j \in DOMAIN w.audits : j # i =>
                [w EXCEPT !.audits[i].claimed = TRUE].audits[j] = w.audits[j]
<1>1. w.audits \in Seq(Audit) /\ w.audits[i] \in Audit
  BY RunFields
<1>2. ASSUME NEW a \in Audit
      PROVE  /\ [w.audits EXCEPT ![i] = a] \in Seq(Audit)
             /\ DOMAIN [w.audits EXCEPT ![i] = a] = DOMAIN w.audits
  BY <1>1
<1>3. \A v \in Verdict : [w.audits[i] EXCEPT !.verdict = v] \in Audit
  BY <1>1 DEF Audit
<1>4. [w.audits[i] EXCEPT !.claimed = TRUE] \in Audit
  BY <1>1 DEF Audit
<1>5. ASSUME NEW a \in Audit
      PROVE  [w EXCEPT !.audits = [w.audits EXCEPT ![i] = a]] \in Run
  BY <1>2, RunUpdates
<1>6. "audits" \in DOMAIN w
  BY DEF Run
<1> QED
  BY <1>1, <1>2, <1>3, <1>4, <1>5, <1>6

\* A verdict on a step in progress leads to a good run with the same audits.
LEMMA AfterVerdict ==
    ASSUME NEW w \in Run, w.step < Steps, NEW v \in Verdict,
           v = "REWORK" => w.attempt < MaxAttempts
    PROVE  /\ After(w, v) \in GoodRun
           /\ After(w, v).audits = w.audits
<1>1. CASE v = "BLOCKED"
  <2>1. After(w, v) = [w EXCEPT !.state = "BLOCKED"]
    BY <1>1 DEF After
  <2>2. [w EXCEPT !.state = "BLOCKED"] \in Run
    BY RunUpdates DEF RunState
  <2> QED
    BY <2>1, <2>2 DEF GoodRun, Run
<1>2. CASE v = "REWORK"
  <2>1. After(w, v) = [w EXCEPT !.attempt = w.attempt + 1, !.task = Nobody, !.state = "IDLE"]
    BY <1>2 DEF After
  <2>2. w.attempt + 1 \in 1 .. MaxAttempts
    BY <1>2, RunFields, BoundsAssumption
  <2> QED
    BY <2>1, <2>2 DEF GoodRun, Run, RunState
<1>3. CASE v = "PASS"
  <2>1. After(w, v) =
          [w EXCEPT !.step = w.step + 1, !.attempt = 1, !.task = Nobody,
                    !.state = IF w.step + 1 = Steps THEN "COMPLETE" ELSE "IDLE"]
    BY <1>3 DEF After
  <2>2. /\ w.step + 1 \in 0 .. Steps /\ 1 \in 1 .. MaxAttempts
        /\ w.step + 1 # Steps => w.step + 1 < Steps
    BY RunFields, BoundsAssumption
  <2> QED
    BY <2>1, <2>2 DEF GoodRun, Run, RunState
<1> QED
  BY <1>1, <1>2, <1>3 DEF Verdict

LEMMA OpFields ==
    ASSUME NEW o \in Op
    PROVE  /\ o.at \in Sync \cup Await /\ o.seen \in Status \cup {"absent"}
           /\ o.rest \in SUBSET Runs /\ o.run \in Runs \cup {Nobody}
           /\ o # NoOp
  BY SMT DEF Op, NoOp, Sync, Await

LEMMA NoOpIsIdle == NoOp.at = "idle" /\ NoOp.at \notin Sync
  BY SMT DEF NoOp, Sync

\* Returning from a call is a good step of it.
LEMMA DoneGood ==
    ASSUME NEW o \in GoodOp
    PROVE  /\ Done(o) \in GoodOp \cup {NoOp}
           /\ Done(o) # NoOp => Done(o).at = "next" /\ Done(o).rest = o.rest
<1>1. o \in Op
  BY DEF GoodOp
<1>2. [o EXCEPT !.at = "next"] \in Op
  BY <1>1, SMT DEF Op, Sync
<1>3. /\ [o EXCEPT !.at = "next"].at = "next"
      /\ [o EXCEPT !.at = "next"].rest = o.rest
  BY <1>1, SMT DEF Op
<1> QED
  BY <1>2, <1>3 DEF GoodOp, Done

\* Entering advance() with a good run.
LEMMA AdvanceGood ==
    ASSUME NEW r \in Runs, NEW w \in GoodRun, NEW rest \in SUBSET Runs
    PROVE  /\ Call("advance", r, w, rest) \in GoodOp
           /\ Call("advance", r, w, rest).rest = rest
           /\ Call("advance", r, w, rest).run = r
           /\ Current(Call("advance", r, w, rest), w)
<1>1. w \in Run
  BY DEF GoodRun
<1>2. Call("advance", r, w, rest) \in Op
  BY <1>1, SMT DEF Call, Op, Sync
<1> QED
  BY <1>2 DEF Call, GoodOp, Current

\* When one call moves while no other is in progress and the durable runs stay
\* good, the invariant on calls is kept.
LEMMA CallStep ==
    ASSUME OpInv, NEW c \in Calls, NEW o \in GoodOp \cup {NoOp},
           op[c] # NoOp \/ ~Busy,
           Becomes(c, o), RunsInv',
           Persisted \subseteq Persisted',
           o # NoOp => o.rest \subseteq Persisted',
           o # NoOp => Current(o, runs'[o.run])
    PROVE  OpInv'
<1>1. op' \in [Calls -> GoodOp \cup {NoOp}] /\ op'[c] = o
  BY DEF OpInv, CallsInv, Becomes
<1>2. \A d \in Calls : d # c => op'[d] = NoOp
  BY DEF OpInv, CallsInv, OneCall, Busy, Becomes
<1>3. CallsInv'
  BY <1>1, <1>2 DEF CallsInv
<1>4. OneCall'
  BY <1>2 DEF OneCall
<1>5. WorkIsCurrent'
  BY <1>1, <1>2 DEF WorkIsCurrent
<1> QED
  BY <1>3, <1>4, <1>5 DEF OpInv

\* Saving a good run keeps the runs good and persisted.
LEMMA SaveStep ==
    ASSUME RunsInv, NEW r \in Runs, NEW w \in GoodRun, Save(r, w)
    PROVE  /\ RunsInv' /\ Persisted \subseteq Persisted'
           /\ runs'[r] = w /\ r \in Persisted'
           /\ \A q \in Runs : q # r => runs'[q] = runs[q]
  BY RunTypes DEF RunsInv, Save, Persisted

LEMMA SameRuns ==
    ASSUME RunsInv, UNCHANGED runs
    PROVE  RunsInv' /\ Persisted' = Persisted
  BY DEF RunsInv, Persisted

\* What is known of a call in progress.
LEMMA InCall ==
    ASSUME OpInv, NEW c \in Calls, op[c].at \in Sync \cup Await
    PROVE  /\ op[c] # NoOp /\ op[c] \in GoodOp /\ op[c] \in Op
           /\ op[c].rest \subseteq Persisted
           /\ op[c].at # "next" =>
                /\ op[c].run \in Runs /\ op[c].work \in GoodRun /\ op[c].work \in Run
                /\ Current(op[c], runs[op[c].run])
           /\ op[c].at \notin {"next", "advance"} => op[c].work.step < Steps
<1>1. op[c] # NoOp
  BY SMT DEF NoOp, Sync, Await
<1>2. op[c] \in GoodOp /\ op[c].rest \subseteq Persisted
  BY <1>1 DEF OpInv, CallsInv
<1>3. Current(op[c], runs[op[c].run])
  BY <1>1 DEF OpInv, WorkIsCurrent
<1> QED
  BY <1>1, <1>2, <1>3 DEF GoodOp, GoodRun

\* A call returns, or a recover() goes to its next file.
LEMMA ReturnStep ==
    ASSUME OpInv, NEW c \in Calls, op[c].at \in Sync \cup Await,
           Becomes(c, Done(op[c])), RunsInv', Persisted \subseteq Persisted'
    PROVE  OpInv'
<1>1. op[c] # NoOp /\ op[c] \in GoodOp /\ op[c].rest \subseteq Persisted
  BY InCall
<1>2. /\ Done(op[c]) \in GoodOp \cup {NoOp}
      /\ Done(op[c]) # NoOp => Done(op[c]).at = "next" /\ Done(op[c]).rest = op[c].rest
  BY <1>1, DoneGood
<1>3. Done(op[c]) # NoOp => Current(Done(op[c]), runs'[Done(op[c]).run])
  BY <1>2 DEF Current
<1> QED
  BY <1>1, <1>2, <1>3, CallStep

\* A call saves its run in another state and returns.
LEMMA SaveAndReturn ==
    ASSUME OpInv, NEW c \in Calls, op[c].at \in Sync \cup Await,
           NEW r \in Runs, NEW w \in GoodRun, Save(r, w), Becomes(c, Done(op[c]))
    PROVE  OpInv'
<1>1. RunsInv' /\ Persisted \subseteq Persisted'
  BY SaveStep DEF OpInv
<1> QED
  BY <1>1, ReturnStep

\* A call saves a run and enters advance() with it.
LEMMA SaveAndAdvance ==
    ASSUME OpInv, NEW c \in Calls, op[c] # NoOp \/ ~Busy,
           NEW r \in Runs, NEW w \in GoodRun, Save(r, w),
           Becomes(c, Call("advance", r, w, {}))
    PROVE  OpInv'
<1>1. RunsInv' /\ Persisted \subseteq Persisted' /\ runs'[r] = w
  BY SaveStep DEF OpInv
<1>2. /\ Call("advance", r, w, {}) \in GoodOp
      /\ Call("advance", r, w, {}).rest = {}
      /\ Call("advance", r, w, {}).run = r
      /\ Current(Call("advance", r, w, {}), w)
  BY AdvanceGood
<1>3. Current(Call("advance", r, w, {}), runs'[Call("advance", r, w, {}).run])
  BY <1>1, <1>2
<1>4. Call("advance", r, w, {}).rest \subseteq Persisted'
  BY <1>2
<1> QED
  BY <1>1, <1>2, <1>3, <1>4, CallStep

\* Failing or blocking a step in progress.
LEMMA EndGood ==
    ASSUME NEW w \in GoodRun, w.step < Steps, NEW s \in RunState \ {"COMPLETE"}
    PROVE  [w EXCEPT !.state = s] \in GoodRun
<1>1. [w EXCEPT !.state = s] \in Run
  BY RunUpdates DEF GoodRun
<1> QED
  BY <1>1 DEF GoodRun, Run

-----------------------------------------------------------------------------
(* One lemma per action that touches a run or a call *)

LEMMA CreateInv ==
    ASSUME OpInv, NEW c \in Calls, NEW r \in Runs, Create(c, r) PROVE OpInv'
  BY RunTypes, SaveAndAdvance DEF Create

LEMMA SetPausedInv ==
    ASSUME OpInv, NEW c \in Calls, NEW r \in Runs, NEW p \in BOOLEAN, SetPaused(c, r, p)
    PROVE  OpInv'
<1> DEFINE w == [runs[r] EXCEPT !.paused = p]
<1>1. ~Busy /\ Save(r, w) /\ Becomes(c, Call("advance", r, w, {}))
  BY DEF SetPaused
<1>2. runs[r] \in GoodRun
  BY DEF SetPaused, OpInv, RunsInv
<1>3. w \in Run
  BY <1>2, RunUpdates DEF GoodRun
<1>4. w \in GoodRun
  BY <1>2, <1>3 DEF GoodRun, Run
<1> HIDE DEF w
<1> QED
  BY <1>1, <1>4, SaveAndAdvance

LEMMA ClaimInv ==
    ASSUME OpInv, NEW r \in Runs, NEW i \in DOMAIN runs[r].audits, Claim(r, i)
    PROVE  OpInv'
<1> DEFINE w == [runs[r] EXCEPT !.audits[i].claimed = TRUE]
<1>1. ~Busy /\ Save(r, w) /\ UNCHANGED op
  BY DEF Claim
<1>2. runs[r] \in GoodRun
  BY SMT DEF Claim, OpInv, RunsInv, NoRun
<1>3. w \in Run
  BY <1>2, AuditUpdates DEF GoodRun
<1>4. w \in GoodRun
  BY <1>2, <1>3 DEF GoodRun, Run
<1> HIDE DEF w
<1>5. RunsInv'
  BY <1>1, <1>4, SaveStep DEF OpInv
<1>6. \A c \in Calls : op'[c] = NoOp
  BY <1>1 DEF Busy
<1> QED
  BY <1>1, <1>5, <1>6 DEF OpInv, CallsInv, OneCall, WorkIsCurrent

\* A verdict is saved with the next intent, and the call advances the run.
LEMMA DecideInv ==
    ASSUME OpInv, NEW c \in Calls, op[c] # NoOp \/ ~Busy, NEW r \in Runs,
           NEW w \in GoodRun, w.step < Steps, NEW i \in DOMAIN w.audits,
           NEW v \in Verdict, v = "REWORK" => w.attempt < MaxAttempts,
           Decide(c, r, w, i, v)
    PROVE  OpInv'
<1> DEFINE u == [w EXCEPT !.audits[i].verdict = v]
<1>1. u \in Run /\ u.step = w.step /\ u.attempt = w.attempt
  BY AuditUpdates DEF GoodRun, Run
<1>2. Save(r, After(u, v)) /\ Becomes(c, Call("advance", r, After(u, v), {}))
  BY DEF Decide
<1> HIDE DEF u
<1>3. After(u, v) \in GoodRun
  BY <1>1, AfterVerdict
<1> QED
  BY <1>2, <1>3, SaveAndAdvance

LEMMA SubmitAuditInv ==
    ASSUME OpInv, NEW c \in Calls, NEW r \in Runs, NEW v \in Verdict,
           NEW i \in DOMAIN runs[r].audits, SubmitAudit(c, r, i, v), LaneType
    PROVE  OpInv'
<1> DEFINE w == runs[r]
<1>1. /\ ~Busy /\ w.state = "WAITING_AUDIT" /\ w.audits[i].task = w.task
      /\ w.audits[i].verdict = "none" /\ (v = "REWORK" => w.attempt < MaxAttempts)
  BY DEF SubmitAudit
<1>2. w \in GoodRun /\ w \in Run
  BY <1>1, SMT DEF OpInv, RunsInv, NoRun, GoodRun
<1>3. w.step < Steps
  BY <1>1, <1>2 DEF GoodRun
<1>4. CASE Decide(c, r, w, i, v)
  <2> HIDE DEF w
  <2> QED
    BY <1>1, <1>2, <1>3, <1>4, DecideInv DEF w
<1>5. CASE /\ Becomes(c, [Call("evidence", r, w, {}) EXCEPT !.seen = mem[w.task]])
           /\ UNCHANGED runs
  <2> DEFINE o == [Call("evidence", r, w, {}) EXCEPT !.seen = mem[w.task]]
  <2>0. w.audits \in Seq(Audit)
    BY <1>2, RunFields
  <2>1. w.task \in Tasks
    <3>1. w.audits[i] \in Audit
      BY <2>0
    <3> QED
      BY <1>1, <3>1 DEF Audit
  <2>2. mem[w.task] \in Status \cup {"absent"}
    BY <2>1 DEF LaneType
  <2>3. o = [at |-> "evidence", run |-> r, work |-> w, seen |-> mem[w.task], rest |-> {}]
    BY DEF Call
  <2> HIDE DEF w
  <2>4. o \in Op
    BY <1>2, <2>2, <2>3, SMT DEF Op, Await
  <2>5. o \in GoodOp
    BY <1>1, <1>2, <1>3, <2>3, <2>4 DEF w, GoodOp
  <2>6. Current(o, w)
    BY <1>2, <2>3 DEF Current
  <2>7. Current(o, runs'[o.run]) /\ o.rest \subseteq Persisted'
    BY <1>5, <2>3, <2>6 DEF w
  <2>8. RunsInv' /\ Persisted' = Persisted
    BY <1>5, SameRuns DEF OpInv
  <2> HIDE DEF o
  <2> QED
    BY <1>1, <1>5, <2>5, <2>7, <2>8, CallStep DEF o
<1> QED
  BY <1>4, <1>5 DEF SubmitAudit

LEMMA EvidenceInv ==
    ASSUME OpInv, NEW c \in Calls, Evidence(c) PROVE OpInv'
<1> DEFINE o == op[c]
           i == CurrentAudit(o.work)
<1>1. o.at = "evidence"
  BY DEF Evidence
<1>2. o.at \in Sync \cup Await
  BY <1>1 DEF Await
<1>3. /\ o # NoOp /\ o \in GoodOp /\ o.run \in Runs /\ o.work \in GoodRun
      /\ o.work.step < Steps
  BY <1>1, <1>2, InCall
<1>4. i \in DOMAIN o.work.audits
  BY <1>1, <1>3 DEF GoodOp, CurrentAudit
<1>5. CASE Decide(c, o.run, o.work, i, "PASS")
  <2> HIDE DEF o, i
  <2> QED
    BY <1>3, <1>4, <1>5, DecideInv DEF o, Verdict
<1>6. CASE Becomes(c, Done(o)) /\ UNCHANGED runs
  BY <1>2, <1>6, ReturnStep, SameRuns DEF OpInv
<1> QED
  BY <1>5, <1>6 DEF Evidence

LEMMA RecoverInv ==
    ASSUME OpInv, NEW c \in Calls, Recover(c) PROVE OpInv'
<1> DEFINE o == Call("next", Nobody, NoRun, Persisted)
<1>1. ~Busy /\ Becomes(c, o) /\ UNCHANGED runs
  BY DEF Recover
<1>2. o = [at |-> "next", run |-> Nobody, work |-> NoRun, seen |-> "absent",
           rest |-> Persisted]
  BY DEF Call
<1>3. o \in Op
  BY <1>2, SMT DEF Op, Sync, Persisted
<1>4. o \in GoodOp /\ Current(o, runs'[o.run]) /\ o.rest = Persisted
  BY <1>2, <1>3 DEF GoodOp, Current
<1> HIDE DEF o
<1> QED
  BY <1>1, <1>4, CallStep, SameRuns DEF OpInv

LEMMA RecoverNextInv ==
    ASSUME OpInv, NEW c \in Calls, NEW r \in Runs, RecoverNext(c, r) PROVE OpInv'
<1> DEFINE o == Call("advance", r, runs[r], op[c].rest \ {r})
<1>1. op[c].at = "next" /\ r \in op[c].rest /\ Becomes(c, o) /\ UNCHANGED runs
  BY DEF RecoverNext
<1>2. op[c] # NoOp /\ op[c].rest \subseteq Persisted
  BY <1>1, InCall DEF Sync
<1>3. runs[r] \in GoodRun
  BY <1>1, <1>2 DEF Persisted, OpInv, RunsInv
<1>4. op[c].rest \ {r} \in SUBSET Runs
  BY <1>2 DEF Persisted
<1>5. /\ o \in GoodOp /\ o.rest = op[c].rest \ {r} /\ o.run = r
      /\ Current(o, runs[r])
  BY <1>3, <1>4, AdvanceGood
<1>6. RunsInv' /\ Persisted' = Persisted
  BY <1>1, SameRuns DEF OpInv
<1> HIDE DEF o
<1> QED
  BY <1>1, <1>2, <1>5, <1>6, CallStep

LEMMA AdvanceInv ==
    ASSUME OpInv, LaneType, NEW c \in Calls, Advance(c) PROVE OpInv'
<1> DEFINE o == op[c]
           w == o.work
<1>1. o.at = "advance"
  BY DEF Advance
<1>2. o.at \in Sync \cup Await
  BY <1>1 DEF Sync
<1>3. /\ o # NoOp /\ o \in GoodOp /\ o \in Op /\ o.rest \subseteq Persisted
      /\ o.run \in Runs /\ w \in GoodRun /\ w \in Run
      /\ Current(o, runs[o.run])
  BY <1>1, <1>2, InCall
<1>4. ASSUME UNCHANGED runs PROVE RunsInv' /\ Persisted' = Persisted
  BY <1>4, SameRuns DEF OpInv
<1>5. CASE Becomes(c, Done(o)) /\ UNCHANGED runs
  BY <1>2, <1>4, <1>5, ReturnStep
<1>6. ~NothingDue(w) => w.step < Steps
  BY <1>3 DEF NothingDue, Closed, GoodRun
<1>7. CASE /\ ~NothingDue(w) /\ Save(o.run, [w EXCEPT !.state = "BLOCKED"])
           /\ Becomes(c, Done(o))
  <2>1. [w EXCEPT !.state = "BLOCKED"] \in GoodRun
    BY <1>3, <1>6, <1>7, EndGood DEF RunState
  <2> QED
    BY <1>2, <1>3, <1>7, <2>1, SaveAndReturn
<1>8. ASSUME NEW at \in {"submit", "resolve"}, ~NothingDue(w), MayDispatch(w),
             Becomes(c, [o EXCEPT !.at = at]), UNCHANGED runs
      PROVE  OpInv'
  <2> DEFINE p == [o EXCEPT !.at = at]
  <2>1. p \in Op /\ p.at = at /\ p.work = w /\ p.run = o.run /\ p.rest = o.rest
    BY <1>3, SMT DEF Op, Sync, Await
  <2>2. p \in GoodOp
    BY <1>3, <1>6, <1>8, <2>1 DEF GoodOp, MayDispatch
  <2>3. Current(p, runs'[p.run]) /\ p.rest \subseteq Persisted'
    BY <1>1, <1>3, <1>4, <1>8, <2>1 DEF Current
  <2> HIDE DEF p, w
  <2> QED
    BY <1>3, <1>4, <1>8, <2>2, <2>3, CallStep DEF p
<1>9. CASE /\ ~NothingDue(w) /\ w.task # Nobody /\ UNCHANGED runs
           /\ Becomes(c, [o EXCEPT !.at = "view", !.seen = mem[w.task]])
  <2> DEFINE p == [o EXCEPT !.at = "view", !.seen = mem[w.task]]
  <2>1. w.task \in Tasks
    BY <1>3, <1>9, RunFields
  <2>2. mem[w.task] \in Status \cup {"absent"}
    BY <2>1 DEF LaneType
  <2>3. p \in Op /\ p.at = "view" /\ p.work = w /\ p.run = o.run /\ p.rest = o.rest
    <3>1. "view" \in Sync \cup Await
      BY DEF Await
    <3>2. p \in Op
      BY <1>3, <2>2, <3>1 DEF Op
    <3>a. p.at = "view"
      BY <1>3 DEF Op
    <3>b. p.work = w
      BY <1>3 DEF Op
    <3>c. p.run = o.run
      BY <1>3 DEF Op
    <3>d. p.rest = o.rest
      BY <1>3 DEF Op
    <3> QED
      BY <3>2, <3>a, <3>b, <3>c, <3>d
  <2>4. p \in GoodOp
    BY <1>3, <1>6, <1>9, <2>1, <2>3 DEF GoodOp
  <2>5. Current(p, runs'[p.run]) /\ p.rest \subseteq Persisted'
    BY <1>1, <1>3, <1>4, <1>9, <2>3 DEF Current
  <2> HIDE DEF p, w
  <2> QED
    BY <1>3, <1>4, <1>9, <2>4, <2>5, CallStep DEF p, w
<1> QED
  BY <1>5, <1>7, <1>8, <1>9 DEF Advance

LEMMA ResolvedInv ==
    ASSUME OpInv, NEW c \in Calls, Resolved(c) PROVE OpInv'
<1> DEFINE o == op[c]
           w == [o.work EXCEPT !.state = "DISPATCHED"]
           p == [o EXCEPT !.work = w, !.at = "submit"]
<1>1. o.at = "resolve" /\ Save(o.run, w) /\ Becomes(c, p)
  BY DEF Resolved
<1>2. /\ o # NoOp /\ o \in GoodOp /\ o \in Op /\ o.rest \subseteq Persisted
      /\ o.run \in Runs /\ o.work \in GoodRun /\ o.work \in Run
      /\ o.work.step < Steps
  BY <1>1, InCall DEF Await
<1>3. ~o.work.paused
  BY <1>1, <1>2 DEF GoodOp
<1>4. w \in GoodRun
  BY <1>2, EndGood DEF RunState
<1>5. w \in Run /\ w.step < Steps /\ ~w.paused
  BY <1>2, <1>3, <1>4 DEF GoodRun, Run
<1>6. p \in Op /\ p.at = "submit" /\ p.work = w /\ p.run = o.run /\ p.rest = o.rest
  <2> HIDE DEF w
  <2>1. "submit" \in Sync \cup Await
    BY DEF Sync
  <2>2. p \in Op
    BY <1>2, <1>5, <2>1 DEF Op
  <2>a. p.at = "submit"
    BY <1>2 DEF Op
  <2>b. p.work = w
    BY <1>2 DEF Op
  <2>c. p.run = o.run
    BY <1>2 DEF Op
  <2>d. p.rest = o.rest
    BY <1>2 DEF Op
  <2> QED
    BY <2>2, <2>a, <2>b, <2>c, <2>d
<1> HIDE DEF w
<1>7. p \in GoodOp
  BY <1>2, <1>4, <1>5, <1>6 DEF GoodOp
<1>8. RunsInv' /\ Persisted \subseteq Persisted' /\ runs'[o.run] = w
  BY <1>1, <1>2, <1>4, SaveStep DEF OpInv
<1>9. Current(p, runs'[p.run]) /\ p.rest \subseteq Persisted'
  BY <1>2, <1>4, <1>6, <1>8 DEF Current
<1> HIDE DEF p
<1> QED
  BY <1>1, <1>2, <1>7, <1>8, <1>9, CallStep

LEMMA FailInv ==
    ASSUME OpInv, NEW c \in Calls, op[c].at \in {"resolve", "submit"}, Fail(c)
    PROVE  OpInv'
<1>1. op[c].at \in Sync \cup Await
  BY DEF Sync, Await
<1>2. op[c].run \in Runs /\ op[c].work \in GoodRun /\ op[c].work.step < Steps
  BY <1>1, InCall
<1>3. [op[c].work EXCEPT !.state = "FAIL"] \in GoodRun
  BY <1>2, EndGood DEF RunState
<1> QED
  BY <1>1, <1>2, <1>3, SaveAndReturn DEF Fail

\* The call goes on with the id of its task, not saved yet.
LEMMA TaskIdInv ==
    ASSUME OpInv, NEW c \in Calls, op[c].at = "submit", NEW t \in Tasks,
           NEW at \in {"bind", "pump"}, UNCHANGED runs,
           Becomes(c, [op[c] EXCEPT !.work.task = t, !.at = at])
    PROVE  OpInv'
<1> DEFINE o == op[c]
           w == [o.work EXCEPT !.task = t]
           p == [o EXCEPT !.work.task = t, !.at = at]
<1>1. /\ o # NoOp /\ o \in GoodOp /\ o \in Op /\ o.rest \subseteq Persisted
      /\ o.run \in Runs /\ o.work \in GoodRun /\ o.work \in Run
      /\ o.work.step < Steps /\ Current(o, runs[o.run])
  BY InCall DEF Sync
<1>2. w \in Run
  BY <1>1, RunUpdates
<1>3. w \in GoodRun /\ w.step < Steps /\ w.task = t
  BY <1>1, <1>2 DEF GoodRun, Run
<1>4. /\ w.audits = o.work.audits /\ w.paused = o.work.paused
      /\ w.state = o.work.state /\ w.step = o.work.step /\ w.attempt = o.work.attempt
  BY <1>1 DEF Run
<1>5. p = [o EXCEPT !.work = w, !.at = at]
  BY <1>1, SMT DEF Op
<1>6. p \in Op /\ p.at = at /\ p.work = w /\ p.run = o.run /\ p.rest = o.rest
  <2>1. at \in Sync \cup Await
    BY DEF Sync, Await
  <2> HIDE DEF w, p
  <2>2. p \in Op
    BY <1>1, <1>2, <1>5, <2>1 DEF Op
  <2>a. p.at = at
    BY <1>1, <1>5 DEF Op
  <2>b. p.work = w
    BY <1>1, <1>5 DEF Op
  <2>c. p.run = o.run
    BY <1>1, <1>5 DEF Op
  <2>d. p.rest = o.rest
    BY <1>1, <1>5 DEF Op
  <2> QED
    BY <2>2, <2>a, <2>b, <2>c, <2>d
<1> HIDE DEF w
<1>7. p \in GoodOp
  BY <1>1, <1>2, <1>3, <1>6 DEF GoodOp
<1>8. RunsInv' /\ Persisted' = Persisted
  BY SameRuns DEF OpInv
<1>9. Current(p, runs'[p.run]) /\ p.rest \subseteq Persisted'
  BY <1>1, <1>4, <1>6, <1>8 DEF Current
<1> HIDE DEF p
<1> QED
  BY <1>1, <1>7, <1>8, <1>9, CallStep DEF p

LEMMA SubmitPumpInv ==
    ASSUME OpInv, NEW c \in Calls, SubmitPump(c) PROVE OpInv'
<1> DEFINE o == op[c]
           p == [o EXCEPT !.at = "bind"]
<1>1. o.at = "pump" /\ Becomes(c, p) /\ UNCHANGED runs
  BY DEF SubmitPump
<1>2. /\ o # NoOp /\ o \in GoodOp /\ o \in Op /\ o.rest \subseteq Persisted
      /\ o.run \in Runs /\ o.work \in GoodRun
      /\ o.work.step < Steps /\ Current(o, runs[o.run])
  BY <1>1, InCall DEF Sync
<1>3. p \in Op /\ p.at = "bind" /\ p.work = o.work /\ p.run = o.run /\ p.rest = o.rest
  BY <1>2, SMT DEF Op, Await
<1>4. p \in GoodOp
  BY <1>1, <1>2, <1>3 DEF GoodOp
<1>5. RunsInv' /\ Persisted' = Persisted
  BY <1>1, SameRuns DEF OpInv
<1>6. Current(p, runs'[p.run]) /\ p.rest \subseteq Persisted'
  BY <1>1, <1>2, <1>3, <1>5 DEF Current
<1> HIDE DEF p
<1> QED
  BY <1>1, <1>2, <1>4, <1>5, <1>6, CallStep

LEMMA RetryInv ==
    ASSUME OpInv, NEW c \in Calls, Retry(c) PROVE OpInv'
<1>1. op[c].at \in Sync \cup Await
  BY DEF Retry, Sync, Await
<1> QED
  BY <1>1, ReturnStep, SameRuns DEF Retry, OpInv

LEMMA BindInv ==
    ASSUME OpInv, LaneType, NEW c \in Calls, Bind(c) PROVE OpInv'
<1> DEFINE o == op[c]
           w == o.work
           p == [o EXCEPT !.at = "view", !.seen = mem[w.task]]
<1>1. o.at = "bind" /\ Becomes(c, p) /\ Save(o.run, w)
  BY DEF Bind
<1>2. /\ o # NoOp /\ o \in GoodOp /\ o \in Op /\ o.rest \subseteq Persisted
      /\ o.run \in Runs /\ w \in GoodRun /\ w.step < Steps
  BY <1>1, InCall DEF Await
<1>3. w.task \in Tasks
  BY <1>1, <1>2 DEF GoodOp
<1>4. mem[w.task] \in Status \cup {"absent"} /\ "view" \in Sync \cup Await
  BY <1>3 DEF LaneType, Await
<1>5. p \in Op
  BY <1>2, <1>4 DEF Op
<1>6. p.at = "view"
  BY <1>2 DEF Op
<1>7. p.work = w
  BY <1>2 DEF Op
<1>8. p.run = o.run /\ p.rest = o.rest
  BY <1>2 DEF Op
<1>9. p \in GoodOp
  BY <1>2, <1>3, <1>5, <1>6, <1>7, <1>8 DEF GoodOp
<1>10. RunsInv' /\ Persisted \subseteq Persisted' /\ runs'[o.run] = w
  BY <1>1, <1>2, SaveStep DEF OpInv
<1>11. Current(p, runs'[p.run]) /\ p.rest \subseteq Persisted'
  BY <1>2, <1>6, <1>7, <1>8, <1>10 DEF Current
<1> HIDE DEF p
<1> QED
  BY <1>1, <1>2, <1>9, <1>10, <1>11, CallStep

LEMMA WithAuditGood ==
    ASSUME NEW w \in GoodRun, w.step < Steps, w.task \in Tasks, NEW s
    PROVE  /\ WithAudit(w, s) \in GoodRun
           /\ \A i \in DOMAIN w.audits :
                i \in DOMAIN WithAudit(w, s).audits /\ WithAudit(w, s).audits[i] = w.audits[i]
<1> DEFINE a == [step |-> w.step, attempt |-> w.attempt, task |-> w.task,
                 blocked |-> Blocked(s), claimed |-> FALSE, verdict |-> "none"]
<1>1. w \in Run
  BY DEF GoodRun
<1>2. w.step \in 0 .. Steps - 1
  BY <1>1, RunFields, BoundsAssumption
<1>3. a \in Audit
  BY <1>1, <1>2, RunFields DEF Audit, Blocked
<1> HIDE DEF a
<1>4. PICK q \in {w.audits, Append(w.audits, a)} :
        WithAudit(w, s) = [w EXCEPT !.state = "WAITING_AUDIT", !.audits = q]
  BY DEF WithAudit, a
<1>5. w.audits \in Seq(Audit)
  BY <1>1, RunFields
<1>6. q \in Seq(Audit) /\ \A i \in DOMAIN w.audits : i \in DOMAIN q /\ q[i] = w.audits[i]
  BY <1>3, <1>4, <1>5, SMTT(60)
<1>7. [w EXCEPT !.state = "WAITING_AUDIT", !.audits = q] \in Run
  BY <1>1, <1>6 DEF Run, RunState
<1>8. [w EXCEPT !.state = "WAITING_AUDIT", !.audits = q].step = w.step
  BY <1>1 DEF Run
<1>9. [w EXCEPT !.state = "WAITING_AUDIT", !.audits = q].audits = q
  BY <1>1 DEF Run
<1> QED
  BY <1>4, <1>6, <1>7, <1>8, <1>9 DEF GoodRun

LEMMA ObserveInv ==
    ASSUME OpInv, NEW c \in Calls, Observe(c) PROVE OpInv'
<1> DEFINE o == op[c]
           w == o.work
<1>1. o.at = "view" /\ Becomes(c, Done(o))
  BY DEF Observe
<1>2. o.at \in Sync \cup Await
  BY <1>1 DEF Await
<1>3. o \in GoodOp /\ o.run \in Runs /\ w \in GoodRun /\ w.step < Steps
  BY <1>1, <1>2, InCall
<1>4. w.task \in Tasks
  BY <1>1, <1>3 DEF GoodOp
<1>5. CASE Save(o.run, WithAudit(w, o.seen))
  <2>1. WithAudit(w, o.seen) \in GoodRun
    BY <1>3, <1>4, WithAuditGood
  <2> QED
    BY <1>1, <1>2, <1>3, <1>5, <2>1, SaveAndReturn
<1>6. CASE Save(o.run, [w EXCEPT !.state = "RUNNING"])
  <2>1. [w EXCEPT !.state = "RUNNING"] \in GoodRun
    BY <1>3, EndGood DEF RunState
  <2> QED
    BY <1>1, <1>2, <1>3, <1>6, <2>1, SaveAndReturn
<1>7. CASE UNCHANGED runs
  BY <1>1, <1>2, <1>7, ReturnStep, SameRuns DEF OpInv
<1> QED
  BY <1>5, <1>6, <1>7 DEF Observe

LEMMA CrashInv ==
    ASSUME OpInv, Crash PROVE OpInv'
<1>1. RunsInv'
  BY SameRuns DEF Crash, OpInv
<1>2. \A c \in Calls : op'[c] = NoOp
  BY DEF Crash
<1>3. op' \in [Calls -> GoodOp \cup {NoOp}]
  BY DEF Crash
<1> QED
  BY <1>1, <1>2, <1>3 DEF OpInv, CallsInv, OneCall, WorkIsCurrent

LEMMA UnchangedOpInv ==
    ASSUME OpInv, UNCHANGED <<runs, op>> PROVE OpInv'
  BY DEF OpInv, RunsInv, CallsInv, OneCall, WorkIsCurrent, Persisted

\* Every step of a call in progress keeps the invariant on runs and calls.
LEMMA ProceedInv ==
    ASSUME OpInv, LaneType, NEW c \in Calls, Proceed(c) PROVE OpInv'
<1>1. CASE \E r \in Runs : RecoverNext(c, r)
  BY <1>1, RecoverNextInv
<1>2. CASE Advance(c)
  BY <1>2, AdvanceInv
<1>3. CASE Resolved(c)
  BY <1>3, ResolvedInv
<1>4. CASE Unresolvable(c)
  BY <1>4, FailInv DEF Unresolvable
<1>5. CASE SubmitAgain(c)
  <2>1. PICK t \in Tasks : Becomes(c, [op[c] EXCEPT !.work.task = t, !.at = "bind"])
    BY <1>5 DEF SubmitAgain, Admitted
  <2> QED
    BY <1>5, <2>1, TaskIdInv DEF SubmitAgain
<1>6. CASE SubmitNew(c)
  <2>1. PICK t \in Tasks : Becomes(c, [op[c] EXCEPT !.work.task = t, !.at = "pump"])
    BY <1>6 DEF SubmitNew
  <2> QED
    BY <1>6, <2>1, TaskIdInv DEF SubmitNew
<1>7. CASE SubmitPump(c)
  BY <1>7, SubmitPumpInv
<1>8. CASE SubmitRejected(c)
  BY <1>8, FailInv DEF SubmitRejected
<1>9. CASE Retry(c)
  BY <1>9, RetryInv
<1>10. CASE Bind(c)
  BY <1>10, BindInv
<1>11. CASE Observe(c)
  BY <1>11, ObserveInv
<1>12. CASE Evidence(c)
  BY <1>12, EvidenceInv
<1> QED
  BY <1>1, <1>2, <1>3, <1>4, <1>5, <1>6, <1>7, <1>8, <1>9, <1>10, <1>11, <1>12
     DEF Proceed

-----------------------------------------------------------------------------
(* The types of the task manager and of the rest *)

LEMMA StatusValues ==
    /\ \A x \in {"queued", "running", "cancelling", "failed", "cancelled",
                 "interrupted", "completed"} : x \in Status \cup {"absent"}
    /\ Terminal \subseteq Status
  BY DEF Status, Terminal

\* The oldest of the queued tasks is one of them.
LEMMA QueueHead ==
    ASSUME Queued # {}
    PROVE  NextQueued \in Tasks /\ mem[NextQueued] = "queued"
<1>1. Queued \subseteq Nat
  BY BoundsAssumption, SMT DEF Queued, Tasks
<1>2. PICK t \in Queued : \A u \in Queued : ~ (<<u, t>> \in OpToRel(<, Nat))
  BY <1>1, NatLessThanWellFounded, WFMin
<1>3. ASSUME NEW u \in Queued PROVE t <= u
  <2>1. ~(u < t)
    BY <1>1, <1>2, <1>3 DEF OpToRel
  <2>2. u \in Nat /\ t \in Nat
    BY <1>1, <1>2, <1>3
  <2> QED
    BY <2>1, <2>2, SMT
<1>4. NextQueued \in Queued
  BY <1>2, <1>3, Zenon DEF NextQueued
<1> QED
  BY <1>4 DEF Queued

LEMMA SetStatusType ==
    ASSUME LaneType, NEW t \in Tasks, NEW s \in Status, SetStatus(t, s),
           pumpDue' \in BOOLEAN, UNCHANGED key
    PROVE  LaneType'
  BY DEF LaneType, SetStatus

LEMMA PumpNowType ==
    ASSUME LaneType, NEW due \in BOOLEAN, PumpNow(due) PROVE LaneType'
<1>1. CASE CanStart /\ authorized /\ Begin(NextQueued) /\ pumpDue' = due
  <2>1. NextQueued \in Tasks
    BY <1>1, QueueHead DEF CanStart
  <2>2. UNCHANGED key
    BY DEF PumpNow
  <2> QED
    BY <1>1, <2>1, <2>2, StatusValues DEF LaneType, Begin
<1>2. CASE CanStart /\ SetStatus(NextQueued, "failed") /\ pumpDue' = TRUE
  <2>1. NextQueued \in Tasks /\ "failed" \in Status
    BY <1>2, QueueHead DEF CanStart, Status, Terminal
  <2>2. UNCHANGED key
    BY DEF PumpNow
  <2> QED
    BY <1>2, <2>1, <2>2, SetStatusType
<1>3. CASE pumpDue' = due /\ UNCHANGED <<mem, disk, active, attached>>
  BY <1>3 DEF LaneType, PumpNow
<1> QED
  BY <1>1, <1>2, <1>3 DEF PumpNow

LEMMA FinishType ==
    ASSUME LaneType, Finish PROVE LaneType'
<1>1. PICK s \in Terminal :
        /\ disk' = [disk EXCEPT ![active] = s]
        /\ mem' = [mem EXCEPT ![active] = s] \/ mem' = mem
  BY DEF Finish
<1>2. /\ active' = Nobody /\ attached' = TRUE /\ pumpDue' = TRUE /\ UNCHANGED key
      /\ active \in Tasks
  BY DEF Finish, LaneType
<1>3. s \in Status
  BY StatusValues
<1> QED
  BY <1>1, <1>2, <1>3 DEF LaneType

LEMMA CancelType ==
    ASSUME LaneType, NEW t \in Tasks, Cancel(t) PROVE LaneType'
<1>1. "cancelled" \in Status /\ "cancelling" \in Status
  BY DEF Status, Terminal
<1>2. PICK s \in {"cancelled", "cancelling"} : SetStatus(t, s)
  BY DEF Cancel
<1>3. pumpDue' \in BOOLEAN /\ UNCHANGED key
  BY DEF Cancel, LaneType
<1> QED
  BY <1>1, <1>2, <1>3, SetStatusType

LEMMA BootType ==
    ASSUME LaneType, Boot PROVE LaneType'
<1>1. \A s \in Status \cup {"absent"} : Repaired(s) \in Status \cup {"absent"}
  BY DEF Repaired, Status, Terminal
<1>2. disk' \in [Tasks -> Status \cup {"absent"}] /\ mem' = disk'
  BY <1>1 DEF Boot, LaneType
<1> QED
  BY <1>2 DEF Boot, LaneType

\* The key of an admission is a key.
LEMMA AdmissionKey ==
    ASSUME OpInv, NEW c \in Calls, op[c].at = "submit"
    PROVE  KeyOf(op[c].run, op[c].work) \in Key
<1>1. op[c].run \in Runs /\ op[c].work \in Run /\ op[c].work.step < Steps
  BY InCall DEF Sync
<1>2. op[c].work.step \in 0 .. Steps - 1
  BY <1>1, RunFields, BoundsAssumption
<1>3. op[c].work.attempt \in 1 .. MaxAttempts
  BY <1>1, RunFields
<1> QED
  BY <1>1, <1>2, <1>3 DEF Key, KeyOf

LEMMA ProceedLaneType ==
    ASSUME OpInv, LaneType, NEW c \in Calls, Proceed(c) PROVE LaneType'
<1>1. CASE SubmitAgain(c)
  <2>1. PICK t \in Tasks : mem' = [mem EXCEPT ![t] = disk[t]]
    BY <1>1 DEF SubmitAgain, Admitted
  <2>2. attached' \in BOOLEAN /\ UNCHANGED <<disk, key, active, pumpDue>>
    BY <1>1 DEF SubmitAgain, LaneType
  <2> QED
    BY <2>1, <2>2 DEF LaneType
<1>2. CASE SubmitNew(c)
  <2>1. KeyOf(op[c].run, op[c].work) \in Key
    BY <1>2, AdmissionKey DEF SubmitNew
  <2>2. PICK t \in Tasks :
          /\ disk' = [disk EXCEPT ![t] = "queued"]
          /\ mem' = [mem EXCEPT ![t] = "queued"]
          /\ key' = [key EXCEPT ![t] = KeyOf(op[c].run, op[c].work)]
    BY <1>2 DEF SubmitNew
  <2>3. UNCHANGED <<active, attached, pumpDue>>
    BY <1>2 DEF SubmitNew
  <2> QED
    BY <2>1, <2>2, <2>3, StatusValues DEF LaneType
<1>3. CASE SubmitPump(c)
  <2>1. CASE PumpNow(pumpDue)
    BY <2>1, PumpNowType DEF LaneType
  <2>2. CASE SetStatus(op[c].work.task, "failed") /\ pumpDue' = TRUE /\ UNCHANGED key
    <3>1. op[c] \in GoodOp /\ op[c].at = "pump"
      BY <1>3, InCall DEF SubmitPump, Sync
    <3>2. op[c].work.task \in Tasks /\ "failed" \in Status
      BY <3>1 DEF GoodOp, Status, Terminal
    <3> QED
      BY <2>2, <3>2, SetStatusType
  <2> QED
    BY <1>3, <2>1, <2>2 DEF SubmitPump
<1>4. ASSUME UNCHANGED lane PROVE LaneType'
  BY <1>4 DEF LaneType
<1> QED
  BY <1>1, <1>2, <1>3, <1>4
     DEF Proceed, RecoverNext, Advance, Resolved, Unresolvable, SubmitRejected,
         Retry, Bind, Observe, Evidence

\* A step that uses at most one event and one fault keeps these types.
LEMMA WorldUse ==
    ASSUME WorldType,
           spent' = spent \/ \E k \in {"crash", "pause", "product", "revoke", "cancel"} : Happens(k),
           faults' = faults \/ Fault,
           productPaused' \in BOOLEAN, authorized' \in BOOLEAN, up' \in BOOLEAN
    PROVE  WorldType'
<1>1. spent' \in 0 .. MaxEvents
  BY BoundsAssumption DEF WorldType, Happens
<1>2. faults' \in 0 .. MaxFaults
  BY BoundsAssumption DEF WorldType, Fault
<1> QED
  BY <1>1, <1>2 DEF WorldType

LEMMA WorldStep ==
    ASSUME WorldType, [Next]_vars PROVE WorldType'
<1> USE DEF WorldType
<1>1. CASE UNCHANGED <<world, up, budget>>
  BY <1>1
<1>2. CASE \E c \in Calls, r \in Runs, p \in BOOLEAN : SetPaused(c, r, p)
  BY <1>2, WorldUse DEF SetPaused
<1>3. CASE \E c \in Calls : SubmitRejected(c) \/ Retry(c)
  BY <1>3, WorldUse DEF SubmitRejected, Retry
<1>4. CASE \E t \in Tasks : Cancel(t)
  BY <1>4, WorldUse DEF Cancel
<1>5. CASE Crash \/ Boot
  BY <1>5, WorldUse DEF Crash, Boot
<1>6. CASE \E b \in BOOLEAN : SetProductPaused(b) \/ SetAuthorized(b)
  BY <1>6, WorldUse DEF SetProductPaused, SetAuthorized
<1>7. ASSUME NEW c \in Calls, Proceed(c), ~SubmitRejected(c), ~Retry(c)
      PROVE  UNCHANGED <<world, up, budget>>
  BY <1>7, Zenon
     DEF Proceed, RecoverNext, Advance, Resolved, Unresolvable, SubmitAgain,
         SubmitNew, SubmitPump, Bind, Observe, Evidence
<1>8. ASSUME NEW c \in Calls,
             \/ Recover(c)
             \/ \E r \in Runs : Create(c, r)
             \/ \E r \in Runs, v \in Verdict :
                  \E i \in DOMAIN runs[r].audits : SubmitAudit(c, r, i, v)
      PROVE  UNCHANGED <<world, up, budget>>
  BY <1>8, Zenon DEF Recover, Create, SubmitAudit
<1>9. ASSUME \/ \E r \in Runs : \E i \in DOMAIN runs[r].audits : Claim(r, i)
             \/ Pump \/ Finish \/ UNCHANGED vars
      PROVE  UNCHANGED <<world, up, budget>>
  BY <1>9, Zenon DEF Claim, Pump, Finish, vars
<1> QED
  BY <1>1, <1>2, <1>3, <1>4, <1>5, <1>6, <1>7, <1>8, <1>9, Zenon DEF Next

-----------------------------------------------------------------------------
(* The invariant *)

LEMMA InitInv == Init => Inv
<1> SUFFICES ASSUME Init PROVE Inv
  OBVIOUS
<1>1. OpInv
  BY DEF Init, OpInv, RunsInv, CallsInv, OneCall, WorkIsCurrent
<1>2. LaneType
  BY DEF Init, LaneType
<1>3. WorldType
  <2>1. 0 \in 0 .. MaxEvents /\ 0 \in 0 .. MaxFaults
    BY BoundsAssumption
  <2> QED
    BY <2>1 DEF Init, WorldType
<1> QED
  BY <1>1, <1>2, <1>3 DEF Inv

LEMMA NextInv ==
    ASSUME Inv, [Next]_vars PROVE Inv'
<1> USE DEF Inv
<1>1. WorldType'
  BY WorldStep
<1>2. ASSUME UNCHANGED lane PROVE LaneType'
  BY <1>2 DEF LaneType
<1>3. CASE \E c \in Calls, r \in Runs : Create(c, r)
  BY <1>1, <1>2, <1>3, CreateInv DEF Create
<1>4. CASE \E c \in Calls, r \in Runs, p \in BOOLEAN : SetPaused(c, r, p)
  BY <1>1, <1>2, <1>4, SetPausedInv DEF SetPaused
<1>5. CASE \E r \in Runs : \E i \in DOMAIN runs[r].audits : Claim(r, i)
  BY <1>1, <1>2, <1>5, ClaimInv DEF Claim
<1>6. CASE \E c \in Calls, r \in Runs, v \in Verdict :
             \E i \in DOMAIN runs[r].audits : SubmitAudit(c, r, i, v)
  BY <1>1, <1>2, <1>6, SubmitAuditInv DEF SubmitAudit
<1>7. CASE \E c \in Calls : Recover(c)
  BY <1>1, <1>2, <1>7, RecoverInv DEF Recover
<1>8. CASE \E c \in Calls : Proceed(c)
  BY <1>1, <1>8, ProceedInv, ProceedLaneType
<1>9. CASE Pump
  BY <1>1, <1>9, PumpNowType, UnchangedOpInv DEF Pump
<1>10. CASE Finish
  BY <1>1, <1>10, FinishType, UnchangedOpInv DEF Finish
<1>11. CASE \E t \in Tasks : Cancel(t)
  BY <1>1, <1>11, CancelType, UnchangedOpInv DEF Cancel
<1>12. CASE Crash
  <2>1. LaneType'
    BY <1>12, StatusValues DEF Crash, LaneType
  <2> QED
    BY <1>1, <1>12, <2>1, CrashInv
<1>13. CASE Boot
  BY <1>1, <1>13, BootType, UnchangedOpInv DEF Boot
<1>14. CASE \E b \in BOOLEAN : SetProductPaused(b) \/ SetAuthorized(b)
  BY <1>1, <1>2, <1>14, UnchangedOpInv DEF SetProductPaused, SetAuthorized
<1>15. CASE UNCHANGED vars
  BY <1>1, <1>2, <1>15, UnchangedOpInv DEF vars
<1> QED
  BY <1>3, <1>4, <1>5, <1>6, <1>7, <1>8, <1>9, <1>10, <1>11, <1>12, <1>13, <1>14,
     <1>15 DEF Next

LEMMA Invariance == Spec => []Inv
  BY InitInv, NextInv, PTL DEF Spec

\* Type correctness, for every instance.
THEOREM TypeCorrect == Spec => []TypeOK
<1>1. Inv => TypeOK
  BY DEF Inv, OpInv, RunsInv, CallsInv, LaneType, WorldType, TypeOK, GoodRun, GoodOp
<1> QED
  BY <1>1, Invariance, PTL

-----------------------------------------------------------------------------
(* Admissions *)

LEMMA OnlySubmitNewKeys ==
    ASSUME [Next]_vars PROVE UNCHANGED key \/ \E c \in Calls : SubmitNew(c)
<1>1. ASSUME NEW c \in Calls, Proceed(c), ~SubmitNew(c) PROVE UNCHANGED key
  BY <1>1, Zenon
     DEF Proceed, RecoverNext, Advance, Resolved, Unresolvable, SubmitAgain,
         SubmitPump, SubmitRejected, Retry, Bind, Observe, Evidence, PumpNow
<1>2. ASSUME NEW c \in Calls,
             \/ Recover(c)
             \/ \E r \in Runs : Create(c, r)
             \/ \E r \in Runs, p \in BOOLEAN : SetPaused(c, r, p)
             \/ \E r \in Runs, v \in Verdict :
                  \E i \in DOMAIN runs[r].audits : SubmitAudit(c, r, i, v)
      PROVE  UNCHANGED key
  BY <1>2, Zenon DEF Recover, Create, SetPaused, SubmitAudit
<1>3. ASSUME \/ \E r \in Runs : \E i \in DOMAIN runs[r].audits : Claim(r, i)
             \/ Pump \/ Finish \/ Crash \/ Boot \/ UNCHANGED vars
             \/ \E t \in Tasks : Cancel(t)
             \/ \E b \in BOOLEAN : SetProductPaused(b) \/ SetAuthorized(b)
      PROVE  UNCHANGED key
  BY <1>3, Zenon DEF Claim, Pump, PumpNow, Finish, Crash, Boot, Cancel, vars,
                     SetProductPaused, SetAuthorized
<1> QED
  BY <1>1, <1>2, <1>3, Zenon DEF Next

LEMMA AdmissionStep ==
    ASSUME Inv, AtMostOneTask, [Next]_vars PROVE AtMostOneTask'
<1>1. CASE UNCHANGED key
  BY <1>1 DEF AtMostOneTask
<1>2. ASSUME NEW c \in Calls, SubmitNew(c) PROVE AtMostOneTask'
  <2> DEFINE k == KeyOf(op[c].run, op[c].work)
  <2>1. Admitted(k) = {}
    BY <1>2 DEF SubmitNew
  <2>2. PICK t \in Tasks : key' = [key EXCEPT ![t] = k]
    BY <1>2 DEF SubmitNew
  <2> HIDE DEF k
  <2>3. key \in [Tasks -> Key \cup {NoKey}]
    BY DEF Inv, LaneType
  <2> QED
    BY <2>1, <2>2, <2>3 DEF AtMostOneTask, Admitted
<1> QED
  BY <1>1, <1>2, OnlySubmitNewKeys

\* An attempt of a step admits one task, for every instance: only an admission
\* whose key is not on disk yet creates a record.
THEOREM OneTaskPerAttempt == Spec => []AtMostOneTask
<1>1. Init => AtMostOneTask
  BY DEF Init, AtMostOneTask
<1> QED
  BY <1>1, AdmissionStep, Invariance, PTL DEF Spec

-----------------------------------------------------------------------------
(* Verdicts *)

\* The run w holds every verdict that the durable run r holds.
Keeps(r, w) ==
    \A i \in DOMAIN runs[r].audits : runs[r].audits[i].verdict # "none" =>
        i \in DOMAIN w.audits /\ w.audits[i] = runs[r].audits[i]

VerdictsKept == \A r \in Runs : Keeps(r, runs'[r])

LEMMA KeepBySave ==
    ASSUME RunsInv, NEW r \in Runs, NEW w, Keeps(r, w), Save(r, w)
    PROVE  VerdictsKept
  BY DEF RunsInv, Save, Keeps, VerdictsKept

LEMMA KeepByCopy ==
    ASSUME RunsInv, NEW r \in Runs, NEW w, w.audits = runs[r].audits, Save(r, w)
    PROVE  VerdictsKept
  BY DEF RunsInv, Save, Keeps, VerdictsKept

\* Changing the state of a run leaves its audits alone.
LEMMA StateKeepsAudits ==
    ASSUME NEW w \in Run, NEW s PROVE [w EXCEPT !.state = s].audits = w.audits
  BY DEF Run

\* The decision on an undecided audit keeps the other verdicts.
LEMMA KeepByDecide ==
    ASSUME OpInv, NEW c \in Calls, NEW r \in Runs,
           NEW w \in GoodRun, w.step < Steps, w.audits = runs[r].audits,
           NEW i \in DOMAIN w.audits, w.audits[i].verdict = "none",
           NEW v \in Verdict, v = "REWORK" => w.attempt < MaxAttempts,
           Decide(c, r, w, i, v)
    PROVE  VerdictsKept
<1> DEFINE u == [w EXCEPT !.audits[i].verdict = v]
<1>1. /\ u \in Run /\ DOMAIN u.audits = DOMAIN w.audits
      /\ \A j \in DOMAIN w.audits : j # i => u.audits[j] = w.audits[j]
  BY AuditUpdates, ZenonT(60) DEF GoodRun
<1>2. u.step = w.step /\ u.attempt = w.attempt
  BY DEF GoodRun, Run
<1>3. Save(r, After(u, v))
  BY DEF Decide
<1> HIDE DEF u
<1>4. After(u, v).audits = u.audits
  BY <1>1, <1>2, AfterVerdict
<1>5. Keeps(r, After(u, v))
  BY <1>1, <1>4 DEF Keeps
<1> QED
  BY <1>3, <1>5, KeepBySave DEF OpInv

LEMMA KeepByCall ==
    ASSUME OpInv, NEW c \in Calls, Proceed(c) PROVE VerdictsKept \/ UNCHANGED runs
<1> DEFINE o == op[c]
           w == o.work
<1>1. ASSUME o.at \in Sync \cup Await, o.at # "next"
      PROVE  /\ o.run \in Runs /\ w \in GoodRun /\ w \in Run
             /\ w.audits = runs[o.run].audits
             /\ o \in GoodOp
             /\ o.at # "advance" => w.step < Steps
  BY <1>1, InCall DEF Current
<1>2. ASSUME o.at \in Sync \cup Await, o.at # "next", NEW s,
             Save(o.run, [w EXCEPT !.state = s])
      PROVE  VerdictsKept
  BY <1>1, <1>2, StateKeepsAudits, KeepByCopy DEF OpInv
<1>3. CASE \E r \in Runs : RecoverNext(c, r)
  BY <1>3 DEF RecoverNext
<1>4. CASE Advance(c)
  BY <1>2, <1>4 DEF Advance, Sync
<1>5. CASE Resolved(c)
  BY <1>2, <1>5 DEF Resolved, Await
<1>6. CASE Unresolvable(c) \/ SubmitRejected(c)
  BY <1>2, <1>6 DEF Unresolvable, SubmitRejected, Fail, Await, Sync
<1>7. CASE SubmitAgain(c) \/ SubmitNew(c) \/ SubmitPump(c) \/ Retry(c)
  BY <1>7 DEF SubmitAgain, SubmitNew, SubmitPump, Retry
<1>8. CASE Bind(c)
  BY <1>1, <1>8, KeepByCopy DEF Bind, Await, OpInv
<1>9. CASE Observe(c)
  <2>1. o.at = "view" /\ o.at \in Sync \cup Await
    BY <1>9 DEF Observe, Await
  <2>2. w.task \in Tasks
    BY <1>1, <2>1 DEF GoodOp
  <2>3. CASE Save(o.run, WithAudit(w, o.seen))
    <3>1. \A i \in DOMAIN w.audits :
            /\ i \in DOMAIN WithAudit(w, o.seen).audits
            /\ WithAudit(w, o.seen).audits[i] = w.audits[i]
      BY <1>1, <2>1, <2>2, WithAuditGood
    <3>2. Keeps(o.run, WithAudit(w, o.seen))
      BY <1>1, <2>1, <3>1 DEF Keeps
    <3> QED
      BY <1>1, <2>1, <2>3, <3>2, KeepBySave DEF OpInv
  <2>4. CASE Save(o.run, [w EXCEPT !.state = "RUNNING"])
    BY <1>2, <2>1, <2>4
  <2> QED
    BY <1>9, <2>3, <2>4 DEF Observe
<1>10. CASE Evidence(c)
  <2> DEFINE i == CurrentAudit(w)
  <2>1. o.at = "evidence" /\ o.at \in Sync \cup Await
    BY <1>10 DEF Evidence, Await
  <2>2. i \in DOMAIN w.audits /\ w.audits[i].verdict = "none"
    BY <1>1, <2>1 DEF GoodOp, CurrentAudit
  <2>3. CASE Decide(c, o.run, w, i, "PASS")
    <3> HIDE DEF i, w
    <3> QED
      BY <1>1, <2>1, <2>2, <2>3, KeepByDecide DEF Verdict
  <2> QED
    BY <1>10, <2>3 DEF Evidence
<1> QED
  BY <1>3, <1>4, <1>5, <1>6, <1>7, <1>8, <1>9, <1>10 DEF Proceed

LEMMA KeepByNext ==
    ASSUME Inv, [Next]_vars PROVE VerdictsKept \/ UNCHANGED runs
<1> USE DEF Inv
<1>1. ASSUME NEW c \in Calls, NEW r \in Runs, Create(c, r) PROVE VerdictsKept
  <2>1. runs[r].audits = <<>> /\ FreshRun.audits = <<>>
    BY <1>1 DEF Create, NoRun, FreshRun
  <2> QED
    BY <1>1, <2>1, KeepByCopy DEF Create, OpInv
<1>2. ASSUME NEW c \in Calls, NEW r \in Runs, NEW p \in BOOLEAN, SetPaused(c, r, p)
      PROVE  VerdictsKept
  <2>1. runs[r] \in Run
    BY <1>2 DEF SetPaused, OpInv, RunsInv, GoodRun
  <2>2. [runs[r] EXCEPT !.paused = p].audits = runs[r].audits
    BY <2>1 DEF Run
  <2>3. Save(r, [runs[r] EXCEPT !.paused = p])
    BY <1>2 DEF SetPaused
  <2> QED
    BY <2>2, <2>3, KeepByCopy DEF OpInv
<1>3. ASSUME NEW r \in Runs, NEW i \in DOMAIN runs[r].audits, Claim(r, i)
      PROVE  VerdictsKept
  <2> DEFINE w == [runs[r] EXCEPT !.audits[i].claimed = TRUE]
  <2>1. runs[r] \in Run
    BY <1>3, SMT DEF Claim, OpInv, RunsInv, GoodRun, NoRun
  <2>2. /\ DOMAIN w.audits = DOMAIN runs[r].audits
        /\ \A j \in DOMAIN runs[r].audits : j # i => w.audits[j] = runs[r].audits[j]
    BY <2>1, AuditUpdates
  <2>3. runs[r].audits[i].verdict = "none" /\ Save(r, w)
    BY <1>3 DEF Claim
  <2> HIDE DEF w
  <2>4. Keeps(r, w)
    BY <2>2, <2>3 DEF Keeps
  <2> QED
    BY <2>3, <2>4, KeepBySave DEF OpInv
<1>4. ASSUME NEW c \in Calls, NEW r \in Runs, NEW v \in Verdict,
             NEW i \in DOMAIN runs[r].audits, SubmitAudit(c, r, i, v)
      PROVE  VerdictsKept \/ UNCHANGED runs
  <2>1. /\ runs[r].state = "WAITING_AUDIT" /\ runs[r].audits[i].verdict = "none"
        /\ (v = "REWORK" => runs[r].attempt < MaxAttempts)
    BY <1>4 DEF SubmitAudit
  <2>2. runs[r] \in GoodRun
    BY <2>1, SMT DEF OpInv, RunsInv, NoRun
  <2>3. runs[r].step < Steps
    BY <2>1, <2>2 DEF GoodRun
  <2>4. CASE Decide(c, r, runs[r], i, v)
    BY <2>1, <2>2, <2>3, <2>4, KeepByDecide
  <2> QED
    BY <1>4, <2>4 DEF SubmitAudit
<1>5. ASSUME NEW c \in Calls, Recover(c) PROVE UNCHANGED runs
  BY <1>5 DEF Recover
<1>6. ASSUME NEW c \in Calls, Proceed(c) PROVE VerdictsKept \/ UNCHANGED runs
  BY <1>6, KeepByCall
<1>7. ASSUME \/ Pump \/ Finish \/ Crash \/ Boot \/ UNCHANGED vars
             \/ \E t \in Tasks : Cancel(t)
             \/ \E b \in BOOLEAN : SetProductPaused(b) \/ SetAuthorized(b)
      PROVE  UNCHANGED runs
  BY <1>7, Zenon DEF Pump, Finish, Crash, Boot, Cancel, vars,
                     SetProductPaused, SetAuthorized
<1> QED
  BY <1>1, <1>2, <1>3, <1>4, <1>5, <1>6, <1>7, Zenon DEF Next

\* No call replaces or loses an audit decision, for every instance: calls
\* exclude each other over their awaits, so that each works on the current run.
THEOREM VerdictsAreFinal == Spec => VerdictIsFinal
<1> DEFINE A == \A r \in Runs : \A i \in DOMAIN runs[r].audits :
                 runs[r].audits[i].verdict # "none" =>
                    i \in DOMAIN runs'[r].audits /\ runs'[r].audits[i] = runs[r].audits[i]
<1>1. Inv /\ [Next]_vars => A
  <2> SUFFICES ASSUME Inv, [Next]_vars PROVE A
    OBVIOUS
  <2>1. CASE VerdictsKept
    BY <2>1 DEF VerdictsKept, Keeps
  <2>2. CASE UNCHANGED runs
    BY <2>2
  <2> QED
    BY <2>1, <2>2, KeepByNext
<1>2. Inv /\ [Next]_vars => [A]_vars
  BY <1>1
<1> QED
  BY <1>2, Invariance, PTL DEF Spec, VerdictIsFinal

-----------------------------------------------------------------------------
(***************************************************************************)
(* Proofs about Orchestrator that relate the runs to the task records: a   *)
(* run has at most one task alive, a step is left only on durable evidence *)
(* and a pause stops admissions.  RecordInv says what the records in       *)
(* memory tell about those on disk.  A task is "sealed" when it has ended  *)
(* on disk and memory holds nothing older: the plan rests on such tasks,   *)
(* because a task that only ended on disk can be overwritten.              *)
(***************************************************************************)

USE DEF world, lane, budget

\* The records in memory against those on disk.
MemTruth ==
    \A t \in Tasks :
        /\ mem[t] \in Terminal => disk[t] = mem[t]
        /\ mem[t] = "queued" => disk[t] = "queued"
        /\ mem[t] # "absent" => disk[t] # "absent"

ActiveLive ==
    active # Nobody =>
        disk[active] \in {"running", "cancelling"} /\ mem[active] \in {"running", "cancelling"}

\* A call that has admitted a task and not pumped yet finds it queued.
PumpTask == \A c \in Calls : op[c].at = "pump" => mem[op[c].work.task] = "queued"

\* Every record of the lane is an admission of a run.
RecordsKeyed == \A t \in Tasks : disk[t] # "absent" <=> key[t] # NoKey

\* Between a crash and the next start nothing is in progress.
DownIdle == ~up => active = Nobody /\ \A c \in Calls : op[c] = NoOp

RecordInv == MemTruth /\ ActiveLive /\ PumpTask /\ RecordsKeyed /\ DownIdle

Sealed(d, m, t) == d[t] \in Terminal /\ m[t] \in {d[t], "absent"}

\* What holds of every step but an admission.
Calm ==
    /\ \A t \in Tasks : Sealed(disk, mem, t) => disk'[t] = disk[t] /\ Sealed(disk', mem', t)
    /\ \A t \in Tasks : Live(disk'[t]) => Live(disk[t])
    /\ \A t \in Tasks : disk[t] = "absent" <=> disk'[t] = "absent"
    /\ key' = key

\* The part of RecordInv that does not speak of calls.
Records == MemTruth /\ ActiveLive /\ RecordsKeyed

-----------------------------------------------------------------------------
(* The task records *)

LEMMA KeyNotNone == NoKey \notin Key
  BY BoundsAssumption DEF NoKey, Key

LEMMA SameRecords ==
    ASSUME Records, UNCHANGED <<disk, key, mem, active>>
    PROVE  Records' /\ Calm
  BY DEF Records, MemTruth, ActiveLive, RecordsKeyed, Calm, Sealed

\* A queued task starts, or ends without having started.
LEMMA QueuedMoves ==
    ASSUME LaneType, Records, NEW t \in Tasks, mem[t] = "queued",
           NEW s \in {"running", "failed", "cancelled"},
           mem' = [mem EXCEPT ![t] = s], disk' = [disk EXCEPT ![t] = s],
           \/ s = "running" /\ active = Nobody /\ active' = t
           \/ s # "running" /\ active' = active,
           UNCHANGED key
    PROVE  Records' /\ Calm
<1>1. disk[t] = "queued" /\ t # active
  BY SMT DEF Records, MemTruth, ActiveLive, Terminal, Nobody, Tasks
<1>2. MemTruth'
  BY SMT DEF Records, MemTruth, LaneType, Terminal
<1>3. ActiveLive'
  BY <1>1, SMT DEF Records, ActiveLive, LaneType
<1>4. RecordsKeyed'
  BY <1>1, SMT DEF Records, RecordsKeyed, LaneType
<1>5. Calm
  BY <1>1, SMT DEF Calm, Sealed, LaneType, Terminal, Live, Status
<1> QED
  BY <1>2, <1>3, <1>4, <1>5 DEF Records

LEMMA PumpNowRecords ==
    ASSUME LaneType, Records, NEW due, PumpNow(due) PROVE Records' /\ Calm
<1>1. CASE CanStart /\ Begin(NextQueued)
  BY <1>1, QueueHead, QueuedMoves DEF CanStart, Begin, PumpNow
<1>2. CASE CanStart /\ SetStatus(NextQueued, "failed")
  BY <1>2, QueueHead, QueuedMoves DEF CanStart, SetStatus, PumpNow
<1>3. CASE UNCHANGED <<mem, disk, active, attached>>
  BY <1>3, SameRecords DEF PumpNow
<1> QED
  BY <1>1, <1>2, <1>3 DEF PumpNow

LEMMA FinishRecords ==
    ASSUME LaneType, Records, Finish PROVE Records' /\ Calm
<1>1. PICK s \in Terminal :
        /\ disk' = [disk EXCEPT ![active] = s]
        /\ mem' = [mem EXCEPT ![active] = s] \/ mem' = mem
  BY DEF Finish
<1>2. active \in Tasks /\ active' = Nobody /\ key' = key
  BY DEF Finish, LaneType
<1>3. /\ disk[active] \in {"running", "cancelling"}
      /\ mem[active] \in {"running", "cancelling"}
  BY DEF Finish, Records, ActiveLive
<1>4. MemTruth'
  BY <1>1, <1>2, <1>3, SMT DEF Records, MemTruth, LaneType, Terminal
<1>5. ActiveLive'
  BY <1>2 DEF ActiveLive
<1>6. RecordsKeyed'
  BY <1>1, <1>2, <1>3, SMT DEF Records, RecordsKeyed, LaneType, Terminal
<1>7. Calm
  BY <1>1, <1>2, <1>3, SMT DEF Calm, Sealed, LaneType, Terminal, Live, Status
<1> QED
  BY <1>4, <1>5, <1>6, <1>7 DEF Records

LEMMA CancelRecords ==
    ASSUME LaneType, Records, NEW t \in Tasks, Cancel(t) PROVE Records' /\ Calm
<1>1. CASE mem[t] = "queued" /\ SetStatus(t, "cancelled")
  BY <1>1, QueuedMoves DEF SetStatus, Cancel
<1>2. ASSUME NEW s \in {"cancelling", "cancelled"}, mem[t] # "queued",
             s = "cancelling" <=> t = active, SetStatus(t, s)
      PROVE  Records' /\ Calm
  <2>1. /\ mem' = [mem EXCEPT ![t] = s] /\ disk' = [disk EXCEPT ![t] = s]
        /\ active' = active /\ key' = key
    BY <1>2 DEF SetStatus, Cancel
  <2>2. mem[t] \in {"running", "cancelling"}
    BY <1>2, SMT DEF Cancel, Live, Status
  <2>3. disk[t] # "absent"
    BY <2>2 DEF Records, MemTruth
  <2>4. t = active => disk[t] \in {"running", "cancelling"}
    BY SMT DEF Records, ActiveLive, Tasks, Nobody
  <2>5. MemTruth'
    BY <2>1, SMT DEF Records, MemTruth, LaneType, Terminal
  <2>6. ActiveLive'
    BY <1>2, <2>1, SMT DEF Records, ActiveLive, LaneType
  <2>7. RecordsKeyed'
    BY <2>1, <2>3, SMT DEF Records, RecordsKeyed, LaneType
  <2>8. Calm
    BY <1>2, <2>1, <2>2, <2>3, <2>4, SMT DEF Calm, Sealed, LaneType, Terminal, Live, Status
  <2> QED
    BY <2>5, <2>6, <2>7, <2>8 DEF Records
<1> QED
  BY <1>1, <1>2 DEF Cancel

LEMMA SubmitAgainRecords ==
    ASSUME Inv, Records, NEW c \in Calls, SubmitAgain(c)
    PROVE  /\ Records' /\ Calm
           /\ \E t \in Tasks : /\ key'[t] = KeyOf(op[c].run, op[c].work)
                               /\ Becomes(c, [op[c] EXCEPT !.work.task = t, !.at = "bind"])
<1>1. PICK t \in Admitted(KeyOf(op[c].run, op[c].work)) :
        /\ mem' = [mem EXCEPT ![t] = disk[t]]
        /\ Becomes(c, [op[c] EXCEPT !.work.task = t, !.at = "bind"])
  BY DEF SubmitAgain
<1>2. t \in Tasks /\ key[t] = KeyOf(op[c].run, op[c].work)
  BY <1>1 DEF Admitted
<1>3. key[t] # NoKey
  BY <1>2, AdmissionKey, KeyNotNone DEF SubmitAgain, Inv
<1>4. disk[t] # "absent"
  BY <1>2, <1>3 DEF Records, RecordsKeyed
<1>5. disk' = disk /\ key' = key /\ active' = active
  BY DEF SubmitAgain
<1>6. LaneType
  BY DEF Inv
<1>7. MemTruth'
  BY <1>1, <1>2, <1>4, <1>5, <1>6, SMT DEF Records, MemTruth, LaneType
<1>8. ActiveLive'
  BY <1>1, <1>2, <1>5, <1>6, SMT DEF Records, ActiveLive, LaneType
<1>9. RecordsKeyed'
  BY <1>5, SMT DEF Records, RecordsKeyed
<1>10. Calm
  BY <1>1, <1>2, <1>5, <1>6, SMT DEF Calm, Sealed, LaneType
<1> QED
  BY <1>1, <1>2, <1>5, <1>7, <1>8, <1>9, <1>10 DEF Records

\* An admission adds one record under the key of the call.
LEMMA SubmitNewRecords ==
    ASSUME Inv, Records, NEW c \in Calls, SubmitNew(c)
    PROVE  /\ Records'
           /\ \E t \in Tasks :
                /\ disk[t] = "absent" /\ disk' = [disk EXCEPT ![t] = "queued"]
                /\ mem' = [mem EXCEPT ![t] = "queued"]
                /\ key' = [key EXCEPT ![t] = KeyOf(op[c].run, op[c].work)]
                /\ Becomes(c, [op[c] EXCEPT !.work.task = t, !.at = "pump"])
<1>1. PICK t \in Tasks :
        /\ disk[t] = "absent" /\ disk' = [disk EXCEPT ![t] = "queued"]
        /\ mem' = [mem EXCEPT ![t] = "queued"]
        /\ key' = [key EXCEPT ![t] = KeyOf(op[c].run, op[c].work)]
        /\ Becomes(c, [op[c] EXCEPT !.work.task = t, !.at = "pump"])
  BY DEF SubmitNew
<1>2. KeyOf(op[c].run, op[c].work) # NoKey
  BY AdmissionKey, KeyNotNone DEF SubmitNew, Inv
<1>3. active' = active /\ LaneType
  BY DEF SubmitNew, Inv
<1>4. MemTruth'
  BY <1>1, <1>3, SMT DEF Records, MemTruth, LaneType, Terminal
<1>5. ActiveLive'
  <2>1. active # Nobody => active # t
    BY <1>1, SMT DEF Records, ActiveLive
  <2> QED
    BY <1>1, <1>3, <2>1, SMT DEF Records, ActiveLive, LaneType
<1>6. RecordsKeyed'
  <2> DEFINE k == KeyOf(op[c].run, op[c].work)
  <2>1. k # NoKey /\ key' = [key EXCEPT ![t] = k]
    BY <1>1, <1>2
  <2> HIDE DEF k
  <2> QED
    BY <1>1, <1>3, <2>1, SMT DEF Records, RecordsKeyed, LaneType
<1> QED
  BY <1>1, <1>4, <1>5, <1>6 DEF Records

LEMMA CrashRecords ==
    ASSUME LaneType, Records, Crash PROVE Records' /\ Calm
<1>1. /\ mem' = [t \in Tasks |-> "absent"] /\ active' = Nobody
      /\ disk' = disk /\ key' = key
  BY DEF Crash
<1>2. MemTruth' /\ ActiveLive'
  BY <1>1, SMT DEF MemTruth, ActiveLive, Terminal
<1>3. RecordsKeyed' /\ Calm
  BY <1>1, SMT DEF Records, RecordsKeyed, Calm, Sealed
<1> QED
  BY <1>2, <1>3 DEF Records

LEMMA BootRecords ==
    ASSUME LaneType, Records, Boot, active = Nobody PROVE Records' /\ Calm
<1>1. /\ disk' = [t \in Tasks |-> Repaired(disk[t])] /\ mem' = disk'
      /\ key' = key /\ active' = active
  BY DEF Boot
<1>2. ASSUME NEW s \in Status \cup {"absent"}
      PROVE  /\ s \in Terminal => Repaired(s) = s
             /\ Live(Repaired(s)) => Live(s)
             /\ s = "absent" <=> Repaired(s) = "absent"
  BY SMT DEF Repaired, Terminal, Status, Live
<1>3. MemTruth'
  BY <1>1, SMT DEF MemTruth, Terminal
<1>4. ActiveLive'
  BY <1>1 DEF ActiveLive
<1>5. RecordsKeyed'
  BY <1>1, <1>2, SMT DEF Records, RecordsKeyed, LaneType
<1>6. Calm
  BY <1>1, <1>2, SMT DEF Calm, Sealed, LaneType
<1> QED
  BY <1>3, <1>4, <1>5, <1>6 DEF Records

LEMMA PumpTaskByCall ==
    ASSUME Inv, NEW c \in Calls, NEW o, op[c] # NoOp \/ ~Busy, Becomes(c, o),
           o.at # "pump"
    PROVE  PumpTask'
<1>1. op'[c] = o /\ \A d \in Calls \ {c} : op'[d] = NoOp
  BY DEF Inv, OpInv, CallsInv, OneCall, Busy, Becomes
<1> QED
  BY <1>1, NoOpIsIdle DEF PumpTask, Sync

\* The place of a call after its step: it pumps next only after an admission.
LEMMA PlaceAfter ==
    ASSUME Inv, NEW c \in Calls, Proceed(c), ~SubmitNew(c)
    PROVE  op[c] # NoOp /\ \E o : Becomes(c, o) /\ o.at # "pump"
<1> DEFINE o == op[c]
<1>1. o.at \in Sync \cup Await
  <2>1. CASE (\E r \in Runs : RecoverNext(c, r)) \/ Advance(c) \/ Resolved(c) \/ Unresolvable(c)
    BY <2>1, Zenon DEF RecoverNext, Advance, Resolved, Unresolvable, Sync, Await
  <2>2. CASE SubmitAgain(c) \/ SubmitPump(c) \/ SubmitRejected(c) \/ Retry(c)
    BY <2>2, Zenon DEF SubmitAgain, SubmitPump, SubmitRejected, Retry, Sync, Await
  <2>3. CASE Bind(c) \/ Observe(c) \/ Evidence(c)
    BY <2>3, Zenon DEF Bind, Observe, Evidence, Await
  <2> QED
    BY <2>1, <2>2, <2>3, Zenon DEF Proceed
<1>2. o # NoOp /\ o \in GoodOp /\ o \in Op
  BY <1>1, InCall DEF Inv
<1>3. Done(o).at # "pump"
  BY <1>2, DoneGood, NoOpIsIdle DEF Sync
<1>4. ASSUME NEW p \in {"submit", "resolve", "view", "bind"}
      PROVE  /\ [o EXCEPT !.at = p].at # "pump"
             /\ \A s : [o EXCEPT !.at = p, !.seen = s].at # "pump"
             /\ \A w : [o EXCEPT !.work = w, !.at = p].at # "pump"
             /\ \A t : [o EXCEPT !.work.task = t, !.at = p].at # "pump"
  BY <1>2, SMT DEF Op
<1>5. \A r, w, rest : Call("advance", r, w, rest).at # "pump"
  BY DEF Call
<1>6. CASE \E r \in Runs : RecoverNext(c, r)
  BY <1>2, <1>5, <1>6 DEF RecoverNext
<1>7. CASE Advance(c)
  BY <1>2, <1>3, <1>4, <1>7 DEF Advance
<1>8. CASE Resolved(c)
  BY <1>2, <1>4, <1>8 DEF Resolved
<1>9. CASE Unresolvable(c) \/ SubmitRejected(c) \/ Retry(c) \/ Observe(c)
  BY <1>2, <1>3, <1>9 DEF Unresolvable, SubmitRejected, Fail, Retry, Observe
<1>10. CASE SubmitAgain(c)
  BY <1>2, <1>4, <1>10 DEF SubmitAgain
<1>11. CASE SubmitPump(c)
  BY <1>2, <1>4, <1>11 DEF SubmitPump
<1>12. CASE Bind(c)
  BY <1>2, <1>4, <1>12 DEF Bind
<1>13. CASE Evidence(c)
  BY <1>2, <1>3, <1>5, <1>13 DEF Evidence, Decide
<1> QED
  BY <1>6, <1>7, <1>8, <1>9, <1>10, <1>11, <1>12, <1>13 DEF Proceed

LEMMA CallRecords ==
    ASSUME Inv, RecordInv, NEW c \in Calls, Proceed(c)
    PROVE  RecordInv' /\ (Calm \/ SubmitNew(c))
<1> USE DEF RecordInv
<1>1. Records /\ LaneType
  BY DEF Records, Inv
<1>2. up /\ up' = up
  BY Zenon DEF Proceed, RecoverNext, Advance, Resolved, Unresolvable, SubmitAgain,
         SubmitNew, SubmitPump, SubmitRejected, Retry, Bind, Observe, Evidence, Turn
<1>3. DownIdle'
  BY <1>2 DEF DownIdle
<1>4. CASE SubmitNew(c)
  <2>1. PICK t \in Tasks :
          /\ mem' = [mem EXCEPT ![t] = "queued"]
          /\ Becomes(c, [op[c] EXCEPT !.work.task = t, !.at = "pump"])
    BY <1>1, <1>4, SubmitNewRecords
  <2>2. Records'
    BY <1>1, <1>4, SubmitNewRecords
  <2>3. op[c] # NoOp /\ op[c] \in Op /\ op[c].work \in Run
    BY <1>4, InCall DEF SubmitNew, Sync, Inv
  <2>4. op'[c] = [op[c] EXCEPT !.work.task = t, !.at = "pump"]
        /\ \A d \in Calls \ {c} : op'[d] = NoOp
    BY <2>1, <2>3 DEF Inv, OpInv, CallsInv, OneCall, Becomes
  <2>5. op'[c].work.task = t
    BY <2>3, <2>4, SMT DEF Op, Run
  <2>6. mem'[t] = "queued"
    BY <1>1, <2>1 DEF LaneType
  <2>7. PumpTask'
    BY <2>4, <2>5, <2>6, NoOpIsIdle DEF PumpTask, Sync
  <2> QED
    BY <1>3, <1>4, <2>2, <2>7 DEF Records
<1>5. ASSUME ~SubmitNew(c) PROVE PumpTask'
  <2>1. PICK o : op[c] # NoOp /\ Becomes(c, o) /\ o.at # "pump"
    BY <1>5, PlaceAfter
  <2> QED
    BY <2>1, PumpTaskByCall
<1>6. CASE SubmitAgain(c)
  BY <1>1, <1>3, <1>4, <1>5, <1>6, SubmitAgainRecords DEF Records
<1>7. CASE SubmitPump(c)
  <2>1. CASE PumpNow(pumpDue)
    BY <1>1, <1>3, <1>4, <1>5, <2>1, PumpNowRecords DEF Records
  <2>2. CASE SetStatus(op[c].work.task, "failed") /\ UNCHANGED key
    <3>1. op[c] \in GoodOp /\ op[c].at = "pump"
      BY <1>7, InCall DEF SubmitPump, Sync, Inv
    <3>2. op[c].work.task \in Tasks /\ mem[op[c].work.task] = "queued"
      BY <3>1 DEF GoodOp, PumpTask
    <3>3. Records' /\ Calm
      BY <1>1, <2>2, <3>2, QueuedMoves DEF SetStatus
    <3> QED
      BY <1>3, <1>4, <1>5, <3>3 DEF Records
  <2> QED
    BY <1>7, <2>1, <2>2 DEF SubmitPump
<1>8. CASE UNCHANGED lane
  BY <1>1, <1>3, <1>4, <1>5, <1>8, SameRecords DEF Records
<1> QED
  BY <1>4, <1>6, <1>7, <1>8
     DEF Proceed, RecoverNext, Advance, Resolved, Unresolvable, SubmitRejected,
         Retry, Bind, Observe, Evidence

LEMMA NextRecords ==
    ASSUME Inv, RecordInv, [Next]_vars
    PROVE  RecordInv' /\ (Calm \/ \E c \in Calls : SubmitNew(c))
<1> USE DEF RecordInv
<1>1. Records /\ LaneType
  BY DEF Records, Inv
<1>2. ASSUME UNCHANGED lane PROVE Records' /\ Calm
  BY <1>1, <1>2, SameRecords
<1>3. ASSUME Yielded, UNCHANGED up PROVE DownIdle'
  BY <1>3 DEF DownIdle, Yielded
<1>4. ASSUME Yielded, UNCHANGED op PROVE PumpTask'
  BY <1>4 DEF PumpTask, Yielded, Sync
<1>5. ASSUME NEW c \in Calls,
             \/ Recover(c)
             \/ \E r \in Runs : Create(c, r)
             \/ \E r \in Runs, p \in BOOLEAN : SetPaused(c, r, p)
             \/ \E r \in Runs, v \in Verdict :
                  \E i \in DOMAIN runs[r].audits : SubmitAudit(c, r, i, v)
      PROVE  RecordInv' /\ Calm
  <2>1. Yielded /\ ~Busy /\ UNCHANGED <<lane, up>>
    BY <1>5, Zenon DEF Recover, Create, SetPaused, SubmitAudit
  <2>2. \E o : Becomes(c, o) /\ o.at # "pump"
    <3>1. /\ Call("next", Nobody, NoRun, Persisted).at # "pump"
          /\ \A r, w : Call("advance", r, w, {}).at # "pump"
          /\ \A r, w, s : [Call("evidence", r, w, {}) EXCEPT !.seen = s].at # "pump"
      BY DEF Call
    <3>2. CASE Recover(c)
      BY <3>1, <3>2 DEF Recover
    <3>3. CASE \E r \in Runs : Create(c, r)
      BY <3>1, <3>3 DEF Create
    <3>4. CASE \E r \in Runs, p \in BOOLEAN : SetPaused(c, r, p)
      BY <3>1, <3>4 DEF SetPaused
    <3>5. CASE \E r \in Runs, v \in Verdict :
                 \E i \in DOMAIN runs[r].audits : SubmitAudit(c, r, i, v)
      <4>1. PICK r \in Runs, v \in Verdict :
              \/ \E i : Decide(c, r, runs[r], i, v)
              \/ Becomes(c, [Call("evidence", r, runs[r], {}) EXCEPT !.seen = mem[runs[r].task]])
        BY <3>5, Zenon DEF SubmitAudit
      <4>2. CASE \E i : Decide(c, r, runs[r], i, v)
        BY <3>1, <4>2 DEF Decide
      <4> QED
        BY <3>1, <4>1, <4>2
    <3> QED
      BY <1>5, <3>2, <3>3, <3>4, <3>5
  <2> QED
    BY <1>2, <1>3, <2>1, <2>2, PumpTaskByCall DEF Records
<1>6. CASE \E r \in Runs : \E i \in DOMAIN runs[r].audits : Claim(r, i)
  BY <1>2, <1>3, <1>4, <1>6 DEF Claim, Records
<1>7. CASE \E c \in Calls : Proceed(c)
  BY <1>7, CallRecords
<1>8. CASE Pump
  BY <1>1, <1>3, <1>4, <1>8, PumpNowRecords DEF Pump, Records
<1>9. CASE Finish
  BY <1>1, <1>3, <1>4, <1>9, FinishRecords DEF Finish, Records
<1>10. CASE \E t \in Tasks : Cancel(t)
  BY <1>1, <1>3, <1>4, <1>10, CancelRecords DEF Cancel, Records
<1>11. CASE Crash
  <2>1. PumpTask' /\ DownIdle'
    BY <1>11, NoOpIsIdle DEF Crash, PumpTask, DownIdle, Sync
  <2> QED
    BY <1>1, <1>11, <2>1, CrashRecords DEF Records
<1>12. CASE Boot
  <2>1. active = Nobody /\ (\A c \in Calls : op[c] = NoOp) /\ up' /\ op' = op
    BY <1>12 DEF Boot, DownIdle
  <2>2. PumpTask' /\ DownIdle'
    BY <2>1, NoOpIsIdle DEF PumpTask, DownIdle, Sync
  <2> QED
    BY <1>1, <1>12, <2>1, <2>2, BootRecords DEF Records
<1>13. CASE UNCHANGED <<lane, op, up>>
  BY <1>2, <1>13 DEF Records, PumpTask, DownIdle
<1> QED
  BY <1>5, <1>6, <1>7, <1>8, <1>9, <1>10, <1>11, <1>12, <1>13, Zenon
     DEF Next, SetProductPaused, SetAuthorized, vars

-----------------------------------------------------------------------------
(* The plan against the task records, given as k, d and m for key, disk, mem *)

\* What a run w with the id r may rely on.
RunPlan(k, d, m, r, w) ==
    /\ w.task # Nobody => k[w.task] = KeyOf(r, w)
    /\ w.state = "WAITING_AUDIT" => w.task # Nobody /\ Sealed(d, m, w.task)
    /\ \A i \in DOMAIN w.audits :
         k[w.audits[i].task] =
            [run |-> r, step |-> w.audits[i].step, attempt |-> w.audits[i].attempt]
    /\ \A i \in DOMAIN w.audits : w.audits[i].verdict = "PASS" =>
         Sealed(d, m, w.audits[i].task) /\ d[w.audits[i].task] = "completed"
    /\ \A s \in 0 .. w.step - 1 : \E i \in DOMAIN w.audits :
         w.audits[i].step = s /\ w.audits[i].verdict = "PASS"

\* What a call o may rely on.
CallPlan(k, d, m, o) ==
    /\ o.at \in {"submit", "pump", "bind"} => o.work.state = "DISPATCHED"
    /\ o.at \in {"pump", "bind"} => k[o.work.task] = KeyOf(o.run, o.work)
    /\ o.at \in {"view", "evidence"} /\ o.seen \in Terminal =>
         Sealed(d, m, o.work.task) /\ d[o.work.task] = o.seen

RunsPlan == \A r \in Runs : RunPlan(key, disk, mem, r, runs[r])
CallsPlan == \A c \in Calls : CallPlan(key, disk, mem, op[c])

\* A task that is alive belongs to the current attempt of its run.
LiveCurrent ==
    \A t \in Tasks : Live(disk[t]) => key[t] = KeyOf(key[t].run, runs[key[t].run])

PlanInv == RunsPlan /\ CallsPlan /\ LiveCurrent

\* What every step leaves of sealed tasks and keys.
Stable ==
    /\ \A t \in Tasks : Sealed(disk, mem, t) => disk'[t] = disk[t] /\ Sealed(disk', mem', t)
    /\ \A t \in Tasks : key[t] # NoKey => key'[t] = key[t]

\* No run goes to another step or attempt.
Unmoved == \A r \in Runs : runs'[r].step = runs[r].step /\ runs'[r].attempt = runs[r].attempt

LEMMA CalmStable == ASSUME Calm PROVE Stable
  BY DEF Calm, Stable

LEMMA AuditFields ==
    ASSUME NEW w \in Run, NEW i \in DOMAIN w.audits
    PROVE  /\ w.audits[i] \in Audit
           /\ w.audits[i].task \in Tasks /\ w.audits[i].attempt \in 1 .. MaxAttempts
           /\ w.audits[i].step \in 0 .. Steps - 1
<1>1. w.audits \in Seq(Audit)
  BY RunFields
<1>2. w.audits[i] \in Audit
  BY <1>1
<1> QED
  BY <1>2 DEF Audit

LEMMA RunKept ==
    ASSUME Stable, NEW r \in Runs, NEW w \in Run \cup {NoRun},
           RunPlan(key, disk, mem, r, w)
    PROVE  RunPlan(key', disk', mem', r, w)
<1>1. CASE w \in Run
  <2>1. /\ w.attempt \in 1 .. MaxAttempts /\ w.task \in Tasks \cup {Nobody}
        /\ w.audits \in Seq(Audit)
    BY <1>1, RunFields
  <2>2. \A i \in DOMAIN w.audits :
          w.audits[i].task \in Tasks /\ w.audits[i].attempt \in 1 .. MaxAttempts
    BY <1>1, AuditFields
  <2>3. KeyOf(r, w) # NoKey
    BY <2>1, BoundsAssumption, SMT DEF KeyOf, NoKey
  <2>4. \A i \in DOMAIN w.audits :
          [run |-> r, step |-> w.audits[i].step, attempt |-> w.audits[i].attempt] # NoKey
    BY <2>2, BoundsAssumption, SMT DEF NoKey
  <2>5. w.task # Nobody => key'[w.task] = KeyOf(r, w)
    BY <2>1, <2>3 DEF RunPlan, Stable
  <2>6. w.state = "WAITING_AUDIT" => w.task # Nobody /\ Sealed(disk', mem', w.task)
    BY <2>1 DEF RunPlan, Stable
  <2>7. \A i \in DOMAIN w.audits :
          key'[w.audits[i].task] =
             [run |-> r, step |-> w.audits[i].step, attempt |-> w.audits[i].attempt]
    BY <2>2, <2>4 DEF RunPlan, Stable
  <2>8. \A i \in DOMAIN w.audits : w.audits[i].verdict = "PASS" =>
          Sealed(disk', mem', w.audits[i].task) /\ disk'[w.audits[i].task] = "completed"
    BY <2>2 DEF RunPlan, Stable
  <2> QED
    BY <2>5, <2>6, <2>7, <2>8 DEF RunPlan
<1>2. CASE w = NoRun
  BY <1>2, SMT DEF RunPlan, NoRun
<1> QED
  BY <1>1, <1>2

LEMMA CallKept ==
    ASSUME Stable, NEW o \in GoodOp \cup {NoOp}, CallPlan(key, disk, mem, o)
    PROVE  CallPlan(key', disk', mem', o)
<1>1. CASE o \in GoodOp
  <2>1. /\ o.at \in {"pump", "bind", "view"} => o.work.task \in Tasks
        /\ o.at \in {"pump", "bind", "evidence"} => o.work \in Run
    BY <1>1, SMT DEF GoodOp, GoodRun
  <2>2. o.at = "evidence" => o.work.task \in Tasks
    <3>1. SUFFICES ASSUME o.at = "evidence" PROVE o.work.task \in Tasks
      OBVIOUS
    <3>2. PICK i \in DOMAIN o.work.audits : o.work.audits[i].task = o.work.task
      BY <1>1, <3>1 DEF GoodOp
    <3>3. o.work.audits[i] \in Audit
      BY <2>1, <3>1, RunFields
    <3> QED
      BY <3>2, <3>3 DEF Audit
  <2>3. o.at \in {"pump", "bind"} => KeyOf(o.run, o.work) # NoKey
    BY <2>1, RunFields, BoundsAssumption, SMT DEF KeyOf, NoKey
  <2>4. o.at \in {"pump", "bind"} => key'[o.work.task] = KeyOf(o.run, o.work)
    BY <2>1, <2>3 DEF CallPlan, Stable
  <2>5. o.at \in {"view", "evidence"} /\ o.seen \in Terminal =>
          Sealed(disk', mem', o.work.task) /\ disk'[o.work.task] = o.seen
    BY <2>1, <2>2 DEF CallPlan, Stable
  <2> QED
    BY <2>4, <2>5 DEF CallPlan
<1>2. CASE o = NoOp
  BY <1>2, SMT DEF CallPlan, NoOp
<1> QED
  BY <1>1, <1>2

\* A task that is alive has the key of a run.
LEMMA LiveKeyed ==
    ASSUME Inv, RecordInv, NEW t \in Tasks, Live(disk[t])
    PROVE  key[t] \in Key /\ key[t].run \in Runs /\ key[t] # NoKey
<1>1. disk[t] # "absent"
  BY SMT DEF Live, Status, Terminal
<1>2. key[t] # NoKey
  BY <1>1 DEF RecordInv, RecordsKeyed
<1>3. key[t] \in Key
  BY <1>2 DEF Inv, LaneType
<1> QED
  BY <1>2, <1>3 DEF Key

LEMMA LiveKept ==
    ASSUME Inv, RecordInv, LiveCurrent, Calm, Unmoved
    PROVE  LiveCurrent'
<1> SUFFICES ASSUME NEW t \in Tasks, Live(disk'[t])
             PROVE  key'[t] = KeyOf(key'[t].run, runs'[key'[t].run])
  BY DEF LiveCurrent
<1>1. Live(disk[t]) /\ key' = key
  BY DEF Calm
<1>2. key[t].run \in Runs
  BY <1>1, LiveKeyed
<1>3. key[t] = KeyOf(key[t].run, runs[key[t].run])
  BY <1>1 DEF LiveCurrent
<1> QED
  BY <1>1, <1>2, <1>3 DEF Unmoved, KeyOf

\* A run that differs only in fields the plan does not read.
LEMMA RunPlanSame ==
    ASSUME NEW k, NEW d, NEW m, NEW r, NEW w, NEW u, RunPlan(k, d, m, r, w),
           u.task = w.task, u.step = w.step, u.attempt = w.attempt,
           u.state = "WAITING_AUDIT" => w.state = "WAITING_AUDIT",
           DOMAIN u.audits = DOMAIN w.audits,
           \A i \in DOMAIN w.audits :
              /\ u.audits[i].task = w.audits[i].task /\ u.audits[i].step = w.audits[i].step
              /\ u.audits[i].attempt = w.audits[i].attempt
              /\ u.audits[i].verdict = w.audits[i].verdict
    PROVE  RunPlan(k, d, m, r, u)
  BY SMT DEF RunPlan, KeyOf

\* The run after a verdict on its current task: PASS needs a completed one.
LEMMA AfterPlan ==
    ASSUME NEW k, NEW d, NEW m, NEW r, NEW w \in Run, w.step < Steps,
           NEW i \in DOMAIN w.audits, NEW v \in Verdict,
           RunPlan(k, d, m, r, w),
           w.audits[i].task = w.task, w.task # Nobody, w.audits[i].verdict = "none",
           v = "PASS" => Sealed(d, m, w.task) /\ d[w.task] = "completed"
    PROVE  RunPlan(k, d, m, r, After([w EXCEPT !.audits[i].verdict = v], v))
<1> DEFINE u == [w EXCEPT !.audits[i].verdict = v]
<1>1. /\ u.task = w.task /\ u.step = w.step /\ u.attempt = w.attempt /\ u.state = w.state
      /\ u \in Run
  BY AuditUpdates DEF Run
<1>2. /\ DOMAIN u.audits = DOMAIN w.audits
      /\ \A j \in DOMAIN w.audits : j # i => u.audits[j] = w.audits[j]
  BY AuditUpdates
<1>3. u.audits[i] = [w.audits[i] EXCEPT !.verdict = v]
  BY RunFields DEF Run
<1>4. /\ u.audits[i].task = w.audits[i].task /\ u.audits[i].step = w.audits[i].step
      /\ u.audits[i].attempt = w.audits[i].attempt /\ u.audits[i].verdict = v
  BY <1>3, AuditFields DEF Audit
<1> HIDE DEF u
<1>5. \A j \in DOMAIN u.audits :
        k[u.audits[j].task] =
           [run |-> r, step |-> u.audits[j].step, attempt |-> u.audits[j].attempt]
  BY <1>2, <1>4 DEF RunPlan
<1>6. \A j \in DOMAIN u.audits : u.audits[j].verdict = "PASS" =>
        Sealed(d, m, u.audits[j].task) /\ d[u.audits[j].task] = "completed"
  BY <1>2, <1>4 DEF RunPlan
<1>7. \A s \in 0 .. w.step - 1 : \E j \in DOMAIN u.audits :
        u.audits[j].step = s /\ u.audits[j].verdict = "PASS"
  <2> SUFFICES ASSUME NEW s \in 0 .. w.step - 1
               PROVE  \E j \in DOMAIN u.audits :
                         u.audits[j].step = s /\ u.audits[j].verdict = "PASS"
    OBVIOUS
  <2>1. PICK j \in DOMAIN w.audits : w.audits[j].step = s /\ w.audits[j].verdict = "PASS"
    BY DEF RunPlan
  <2>2. j # i
    BY <2>1
  <2> QED
    BY <1>2, <2>1, <2>2
<1>8. k[w.task] = KeyOf(r, w)
  BY DEF RunPlan
<1>9. w.audits[i].step = w.step
  <2>1. k[w.task] = [run |-> r, step |-> w.audits[i].step, attempt |-> w.audits[i].attempt]
    BY DEF RunPlan
  <2> QED
    BY <1>8, <2>1 DEF KeyOf
<1>10. CASE v = "BLOCKED"
  <2>1. After(u, v) = [u EXCEPT !.state = "BLOCKED"]
    BY <1>10 DEF After
  <2>2. /\ After(u, v).audits = u.audits /\ After(u, v).step = w.step
        /\ After(u, v).task = w.task /\ After(u, v).attempt = w.attempt
        /\ After(u, v).state = "BLOCKED"
    BY <1>1, <2>1 DEF Run
  <2>3. KeyOf(r, After(u, v)) = KeyOf(r, w)
    BY <2>2 DEF KeyOf
  <2>4. RunPlan(k, d, m, r, After(u, v))
    BY <1>5, <1>6, <1>7, <1>8, <2>2, <2>3, SMT DEF RunPlan
  <2> QED
    BY <2>4 DEF u
<1>11. CASE v = "REWORK"
  <2>1. After(u, v) = [u EXCEPT !.attempt = u.attempt + 1, !.task = Nobody, !.state = "IDLE"]
    BY <1>11 DEF After
  <2>2. /\ After(u, v).audits = u.audits /\ After(u, v).step = w.step
        /\ After(u, v).task = Nobody /\ After(u, v).state = "IDLE"
    BY <1>1, <2>1 DEF Run
  <2>3. RunPlan(k, d, m, r, After(u, v))
    BY <1>5, <1>6, <1>7, <2>2, SMT DEF RunPlan
  <2> QED
    BY <2>3 DEF u
<1>12. CASE v = "PASS"
  <2>1. After(u, v) =
          [u EXCEPT !.step = u.step + 1, !.attempt = 1, !.task = Nobody,
                    !.state = IF u.step + 1 = Steps THEN "COMPLETE" ELSE "IDLE"]
    BY <1>12 DEF After
  <2>2. /\ After(u, v).audits = u.audits /\ After(u, v).step = w.step + 1
        /\ After(u, v).task = Nobody /\ After(u, v).state # "WAITING_AUDIT"
    BY <1>1, <2>1 DEF Run
  <2>3. \A s \in 0 .. (w.step + 1) - 1 : \E j \in DOMAIN u.audits :
          u.audits[j].step = s /\ u.audits[j].verdict = "PASS"
    <3> SUFFICES ASSUME NEW s \in 0 .. (w.step + 1) - 1
                 PROVE  \E j \in DOMAIN u.audits :
                           u.audits[j].step = s /\ u.audits[j].verdict = "PASS"
      OBVIOUS
    <3>1. s = w.step \/ s \in 0 .. w.step - 1
      BY RunFields, BoundsAssumption
    <3>2. CASE s = w.step
      BY <1>2, <1>4, <1>9, <1>12, <3>2
    <3> QED
      BY <1>7, <3>1, <3>2
  <2>4. RunPlan(k, d, m, r, After(u, v))
    BY <1>5, <1>6, <2>2, <2>3, SMT DEF RunPlan
  <2> QED
    BY <2>4 DEF u
<1> QED
  BY <1>10, <1>11, <1>12 DEF Verdict

\* One call moves, nobody else is in progress, and its run r becomes w.
LEMMA PlanSave ==
    ASSUME Inv, RecordInv, PlanInv, Stable, LiveCurrent',
           NEW c \in Calls, NEW o, op[c] # NoOp \/ ~Busy, Becomes(c, o),
           CallPlan(key', disk', mem', o),
           NEW r \in Runs, NEW w, Save(r, w), RunPlan(key', disk', mem', r, w)
    PROVE  PlanInv'
<1>1. op'[c] = o /\ \A d \in Calls \ {c} : op'[d] = NoOp
  BY DEF Inv, OpInv, CallsInv, OneCall, Busy, Becomes
<1>2. CallPlan(key', disk', mem', NoOp)
  BY SMT DEF CallPlan, NoOp
<1>3. \A d \in Calls : CallPlan(key', disk', mem', op'[d])
  BY <1>1, <1>2
<1>4. \A q \in Runs : runs[q] \in Run \cup {NoRun}
  BY DEF Inv, OpInv, RunsInv, GoodRun
<1>5. \A q \in Runs : RunPlan(key', disk', mem', q, runs[q])
  BY <1>4, RunKept DEF PlanInv, RunsPlan
<1>6. \A q \in Runs : runs'[q] = IF q = r THEN w ELSE runs[q]
  BY DEF Save, Inv, OpInv, RunsInv
<1>7. \A q \in Runs : RunPlan(key', disk', mem', q, runs'[q])
  BY <1>5, <1>6
<1> QED
  BY <1>3, <1>7 DEF PlanInv, RunsPlan, CallsPlan

\* One call moves and no run is saved.
LEMMA PlanMove ==
    ASSUME Inv, RecordInv, PlanInv, Stable, LiveCurrent',
           NEW c \in Calls, NEW o, op[c] # NoOp \/ ~Busy, Becomes(c, o),
           CallPlan(key', disk', mem', o), UNCHANGED runs
    PROVE  PlanInv'
<1>1. op'[c] = o /\ \A d \in Calls \ {c} : op'[d] = NoOp
  BY DEF Inv, OpInv, CallsInv, OneCall, Busy, Becomes
<1>2. CallPlan(key', disk', mem', NoOp)
  BY SMT DEF CallPlan, NoOp
<1>3. \A d \in Calls : CallPlan(key', disk', mem', op'[d])
  BY <1>1, <1>2
<1>4. \A q \in Runs : runs[q] \in Run \cup {NoRun}
  BY DEF Inv, OpInv, RunsInv, GoodRun
<1>5. \A q \in Runs : RunPlan(key', disk', mem', q, runs'[q])
  BY <1>4, RunKept DEF PlanInv, RunsPlan
<1> QED
  BY <1>3, <1>5 DEF PlanInv, RunsPlan, CallsPlan

LEMMA SameUnmoved == ASSUME UNCHANGED runs PROVE Unmoved
  BY DEF Unmoved

LEMMA SaveUnmoved ==
    ASSUME Inv, NEW r \in Runs, NEW w, Save(r, w),
           w.step = runs[r].step, w.attempt = runs[r].attempt
    PROVE  Unmoved
  BY DEF Unmoved, Save, Inv, OpInv, RunsInv

\* No call moves and no run changes.
LEMMA PlanRest ==
    ASSUME Inv, RecordInv, PlanInv, Calm, UNCHANGED <<runs, op>>
    PROVE  PlanInv'
<1>1. Stable /\ LiveCurrent'
  BY CalmStable, SameUnmoved, LiveKept DEF PlanInv
<1>2. \A q \in Runs : runs[q] \in Run \cup {NoRun}
  BY DEF Inv, OpInv, RunsInv, GoodRun
<1>3. \A q \in Runs : RunPlan(key', disk', mem', q, runs'[q])
  BY <1>1, <1>2, RunKept DEF PlanInv, RunsPlan
<1>4. \A c \in Calls : op[c] \in GoodOp \cup {NoOp}
  BY DEF Inv, OpInv, CallsInv
<1>5. \A c \in Calls : CallPlan(key', disk', mem', op'[c])
  BY <1>1, <1>4, CallKept DEF PlanInv, CallsPlan
<1> QED
  BY <1>1, <1>3, <1>5 DEF PlanInv, RunsPlan, CallsPlan

LEMMA CrashPlan ==
    ASSUME Inv, RecordInv, PlanInv, Calm, Crash PROVE PlanInv'
<1>1. Stable /\ LiveCurrent'
  BY CalmStable, SameUnmoved, LiveKept DEF PlanInv, Crash
<1>2. \A q \in Runs : runs[q] \in Run \cup {NoRun}
  BY DEF Inv, OpInv, RunsInv, GoodRun
<1>3. \A q \in Runs : RunPlan(key', disk', mem', q, runs'[q])
  BY <1>1, <1>2, RunKept DEF PlanInv, RunsPlan, Crash
<1>4. CallPlan(key', disk', mem', NoOp)
  BY SMT DEF CallPlan, NoOp
<1>5. \A c \in Calls : CallPlan(key', disk', mem', op'[c])
  BY <1>4 DEF Crash
<1> QED
  BY <1>1, <1>3, <1>5 DEF PlanInv, RunsPlan, CallsPlan

\* Calls that stand where nothing of the lane is known.
LEMMA PlaceFree ==
    ASSUME NEW k, NEW d, NEW m, NEW o,
           o.at \notin {"submit", "pump", "bind", "view", "evidence"}
    PROVE  CallPlan(k, d, m, o)
  BY DEF CallPlan

LEMMA DonePlan ==
    ASSUME NEW k, NEW d, NEW m, NEW o \in GoodOp PROVE CallPlan(k, d, m, Done(o))
  BY DoneGood, NoOpIsIdle, PlaceFree, SMT DEF NoOp

LEMMA AdvancePlan ==
    ASSUME NEW k, NEW d, NEW m, NEW r, NEW w, NEW rest
    PROVE  CallPlan(k, d, m, Call("advance", r, w, rest))
  BY PlaceFree DEF Call

-----------------------------------------------------------------------------
(* One lemma per action that touches a run or a call *)

\* A task that memory knows to have ended is sealed.
LEMMA MemSealed ==
    ASSUME RecordInv, NEW t \in Tasks, mem[t] \in Terminal
    PROVE  Sealed(disk, mem, t) /\ disk[t] = mem[t]
  BY DEF RecordInv, MemTruth, Sealed

\* The durable run of a call, as the plan sees it.
LEMMA CallRun ==
    ASSUME Inv, PlanInv, NEW c \in Calls, op[c].at \in Sync \cup Await, op[c].at # "next"
    PROVE  /\ op[c] # NoOp /\ op[c] \in GoodOp /\ op[c] \in Op
           /\ op[c].run \in Runs /\ op[c].work \in GoodRun /\ op[c].work \in Run
           /\ Current(op[c], runs[op[c].run])
           /\ RunPlan(key, disk, mem, op[c].run, runs[op[c].run])
           /\ CallPlan(key, disk, mem, op[c])
           /\ op[c].work.step = runs[op[c].run].step
           /\ op[c].work.attempt = runs[op[c].run].attempt
           /\ op[c].work.audits = runs[op[c].run].audits
           /\ op[c].work.state = runs[op[c].run].state
  BY InCall DEF Inv, PlanInv, RunsPlan, CallsPlan, Current

LEMMA CreatePlan ==
    ASSUME Inv, RecordInv, PlanInv, Calm, NEW c \in Calls, NEW r \in Runs, Create(c, r)
    PROVE  PlanInv'
<1>1. /\ ~Busy /\ runs[r] = NoRun /\ Save(r, FreshRun)
      /\ Becomes(c, Call("advance", r, FreshRun, {}))
  BY DEF Create
<1>2. Unmoved
  BY <1>1, SaveUnmoved DEF FreshRun, NoRun
<1>3. Stable /\ LiveCurrent'
  BY <1>2, CalmStable, LiveKept DEF PlanInv
<1>4. RunPlan(key', disk', mem', r, FreshRun)
  BY SMT DEF RunPlan, FreshRun
<1> QED
  BY <1>1, <1>3, <1>4, AdvancePlan, PlanSave

LEMMA SetPausedPlan ==
    ASSUME Inv, RecordInv, PlanInv, Calm, NEW c \in Calls, NEW r \in Runs,
           NEW p \in BOOLEAN, SetPaused(c, r, p)
    PROVE  PlanInv'
<1> DEFINE w == [runs[r] EXCEPT !.paused = p]
<1>1. ~Busy /\ Save(r, w) /\ Becomes(c, Call("advance", r, w, {}))
  BY DEF SetPaused
<1>2. runs[r] \in Run
  BY DEF SetPaused, Inv, OpInv, RunsInv, GoodRun
<1>3. /\ w.task = runs[r].task /\ w.step = runs[r].step /\ w.attempt = runs[r].attempt
      /\ w.state = runs[r].state /\ w.audits = runs[r].audits
  BY <1>2 DEF Run
<1> HIDE DEF w
<1>4. Stable /\ LiveCurrent'
  BY <1>1, <1>3, SaveUnmoved, CalmStable, LiveKept DEF PlanInv
<1>5. RunPlan(key', disk', mem', r, runs[r])
  BY <1>2, <1>4, RunKept DEF PlanInv, RunsPlan
<1>6. RunPlan(key', disk', mem', r, w)
  BY <1>3, <1>5, RunPlanSame
<1> QED
  BY <1>1, <1>4, <1>6, AdvancePlan, PlanSave

LEMMA ClaimPlan ==
    ASSUME Inv, RecordInv, PlanInv, Calm, NEW r \in Runs, NEW i \in DOMAIN runs[r].audits,
           Claim(r, i)
    PROVE  PlanInv'
<1> DEFINE w == [runs[r] EXCEPT !.audits[i].claimed = TRUE]
<1>1. ~Busy /\ Save(r, w) /\ op' = op
  BY DEF Claim
<1>2. runs[r] \in Run
  BY SMT DEF Claim, Inv, OpInv, RunsInv, GoodRun, NoRun
<1>3. /\ w.task = runs[r].task /\ w.step = runs[r].step /\ w.attempt = runs[r].attempt
      /\ w.state = runs[r].state
  BY <1>2 DEF Run
<1>4. /\ DOMAIN w.audits = DOMAIN runs[r].audits
      /\ \A j \in DOMAIN runs[r].audits : j # i => w.audits[j] = runs[r].audits[j]
  BY <1>2, AuditUpdates
<1>5. w.audits[i] = [runs[r].audits[i] EXCEPT !.claimed = TRUE]
  BY <1>2, RunFields DEF Run
<1>6. /\ w.audits[i].task = runs[r].audits[i].task /\ w.audits[i].step = runs[r].audits[i].step
      /\ w.audits[i].attempt = runs[r].audits[i].attempt
      /\ w.audits[i].verdict = runs[r].audits[i].verdict
  BY <1>2, <1>5, AuditFields DEF Audit
<1> HIDE DEF w
<1>7. Stable /\ LiveCurrent'
  BY <1>1, <1>3, SaveUnmoved, CalmStable, LiveKept DEF PlanInv
<1>8. \A q \in Runs : runs[q] \in Run \cup {NoRun}
  BY DEF Inv, OpInv, RunsInv, GoodRun
<1>9. \A q \in Runs : RunPlan(key', disk', mem', q, runs[q])
  BY <1>7, <1>8, RunKept DEF PlanInv, RunsPlan
<1>10. RunPlan(key', disk', mem', r, w)
  BY <1>3, <1>4, <1>6, <1>9, RunPlanSame
<1>11. \A q \in Runs : runs'[q] = IF q = r THEN w ELSE runs[q]
  BY <1>1 DEF Save, Inv, OpInv, RunsInv
<1>12. \A q \in Runs : RunPlan(key', disk', mem', q, runs'[q])
  BY <1>9, <1>10, <1>11
<1>13. \A c \in Calls : op'[c] = NoOp
  BY <1>1 DEF Busy
<1>14. CallPlan(key', disk', mem', NoOp)
  BY NoOpIsIdle, PlaceFree
<1> QED
  BY <1>7, <1>12, <1>13, <1>14 DEF PlanInv, RunsPlan, CallsPlan

LEMMA RecoverPlan ==
    ASSUME Inv, RecordInv, PlanInv, Calm, NEW c \in Calls, Recover(c)
    PROVE  PlanInv'
<1>1. ~Busy /\ runs' = runs /\ Becomes(c, Call("next", Nobody, NoRun, Persisted))
  BY DEF Recover
<1>2. CallPlan(key', disk', mem', Call("next", Nobody, NoRun, Persisted))
  BY PlaceFree DEF Call
<1>3. Stable /\ LiveCurrent'
  BY <1>1, SameUnmoved, CalmStable, LiveKept DEF PlanInv
<1> QED
  BY <1>1, <1>2, <1>3, PlanMove

\* A verdict moves the run on only when its task is sealed: then no task of the
\* run is alive.
LEMMA LiveDecide ==
    ASSUME Inv, RecordInv, PlanInv, AtMostOneTask, UNCHANGED lane, NEW r \in Runs,
           runs[r].task \in Tasks, Sealed(disk, mem, runs[r].task),
           NEW w, Save(r, w)
    PROVE  LiveCurrent'
<1>1. \A q \in Runs : runs'[q] = IF q = r THEN w ELSE runs[q]
  BY DEF Save, Inv, OpInv, RunsInv
<1>2. key[runs[r].task] = KeyOf(r, runs[r])
  BY DEF PlanInv, RunsPlan, RunPlan, Tasks, Nobody
<1> SUFFICES ASSUME NEW t \in Tasks, Live(disk[t])
             PROVE  key[t] = KeyOf(key[t].run, runs'[key[t].run])
  BY DEF LiveCurrent
<1>3. key[t].run \in Runs /\ key[t] # NoKey
  BY LiveKeyed
<1>4. key[t] = KeyOf(key[t].run, runs[key[t].run])
  BY DEF PlanInv, LiveCurrent
<1>5. CASE key[t].run = r
  <2>1. t = runs[r].task
    BY <1>2, <1>3, <1>4, <1>5 DEF AtMostOneTask
  <2> QED
    BY <2>1 DEF Sealed, Live
<1>6. CASE key[t].run # r
  BY <1>1, <1>3, <1>4, <1>6
<1> QED
  BY <1>5, <1>6

LEMMA DecidePlan ==
    ASSUME Inv, RecordInv, PlanInv, AtMostOneTask, Calm, UNCHANGED lane,
           NEW c \in Calls, op[c] # NoOp \/ ~Busy, NEW r \in Runs,
           NEW w \in Run, w.step < Steps, RunPlan(key, disk, mem, r, w),
           w.task = runs[r].task, w.task \in Tasks, Sealed(disk, mem, w.task),
           NEW i \in DOMAIN w.audits, w.audits[i].task = w.task, w.audits[i].verdict = "none",
           NEW v \in Verdict, v = "PASS" => disk[w.task] = "completed",
           Decide(c, r, w, i, v)
    PROVE  PlanInv'
<1> DEFINE d == After([w EXCEPT !.audits[i].verdict = v], v)
<1>1. Save(r, d) /\ Becomes(c, Call("advance", r, d, {}))
  BY DEF Decide
<1>2. RunPlan(key, disk, mem, r, d)
  BY AfterPlan DEF Tasks, Nobody
<1> HIDE DEF d
<1>3. RunPlan(key', disk', mem', r, d)
  BY <1>2
<1>4. Stable /\ LiveCurrent'
  BY <1>1, CalmStable, LiveDecide
<1> QED
  BY <1>1, <1>3, <1>4, AdvancePlan, PlanSave

LEMMA SubmitAuditPlan ==
    ASSUME Inv, RecordInv, PlanInv, AtMostOneTask, Calm, NEW c \in Calls, NEW r \in Runs,
           NEW v \in Verdict, NEW i \in DOMAIN runs[r].audits, SubmitAudit(c, r, i, v)
    PROVE  PlanInv'
<1> DEFINE w == runs[r]
<1>1. /\ ~Busy /\ UNCHANGED lane /\ w.state = "WAITING_AUDIT"
      /\ w.audits[i].task = w.task /\ w.audits[i].verdict = "none"
  BY DEF SubmitAudit
<1>2. w \in GoodRun /\ w \in Run
  BY <1>1, SMT DEF Inv, OpInv, RunsInv, NoRun, GoodRun
<1>3. w.step < Steps
  BY <1>1, <1>2 DEF GoodRun
<1>4. RunPlan(key, disk, mem, r, w)
  BY DEF PlanInv, RunsPlan
<1>5. w.task \in Tasks /\ Sealed(disk, mem, w.task)
  BY <1>1, <1>2, <1>4, RunFields DEF RunPlan
<1>6. CASE v # "PASS" /\ Decide(c, r, w, i, v)
  <2> HIDE DEF w
  <2> QED
    BY <1>1, <1>2, <1>3, <1>4, <1>5, <1>6, DecidePlan DEF w
<1>7. CASE /\ Becomes(c, [Call("evidence", r, w, {}) EXCEPT !.seen = mem[w.task]])
           /\ UNCHANGED runs
  <2> DEFINE o == [Call("evidence", r, w, {}) EXCEPT !.seen = mem[w.task]]
  <2>1. o.at = "evidence" /\ o.work = w /\ o.seen = mem[w.task]
    BY DEF Call
  <2>2. mem[w.task] \in Terminal => disk[w.task] = mem[w.task]
    BY <1>5, MemSealed
  <2> HIDE DEF o
  <2>3. CallPlan(key, disk, mem, o)
    BY <1>5, <2>1, <2>2 DEF CallPlan
  <2>4. CallPlan(key', disk', mem', o)
    BY <1>1, <2>3
  <2>5. Stable /\ LiveCurrent'
    BY <1>7, SameUnmoved, CalmStable, LiveKept DEF PlanInv
  <2> QED
    BY <1>1, <1>7, <2>4, <2>5, PlanMove DEF o
<1> QED
  BY <1>6, <1>7 DEF SubmitAudit

LEMMA EvidencePlan ==
    ASSUME Inv, RecordInv, PlanInv, AtMostOneTask, Calm, NEW c \in Calls, Evidence(c)
    PROVE  PlanInv'
<1> DEFINE o == op[c]
           w == o.work
           i == CurrentAudit(w)
<1>1. o.at = "evidence" /\ o.at \in Sync \cup Await /\ UNCHANGED lane
  BY DEF Evidence, Await
<1>2. /\ o # NoOp /\ o \in GoodOp /\ o.run \in Runs /\ w \in Run /\ w.step < Steps
      /\ CallPlan(key, disk, mem, o) /\ Current(o, runs[o.run])
      /\ RunPlan(key, disk, mem, o.run, runs[o.run])
  BY <1>1, CallRun, InCall DEF Inv
<1>3. /\ w.task = runs[o.run].task /\ w.step = runs[o.run].step
      /\ w.attempt = runs[o.run].attempt /\ w.audits = runs[o.run].audits
      /\ w.state = runs[o.run].state
  BY <1>1, <1>2 DEF Current
<1>4. i \in DOMAIN w.audits /\ w.audits[i].task = w.task /\ w.audits[i].verdict = "none"
  BY <1>1, <1>2 DEF GoodOp, CurrentAudit
<1>5. w.task \in Tasks
  BY <1>2, <1>4, AuditFields
<1>6. RunPlan(key, disk, mem, o.run, w)
  BY <1>2, <1>3, RunPlanSame
<1>7. CASE ~Blocked(o.seen) /\ Decide(c, o.run, w, i, "PASS")
  <2>1. Sealed(disk, mem, w.task) /\ disk[w.task] = "completed"
    BY <1>1, <1>2, <1>7, SMT DEF CallPlan, Blocked, Terminal
  <2> HIDE DEF i, w, o
  <2> QED
    BY <1>1, <1>2, <1>3, <1>4, <1>5, <1>6, <1>7, <2>1, DecidePlan DEF Verdict, o
<1>8. CASE Becomes(c, Done(o)) /\ UNCHANGED runs
  <2>1. Stable /\ LiveCurrent'
    BY <1>8, SameUnmoved, CalmStable, LiveKept DEF PlanInv
  <2> QED
    BY <1>2, <1>8, <2>1, DonePlan, PlanMove
<1> QED
  BY <1>7, <1>8 DEF Evidence

LEMMA RecoverNextPlan ==
    ASSUME Inv, RecordInv, PlanInv, Calm, NEW c \in Calls, NEW r \in Runs, RecoverNext(c, r)
    PROVE  PlanInv'
<1>1. /\ op[c].at = "next" /\ runs' = runs
      /\ Becomes(c, Call("advance", r, runs[r], op[c].rest \ {r}))
  BY DEF RecoverNext
<1>2. op[c] # NoOp
  BY <1>1, SMT DEF NoOp
<1>3. Stable /\ LiveCurrent'
  BY <1>1, SameUnmoved, CalmStable, LiveKept DEF PlanInv
<1> QED
  BY <1>1, <1>2, <1>3, AdvancePlan, PlanMove

\* A call ends its advance without a save.
LEMMA ReturnPlan ==
    ASSUME Inv, RecordInv, PlanInv, Calm, NEW c \in Calls, op[c] \in GoodOp, op[c] # NoOp,
           Becomes(c, Done(op[c])), UNCHANGED runs
    PROVE  PlanInv'
<1>1. Stable /\ LiveCurrent'
  BY SameUnmoved, CalmStable, LiveKept DEF PlanInv
<1> QED
  BY <1>1, DonePlan, PlanMove

\* A call saves its run in a state that is not WAITING_AUDIT.
LEMMA StatePlan ==
    ASSUME Inv, RecordInv, PlanInv, Calm, NEW c \in Calls,
           op[c].at \in {"advance", "resolve", "submit", "view"},
           NEW s, s # "WAITING_AUDIT",
           NEW o, Becomes(c, o), CallPlan(key', disk', mem', o),
           Save(op[c].run, [op[c].work EXCEPT !.state = s])
    PROVE  PlanInv'
<1> DEFINE r == op[c].run
           w == op[c].work
           u == [w EXCEPT !.state = s]
<1>1. op[c].at \in Sync \cup Await /\ op[c].at \notin {"next", "pump", "bind"}
  BY DEF Sync, Await
<1>2. /\ op[c] # NoOp /\ r \in Runs /\ w \in Run /\ Current(op[c], runs[r])
      /\ RunPlan(key, disk, mem, r, runs[r])
  BY <1>1, CallRun
<1>3. /\ w.task = runs[r].task /\ w.step = runs[r].step /\ w.attempt = runs[r].attempt
      /\ w.audits = runs[r].audits
  BY <1>1, <1>2 DEF Current
<1>4. /\ u.task = runs[r].task /\ u.step = runs[r].step /\ u.attempt = runs[r].attempt
      /\ u.audits = runs[r].audits /\ u.state = s
  BY <1>2, <1>3 DEF Run
<1> HIDE DEF u
<1>5. Save(r, u)
  BY DEF u
<1> HIDE DEF r, w
<1>6. Stable /\ LiveCurrent'
  BY <1>2, <1>4, <1>5, SaveUnmoved, CalmStable, LiveKept DEF PlanInv
<1>7. runs[r] \in Run \cup {NoRun}
  BY <1>2 DEF Inv, OpInv, RunsInv, GoodRun
<1>8. RunPlan(key', disk', mem', r, runs[r])
  BY <1>2, <1>6, <1>7, RunKept
<1>9. RunPlan(key', disk', mem', r, u)
  BY <1>4, <1>8, RunPlanSame
<1> QED
  BY <1>2, <1>5, <1>6, <1>9, PlanSave

LEMMA AdvanceStepPlan ==
    ASSUME Inv, RecordInv, PlanInv, Calm, NEW c \in Calls, Advance(c)
    PROVE  PlanInv'
<1> DEFINE o == op[c]
           w == o.work
<1>1. o.at = "advance" /\ o.at \in Sync \cup Await /\ UNCHANGED lane
  BY DEF Advance, Sync
<1>2. o # NoOp /\ o \in GoodOp /\ o \in Op /\ w \in Run
  BY <1>1, CallRun
<1>3. CASE Becomes(c, Done(o)) /\ UNCHANGED runs
  BY <1>2, <1>3, ReturnPlan
<1>4. CASE Save(o.run, [w EXCEPT !.state = "BLOCKED"]) /\ Becomes(c, Done(o))
  <2>1. CallPlan(key', disk', mem', Done(o))
    BY <1>2, DonePlan
  <2> QED
    BY <1>1, <1>4, <2>1, StatePlan
<1>5. CASE w.state = "DISPATCHED" /\ Becomes(c, [o EXCEPT !.at = "submit"]) /\ UNCHANGED runs
  <2> DEFINE p == [o EXCEPT !.at = "submit"]
  <2>1. p.at = "submit" /\ p.work = w
    BY <1>2 DEF Op
  <2> HIDE DEF p
  <2>2. CallPlan(key', disk', mem', p)
    BY <1>5, <2>1 DEF CallPlan
  <2>3. Stable /\ LiveCurrent'
    BY <1>5, SameUnmoved, CalmStable, LiveKept DEF PlanInv
  <2> QED
    BY <1>2, <1>5, <2>2, <2>3, PlanMove DEF p
<1>6. CASE Becomes(c, [o EXCEPT !.at = "resolve"]) /\ UNCHANGED runs
  <2> DEFINE p == [o EXCEPT !.at = "resolve"]
  <2>1. p.at = "resolve"
    BY <1>2 DEF Op
  <2> HIDE DEF p
  <2>2. CallPlan(key', disk', mem', p)
    BY <2>1, PlaceFree
  <2>3. Stable /\ LiveCurrent'
    BY <1>6, SameUnmoved, CalmStable, LiveKept DEF PlanInv
  <2> QED
    BY <1>2, <1>6, <2>2, <2>3, PlanMove DEF p
<1>7. CASE /\ w.task # Nobody /\ UNCHANGED runs
           /\ Becomes(c, [o EXCEPT !.at = "view", !.seen = mem[w.task]])
  <2> DEFINE p == [o EXCEPT !.at = "view", !.seen = mem[w.task]]
  <2>1. w.task \in Tasks
    BY <1>2, <1>7, RunFields
  <2>2. p.at = "view"
    BY <1>2 DEF Op
  <2>3. p.work = w
    BY <1>2 DEF Op
  <2>4. p.seen = mem[w.task]
    BY <1>2 DEF Op
  <2> HIDE DEF p
  <2>5. mem[w.task] \in Terminal =>
          Sealed(disk, mem, w.task) /\ disk[w.task] = mem[w.task]
    BY <2>1, MemSealed
  <2>6. CallPlan(key, disk, mem, p)
    BY <2>2, <2>3, <2>4, <2>5 DEF CallPlan
  <2>7. CallPlan(key', disk', mem', p)
    BY <1>1, <2>6
  <2>8. Stable /\ LiveCurrent'
    BY <1>7, SameUnmoved, CalmStable, LiveKept DEF PlanInv
  <2> QED
    BY <1>2, <1>7, <2>7, <2>8, PlanMove DEF p
<1> QED
  BY <1>3, <1>4, <1>5, <1>6, <1>7 DEF Advance

LEMMA ResolvedPlan ==
    ASSUME Inv, RecordInv, PlanInv, Calm, NEW c \in Calls, Resolved(c)
    PROVE  PlanInv'
<1> DEFINE o == op[c]
           w == [o.work EXCEPT !.state = "DISPATCHED"]
           p == [o EXCEPT !.work = w, !.at = "submit"]
<1>1. o.at = "resolve" /\ Save(o.run, w) /\ Becomes(c, p)
  BY DEF Resolved
<1>2. o \in Op /\ o.work \in Run
  BY <1>1, CallRun DEF Await
<1>3. w.state = "DISPATCHED"
  BY <1>2 DEF Run
<1>4. p.at = "submit"
  BY <1>2 DEF Op
<1>5. p.work = w
  BY <1>2 DEF Op
<1>6. CallPlan(key', disk', mem', p)
  <2> HIDE DEF p, w
  <2> QED
    BY <1>3, <1>4, <1>5 DEF CallPlan
<1> HIDE DEF p
<1> QED
  BY <1>1, <1>6, StatePlan

LEMMA FailPlan ==
    ASSUME Inv, RecordInv, PlanInv, Calm, NEW c \in Calls,
           op[c].at \in {"resolve", "submit"}, Fail(c)
    PROVE  PlanInv'
<1>1. op[c] \in GoodOp
  BY CallRun DEF Sync, Await
<1>2. CallPlan(key', disk', mem', Done(op[c]))
  BY <1>1, DonePlan
<1> QED
  BY <1>2, StatePlan DEF Fail

LEMMA RetryPlan ==
    ASSUME Inv, RecordInv, PlanInv, Calm, NEW c \in Calls, Retry(c)
    PROVE  PlanInv'
<1>1. op[c].at \in Sync \cup Await /\ op[c].at # "next"
  BY DEF Retry, Sync, Await
<1> QED
  BY <1>1, CallRun, ReturnPlan DEF Retry

\* The place of a call with the id of its task, not saved yet.
LEMMA TaskIdPlace ==
    ASSUME Inv, PlanInv, NEW c \in Calls, op[c].at = "submit",
           NEW t \in Tasks, NEW at \in {"pump", "bind"},
           key'[t] = KeyOf(op[c].run, op[c].work)
    PROVE  CallPlan(key', disk', mem', [op[c] EXCEPT !.work.task = t, !.at = at])
<1> DEFINE o == op[c]
           p == [o EXCEPT !.work.task = t, !.at = at]
<1>1. o \in Op /\ o.work \in Run /\ o.work.state = "DISPATCHED"
  BY CallRun DEF Sync, CallPlan
<1>2. p.at = at /\ p.run = o.run
  BY <1>1, SMT DEF Op
<1>3. p.work = [o.work EXCEPT !.task = t]
  BY <1>1, SMT DEF Op
<1>4. /\ p.work.task = t /\ p.work.step = o.work.step /\ p.work.attempt = o.work.attempt
      /\ p.work.state = "DISPATCHED"
  BY <1>1, <1>3 DEF Run
<1>5. KeyOf(p.run, p.work) = KeyOf(o.run, o.work)
  BY <1>2, <1>4 DEF KeyOf
<1> HIDE DEF p
<1>6. CallPlan(key', disk', mem', p)
  BY <1>2, <1>4, <1>5 DEF CallPlan
<1> QED
  BY <1>6 DEF p

LEMMA SubmitAgainPlan ==
    ASSUME Inv, RecordInv, PlanInv, Calm, NEW c \in Calls, SubmitAgain(c)
    PROVE  PlanInv'
<1>1. Records
  BY DEF Records, RecordInv
<1>2. PICK t \in Tasks :
        /\ key'[t] = KeyOf(op[c].run, op[c].work)
        /\ Becomes(c, [op[c] EXCEPT !.work.task = t, !.at = "bind"])
  BY <1>1, SubmitAgainRecords
<1>3. op[c].at = "submit" /\ runs' = runs
  BY DEF SubmitAgain
<1>4. op[c] # NoOp
  BY <1>3, CallRun DEF Sync
<1>5. CallPlan(key', disk', mem', [op[c] EXCEPT !.work.task = t, !.at = "bind"])
  BY <1>2, <1>3, TaskIdPlace
<1>6. Stable /\ LiveCurrent'
  BY <1>3, SameUnmoved, CalmStable, LiveKept DEF PlanInv
<1> QED
  BY <1>2, <1>3, <1>4, <1>5, <1>6, PlanMove

LEMMA SubmitNewPlan ==
    ASSUME Inv, RecordInv, PlanInv, NEW c \in Calls, SubmitNew(c)
    PROVE  PlanInv'
<1> DEFINE k == KeyOf(op[c].run, op[c].work)
<1>1. Records /\ LaneType
  BY DEF Records, RecordInv, Inv
<1>2. PICK t \in Tasks :
        /\ disk[t] = "absent" /\ disk' = [disk EXCEPT ![t] = "queued"]
        /\ mem' = [mem EXCEPT ![t] = "queued"]
        /\ key' = [key EXCEPT ![t] = k]
        /\ Becomes(c, [op[c] EXCEPT !.work.task = t, !.at = "pump"])
  BY <1>1, SubmitNewRecords
<1>3. op[c].at = "submit" /\ runs' = runs
  BY DEF SubmitNew
<1>4. /\ op[c] # NoOp /\ op[c].run \in Runs
      /\ op[c].work.step = runs[op[c].run].step
      /\ op[c].work.attempt = runs[op[c].run].attempt
  BY <1>3, CallRun DEF Sync
<1>5. k = KeyOf(op[c].run, runs[op[c].run])
  BY <1>4 DEF KeyOf
<1>6. k.run = op[c].run
  BY DEF KeyOf
<1> HIDE DEF k
<1>7. key[t] = NoKey
  BY <1>2 DEF RecordInv, RecordsKeyed
<1>8. Stable
  BY <1>1, <1>2, <1>7, SMT DEF Stable, Sealed, LaneType, Terminal
<1>9. LiveCurrent'
  <2> SUFFICES ASSUME NEW u \in Tasks, Live(disk'[u])
               PROVE  key'[u] = KeyOf(key'[u].run, runs[key'[u].run])
    BY <1>3 DEF LiveCurrent
  <2>1. CASE u = t
    BY <1>1, <1>2, <1>5, <1>6, <2>1 DEF LaneType
  <2>2. CASE u # t
    BY <1>1, <1>2, <2>2 DEF LaneType, PlanInv, LiveCurrent
  <2> QED
    BY <2>1, <2>2
<1>10. CallPlan(key', disk', mem', [op[c] EXCEPT !.work.task = t, !.at = "pump"])
  <2>1. key'[t] = KeyOf(op[c].run, op[c].work)
    BY <1>1, <1>2 DEF LaneType, k
  <2> QED
    BY <1>3, <2>1, TaskIdPlace
<1> QED
  BY <1>2, <1>3, <1>4, <1>8, <1>9, <1>10, PlanMove

LEMMA SubmitPumpPlan ==
    ASSUME Inv, RecordInv, PlanInv, Calm, NEW c \in Calls, SubmitPump(c)
    PROVE  PlanInv'
<1> DEFINE o == op[c]
           p == [o EXCEPT !.at = "bind"]
<1>1. o.at = "pump" /\ Becomes(c, p) /\ runs' = runs
  BY DEF SubmitPump
<1>2. o # NoOp /\ o \in GoodOp /\ o \in Op /\ CallPlan(key, disk, mem, o)
  BY <1>1, CallRun DEF Sync
<1>3. p.at = "bind" /\ p.work = o.work /\ p.run = o.run
  BY <1>2, SMT DEF Op
<1>4. Stable /\ LiveCurrent'
  BY <1>1, SameUnmoved, CalmStable, LiveKept DEF PlanInv
<1>5. CallPlan(key', disk', mem', o)
  BY <1>2, <1>4, CallKept
<1> HIDE DEF p
<1>6. CallPlan(key', disk', mem', p)
  BY <1>1, <1>3, <1>5 DEF CallPlan
<1> QED
  BY <1>1, <1>2, <1>4, <1>6, PlanMove

\* The run w that names the task of its attempt.
LEMMA RunPlanBound ==
    ASSUME NEW k, NEW d, NEW m, NEW r, NEW w, NEW u, RunPlan(k, d, m, r, u),
           w.step = u.step, w.audits = u.audits,
           w.state = "DISPATCHED", k[w.task] = KeyOf(r, w)
    PROVE  RunPlan(k, d, m, r, w)
  BY SMT DEF RunPlan

LEMMA BindPlan ==
    ASSUME Inv, RecordInv, PlanInv, Calm, NEW c \in Calls, Bind(c)
    PROVE  PlanInv'
<1> DEFINE o == op[c]
           w == o.work
           p == [o EXCEPT !.at = "view", !.seen = mem[w.task]]
<1>1. o.at = "bind" /\ Becomes(c, p) /\ Save(o.run, w) /\ UNCHANGED lane
  BY DEF Bind
<1>2. /\ o # NoOp /\ o \in GoodOp /\ o \in Op /\ o.run \in Runs
      /\ CallPlan(key, disk, mem, o) /\ RunPlan(key, disk, mem, o.run, runs[o.run])
      /\ w.step = runs[o.run].step /\ w.attempt = runs[o.run].attempt
      /\ w.audits = runs[o.run].audits
  BY <1>1, CallRun DEF Await
<1>3. w.task \in Tasks /\ w.state = "DISPATCHED" /\ key[w.task] = KeyOf(o.run, w)
  BY <1>1, <1>2 DEF GoodOp, CallPlan
<1>4. RunPlan(key, disk, mem, o.run, w)
  BY <1>2, <1>3, RunPlanBound
<1>5. RunPlan(key', disk', mem', o.run, w)
  BY <1>1, <1>4
<1>6. Stable /\ LiveCurrent'
  BY <1>1, <1>2, SaveUnmoved, CalmStable, LiveKept DEF PlanInv
<1>7. p.at = "view"
  BY <1>2 DEF Op
<1>8. p.work = w
  BY <1>2 DEF Op
<1>9. p.seen = mem[w.task]
  BY <1>2 DEF Op
<1>10. mem[w.task] \in Terminal =>
         Sealed(disk, mem, w.task) /\ disk[w.task] = mem[w.task]
  BY <1>3, MemSealed
<1> HIDE DEF p
<1>11. CallPlan(key, disk, mem, p)
  BY <1>7, <1>8, <1>9, <1>10 DEF CallPlan
<1>12. CallPlan(key', disk', mem', p)
  BY <1>1, <1>11
<1> QED
  BY <1>1, <1>2, <1>5, <1>6, <1>12, PlanSave

\* The audit of an ended task is one of its run's current attempt.
LEMMA WithAuditPlan ==
    ASSUME NEW k, NEW d, NEW m, NEW r, NEW w \in Run, RunPlan(k, d, m, r, w),
           w.task # Nobody, Sealed(d, m, w.task), NEW s
    PROVE  /\ RunPlan(k, d, m, r, WithAudit(w, s))
           /\ WithAudit(w, s).step = w.step /\ WithAudit(w, s).attempt = w.attempt
<1> DEFINE a == [step |-> w.step, attempt |-> w.attempt, task |-> w.task,
                 blocked |-> Blocked(s), claimed |-> FALSE, verdict |-> "none"]
<1>1. a.task = w.task /\ a.step = w.step /\ a.attempt = w.attempt /\ a.verdict = "none"
  OBVIOUS
<1> HIDE DEF a
<1>2. PICK q \in {w.audits, Append(w.audits, a)} :
        WithAudit(w, s) = [w EXCEPT !.state = "WAITING_AUDIT", !.audits = q]
  BY DEF WithAudit, a
<1> DEFINE u == WithAudit(w, s)
<1>3. u.audits = q
  BY <1>2 DEF Run
<1>4. u.task = w.task
  BY <1>2 DEF Run
<1>5. u.step = w.step /\ u.attempt = w.attempt
  BY <1>2 DEF Run
<1> HIDE DEF u
<1>6. w.audits \in Seq(Audit)
  BY RunFields
<1>7. \A i \in DOMAIN q : (i \in DOMAIN w.audits /\ q[i] = w.audits[i]) \/ q[i] = a
  BY <1>2, <1>6
<1>8. \A i \in DOMAIN w.audits : i \in DOMAIN q /\ q[i] = w.audits[i]
  BY <1>2, <1>6
<1>9. k[w.task] = [run |-> r, step |-> w.step, attempt |-> w.attempt]
  BY DEF RunPlan, KeyOf
<1>10. KeyOf(r, u) = KeyOf(r, w)
  BY <1>5 DEF KeyOf
<1>11. \A i \in DOMAIN q :
         k[q[i].task] = [run |-> r, step |-> q[i].step, attempt |-> q[i].attempt]
  BY <1>1, <1>7, <1>9 DEF RunPlan
<1>12. \A i \in DOMAIN q : q[i].verdict = "PASS" =>
         Sealed(d, m, q[i].task) /\ d[q[i].task] = "completed"
  BY <1>1, <1>7 DEF RunPlan
<1>13. \A z \in 0 .. w.step - 1 : \E i \in DOMAIN q :
         q[i].step = z /\ q[i].verdict = "PASS"
  <2> SUFFICES ASSUME NEW z \in 0 .. w.step - 1
               PROVE  \E i \in DOMAIN q : q[i].step = z /\ q[i].verdict = "PASS"
    OBVIOUS
  <2>1. PICK i \in DOMAIN w.audits : w.audits[i].step = z /\ w.audits[i].verdict = "PASS"
    BY DEF RunPlan
  <2> QED
    BY <1>8, <2>1
<1>14. RunPlan(k, d, m, r, u)
  BY <1>3, <1>4, <1>5, <1>9, <1>10, <1>11, <1>12, <1>13 DEF RunPlan, KeyOf
<1> QED
  BY <1>5, <1>14 DEF u

LEMMA ObservePlan ==
    ASSUME Inv, RecordInv, PlanInv, Calm, NEW c \in Calls, Observe(c)
    PROVE  PlanInv'
<1> DEFINE o == op[c]
           w == o.work
<1>1. o.at = "view" /\ Becomes(c, Done(o)) /\ UNCHANGED lane
  BY DEF Observe
<1>2. /\ o # NoOp /\ o \in GoodOp /\ o.run \in Runs /\ w \in Run
      /\ CallPlan(key, disk, mem, o) /\ Current(o, runs[o.run])
      /\ RunPlan(key, disk, mem, o.run, runs[o.run])
  BY <1>1, CallRun DEF Await
<1>3. CallPlan(key', disk', mem', Done(o))
  BY <1>2, DonePlan
<1>4. CASE Ended(o.seen) /\ Save(o.run, WithAudit(w, o.seen))
  <2>1. w.task \in Tasks /\ Sealed(disk, mem, w.task)
    BY <1>1, <1>2, <1>4 DEF GoodOp, CallPlan, Ended
  <2>2. RunPlan(key, disk, mem, o.run, w)
    BY <1>1, <1>2, RunPlanSame DEF Current
  <2>3. /\ RunPlan(key, disk, mem, o.run, WithAudit(w, o.seen))
        /\ WithAudit(w, o.seen).step = w.step /\ WithAudit(w, o.seen).attempt = w.attempt
    BY <1>2, <2>1, <2>2, WithAuditPlan DEF Tasks, Nobody
  <2>4. w.step = runs[o.run].step /\ w.attempt = runs[o.run].attempt
    BY <1>1, <1>2 DEF Current
  <2>5. Stable /\ LiveCurrent'
    BY <1>2, <1>4, <2>3, <2>4, SaveUnmoved, CalmStable, LiveKept DEF PlanInv
  <2>6. RunPlan(key', disk', mem', o.run, WithAudit(w, o.seen))
    BY <1>1, <2>3
  <2> QED
    BY <1>1, <1>2, <1>3, <1>4, <2>5, <2>6, PlanSave
<1>5. CASE Save(o.run, [w EXCEPT !.state = "RUNNING"])
  BY <1>1, <1>3, <1>5, StatePlan
<1>6. CASE UNCHANGED runs
  BY <1>1, <1>2, <1>6, ReturnPlan
<1> QED
  BY <1>4, <1>5, <1>6 DEF Observe

-----------------------------------------------------------------------------
(* Every step *)

LEMMA ProceedPlan ==
    ASSUME Inv, RecordInv, PlanInv, AtMostOneTask, Calm, NEW c \in Calls, Proceed(c),
           ~SubmitNew(c)
    PROVE  PlanInv'
<1>1. CASE \E r \in Runs : RecoverNext(c, r)
  BY <1>1, RecoverNextPlan
<1>2. CASE Advance(c)
  BY <1>2, AdvanceStepPlan
<1>3. CASE Resolved(c)
  BY <1>3, ResolvedPlan
<1>4. CASE Unresolvable(c)
  BY <1>4, FailPlan DEF Unresolvable
<1>5. CASE SubmitAgain(c)
  BY <1>5, SubmitAgainPlan
<1>6. CASE SubmitPump(c)
  BY <1>6, SubmitPumpPlan
<1>7. CASE SubmitRejected(c)
  BY <1>7, FailPlan DEF SubmitRejected
<1>8. CASE Retry(c)
  BY <1>8, RetryPlan
<1>9. CASE Bind(c)
  BY <1>9, BindPlan
<1>10. CASE Observe(c)
  BY <1>10, ObservePlan
<1>11. CASE Evidence(c)
  BY <1>11, EvidencePlan
<1> QED
  BY <1>1, <1>2, <1>3, <1>4, <1>5, <1>6, <1>7, <1>8, <1>9, <1>10, <1>11 DEF Proceed

LEMMA NextPlan ==
    ASSUME Inv, RecordInv, PlanInv, AtMostOneTask, [Next]_vars PROVE PlanInv'
<1>1. CASE \E c \in Calls : SubmitNew(c)
  BY <1>1, SubmitNewPlan
<1>2. CASE ~\E c \in Calls : SubmitNew(c)
  <2>1. Calm
    BY <1>2, NextRecords
  <2>2. CASE \E c \in Calls, r \in Runs : Create(c, r)
    BY <2>1, <2>2, CreatePlan
  <2>3. CASE \E c \in Calls, r \in Runs, p \in BOOLEAN : SetPaused(c, r, p)
    BY <2>1, <2>3, SetPausedPlan
  <2>4. CASE \E r \in Runs : \E i \in DOMAIN runs[r].audits : Claim(r, i)
    BY <2>1, <2>4, ClaimPlan
  <2>5. CASE \E c \in Calls, r \in Runs, v \in Verdict :
               \E i \in DOMAIN runs[r].audits : SubmitAudit(c, r, i, v)
    BY <2>1, <2>5, SubmitAuditPlan
  <2>6. CASE \E c \in Calls : Recover(c)
    BY <2>1, <2>6, RecoverPlan
  <2>7. CASE \E c \in Calls : Proceed(c)
    BY <1>2, <2>1, <2>7, ProceedPlan
  <2>8. CASE Crash
    BY <2>1, <2>8, CrashPlan
  <2>9. CASE \/ Pump \/ Finish \/ Boot \/ UNCHANGED vars
             \/ \E t \in Tasks : Cancel(t)
             \/ \E b \in BOOLEAN : SetProductPaused(b) \/ SetAuthorized(b)
    <3>1. UNCHANGED <<runs, op>>
      BY <2>9, Zenon DEF Pump, Finish, Boot, Cancel, vars, SetProductPaused, SetAuthorized
    <3> QED
      BY <2>1, <3>1, PlanRest
  <2> QED
    BY <2>2, <2>3, <2>4, <2>5, <2>6, <2>7, <2>8, <2>9, Zenon DEF Next
<1> QED
  BY <1>1, <1>2

LEMMA InitPlan == Init => RecordInv /\ PlanInv /\ AtMostOneTask
<1> SUFFICES ASSUME Init PROVE RecordInv /\ PlanInv /\ AtMostOneTask
  OBVIOUS
<1>1. RecordInv
  <2>1. MemTruth /\ ActiveLive /\ RecordsKeyed
    BY SMT DEF Init, MemTruth, ActiveLive, RecordsKeyed, Terminal
  <2>2. PumpTask /\ DownIdle
    BY NoOpIsIdle, Zenon DEF Init, PumpTask, DownIdle, Sync
  <2> QED
    BY <2>1, <2>2 DEF RecordInv
<1>2. RunsPlan
  <2> SUFFICES ASSUME NEW r \in Runs PROVE RunPlan(key, disk, mem, r, runs[r])
    BY DEF RunsPlan
  <2>1. runs[r] = NoRun
    BY DEF Init
  <2>2. /\ NoRun.task = Nobody /\ NoRun.state # "WAITING_AUDIT"
        /\ DOMAIN NoRun.audits = {} /\ 0 .. NoRun.step - 1 = {}
    BY SMT DEF NoRun
  <2> QED
    BY <2>1, <2>2, SMT DEF RunPlan
<1>3. CallsPlan
  <2>1. \A c \in Calls : op[c] = NoOp
    BY DEF Init
  <2>2. NoOp.at \notin {"submit", "pump", "bind", "view", "evidence"}
    BY NoOpIsIdle
  <2> QED
    BY <2>1, <2>2, Zenon DEF CallsPlan, CallPlan
<1>4. LiveCurrent
  BY SMT DEF Init, LiveCurrent, Live, Status, Terminal
<1>5. AtMostOneTask
  BY DEF Init, AtMostOneTask
<1> QED
  BY <1>1, <1>2, <1>3, <1>4, <1>5 DEF PlanInv

LEMMA LaneInvariance == Spec => [](Inv /\ RecordInv /\ PlanInv /\ AtMostOneTask)
<1> DEFINE J == Inv /\ RecordInv /\ PlanInv /\ AtMostOneTask
<1>1. Init => J
  BY InitInv, InitPlan
<1>2. J /\ [Next]_vars => J'
  BY NextInv, NextRecords, NextPlan, AdmissionStep
<1> QED
  BY <1>1, <1>2, PTL DEF Spec

-----------------------------------------------------------------------------
(* Theorems *)

\* A run never has two tasks alive, for every instance: a task that is alive
\* belongs to the current attempt of its run, and an attempt has one task.
THEOREM OneTaskAlive == Spec => []NoTwoLive
<1>1. Inv /\ RecordInv /\ PlanInv /\ AtMostOneTask => NoTwoLive
  <2> SUFFICES ASSUME Inv, RecordInv, PlanInv, AtMostOneTask,
                      NEW t \in Tasks, NEW u \in Tasks,
                      Live(disk[t]), Live(disk[u]), key[t].run = key[u].run
               PROVE  t = u
    BY DEF NoTwoLive
  <2>1. key[t] # NoKey
    BY LiveKeyed
  <2>2. key[t] = key[u]
    BY DEF PlanInv, LiveCurrent
  <2> QED
    BY <2>1, <2>2 DEF AtMostOneTask
<1> QED
  BY <1>1, LaneInvariance, PTL

\* A step that a run has left behind was passed on a task that is durably
\* completed, for every instance: PASS is decided on a sealed task, and no
\* later cancellation, crash or repair reaches a sealed task.
THEOREM PassesNeedEvidence == Spec => []PassNeedsEvidence
<1>1. PlanInv => PassNeedsEvidence
  <2> SUFFICES ASSUME PlanInv, NEW r \in Runs, NEW s \in 0 .. runs[r].step - 1
               PROVE  \E i \in DOMAIN runs[r].audits :
                        /\ runs[r].audits[i].step = s
                        /\ runs[r].audits[i].verdict = "PASS"
                        /\ disk[runs[r].audits[i].task] = "completed"
    BY DEF PassNeedsEvidence
  <2>1. RunPlan(key, disk, mem, r, runs[r])
    BY DEF PlanInv, RunsPlan
  <2>2. PICK i \in DOMAIN runs[r].audits :
          runs[r].audits[i].step = s /\ runs[r].audits[i].verdict = "PASS"
    BY <2>1 DEF RunPlan
  <2>3. disk[runs[r].audits[i].task] = "completed"
    BY <2>1, <2>2 DEF RunPlan
  <2> QED
    BY <2>2, <2>3
<1> QED
  BY <1>1, LaneInvariance, PTL

\* No task is admitted for a run whose pause is durable, for every instance:
\* a call about to admit holds the current copy of its run.
THEOREM PauseStopsAdmission == Spec => PausePreventsDispatch
<1> DEFINE A == \A t \in Tasks : disk[t] = "absent" /\ disk'[t] # "absent" =>
                  ~runs[key'[t].run].paused
<1>1. Inv /\ RecordInv /\ PlanInv /\ [Next]_vars => A
  <2> SUFFICES ASSUME Inv, RecordInv, PlanInv, [Next]_vars,
                      NEW t \in Tasks, disk[t] = "absent", disk'[t] # "absent"
               PROVE  ~runs[key'[t].run].paused
    OBVIOUS
  <2>1. ~Calm
    BY DEF Calm
  <2>2. PICK c \in Calls : SubmitNew(c)
    BY <2>1, NextRecords
  <2>3. op[c].at = "submit" /\ op[c].at \in Sync \cup Await /\ op[c].at # "next"
    BY <2>2 DEF SubmitNew, Sync
  <2>4. op[c] \in GoodOp /\ Current(op[c], runs[op[c].run])
    BY <2>3, CallRun
  <2>5. ~runs[op[c].run].paused
    BY <2>3, <2>4 DEF GoodOp, Current
  <2>6. PICK u \in Tasks : /\ disk' = [disk EXCEPT ![u] = "queued"]
                           /\ key' = [key EXCEPT ![u] = KeyOf(op[c].run, op[c].work)]
    BY <2>2, SubmitNewRecords DEF Records, RecordInv
  <2>7. LaneType
    BY DEF Inv
  <2>8. t = u
    BY <2>6, <2>7 DEF LaneType
  <2>9. key'[t] = KeyOf(op[c].run, op[c].work)
    BY <2>6, <2>7, <2>8, Zenon DEF LaneType
  <2> QED
    BY <2>5, <2>9 DEF KeyOf
<1>2. Inv /\ RecordInv /\ PlanInv /\ [Next]_vars => [A]_vars
  BY <1>1
<1> QED
  BY <1>2, LaneInvariance, PTL DEF Spec, PausePreventsDispatch
=============================================================================
