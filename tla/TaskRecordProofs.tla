------------------------- MODULE TaskRecordProofs --------------------------
(***************************************************************************)
(* Proofs about the records of TaskManager: which durable record may       *)
(* replace which, whatever handlers, crashes and failed writes interleave. *)
(* Every step is one of a few kinds of step (a handler that plans its      *)
(* writes, one of those writes, a death, a boot); each kind preserves the  *)
(* inductive invariant RecInv.                                             *)
(***************************************************************************)
EXTENDS TaskManagerProofs

\* A record that left the queue, a record that exists, and the statuses nothing
\* replaces: only the cancelled record of a Gemini task can be overwritten.
Past(r) == r.status \notin {"absent", "queued"}
Known(r) == r.status # "absent"
CancelSafe(r) == r.cancel /\ IsTerminal(r) => r.status = "cancelled"

\* The record e of task t may replace d.
Follows(t, d, e) == (Final(t, d) => e.status = d.status) /\ (Past(d) => Past(e))

Writes(s) == {i \in DOMAIN s : s[i].op = "write"}

(***************************************************************************)
(* What the rest s of a handler may hold when the disk has the record d of *)
(* task t, the audit log the lines of t, and the memory the record m.  A   *)
(* handler writes one task and ends with at most one other operation; its  *)
(* writes may replace each other in their order and end with m; an audit   *)
(* line says what the record written just before it says.                  *)
(***************************************************************************)
OneTask(t, s) ==
    /\ \A i \in DOMAIN s : s[i].op # "pump" => s[i].task = t
    /\ \A i \in DOMAIN s : s[i].op \in {"pump", "stopped", "execute"} => i = Len(s)
WritesFollow(t, s, d, m) ==
    /\ \A i \in Writes(s) : CancelSafe(s[i].rec) /\ Follows(t, d, s[i].rec) /\ Known(m)
    /\ \A i, j \in Writes(s) : i < j => Follows(t, s[i].rec, s[j].rec)
    /\ \A i \in Writes(s) : (\A j \in Writes(s) : j <= i) => s[i].rec = m
LinesFollow(t, s, d, lines) ==
    \A i \in DOMAIN s : s[i].op = "append" =>
        /\ i = 1 => d.status = s[i].status
        /\ i > 1 => s[i - 1].op = "write" /\ s[i - 1].rec.status = s[i].status
        /\ lines = <<>> \/ t \in Gemini
        /\ \A j \in DOMAIN s : s[j].op = "append" => j = i
Rest(t, s, d, m, lines) ==
    OneTask(t, s) /\ WritesFollow(t, s, d, m) /\ LinesFollow(t, s, d, lines)

\* cancel() of a Gemini task waits for antigravityBackend.cancel.
Called(t) == \E s \in stops : s.task = t /\ s.stage = "called"

InSync(t) == mem[t].status = disk[t].status

\* The handler that runs, and the records outside it: memory and disk agree.
HandlerKept ==
    /\ \E t \in Tasks : Rest(t, todo, disk[t], mem[t], log[t])
    /\ life = "down" => todo = <<>> /\ stops = {}
    /\ life # "down" =>
         \A t \in Tasks : InSync(t) \/ \E i \in Writes(todo) : todo[i].task = t
    /\ life = "closed" => \A i \in Writes(todo) : Past(disk[todo[i].task])

CancelsKept ==
    /\ CancelWins
    /\ \A t \in Tasks : Called(t) => mem[t].cancel /\ t \in Gemini
    /\ \A t \in unloaded : Known(mem[t])

LinesTrue ==
    \A t \in Tasks : log[t] # <<>> =>
        /\ Past(disk[t])
        /\ LineOf(t) # "cancelled" \/ t \notin Gemini => disk[t].status = LineOf(t)
        /\ t \notin Gemini => Len(log[t]) = 1

TurnsKept ==
    /\ \A t \in Tasks : turns[t] <= 1 /\ (turns[t] > 0 => Past(disk[t]))
    /\ active # Nobody /\ pc \in {"spawn", "thread"} => turns[active] = 0
    /\ \A i \in DOMAIN todo : todo[i].op = "execute"
         => active = todo[i].task /\ pc = "gemini" /\ turns[todo[i].task] = 0
    /\ active # Nobody => Past(mem[active])

OrderKept ==
    \A t, u \in Tasks : t < u =>
        /\ Known(mem[u]) => Known(mem[t])
        /\ Known(disk[u]) => Known(disk[t])
        /\ active = u => Past(mem[t])
        /\ turns[u] > 0 => Past(disk[t])

RecInv ==
    /\ HandlerKept /\ CancelsKept /\ LinesTrue /\ TurnsKept /\ OrderKept
    /\ StoppedRunNotCompleted

\* A handler that started with no write left: it touches the record of one task
\* and leaves the writes that follow in todo.
Handles(t) ==
    /\ life # "down" /\ life' # "down" /\ Writes(todo) = {}
    /\ UNCHANGED <<disk, log, turns>>
    /\ \A u \in Tasks \ {t} : mem'[u] = mem[u]
    /\ unloaded' \subseteq unloaded
    /\ Rest(t, todo', disk[t], mem'[t], log[t])
    /\ CancelSafe(mem'[t])
    /\ Past(mem[t]) => Past(mem'[t])
    /\ Known(mem[t]) => Known(mem'[t])
    /\ mem[t].cancel => mem'[t].cancel
    /\ Writes(todo') = {} => mem'[t].status = mem[t].status
    /\ Known(mem'[t]) /\ ~Known(mem[t]) => \A u \in Tasks : u < t => Known(mem[u])
    /\ \A u \in Tasks : Called(u)' => Called(u) \/ (u = t /\ t \in Gemini /\ mem'[t].cancel)
    /\ \/ active' \in {active, Nobody}
       \/ active' = t /\ Past(mem'[t]) /\ \A u \in Tasks : u < t => Past(mem[u])
    /\ active' # Nobody /\ pc' \in {"spawn", "thread"}
         => (active' = active /\ pc \in {"spawn", "thread"}) \/ (active' = t /\ turns[t] = 0)
    /\ \A i \in DOMAIN todo' : todo'[i].op = "execute"
         => active' = t /\ pc' = "gemini" /\ turns[t] = 0
    /\ life' = "closed" /\ Writes(todo') # {} => Past(disk[t])

\* Nothing that RecInv speaks of changes.
Idles == UNCHANGED <<disk, log, mem, turns, todo, life, unloaded, stops, active, pc, rt>>

USE DEF durable, queue, run, server, boot, budget

-----------------------------------------------------------------------------
(* What a handler may plan *)

\* A handler may end without a durable write.
LEMMA RestOfNone ==
    ASSUME NEW t \in Tasks, NEW d, NEW m, NEW lines
    PROVE  Rest(t, <<>>, d, m, lines) /\ Writes(<<>>) = {}
  BY DEF Rest, OneTask, WritesFollow, LinesFollow, Writes

\* A handler may end with one operation that is no durable write.
LEMMA RestOfOne ==
    ASSUME NEW t \in Tasks, NEW d, NEW m, NEW lines,
           NEW e, e.op \in {"pump", "stopped", "execute"}, e.op # "pump" => e.task = t
    PROVE  Rest(t, <<e>>, d, m, lines) /\ Writes(<<e>>) = {}
  BY DEF Rest, OneTask, WritesFollow, LinesFollow, Writes

\* A handler may write one record.
LEMMA RestOfWrite ==
    ASSUME NEW t \in Tasks, NEW d, NEW m, NEW lines,
           CancelSafe(m), Follows(t, d, m), Known(m)
    PROVE  Rest(t, <<Write(t, m)>>, d, m, lines) /\ Writes(<<Write(t, m)>>) = {1}
<1> DEFINE s == <<Write(t, m)>>
<1>1. DOMAIN s = {1} /\ Len(s) = 1 /\ s[1].op = "write" /\ s[1].task = t /\ s[1].rec = m
  BY DEF Write
<1> HIDE DEF s
<1>2. Writes(s) = {1}
  BY <1>1 DEF Writes
<1>3. OneTask(t, s) /\ WritesFollow(t, s, d, m) /\ LinesFollow(t, s, d, lines)
  BY <1>1, <1>2 DEF OneTask, WritesFollow, LinesFollow
<1>4. Rest(t, s, d, m, lines) /\ Writes(s) = {1}
  BY <1>2, <1>3 DEF Rest
<1>5. QED BY <1>4 DEF s

\* A handler may do something else after its only write.
LEMMA RestOfWriteThen ==
    ASSUME NEW t \in Tasks, NEW d, NEW m, NEW lines,
           CancelSafe(m), Follows(t, d, m), Known(m),
           NEW e, e.op \in {"pump", "stopped", "execute"}, e.op # "pump" => e.task = t
    PROVE  Rest(t, <<Write(t, m), e>>, d, m, lines) /\ Writes(<<Write(t, m), e>>) = {1}
<1> DEFINE s == <<Write(t, m), e>>
<1>1. DOMAIN s = {1, 2} /\ Len(s) = 2 /\ s[1].op = "write" /\ s[1].task = t
      /\ s[1].rec = m /\ s[2] = e
  BY DEF Write
<1> HIDE DEF s
<1>2. Writes(s) = {1}
  BY <1>1 DEF Writes
<1>3. OneTask(t, s) /\ WritesFollow(t, s, d, m) /\ LinesFollow(t, s, d, lines)
  BY <1>1, <1>2 DEF OneTask, WritesFollow, LinesFollow
<1>4. Rest(t, s, d, m, lines) /\ Writes(s) = {1}
  BY <1>2, <1>3 DEF Rest
<1>5. QED BY <1>4 DEF s

\* Sequences of one operation, put together.
LEMMA OneAndOne ==
    ASSUME NEW x, NEW y, NEW z
    PROVE  /\ <<>> \o <<x>> = <<x>> /\ <<x>> \o <<>> = <<x>>
           /\ <<x>> \o <<y>> = <<x, y>>
           /\ <<x>> \o <<y, z>> = <<x, y, z>> /\ <<x, y>> \o <<z>> = <<x, y, z>>
<1> DEFINE S == {x, y, z}
<1>1. <<>> \in Seq(S) /\ <<x>> \in Seq(S) /\ <<y>> \in Seq(S) /\ <<z>> \in Seq(S)
      /\ <<x, y>> \in Seq(S) /\ <<y, z>> \in Seq(S) /\ <<x, z>> \in Seq(S) /\ <<x, y, z>> \in Seq(S)
  OBVIOUS
<1>2. \A p, q \in Seq(S) : /\ p \o q \in Seq(S) /\ Len(p \o q) = Len(p) + Len(q)
                          /\ \A i \in 1 .. Len(p) + Len(q) :
                               (p \o q)[i] = IF i <= Len(p) THEN p[i] ELSE q[i - Len(p)]
  BY ConcatProperties
<1>3. \A p, q \in Seq(S) : Len(p) = Len(q) /\ (\A i \in 1 .. Len(p) : p[i] = q[i]) => p = q
  BY SeqEqual
<1>4. \A p, q, r \in Seq(S) :
        /\ Len(r) = Len(p) + Len(q)
        /\ \A i \in 1 .. Len(r) : r[i] = IF i <= Len(p) THEN p[i] ELSE q[i - Len(p)]
        => p \o q = r
  <2> SUFFICES ASSUME NEW p \in Seq(S), NEW q \in Seq(S), NEW r \in Seq(S),
                      Len(r) = Len(p) + Len(q),
                      \A i \in 1 .. Len(r) : r[i] = IF i <= Len(p) THEN p[i] ELSE q[i - Len(p)]
               PROVE  p \o q = r
    BY Zenon
  <2> DEFINE pq == p \o q
             len == Len(p) + Len(q)
  <2>1. pq \in Seq(S) /\ Len(pq) = len
        /\ \A i \in 1 .. len : pq[i] = IF i <= Len(p) THEN p[i] ELSE q[i - Len(p)]
    BY <1>2, Zenon
  <2>2. Len(r) = len
    OBVIOUS
  <2> HIDE DEF pq, len
  <2>3. \A i \in 1 .. Len(pq) : pq[i] = r[i]
    BY <2>1, <2>2, Zenon
  <2>4. pq = r
    BY <1>3, <2>1, <2>2, <2>3, Zenon
  <2> QED BY <2>4 DEF pq
<1> DEFINE x1 == <<x>>
           y1 == <<y>>
           z1 == <<z>>
           xy == <<x, y>>
           yz == <<y, z>>
           xz == <<x, z>>
           xyz == <<x, y, z>>
<1>5. /\ Len(<<>>) = 0 /\ Len(x1) = 1 /\ x1[1] = x /\ Len(y1) = 1 /\ y1[1] = y
      /\ Len(z1) = 1 /\ z1[1] = z
      /\ Len(xy) = 2 /\ xy[1] = x /\ xy[2] = y /\ Len(yz) = 2 /\ yz[1] = y /\ yz[2] = z
      /\ Len(xz) = 2 /\ xz[1] = x /\ xz[2] = z
      /\ Len(xyz) = 3 /\ xyz[1] = x /\ xyz[2] = y /\ xyz[3] = z
  OBVIOUS
<1>6. {x1, y1, z1, xy, yz, xz, xyz, <<>>} \subseteq Seq(S)
  BY <1>1
<1> HIDE DEF x1, y1, z1, xy, yz, xz, xyz, S
<1>7. <<>> \o x1 = x1 /\ x1 \o <<>> = x1
  BY <1>4, <1>5, <1>6
<1>8. x1 \o y1 = xy /\ x1 \o z1 = xz
  <2>1. \A i \in 1 .. 2 : i = 1 \/ i = 2
    OBVIOUS
  <2>2. \A i \in 1 .. Len(xy) : xy[i] = IF i <= Len(x1) THEN x1[i] ELSE y1[i - Len(x1)]
    BY <1>5, <2>1
  <2>3. \A i \in 1 .. Len(xz) : xz[i] = IF i <= Len(x1) THEN x1[i] ELSE z1[i - Len(x1)]
    BY <1>5, <2>1
  <2>4. Len(xy) = Len(x1) + Len(y1) /\ Len(xz) = Len(x1) + Len(z1)
    BY <1>5
  <2>5. QED BY <1>4, <1>6, <2>2, <2>3, <2>4
<1>9. x1 \o yz = xyz /\ xy \o z1 = xyz
  <2>1. \A i \in 1 .. 3 : i = 1 \/ i = 2 \/ i = 3
    OBVIOUS
  <2>2. \A i \in 1 .. Len(xyz) : xyz[i] = IF i <= Len(x1) THEN x1[i] ELSE yz[i - Len(x1)]
    BY <1>5, <2>1
  <2>3. \A i \in 1 .. Len(xyz) : xyz[i] = IF i <= Len(xy) THEN xy[i] ELSE z1[i - Len(xy)]
    BY <1>5, <2>1
  <2>4. Len(xyz) = Len(x1) + Len(yz) /\ Len(xyz) = Len(xy) + Len(z1)
    BY <1>5
  <2>5. QED BY <1>4, <1>6, <2>2, <2>3, <2>4
<1>10. QED BY <1>7, <1>8, <1>9 DEF x1, y1, z1, xy, yz, xz, xyz

\* One operation after another.
LEMMA OneByOne ==
    ASSUME NEW x, NEW y, NEW z
    PROVE  /\ (<<x>> \o <<>>) \o <<z>> = <<x, z>>
           /\ (<<x>> \o <<y>>) \o <<z>> = <<x, y, z>>
<1>1. <<x>> \o <<>> = <<x>> /\ <<x>> \o <<y>> = <<x, y>> /\ <<x, y>> \o <<z>> = <<x, y, z>>
  BY OneAndOne
<1>2. <<x>> \o <<z>> = <<x, z>>
  BY OneAndOne
<1>3. QED BY <1>1, <1>2, Zenon

\* The record while its audit line is not known to be written.
Unrecorded(r) == [r EXCEPT !.recorded = FALSE]

\* The operations ensureExecutionRecord leaves, written out: the record alone when
\* its line is in the log already, otherwise unrecorded, the line, and recorded.
LEMMA AuditShapes ==
    ASSUME NEW t \in Tasks, NEW r \in Record, NEW appended \in BOOLEAN,
           Audited(t, r.status) => r.recorded = TRUE
    PROVE  \/ AuditOps(t, r, appended) = <<Write(t, r)>>
           \/ /\ ~Audited(t, r.status)
              /\ \/ AuditOps(t, r, appended) = <<Write(t, Unrecorded(r)), Write(t, r)>>
                 \/ AuditOps(t, r, appended)
                     = <<Write(t, Unrecorded(r)), Append1(t, r.status), Write(t, r)>>
<1> DEFINE w0 == Write(t, Unrecorded(r))
           a  == Append1(t, r.status)
           w  == Write(t, r)
<1>1. ASSUME Audited(t, r.status) PROVE AuditOps(t, r, appended) = <<w>>
  <2>1. [r EXCEPT !.recorded = TRUE] = r
    BY <1>1 DEF Record
  <2>2. QED BY <1>1, <2>1 DEF AuditOps
<1>2. ~Audited(t, r.status) =>
        AuditOps(t, r, appended) = (<<w0>> \o (IF appended THEN <<a>> ELSE <<>>)) \o <<w>>
  BY DEF AuditOps, Unrecorded
<1> HIDE DEF w0, a, w
<1>3. (<<w0>> \o <<>>) \o <<w>> = <<w0, w>> /\ (<<w0>> \o <<a>>) \o <<w>> = <<w0, a, w>>
  BY OneByOne
<1>4. \/ AuditOps(t, r, appended) = <<w>>
      \/ /\ ~Audited(t, r.status)
         /\ AuditOps(t, r, appended) = <<w0, w>> \/ AuditOps(t, r, appended) = <<w0, a, w>>
  BY <1>1, <1>2, <1>3
<1>5. QED BY <1>4 DEF w0, a, w

\* A sequence of a finalization: perhaps the record c the handler had written
\* before, then the terminal record r once or twice, its line between the two.
LEMMA RestOfEnd ==
    ASSUME NEW t \in Tasks, NEW d, NEW r \in Record, NEW c, NEW lines, NEW s,
           IsTerminal(r), CancelSafe(r), Final(t, d) => r.status = d.status,
           DOMAIN s = 1 .. Len(s), Len(s) \in Nat \ {0}, s[Len(s)] = Write(t, r),
           \A i \in DOMAIN s : \/ i = 1 /\ s[i] = Write(t, c)
                               \/ s[i] \in {Write(t, Unrecorded(r)), Write(t, r)}
                               \/ s[i] = Append1(t, r.status) /\ i = Len(s) - 1 /\ i > 1
                                  /\ s[i - 1] = Write(t, Unrecorded(r)),
           s[1] = Write(t, c) => (CancelSafe(c) /\ Follows(t, d, c) /\ Follows(t, c, r)) \/ c = r,
           Append1(t, r.status) \in {s[i] : i \in DOMAIN s} => lines = <<>> \/ t \in Gemini
    PROVE  Rest(t, s, d, r, lines) /\ Writes(s) # {}
<1> DEFINE r0 == Unrecorded(r)
           w0 == Write(t, r0)
           a  == Append1(t, r.status)
           w  == Write(t, r)
           wc == Write(t, c)
<1>1. /\ w.op = "write" /\ w.task = t /\ w.rec = r
      /\ w0.op = "write" /\ w0.task = t /\ w0.rec = r0
      /\ a.op = "append" /\ a.task = t /\ a.status = r.status
      /\ wc.op = "write" /\ wc.task = t /\ wc.rec = c
  BY DEF Write, Append1
<1>2. r0.status = r.status /\ r0.cancel = r.cancel
  BY DEF Record, Unrecorded
<1>0. /\ \A i \in DOMAIN s : \/ i = 1 /\ s[i] = wc
                             \/ s[i] \in {w0, w}
                             \/ s[i] = a /\ i = Len(s) - 1 /\ i > 1 /\ s[i - 1] = w0
      /\ s[Len(s)] = w
      /\ s[1] = wc => (CancelSafe(c) /\ Follows(t, d, c) /\ Follows(t, c, r)) \/ c = r
      /\ a \in {s[i] : i \in DOMAIN s} => lines = <<>> \/ t \in Gemini
  OBVIOUS
<1> HIDE DEF w0, a, w, wc
<1>3. /\ Known(r) /\ Past(r) /\ Past(r0) /\ CancelSafe(r0)
      /\ Follows(t, d, r) /\ Follows(t, d, r0)
      /\ Follows(t, r, r) /\ Follows(t, r0, r) /\ Follows(t, r, r0) /\ Follows(t, r0, r0)
      /\ Follows(t, c, r) => Follows(t, c, r0)
  BY <1>2 DEF Known, Past, CancelSafe, Follows, Final, IsTerminal, Terminal
<1> HIDE DEF r0
<1>4. \A i \in DOMAIN s : s[i].op = "write" \/ s[i].op = "append"
  BY <1>0, <1>1
<1>5. OneTask(t, s)
  <2>1. \A i \in DOMAIN s : s[i].task = t
    BY <1>0, <1>1
  <2>2. QED BY <1>4, <2>1 DEF OneTask
<1>6. Len(s) \in Writes(s) /\ Writes(s) \subseteq DOMAIN s
  BY <1>0, <1>1 DEF Writes
<1>7. \A i \in Writes(s) : (i = 1 /\ s[i].rec = c /\ s[1] = wc) \/ s[i].rec \in {r, r0}
  BY <1>0, <1>1 DEF Writes
<1>8. WritesFollow(t, s, d, r)
  <2>1. \A i \in Writes(s) : CancelSafe(s[i].rec) /\ Follows(t, d, s[i].rec) /\ Known(r)
    BY <1>0, <1>3, <1>7
  <2>2. \A i, j \in Writes(s) : i < j => Follows(t, s[i].rec, s[j].rec)
    <3>1. SUFFICES ASSUME NEW i \in Writes(s), NEW j \in Writes(s), i < j
                   PROVE  Follows(t, s[i].rec, s[j].rec)
      OBVIOUS
    <3>2. s[j].rec \in {r, r0}
      BY <1>6, <1>7, <3>1, SMT
    <3>3. QED BY <1>0, <1>3, <1>7, <3>2
  <2>3. \A i \in Writes(s) : (\A j \in Writes(s) : j <= i) => s[i].rec = r
    <3>1. SUFFICES ASSUME NEW i \in Writes(s), Len(s) <= i PROVE s[i].rec = r
      BY <1>6
    <3>2. i = Len(s)
      BY <1>6, <3>1, SMT
    <3>3. QED BY <1>0, <1>1, <3>2
  <2>4. QED BY <2>1, <2>2, <2>3 DEF WritesFollow
<1>9. LinesFollow(t, s, d, lines)
  <2>1. SUFFICES ASSUME NEW i \in DOMAIN s, s[i].op = "append"
                 PROVE  /\ i # 1
                        /\ s[i - 1].op = "write" /\ s[i - 1].rec.status = s[i].status
                        /\ lines = <<>> \/ t \in Gemini
                        /\ \A j \in DOMAIN s : s[j].op = "append" => j = i
    BY DEF LinesFollow
  <2>2. \A j \in DOMAIN s : s[j].op = "append" => s[j] = a /\ j = Len(s) - 1 /\ j > 1 /\ s[j - 1] = w0
    BY <1>0, <1>1
  <2>3. s[i] = a /\ i = Len(s) - 1 /\ i > 1 /\ s[i - 1] = w0
    BY <2>1, <2>2
  <2>4. i # 1 /\ s[i - 1].op = "write" /\ s[i - 1].rec.status = s[i].status
    BY <1>1, <1>2, <2>3
  <2>5. \A j \in DOMAIN s : s[j].op = "append" => j = i
    BY <2>2, <2>3
  <2>6. QED BY <1>0, <2>1, <2>3, <2>4, <2>5
<1>10. QED BY <1>5, <1>6, <1>8, <1>9 DEF Rest

\* The audit log contradicts no final record: a line that a finalization of a
\* Codex task appends is the first one.
LEMMA FirstLine ==
    ASSUME TypeOK, LinesTrue, NEW t \in Tasks, NEW r, ~Audited(t, r.status),
           Final(t, disk[t]) => r.status = disk[t].status
    PROVE  log[t] = <<>> \/ t \in Gemini
<1>1. SUFFICES ASSUME log[t] # <<>>, t \notin Gemini PROVE FALSE
  OBVIOUS
<1>2. disk[t].status = LineOf(t)
  BY <1>1 DEF LinesTrue
<1>3. Len(log[t]) \in DOMAIN log[t] /\ LineOf(t) \in Terminal
  <2>1. log[t] \in Seq(Terminal)
    BY DEF TypeOK
  <2>2. Len(log[t]) \in 1 .. Len(log[t]) /\ DOMAIN log[t] = 1 .. Len(log[t])
    BY <1>1, <2>1, SMT
  <2>3. QED BY <2>1, <2>2, ElementOfSeq DEF LineOf
<1>4. Final(t, disk[t])
  BY <1>1, <1>2, <1>3 DEF Final, IsTerminal
<1>5. log[t][Len(log[t])] = r.status
  BY <1>2, <1>4 DEF LineOf
<1>6. QED BY <1>3, <1>5 DEF Audited

\* What a finalization leaves is a legal rest of a handler, whether or not the
\* handler had written another record c first.
LEMMA RestOfFinal ==
    ASSUME TypeOK, LinesTrue, NEW t \in Tasks, NEW r \in Record, NEW appended \in BOOLEAN,
           IsTerminal(r), CancelSafe(r), Audited(t, r.status) => r.recorded = TRUE,
           Final(t, disk[t]) => r.status = disk[t].status
    PROVE  /\ Rest(t, AuditOps(t, r, appended), disk[t], r, log[t])
           /\ Writes(AuditOps(t, r, appended)) # {}
           /\ \A i \in DOMAIN AuditOps(t, r, appended) :
                AuditOps(t, r, appended)[i].op # "execute"
           /\ \A c \in Record : CancelSafe(c) /\ ~IsTerminal(c) /\ Follows(t, disk[t], c) =>
                LET s == <<Write(t, c)>> \o AuditOps(t, r, appended)
                IN  /\ Rest(t, s, disk[t], r, log[t]) /\ Writes(s) # {}
                    /\ \A i \in DOMAIN s : s[i].op # "execute"
<1> DEFINE w0 == Write(t, Unrecorded(r))
           a  == Append1(t, r.status)
           w  == Write(t, r)
           q  == AuditOps(t, r, appended)
<1>1. w0.op = "write" /\ w.op = "write" /\ a.op = "append"
  BY DEF Write, Append1
<1>2. q = <<w>> \/ (~Audited(t, r.status) /\ (q = <<w0, w>> \/ q = <<w0, a, w>>))
  BY AuditShapes, Zenon
<1>3. a \in {q[i] : i \in DOMAIN q} => log[t] = <<>> \/ t \in Gemini
  <2>1. q = <<w>> => a \notin {q[i] : i \in DOMAIN q}
    <3>1. ASSUME q = <<w>> PROVE DOMAIN q = {1} /\ q[1] = w
      BY <3>1
    <3>2. QED BY <1>1, <3>1
  <2>2. QED BY <1>2, <2>1, FirstLine
<1>4. q \in Seq(Op)
  BY AuditOpsType
<1>5. /\ Len(q) \in Nat \ {0} /\ DOMAIN q = 1 .. Len(q) /\ q[Len(q)] = w
      /\ \A i \in DOMAIN q : \/ q[i] \in {w0, w}
                             \/ q[i] = a /\ i = Len(q) - 1 /\ i > 1 /\ q[i - 1] = w0
  <2>1. ASSUME q = <<w>> PROVE Len(q) = 1 /\ q[1] = w /\ DOMAIN q = 1 .. Len(q)
    BY <2>1
  <2>2. ASSUME q = <<w0, w>> PROVE Len(q) = 2 /\ q[1] = w0 /\ q[2] = w /\ DOMAIN q = 1 .. Len(q)
    BY <2>2
  <2>3. ASSUME q = <<w0, a, w>>
        PROVE  Len(q) = 3 /\ q[1] = w0 /\ q[2] = a /\ q[3] = w /\ DOMAIN q = 1 .. Len(q)
    BY <2>3
  <2> HIDE DEF q, w0, a, w
  <2>4. \A i \in Nat : (i \in 1 .. 1 => i = 1) /\ (i \in 1 .. 2 => i \in {1, 2})
                       /\ (i \in 1 .. 3 => i \in {1, 2, 3})
    OBVIOUS
  <2>5. CASE q = <<w>>
    BY <2>1, <2>4, <2>5
  <2>6. CASE q = <<w0, w>>
    BY <2>2, <2>4, <2>6
  <2>7. CASE q = <<w0, a, w>>
    <3>1. 2 = Len(q) - 1 /\ q[2 - 1] = w0
      BY <2>3, <2>7
    <3>2. QED BY <2>3, <2>4, <2>7, <3>1
  <2>8. QED BY <1>2, <2>5, <2>6, <2>7
<1>6. Rest(t, q, disk[t], r, log[t]) /\ Writes(q) # {}
  <2>1. q[1] = Write(t, r) => (CancelSafe(r) /\ Follows(t, disk[t], r) /\ Follows(t, r, r)) \/ r = r
    OBVIOUS
  <2>2. \A i \in DOMAIN q : \/ i = 1 /\ q[i] = Write(t, r)
                            \/ q[i] \in {w0, w}
                            \/ q[i] = a /\ i = Len(q) - 1 /\ i > 1 /\ q[i - 1] = w0
    BY <1>5
  <2> HIDE DEF q, w0, a, w
  <2>3. QED BY <1>3, <1>5, <2>1, <2>2, RestOfEnd DEF w0, a, w
<1>7. \A i \in DOMAIN q : q[i].op # "execute"
  <2> HIDE DEF q, w0, a, w
  <2>1. QED BY <1>1, <1>5
<1>8. ASSUME NEW c \in Record, CancelSafe(c), ~IsTerminal(c), Follows(t, disk[t], c)
      PROVE  LET s == <<Write(t, c)>> \o q
             IN  /\ Rest(t, s, disk[t], r, log[t]) /\ Writes(s) # {}
                 /\ \A i \in DOMAIN s : s[i].op # "execute"
  <2> DEFINE wc == Write(t, c)
             s  == <<wc>> \o q
  <2>1. wc \in Op /\ wc.op = "write" /\ wc.rec = c
    BY OperationTypes DEF Write
  <2>2. <<wc>> \in Seq(Op) /\ Len(<<wc>>) = 1 /\ <<wc>>[1] = wc
    BY <2>1
  <2> DEFINE p == <<wc>>
  <2> HIDE DEF q, w0, a, w, wc, p
  <2>3. /\ s = p \o q /\ Len(s) = 1 + Len(q) /\ s \in Seq(Op)
        /\ \A i \in 1 .. 1 + Len(q) : s[i] = IF i <= 1 THEN p[i] ELSE q[i - 1]
    BY <1>4, <2>2, ConcatProperties DEF p
  <2>4. DOMAIN s = 1 .. Len(s)
    BY <2>3, LenProperties
  <2> HIDE DEF s
  <2>5. Len(s) \in Nat \ {0} /\ s[1] = wc /\ \A i \in 1 .. Len(q) : s[i + 1] = q[i]
    <3>1. \A i \in 1 .. Len(q) : i + 1 \in 1 .. 1 + Len(q) /\ ~(i + 1 <= 1) /\ (i + 1) - 1 = i
      BY <1>5
    <3>2. QED BY <1>5, <2>2, <2>3, <3>1 DEF p
  <2>6. s[Len(s)] = w
    BY <1>5, <2>3, <2>5
  <2>7. \A i \in DOMAIN s : \/ i = 1 /\ s[i] = wc
                            \/ s[i] \in {w0, w}
                            \/ s[i] = a /\ i = Len(s) - 1 /\ i > 1 /\ s[i - 1] = w0
    <3>0. Len(q) \in Nat /\ Len(s) = 1 + Len(q) /\ DOMAIN s = 1 .. 1 + Len(q) /\ s[1] = wc
      BY <1>5, <2>3, <2>4, <2>5
    <3>10. \A i \in DOMAIN s : i = 1 \/ i \in 2 .. 1 + Len(q)
      BY <3>0
    <3>1. SUFFICES ASSUME NEW i \in 2 .. 1 + Len(q)
                   PROVE  \/ s[i] \in {w0, w}
                          \/ s[i] = a /\ i = Len(s) - 1 /\ i > 1 /\ s[i - 1] = w0
      BY <3>0, <3>10
    <3>2. i - 1 \in 1 .. Len(q) /\ (i - 1) + 1 = i
      BY <1>5, <3>1
    <3>3. s[i] = q[i - 1]
      BY <2>5, <3>2
    <3>4. CASE q[i - 1] = a /\ i - 1 = Len(q) - 1 /\ i - 1 > 1 /\ q[(i - 1) - 1] = w0
      <4>1. (i - 1) - 1 \in 1 .. Len(q) /\ ((i - 1) - 1) + 1 = i - 1
        BY <1>5, <3>2, <3>4
      <4>2. s[i - 1] = w0
        BY <2>5, <3>4, <4>1
      <4>3. i = Len(s) - 1 /\ i > 1
        BY <3>0, <3>4
      <4>4. QED BY <3>3, <3>4, <4>2, <4>3
    <3>5. QED BY <1>5, <3>2, <3>3, <3>4
  <2>8. CancelSafe(c) /\ Follows(t, disk[t], c) /\ Follows(t, c, r)
    BY <1>8 DEF Follows, Final, Past, IsTerminal, Terminal
  <2>9. a \in {s[i] : i \in DOMAIN s} => a \in {q[i] : i \in DOMAIN q}
    <3>1. SUFFICES ASSUME NEW i \in DOMAIN s, s[i] = a PROVE a \in {q[j] : j \in DOMAIN q}
      OBVIOUS
    <3>2. i \in 1 .. 1 + Len(q) /\ i # 1
      BY <1>1, <2>1, <2>3, <2>4, <2>5, <3>1
    <3>3. i - 1 \in 1 .. Len(q) /\ (i - 1) + 1 = i
      BY <1>5, <3>2
    <3>4. q[i - 1] = a
      BY <2>5, <3>1, <3>3
    <3>5. QED BY <1>5, <3>3, <3>4
  <2>10. \A i \in DOMAIN s : s[i].op # "execute"
    BY <1>1, <2>1, <2>7
  <2>11. Rest(t, s, disk[t], r, log[t]) /\ Writes(s) # {}
    <3>1. a \in {s[i] : i \in DOMAIN s} => log[t] = <<>> \/ t \in Gemini
      BY <1>3, <2>9
    <3>2. s[1] = wc => (CancelSafe(c) /\ Follows(t, disk[t], c) /\ Follows(t, c, r)) \/ c = r
      BY <2>8
    <3>3. Len(s) \in Nat \ {0}
      BY <2>5
    <3>4. QED BY <2>4, <2>6, <2>7, <3>1, <3>2, <3>3, RestOfEnd DEF w0, a, w, wc
  <2>12. QED BY <2>10, <2>11 DEF s, wc
<1>9. QED BY <1>6, <1>7, <1>8

\* The same after the record c of a run, of a task that had not ended.
LEMMA RestAfterRun ==
    ASSUME TypeOK, LinesTrue, NEW t \in Tasks, NEW r \in Record, NEW appended \in BOOLEAN,
           IsTerminal(r), CancelSafe(r), ~Audited(t, r.status), ~Final(t, disk[t])
    PROVE  \A c \in Record : CancelSafe(c) /\ ~IsTerminal(c) /\ Follows(t, disk[t], c) =>
             LET s == <<Write(t, c)>> \o AuditOps(t, r, appended)
             IN  /\ Rest(t, s, disk[t], r, log[t]) /\ Writes(s) # {}
                 /\ \A i \in DOMAIN s : s[i].op # "execute"
  BY RestOfFinal

-----------------------------------------------------------------------------
(* The next operation of a handler *)

\* The rest of a handler and what remains of it after its next operation.
LEMMA TailIndices ==
    ASSUME NEW s \in Seq(Op), s # <<>>
    PROVE  /\ Len(s) \in Nat \ {0} /\ DOMAIN s = 1 .. Len(s) /\ 1 \in DOMAIN s /\ Head(s) = s[1]
           /\ Tail(s) \in Seq(Op) /\ Len(Tail(s)) = Len(s) - 1
           /\ \A i \in DOMAIN Tail(s) : /\ i \in Nat /\ i >= 1 /\ i + 1 \in DOMAIN s
                                        /\ Tail(s)[i] = s[i + 1]
           /\ \A i \in DOMAIN s : i = 1 \/ (i - 1 \in DOMAIN Tail(s) /\ Tail(s)[i - 1] = s[i])
<1>1. /\ Tail(s) \in Seq(Op) /\ Head(s) = s[1] /\ Len(Tail(s)) = Len(s) - 1
      /\ \A i \in 1 .. Len(Tail(s)) : Tail(s)[i] = s[i + 1]
  BY HeadTailProperties
<1>2. Len(s) \in Nat \ {0} /\ DOMAIN s = 1 .. Len(s)
  BY EmptySeq, LenProperties
<1>3. DOMAIN Tail(s) = 1 .. Len(s) - 1
  BY <1>1, LenProperties
<1>4. \A i \in 1 .. Len(s) - 1 : i \in Nat /\ i >= 1 /\ i + 1 \in 1 .. Len(s)
  BY <1>2
<1>5. \A i \in 1 .. Len(s) : i = 1 \/ (i - 1 \in 1 .. Len(s) - 1 /\ (i - 1) + 1 = i)
  BY <1>2
<1>6. QED BY <1>1, <1>2, <1>3, <1>4, <1>5

\* After a write the plan goes on from the record written; after the last one
\* the disk has the record of the memory.
LEMMA RestAfterWrite ==
    ASSUME NEW t \in Tasks, NEW s \in Seq(Op), NEW d, NEW m, NEW lines,
           Rest(t, s, d, m, lines), s # <<>>, Head(s).op = "write"
    PROVE  /\ Head(s).task = t /\ CancelSafe(Head(s).rec) /\ Follows(t, d, Head(s).rec) /\ Known(m)
           /\ Rest(t, Tail(s), Head(s).rec, m, lines)
           /\ Writes(Tail(s)) = {} => Head(s).rec = m
           /\ \A i \in Writes(Tail(s)) : i + 1 \in Writes(s)
<1>1. /\ Len(s) \in Nat \ {0} /\ 1 \in DOMAIN s /\ Head(s) = s[1] /\ Len(Tail(s)) = Len(s) - 1
      /\ \A i \in DOMAIN Tail(s) : i \in Nat /\ i >= 1 /\ i + 1 \in DOMAIN s /\ Tail(s)[i] = s[i + 1]
      /\ \A i \in DOMAIN s : i = 1 \/ (i - 1 \in DOMAIN Tail(s) /\ Tail(s)[i - 1] = s[i])
      /\ DOMAIN s \subseteq Nat
  BY TailIndices
<1>2. /\ OneTask(t, s) /\ WritesFollow(t, s, d, m) /\ LinesFollow(t, s, d, lines)
      /\ 1 \in Writes(s) /\ s[1].op = "write"
  BY <1>1 DEF Rest, Writes
<1>3. \A i \in Writes(Tail(s)) : i \in DOMAIN Tail(s) /\ i + 1 \in Writes(s) /\ 1 < i + 1
                                 /\ Tail(s)[i] = s[i + 1]
  BY <1>1 DEF Writes
<1>4. s[1].task = t /\ CancelSafe(s[1].rec) /\ Follows(t, d, s[1].rec) /\ Known(m)
  BY <1>1, <1>2 DEF OneTask, WritesFollow
<1>5. OneTask(t, Tail(s))
  BY <1>1, <1>2 DEF OneTask
<1>6. Writes(s) \subseteq {1} \cup {i + 1 : i \in Writes(Tail(s))}
  <2>1. SUFFICES ASSUME NEW i \in Writes(s), i # 1 PROVE i \in {j + 1 : j \in Writes(Tail(s))}
    OBVIOUS
  <2>2. i - 1 \in Writes(Tail(s)) /\ (i - 1) + 1 = i
    BY <1>1, <2>1 DEF Writes
  <2>3. QED BY <2>2
<1>7. WritesFollow(t, Tail(s), s[1].rec, m)
  <2>1. \A i \in Writes(Tail(s)) : /\ CancelSafe(Tail(s)[i].rec) /\ Follows(t, s[1].rec, Tail(s)[i].rec)
                                   /\ Known(m)
    BY <1>2, <1>3, <1>4 DEF WritesFollow
  <2>2. \A i, j \in Writes(Tail(s)) : i < j => Follows(t, Tail(s)[i].rec, Tail(s)[j].rec)
    <3>1. SUFFICES ASSUME NEW i \in Writes(Tail(s)), NEW j \in Writes(Tail(s)), i < j
                   PROVE  Follows(t, Tail(s)[i].rec, Tail(s)[j].rec)
      OBVIOUS
    <3>2. i + 1 < j + 1
      BY <1>1, <1>3, <3>1
    <3>3. QED BY <1>2, <1>3, <3>2 DEF WritesFollow
  <2>3. \A i \in Writes(Tail(s)) : (\A j \in Writes(Tail(s)) : j <= i) => Tail(s)[i].rec = m
    <3>1. SUFFICES ASSUME NEW i \in Writes(Tail(s)), \A j \in Writes(Tail(s)) : j <= i
                   PROVE  Tail(s)[i].rec = m
      OBVIOUS
    <3>2. \A j \in Writes(Tail(s)) : j + 1 <= i + 1
      BY <1>1, <1>3, <3>1
    <3>3. \A j \in Writes(s) : j <= i + 1
      BY <1>1, <1>3, <1>6, <3>2
    <3>4. QED BY <1>2, <1>3, <3>3 DEF WritesFollow
  <2>4. QED BY <2>1, <2>2, <2>3 DEF WritesFollow
<1>8. LinesFollow(t, Tail(s), s[1].rec, lines)
  <2>1. SUFFICES ASSUME NEW i \in DOMAIN Tail(s), Tail(s)[i].op = "append"
                 PROVE  /\ i = 1 => s[1].rec.status = Tail(s)[i].status
                        /\ i > 1 => /\ Tail(s)[i - 1].op = "write"
                                    /\ Tail(s)[i - 1].rec.status = Tail(s)[i].status
                        /\ lines = <<>> \/ t \in Gemini
                        /\ \A j \in DOMAIN Tail(s) : Tail(s)[j].op = "append" => j = i
    BY DEF LinesFollow
  <2>2. /\ s[(i + 1) - 1].op = "write" /\ s[(i + 1) - 1].rec.status = s[i + 1].status
        /\ lines = <<>> \/ t \in Gemini
        /\ \A j \in DOMAIN s : s[j].op = "append" => j = i + 1
    <3>1. i + 1 \in DOMAIN s /\ s[i + 1].op = "append" /\ i + 1 > 1
      BY <1>1, <2>1
    <3>2. QED BY <1>2, <3>1 DEF LinesFollow
  <2>3. (i + 1) - 1 = i /\ i \in Nat /\ i >= 1 /\ Tail(s)[i] = s[i + 1]
    BY <1>1
  <2>4. i > 1 => i - 1 \in DOMAIN Tail(s) /\ Tail(s)[i - 1] = s[i]
    BY <1>1, <2>3 , TailIndices
  <2>5. \A j \in DOMAIN Tail(s) : Tail(s)[j].op = "append" => j = i
    <3>1. SUFFICES ASSUME NEW j \in DOMAIN Tail(s), Tail(s)[j].op = "append" PROVE j = i
      OBVIOUS
    <3>2. j + 1 = i + 1 /\ j \in Nat
      BY <1>1, <2>2, <3>1
    <3>3. QED BY <2>3, <3>2
  <2>6. QED BY <2>2, <2>3, <2>4, <2>5
<1>9. Writes(Tail(s)) = {} => s[1].rec = m
  <2>1. Writes(Tail(s)) = {} => \A j \in Writes(s) : j <= 1
    BY <1>6
  <2>2. QED BY <1>2, <2>1 DEF WritesFollow
<1>10. QED BY <1>1, <1>3, <1>4, <1>5, <1>7, <1>8, <1>9 DEF Rest

\* After an audit line no other line follows, and the line says what the record
\* on the disk says.
LEMMA RestAfterAppend ==
    ASSUME NEW t \in Tasks, NEW s \in Seq(Op), NEW d, NEW m, NEW lines,
           Rest(t, s, d, m, lines), s # <<>>, Head(s).op = "append"
    PROVE  /\ Head(s).task = t /\ Head(s).status = d.status /\ (lines = <<>> \/ t \in Gemini)
           /\ \A more : Rest(t, Tail(s), d, m, more)
           /\ \A i \in Writes(Tail(s)) : i + 1 \in Writes(s) /\ Tail(s)[i] = s[i + 1]
           /\ \A i \in Writes(s) : i - 1 \in Writes(Tail(s)) /\ Tail(s)[i - 1] = s[i]
<1>1. /\ Len(s) \in Nat \ {0} /\ 1 \in DOMAIN s /\ Head(s) = s[1] /\ Len(Tail(s)) = Len(s) - 1
      /\ \A i \in DOMAIN Tail(s) : i \in Nat /\ i >= 1 /\ i + 1 \in DOMAIN s /\ Tail(s)[i] = s[i + 1]
      /\ \A i \in DOMAIN s : i = 1 \/ (i - 1 \in DOMAIN Tail(s) /\ Tail(s)[i - 1] = s[i])
      /\ DOMAIN s \subseteq Nat
  BY TailIndices
<1>2. /\ OneTask(t, s) /\ WritesFollow(t, s, d, m) /\ LinesFollow(t, s, d, lines)
      /\ 1 \notin Writes(s) /\ s[1].op = "append"
  BY <1>1 DEF Rest, Writes
<1>3. /\ s[1].task = t /\ d.status = s[1].status /\ (lines = <<>> \/ t \in Gemini)
      /\ \A j \in DOMAIN s : s[j].op = "append" => j = 1
  BY <1>1, <1>2 DEF OneTask, LinesFollow
<1>4. /\ \A i \in Writes(Tail(s)) : /\ i \in DOMAIN Tail(s) /\ i + 1 \in Writes(s)
                                    /\ Tail(s)[i] = s[i + 1]
      /\ \A i \in Writes(s) : i - 1 \in Writes(Tail(s)) /\ Tail(s)[i - 1] = s[i] /\ i \in Nat
  BY <1>1, <1>2 DEF Writes
<1>5. OneTask(t, Tail(s))
  BY <1>1, <1>2 DEF OneTask
<1>6. WritesFollow(t, Tail(s), d, m)
  <2>1. \A i \in Writes(Tail(s)) : CancelSafe(Tail(s)[i].rec) /\ Follows(t, d, Tail(s)[i].rec) /\ Known(m)
    BY <1>2, <1>4 DEF WritesFollow
  <2>2. \A i, j \in Writes(Tail(s)) : i < j => Follows(t, Tail(s)[i].rec, Tail(s)[j].rec)
    <3>1. SUFFICES ASSUME NEW i \in Writes(Tail(s)), NEW j \in Writes(Tail(s)), i < j
                   PROVE  Follows(t, Tail(s)[i].rec, Tail(s)[j].rec)
      OBVIOUS
    <3>2. i + 1 < j + 1
      BY <1>1, <1>4, <3>1
    <3>3. QED BY <1>2, <1>4, <3>2 DEF WritesFollow
  <2>3. \A i \in Writes(Tail(s)) : (\A j \in Writes(Tail(s)) : j <= i) => Tail(s)[i].rec = m
    <3>1. SUFFICES ASSUME NEW i \in Writes(Tail(s)), \A j \in Writes(Tail(s)) : j <= i
                   PROVE  Tail(s)[i].rec = m
      OBVIOUS
    <3>2. \A j \in Writes(s) : j - 1 <= i
      BY <1>4, <3>1
    <3>3. \A j \in Writes(s) : j <= i + 1
      BY <1>1, <1>4, <3>2
    <3>4. QED BY <1>2, <1>4, <3>3 DEF WritesFollow
  <2>4. QED BY <2>1, <2>2, <2>3 DEF WritesFollow
<1>7. \A more : LinesFollow(t, Tail(s), d, more)
  <2>1. \A i \in DOMAIN Tail(s) : Tail(s)[i].op # "append"
    <3>1. SUFFICES ASSUME NEW i \in DOMAIN Tail(s), Tail(s)[i].op = "append" PROVE FALSE
      OBVIOUS
    <3>2. i + 1 = 1 /\ i \in Nat /\ i >= 1
      BY <1>1, <1>3, <3>1
    <3>3. QED BY <3>2
  <2>2. QED BY <2>1 DEF LinesFollow
<1>8. QED BY <1>1, <1>3, <1>4, <1>5, <1>6, <1>7 DEF Rest

\* An operation that is neither is the last one of its handler.
LEMMA RestIsLast ==
    ASSUME NEW t \in Tasks, NEW s \in Seq(Op), NEW d, NEW m, NEW lines,
           Rest(t, s, d, m, lines), s # <<>>, Head(s).op \in {"pump", "stopped", "execute"}
    PROVE  /\ Head(s).op # "pump" => Head(s).task = t
           /\ Tail(s) = <<>> /\ Writes(s) = {} /\ DOMAIN s = {1} /\ Head(s) = s[1]
<1>1. /\ 1 \in DOMAIN s /\ Head(s) = s[1] /\ Tail(s) \in Seq(Op) /\ Len(Tail(s)) = Len(s) - 1
      /\ DOMAIN s = 1 .. Len(s)
  BY TailIndices
<1>2. 1 = Len(s) /\ (s[1].op # "pump" => s[1].task = t)
  BY <1>1 DEF Rest, OneTask
<1>3. DOMAIN s = {1} /\ Len(Tail(s)) = 0
  <2>1. 1 .. 1 = {1} /\ 1 - 1 = 0
    OBVIOUS
  <2>2. QED BY <1>1, <1>2, <2>1, Zenon
<1>4. Tail(s) = <<>>
  BY <1>1, <1>3, EmptySeq
<1>5. Writes(s) = {}
  BY <1>1, <1>3 DEF Writes
<1>6. QED BY <1>1, <1>2, <1>3, <1>4, <1>5

-----------------------------------------------------------------------------
(* Each kind of step preserves the invariant *)

\* A terminal record left the queue.
LEMMA FinalIsPast ==
    ASSUME NEW r, IsTerminal(r)
    PROVE  Past(r) /\ Known(r)
  BY DEF IsTerminal, Terminal, Past, Known

\* The last line of a log that is not empty.
LEMMA LineKnown ==
    ASSUME TypeOK, NEW t \in Tasks, log[t] # <<>>
    PROVE  LineOf(t) \in Terminal /\ Audited(t, LineOf(t))
<1>1. log[t] \in Seq(Terminal)
  BY DEF TypeOK
<1>2. Len(log[t]) \in DOMAIN log[t] /\ DOMAIN log[t] = 1 .. Len(log[t])
  <2>1. Len(log[t]) \in Nat /\ Len(log[t]) # 0 /\ DOMAIN log[t] = 1 .. Len(log[t])
    BY <1>1, EmptySeq, LenProperties
  <2>2. QED BY <2>1
<1>3. QED BY <1>1, <1>2, ElementOfSeq DEF LineOf, Audited

\* A write replaces a record by one that may follow it.
LEMMA WriteTaskEffect ==
    ASSUME Inv, RecInv, WriteTask
    PROVE  \E t \in Tasks, r \in Record :
             /\ disk' = [disk EXCEPT ![t] = r] /\ todo' = Tail(todo)
             /\ CancelSafe(r) /\ Follows(t, disk[t], r) /\ Known(mem[t])
             /\ Rest(t, todo', r, mem[t], log[t])
             /\ Writes(todo') = {} => r = mem[t]
             /\ \A i \in Writes(todo') : todo'[i].task = t
             /\ \A i \in DOMAIN todo' : \E j \in DOMAIN todo : todo'[i] = todo[j]
             /\ \A i \in Writes(todo) : todo[i].task = t
             /\ life # "down" /\ (life = "closed" => Past(disk[t]))
<1>1. todo # <<>> /\ Head(todo).op = "write" /\ todo \in Seq(Op) /\ todo' = Tail(todo)
  BY DEF WriteTask, Inv, TypeOK
<1>2. PICK t \in Tasks : Rest(t, todo, disk[t], mem[t], log[t])
  BY DEF RecInv, HandlerKept
<1> DEFINE r == Head(todo).rec
<1>3. /\ Head(todo).task = t /\ CancelSafe(r) /\ Follows(t, disk[t], r) /\ Known(mem[t])
      /\ Rest(t, Tail(todo), r, mem[t], log[t])
      /\ Writes(Tail(todo)) = {} => r = mem[t]
  BY <1>1, <1>2, RestAfterWrite
<1>4. r \in Record
  BY <1>1, TodoProperties DEF Inv
<1>5. \A i \in Writes(Tail(todo)) : Tail(todo)[i].task = t
  BY <1>3 DEF Rest, OneTask, Writes
<1>6. \A i \in Writes(todo) : todo[i].task = t
  BY <1>2 DEF Rest, OneTask, Writes
<1>7. 1 \in Writes(todo) /\ todo[1].task = t
      /\ \A i \in DOMAIN Tail(todo) : \E j \in DOMAIN todo : Tail(todo)[i] = todo[j]
  BY <1>1, <1>3, TailIndices DEF Writes
<1>8. life # "down" /\ (life = "closed" => Past(disk[t]))
  BY <1>1, <1>7 DEF RecInv, HandlerKept
<1>9. disk' = [disk EXCEPT ![t] = r]
  BY <1>3 DEF WriteTask
<1>10. QED BY <1>1, <1>3, <1>4, <1>5, <1>6, <1>7, <1>8, <1>9

LEMMA WriteTaskRec == Inv /\ RecInv /\ WriteTask => RecInv'
<1> SUFFICES ASSUME Inv, RecInv, WriteTask PROVE RecInv'
  OBVIOUS
<1>1. PICK t \in Tasks, r \in Record :
         /\ disk' = [disk EXCEPT ![t] = r] /\ todo' = Tail(todo)
         /\ CancelSafe(r) /\ Follows(t, disk[t], r) /\ Known(mem[t])
         /\ Rest(t, todo', r, mem[t], log[t])
         /\ Writes(todo') = {} => r = mem[t]
         /\ \A i \in Writes(todo') : todo'[i].task = t
         /\ \A i \in DOMAIN todo' : \E j \in DOMAIN todo : todo'[i] = todo[j]
         /\ \A i \in Writes(todo) : todo[i].task = t
         /\ life # "down" /\ (life = "closed" => Past(disk[t]))
  BY WriteTaskEffect
<1>2. UNCHANGED <<log, slot, paused, mem, pending, pumpScheduled, active, rt, pc, client, exiting,
                  stops, life, unloaded, collector, turns, spent, faults>>
  BY DEF WriteTask
<1>3. /\ disk'[t] = r /\ \A u \in Tasks \ {t} : disk'[u] = disk[u]
      /\ Known(r) /\ TypeOK
      /\ \A u \in Tasks : Past(disk[u]) => Past(disk'[u])
  <2>1. disk'[t] = r /\ \A u \in Tasks \ {t} : disk'[u] = disk[u]
    BY <1>1 DEF Inv, TypeOK
  <2>2. r.status \in Status
    BY <1>1 DEF Record
  <2>3. QED BY <1>1, <2>1, <2>2 DEF Inv, Known, Follows, Status, Terminal
<1>4. HandlerKept'
  <2>1. \E u \in Tasks : Rest(u, todo', disk'[u], mem'[u], log'[u])
    BY <1>1, <1>2, <1>3
  <2>2. \A u \in Tasks : mem'[u].status = disk'[u].status \/ \E i \in Writes(todo') : todo'[i].task = u
    <3>1. ASSUME NEW u \in Tasks \ {t} PROVE mem'[u].status = disk'[u].status
      BY <1>1, <1>2, <1>3 DEF RecInv, HandlerKept, InSync
    <3>2. CASE Writes(todo') = {}
      BY <1>1, <1>2, <1>3, <3>1, <3>2
    <3>3. CASE Writes(todo') # {}
      BY <1>1, <3>1, <3>3
    <3>4. QED BY <3>2, <3>3
  <2>3. life' = "closed" => \A i \in Writes(todo') : Past(disk'[todo'[i].task])
    BY <1>1, <1>2, <1>3
  <2>4. QED BY <1>1, <1>2, <2>1, <2>2, <2>3 DEF HandlerKept, InSync
<1>5. CancelsKept'
  <2>1. CancelWins'
    BY <1>1, <1>2, <1>3 DEF RecInv, CancelsKept, CancelWins, CancelSafe, IsTerminal
  <2>2. QED BY <1>2, <2>1 DEF RecInv, CancelsKept, Called
<1>6. LinesTrue'
  <2>1. SUFFICES ASSUME NEW u \in Tasks, log[u] # <<>>
                 PROVE  /\ Past(disk'[u])
                        /\ LineOf(u) # "cancelled" \/ u \notin Gemini => disk'[u].status = LineOf(u)
                        /\ u \notin Gemini => Len(log[u]) = 1
    BY <1>2 DEF LinesTrue, LineOf
  <2>2. /\ Past(disk[u])
        /\ LineOf(u) # "cancelled" \/ u \notin Gemini => disk[u].status = LineOf(u)
        /\ u \notin Gemini => Len(log[u]) = 1
    BY <2>1 DEF RecInv, LinesTrue
  <2>3. LineOf(u) \in Terminal
    BY <1>3, <2>1, LineKnown
  <2>4. LineOf(u) # "cancelled" \/ u \notin Gemini => Final(u, disk[u])
    BY <2>2, <2>3 DEF Final, IsTerminal
  <2>5. QED BY <1>1, <1>3, <2>2, <2>4 DEF Follows
<1>7. TurnsKept'
  <2>1. \A i \in DOMAIN todo' : todo'[i].op = "execute"
          => active = todo'[i].task /\ pc = "gemini" /\ turns[todo'[i].task] = 0
    BY <1>1 DEF RecInv, TurnsKept
  <2>2. QED BY <1>2, <1>3, <2>1 DEF RecInv, TurnsKept
<1>8. OrderKept'
  <2>1. SUFFICES ASSUME NEW v \in Tasks, NEW u \in Tasks, v < u
                 PROVE  /\ Known(mem[u]) => Known(mem[v])
                        /\ Known(disk'[u]) => Known(disk'[v])
                        /\ active = u => Past(mem[v])
                        /\ turns[u] > 0 => Past(disk'[v])
    BY <1>2 DEF OrderKept
  <2>2. /\ Known(mem[u]) => Known(mem[v])
        /\ Known(disk[u]) => Known(disk[v])
        /\ active = u => Past(mem[v])
        /\ turns[u] > 0 => Past(disk[v])
    BY <2>1 DEF RecInv, OrderKept
  <2>3. Known(disk'[u]) => Known(disk'[v])
    <3>1. CASE v = t
      BY <1>3, <3>1
    <3>2. CASE v # t /\ u # t
      BY <1>3, <2>2, <3>2
    <3>3. CASE v # t /\ u = t
      <4>1. Known(mem[v]) /\ mem[v].status = disk[v].status
        BY <1>1, <2>2, <3>3 DEF RecInv, HandlerKept, InSync
      <4>2. QED BY <1>3, <3>3, <4>1 DEF Known
    <3>4. QED BY <3>1, <3>2, <3>3
  <2>4. QED BY <1>3, <2>2, <2>3
<1>9. StoppedRunNotCompleted'
  BY <1>2 DEF RecInv, StoppedRunNotCompleted
<1>10. QED BY <1>4, <1>5, <1>6, <1>7, <1>8, <1>9 DEF RecInv

LEMMA AppendLineRec == Inv /\ RecInv /\ AppendLine => RecInv'
<1> SUFFICES ASSUME Inv, RecInv, AppendLine PROVE RecInv'
  OBVIOUS
<1>1. /\ todo # <<>> /\ Head(todo).op = "append" /\ todo \in Seq(Op) /\ todo' = Tail(todo) /\ TypeOK
      /\ UNCHANGED <<disk, slot, paused, mem, pending, pumpScheduled, active, rt, pc, client,
                     exiting, stops, life, unloaded, collector, turns, spent, faults>>
  BY DEF AppendLine, Inv, TypeOK
<1>2. PICK t \in Tasks : Rest(t, todo, disk[t], mem[t], log[t])
  BY DEF RecInv, HandlerKept
<1> DEFINE s == Head(todo).status
<1>3. /\ Head(todo).task = t /\ s = disk[t].status /\ (log[t] = <<>> \/ t \in Gemini)
      /\ Rest(t, Tail(todo), disk[t], mem[t], Append(log[t], s))
      /\ \A i \in Writes(Tail(todo)) : i + 1 \in Writes(todo) /\ Tail(todo)[i] = todo[i + 1]
      /\ \A i \in Writes(todo) : i - 1 \in Writes(Tail(todo)) /\ Tail(todo)[i - 1] = todo[i]
  <2>1. /\ Head(todo).task = t /\ Head(todo).status = disk[t].status
        /\ (log[t] = <<>> \/ t \in Gemini)
    BY <1>1, <1>2, RestAfterAppend
  <2>2. \A more : Rest(t, Tail(todo), disk[t], mem[t], more)
    BY <1>1, <1>2, RestAfterAppend
  <2>3. \A i \in Writes(Tail(todo)) : i + 1 \in Writes(todo) /\ Tail(todo)[i] = todo[i + 1]
    BY <1>1, <1>2, RestAfterAppend
  <2>4. \A i \in Writes(todo) : i - 1 \in Writes(Tail(todo)) /\ Tail(todo)[i - 1] = todo[i]
    BY <1>1, <1>2, RestAfterAppend
  <2>5. QED BY <2>1, <2>2, <2>3, <2>4
<1>4. s \in Terminal
  BY <1>1, TodoProperties
<1>5. log' = [log EXCEPT ![t] = Append(log[t], s)]
  BY <1>3 DEF AppendLine
<1>6. /\ log'[t] = Append(log[t], s) /\ \A u \in Tasks \ {t} : log'[u] = log[u]
      /\ log[t] \in Seq(Terminal)
  BY <1>5 DEF Inv, TypeOK
<1> HIDE DEF s
<1>7. \A i \in DOMAIN todo' : \E j \in DOMAIN todo : todo'[i] = todo[j]
  BY <1>1, TailIndices
<1>8. HandlerKept'
  <2>1. life # "down"
    BY <1>1 DEF RecInv, HandlerKept
  <2>2. \E u \in Tasks : Rest(u, todo', disk'[u], mem'[u], log'[u])
    BY <1>1, <1>3, <1>6
  <2>3. \A u \in Tasks : mem'[u].status = disk'[u].status \/ \E i \in Writes(todo') : todo'[i].task = u
    <3>1. SUFFICES ASSUME NEW u \in Tasks, mem[u].status # disk[u].status
                   PROVE  \E i \in Writes(todo') : todo'[i].task = u
      BY <1>1
    <3>2. PICK i \in Writes(todo) : todo[i].task = u
      BY <2>1, <3>1 DEF RecInv, HandlerKept, InSync
    <3>3. i - 1 \in Writes(todo') /\ todo'[i - 1] = todo[i]
      BY <1>1, <1>3
    <3>4. QED BY <3>2, <3>3
  <2>4. life' = "closed" => \A i \in Writes(todo') : Past(disk'[todo'[i].task])
    <3>1. SUFFICES ASSUME life' = "closed", NEW i \in Writes(todo')
                   PROVE  Past(disk'[todo'[i].task])
      OBVIOUS
    <3>2. life = "closed" => \A j \in Writes(todo) : Past(disk[todo[j].task])
      BY DEF RecInv, HandlerKept
    <3>3. QED BY <1>1, <1>3, <3>1, <3>2
  <2>5. QED BY <1>1, <2>1, <2>2, <2>3, <2>4 DEF HandlerKept, InSync
<1>9. CancelsKept'
  BY <1>1 DEF RecInv, CancelsKept, CancelWins, Called, IsTerminal
<1>10. LinesTrue'
  <2>1. \A u \in Tasks \ {t} : log'[u] # <<>> =>
            /\ Past(disk'[u])
            /\ LineOf(u)' # "cancelled" \/ u \notin Gemini => disk'[u].status = LineOf(u)'
            /\ u \notin Gemini => Len(log'[u]) = 1
    BY <1>1, <1>6 DEF RecInv, LinesTrue, LineOf
  <2>2. /\ Len(log'[t]) = Len(log[t]) + 1 /\ log'[t][Len(log'[t])] = s
    BY <1>4, <1>6, AppendProperties
  <2>3. Past(disk'[t]) /\ disk'[t].status = LineOf(t)'
    BY <1>1, <1>3, <1>4, <2>2, FinalIsPast DEF LineOf, IsTerminal
  <2>4. t \notin Gemini => Len(log'[t]) = 1
    BY <1>3, <2>2
  <2>5. QED BY <2>1, <2>3, <2>4 DEF LinesTrue
<1>11. TurnsKept'
  <2>1. \A i \in DOMAIN todo' : todo'[i].op = "execute"
          => active = todo'[i].task /\ pc = "gemini" /\ turns[todo'[i].task] = 0
    BY <1>7 DEF RecInv, TurnsKept
  <2>2. QED BY <1>1, <2>1 DEF RecInv, TurnsKept
<1>12. OrderKept' /\ StoppedRunNotCompleted'
  BY <1>1 DEF RecInv, OrderKept, StoppedRunNotCompleted
<1>13. QED BY <1>8, <1>9, <1>10, <1>11, <1>12 DEF RecInv

\* While no write is left, memory and disk agree on every status.
LEMMA NoWritesInSync ==
    ASSUME RecInv, life # "down", Writes(todo) = {}
    PROVE  \A t \in Tasks : mem[t].status = disk[t].status /\ (Past(mem[t]) <=> Past(disk[t]))
                            /\ (Known(mem[t]) <=> Known(disk[t]))
  BY DEF RecInv, HandlerKept, InSync, Past, Known

\* A turn is handed over for the published task: no other was, and its record
\* and those of the older tasks left the queue.
LEMMA TurnRec ==
    ASSUME Inv, RecInv, life # "down", Writes(todo) = {},
           active \in Tasks, turns[active] = 0,
           turns' = [turns EXCEPT ![active] = turns[active] + 1],
           UNCHANGED <<disk, log, mem, active, rt, stops, life, unloaded>>,
           todo' = <<>>, pc' \notin {"spawn", "thread"}
    PROVE  RecInv'
<1>1. turns'[active] = 1 /\ \A u \in Tasks \ {active} : turns'[u] = turns[u]
  BY DEF Inv, TypeOK
<1>2. \A t \in Tasks : mem[t].status = disk[t].status /\ (Past(mem[t]) <=> Past(disk[t]))
  BY NoWritesInSync
<1>3. Past(disk[active]) /\ \A t \in Tasks : t < active => Past(disk[t])
  BY <1>2, HolderKinds DEF RecInv, TurnsKept, OrderKept
<1>4. HandlerKept'
  <2>1. Rest(active, todo', disk'[active], mem'[active], log'[active]) /\ Writes(todo') = {}
    BY DEF Rest, OneTask, WritesFollow, LinesFollow, Writes
  <2>2. QED BY <1>2, <2>1 DEF HandlerKept, InSync
<1>5. CancelsKept' /\ LinesTrue' /\ StoppedRunNotCompleted'
  BY DEF RecInv, CancelsKept, CancelWins, Called, IsTerminal, LinesTrue, LineOf, StoppedRunNotCompleted
<1>6. TurnsKept'
  <2>1. \A t \in Tasks : turns'[t] <= 1 /\ (turns'[t] > 0 => Past(disk'[t]))
    BY <1>1, <1>3 DEF RecInv, TurnsKept
  <2>2. DOMAIN todo' = {}
    OBVIOUS
  <2>3. QED BY <2>1, <2>2 DEF RecInv, TurnsKept
<1>7. OrderKept'
  <2>1. \A t, u \in Tasks : t < u /\ turns'[u] > 0 => Past(disk'[t])
    BY <1>1, <1>3 DEF RecInv, OrderKept
  <2>2. QED BY <2>1 DEF RecInv, OrderKept
<1>8. QED BY <1>4, <1>5, <1>6, <1>7 DEF RecInv

LEMMA ExecuteGeminiRec == Inv /\ RecInv /\ ExecuteGemini => RecInv'
<1> SUFFICES ASSUME Inv, RecInv, ExecuteGemini PROVE RecInv'
  OBVIOUS
<1>1. todo # <<>> /\ Head(todo).op = "execute" /\ todo \in Seq(Op) /\ todo' = Tail(todo)
  BY DEF ExecuteGemini, Inv, TypeOK
<1>2. PICK t \in Tasks : Rest(t, todo, disk[t], mem[t], log[t])
  BY DEF RecInv, HandlerKept
<1>3. Tail(todo) = <<>> /\ Writes(todo) = {} /\ DOMAIN todo = {1} /\ Head(todo) = todo[1]
  BY <1>1, <1>2, RestIsLast
<1>4. Head(todo).task \in Tasks
  BY <1>1, TodoProperties DEF Inv
<1>5. active = Head(todo).task /\ turns[active] = 0 /\ pc = "gemini"
  BY <1>1, <1>3 DEF RecInv, TurnsKept
<1>6. turns' = [turns EXCEPT ![active] = turns[active] + 1]
  BY <1>5 DEF ExecuteGemini
<1>7. life # "down"
  BY <1>1 DEF RecInv, HandlerKept
<1>8. UNCHANGED <<disk, log, mem, active, rt, stops, life, unloaded>> /\ pc' = pc
  BY DEF ExecuteGemini
<1>9. active \in Tasks /\ todo' = <<>> /\ pc' \notin {"spawn", "thread"}
  BY <1>1, <1>3, <1>4, <1>5, <1>8
<1>10. QED BY <1>3, <1>5, <1>6, <1>7, <1>8, <1>9, TurnRec

\* runTask sends turn/start of a Codex task.
TurnSent == RequestAnswered("thread", "turn") /\ ~StopRequested

LEMMA TurnSentRec == Inv /\ RecInv /\ TurnSent => RecInv'
<1> SUFFICES ASSUME Inv, RecInv, TurnSent PROVE RecInv'
  OBVIOUS
<1>1. /\ life \in {"up", "closed"} /\ todo = <<>> /\ pc = "thread" /\ pc' = "turn"
      /\ turns' = [turns EXCEPT ![active] = turns[active] + 1]
      /\ UNCHANGED <<disk, log, mem, active, rt, stops, life, unloaded, todo>>
  BY DEF TurnSent, RequestAnswered, Alive, Drained
<1>2. active \in Tasks /\ turns[active] = 0
  BY <1>1 DEF Inv, TypeOK, RunInv, RunPublished, RecInv, TurnsKept
<1>3. Writes(todo) = {}
  BY <1>1 DEF Writes
<1>4. QED BY <1>1, <1>2, <1>3, TurnRec

\* Whatever the process was doing, its death leaves the disk, and a boot reads it.
LEMMA DieRec ==
    ASSUME Inv, RecInv, Die
    PROVE  RecInv'
<1>1. /\ UNCHANGED <<disk, log, turns>> /\ todo' = <<>> /\ life' = "down" /\ unloaded' = {}
      /\ mem' = [t \in Tasks |-> NoRecord] /\ active' = Nobody /\ stops' = {}
  BY DEF Die
<1>2. \A t \in Tasks : mem'[t] = NoRecord
  BY <1>1
<1>3. HandlerKept'
  <2>1. 1 \in Tasks
    BY BoundsAssumption DEF Tasks
  <2>2. Rest(1, todo', disk'[1], mem'[1], log'[1]) /\ Writes(todo') = {}
    BY <1>1 DEF Rest, OneTask, WritesFollow, LinesFollow, Writes
  <2>3. QED BY <1>1, <2>1, <2>2 DEF HandlerKept
<1>4. CancelsKept'
  BY <1>1, <1>2 DEF RecInv, CancelsKept, CancelWins, Called, IsTerminal, NoRecord
<1>5. LinesTrue' /\ StoppedRunNotCompleted'
  BY <1>1 DEF RecInv, LinesTrue, LineOf, StoppedRunNotCompleted
<1>6. TurnsKept'
  <2>1. DOMAIN todo' = {}
    BY <1>1
  <2>2. QED BY <1>1, <2>1 DEF RecInv, TurnsKept
<1>7. OrderKept'
  BY <1>1, <1>2, HolderKinds DEF RecInv, OrderKept, Known, NoRecord
<1>8. QED BY <1>3, <1>4, <1>5, <1>6, <1>7 DEF RecInv

LEMMA BootRec == Inv /\ RecInv /\ Boot => RecInv'
<1> SUFFICES ASSUME Inv, RecInv, Boot PROVE RecInv'
  OBVIOUS
<1>1. /\ UNCHANGED <<disk, log, turns, todo, active, stops, rt, pc>>
      /\ life = "down" /\ life' = "recovering"
      /\ mem' = disk /\ unloaded' = {t \in Tasks : disk[t] # NoRecord}
      /\ active = Nobody /\ todo = <<>>
  BY DEF Boot, Inv, RunInv, NoRunBeforeRecovery, RecInv, HandlerKept
<1>2. HandlerKept'
  <2>1. 1 \in Tasks
    BY BoundsAssumption DEF Tasks
  <2>2. Rest(1, todo', disk'[1], mem'[1], log'[1]) /\ Writes(todo') = {}
    BY <1>1 DEF Rest, OneTask, WritesFollow, LinesFollow, Writes
  <2>3. QED BY <1>1, <2>1, <2>2 DEF HandlerKept, InSync
<1>3. CancelsKept'
  <2>1. \A t \in unloaded' : Known(mem'[t])
    <3>1. SUFFICES ASSUME NEW t \in Tasks, disk[t] # NoRecord PROVE Known(disk[t])
      BY <1>1
    <3>2. disk[t] \in Record
      BY <3>1 DEF Inv, TypeOK
    <3>3. QED BY <3>2 DEF Record, Status, Terminal, Known
  <2>2. \A t \in Tasks : ~Called(t)'
    BY <1>1 DEF Called, RecInv, HandlerKept
  <2>3. QED BY <1>1, <2>1, <2>2 DEF RecInv, CancelsKept, CancelWins, IsTerminal
<1>4. LinesTrue' /\ StoppedRunNotCompleted'
  BY <1>1 DEF RecInv, LinesTrue, LineOf, StoppedRunNotCompleted
<1>5. TurnsKept'
  BY <1>1 DEF RecInv, TurnsKept
<1>6. OrderKept'
  BY <1>1, HolderKinds DEF RecInv, OrderKept
<1>7. QED BY <1>2, <1>3, <1>4, <1>5, <1>6 DEF RecInv

\* The handler's own step: it changes one record in memory and plans its writes.
LEMMA HandlesRec ==
    ASSUME Inv, RecInv, NEW t \in Tasks, Handles(t), Inv', StoppedRunNotCompleted'
    PROVE  RecInv'
<1>1. /\ life # "down" /\ life' # "down" /\ Writes(todo) = {} /\ UNCHANGED <<disk, log, turns>>
      /\ \A u \in Tasks \ {t} : mem'[u] = mem[u]
      /\ Rest(t, todo', disk[t], mem'[t], log[t])
  BY DEF Handles
<1>2. \A u \in Tasks : mem[u].status = disk[u].status /\ (Past(mem[u]) <=> Past(disk[u]))
                        /\ (Known(mem[u]) <=> Known(disk[u]))
  BY <1>1, NoWritesInSync
<1>3. \A i \in Writes(todo') : todo'[i].task = t
  BY <1>1 DEF Rest, OneTask, Writes
<1>4. \A u \in Tasks : (Past(mem[u]) => Past(mem'[u])) /\ (Known(mem[u]) => Known(mem'[u]))
  BY <1>1 DEF Handles
<1>5. HandlerKept'
  <2>1. \E u \in Tasks : Rest(u, todo', disk'[u], mem'[u], log'[u])
    BY <1>1
  <2>2. \A u \in Tasks : mem'[u].status = disk'[u].status \/ \E i \in Writes(todo') : todo'[i].task = u
    <3>1. CASE Writes(todo') = {}
      BY <1>1, <1>2, <3>1 DEF Handles
    <3>2. CASE Writes(todo') # {}
      BY <1>1, <1>2, <1>3, <3>2
    <3>3. QED BY <3>1, <3>2
  <2>3. life' = "closed" => \A i \in Writes(todo') : Past(disk'[todo'[i].task])
    BY <1>1, <1>3 DEF Handles
  <2>4. QED BY <1>1, <2>1, <2>2, <2>3 DEF HandlerKept, InSync
<1>6. CancelsKept'
  <2>1. CancelWins'
    <3>1. CancelSafe(mem'[t])
      BY DEF Handles
    <3>2. \A u \in Tasks : CancelSafe(mem[u]) /\ CancelSafe(disk[u])
      BY DEF RecInv, CancelsKept, CancelWins, CancelSafe
    <3>3. \A u \in Tasks : CancelSafe(mem'[u]) /\ CancelSafe(disk'[u])
      BY <1>1, <3>1, <3>2
    <3>4. QED BY <3>3 DEF CancelWins, CancelSafe, IsTerminal
  <2>2. \A u \in Tasks : Called(u)' => mem'[u].cancel /\ u \in Gemini
    <3>1. SUFFICES ASSUME NEW u \in Tasks, Called(u)' PROVE mem'[u].cancel /\ u \in Gemini
      OBVIOUS
    <3>2. CASE Called(u)
      BY <1>1, <3>2 DEF RecInv, CancelsKept, Handles
    <3>3. CASE ~Called(u)
      BY <3>1, <3>3 DEF Handles
    <3>4. QED BY <3>2, <3>3
  <2>3. \A u \in unloaded' : Known(mem'[u])
    <3>1. unloaded' \subseteq unloaded /\ unloaded \subseteq Tasks
      BY DEF Handles, Inv, TypeOK
    <3>2. QED BY <1>4, <3>1 DEF RecInv, CancelsKept
  <2>4. QED BY <2>1, <2>2, <2>3 DEF CancelsKept
<1>7. LinesTrue'
  BY <1>1 DEF RecInv, LinesTrue, LineOf
<1>8. TurnsKept'
  <2>1. \A u \in Tasks : turns'[u] <= 1 /\ (turns'[u] > 0 => Past(disk'[u]))
    BY <1>1 DEF RecInv, TurnsKept
  <2>2. active' # Nobody /\ pc' \in {"spawn", "thread"} => turns'[active'] = 0
    BY <1>1 DEF RecInv, TurnsKept, Handles
  <2>3. \A i \in DOMAIN todo' : todo'[i].op = "execute"
          => active' = todo'[i].task /\ pc' = "gemini" /\ turns'[todo'[i].task] = 0
    <3>1. \A i \in DOMAIN todo' : todo'[i].op = "execute" => todo'[i].task = t
      BY <1>1 DEF Rest, OneTask
    <3>2. QED BY <1>1, <3>1 DEF Handles
  <2>4. active' # Nobody => Past(mem'[active'])
    <3>1. active \in Tasks \cup {Nobody}
      BY DEF Inv, TypeOK
    <3>2. QED BY <1>4, <3>1 DEF RecInv, TurnsKept, Handles
  <2>5. QED BY <2>1, <2>2, <2>3, <2>4 DEF TurnsKept
<1>9. OrderKept'
  <2>1. SUFFICES ASSUME NEW v \in Tasks, NEW u \in Tasks, v < u
                 PROVE  /\ Known(mem'[u]) => Known(mem'[v])
                        /\ Known(disk[u]) => Known(disk[v])
                        /\ active' = u => Past(mem'[v])
                        /\ turns[u] > 0 => Past(disk[v])
    BY <1>1 DEF OrderKept
  <2>2. /\ Known(mem[u]) => Known(mem[v])
        /\ Known(disk[u]) => Known(disk[v])
        /\ active = u => Past(mem[v])
        /\ turns[u] > 0 => Past(disk[v])
    BY <2>1 DEF RecInv, OrderKept
  <2>3. Known(mem'[u]) => Known(mem'[v])
    <3>1. Known(mem'[u]) => Known(mem[v])
      BY <1>1, <2>1, <2>2 DEF Handles
    <3>2. QED BY <1>4, <3>1
  <2>4. active' = u => Past(mem'[v])
    <3>1. u # Nobody
      BY HolderKinds
    <3>2. active' = u => Past(mem[v])
      BY <2>1, <2>2, <3>1 DEF Handles
    <3>3. QED BY <1>4, <3>2
  <2>5. QED BY <2>2, <2>3, <2>4
<1>10. QED BY <1>5, <1>6, <1>7, <1>8, <1>9 DEF RecInv

\* Steps that change nothing RecInv speaks of.
LEMMA IdlesRec ==
    ASSUME RecInv, Idles
    PROVE  RecInv'
<1>1. UNCHANGED <<disk, log, mem, turns, todo, life, unloaded, stops, active, pc, rt>>
  BY DEF Idles
<1>2. HandlerKept'
  BY <1>1 DEF RecInv, HandlerKept, InSync
<1>3. CancelsKept' /\ LinesTrue'
  BY <1>1 DEF RecInv, CancelsKept, CancelWins, Called, IsTerminal, LinesTrue, LineOf
<1>4. TurnsKept' /\ OrderKept' /\ StoppedRunNotCompleted'
  BY <1>1 DEF RecInv, TurnsKept, OrderKept, StoppedRunNotCompleted
<1>5. QED BY <1>2, <1>3, <1>4 DEF RecInv

-----------------------------------------------------------------------------
(* The handlers: what most of them share *)

\* A handler that starts no run and accepts no call of the Antigravity backend.
Frame ==
    /\ life # "down" /\ life' # "down" /\ Writes(todo) = {}
    /\ UNCHANGED <<disk, log, turns>>
    /\ unloaded' \subseteq unloaded
    /\ \A u \in Tasks : Called(u)' => Called(u)
    /\ active' \in {active, Nobody}
    /\ active' # Nobody /\ pc' \in {"spawn", "thread"}
         => active' = active /\ pc \in {"spawn", "thread"}

LEMMA NothingLeft == todo = <<>> => Writes(todo) = {}
  BY DEF Writes

\* Only a call that is new in the stage "called" is a new call of the backend.
LEMMA NoNewCall ==
    ASSUME \A s \in stops' : s \in stops \/ s.stage # "called"
    PROVE  \A u \in Tasks : Called(u)' => Called(u)
  BY DEF Called

\* A handler that changes no record may leave one operation that is no write.
LEMMA QuietHandles ==
    ASSUME RecInv, Frame, NEW t \in Tasks, mem' = mem,
           \/ todo' = <<>>
           \/ \E why : todo' = <<Stopped(t, why)>>
    PROVE  Handles(t)
<1>1. /\ Rest(t, todo', disk[t], mem'[t], log[t]) /\ Writes(todo') = {}
      /\ \A i \in DOMAIN todo' : todo'[i].op # "execute"
  <2>1. CASE todo' = <<>>
    BY <2>1, RestOfNone
  <2>2. ASSUME NEW why, todo' = <<Stopped(t, why)>>
        PROVE  /\ Rest(t, todo', disk[t], mem'[t], log[t]) /\ Writes(todo') = {}
               /\ \A i \in DOMAIN todo' : todo'[i].op # "execute"
    <3> DEFINE e == Stopped(t, why)
    <3>1. e.op = "stopped" /\ e.task = t
      BY DEF Stopped
    <3> HIDE DEF e
    <3>2. Rest(t, <<e>>, disk[t], mem'[t], log[t]) /\ Writes(<<e>>) = {}
      BY <3>1, RestOfOne
    <3>3. \A i \in DOMAIN <<e>> : <<e>>[i].op # "execute"
      BY <3>1
    <3>4. QED BY <2>2, <3>2, <3>3 DEF e
  <2>3. QED BY <2>1, <2>2
<1>2. CancelSafe(mem'[t])
  BY DEF RecInv, CancelsKept, CancelWins, CancelSafe
<1>3. QED BY <1>1, <1>2 DEF Frame, Handles

\* A handler that writes one live record.
LEMMA WriteHandles ==
    ASSUME RecInv, Frame, NEW t \in Tasks, NEW m \in Record, mem'[t] = m,
           \A u \in Tasks \ {t} : mem'[u] = mem[u],
           ~IsTerminal(m), ~Final(t, mem[t]), Past(mem[t]) => Past(m), mem[t].cancel => m.cancel,
           Known(mem[t]) \/ \A u \in Tasks : u < t => Known(mem[u]),
           life' = "closed" => Past(mem[t]),
           \/ todo' = <<Write(t, m)>>
           \/ todo' = <<Write(t, m), Pump>>
           \/ \E why : todo' = <<Write(t, m), Stopped(t, why)>>
    PROVE  Handles(t)
<1>1. /\ mem[t].status = disk[t].status /\ (Past(mem[t]) <=> Past(disk[t]))
  BY NoWritesInSync DEF Frame
<1>2. CancelSafe(m) /\ Follows(t, disk[t], m) /\ Known(m)
  <2>1. m.status \in Status
    BY DEF Record
  <2>2. QED BY <1>1, <2>1 DEF CancelSafe, Follows, Final, IsTerminal, Known, Status, Terminal
<1>3. /\ Rest(t, todo', disk[t], m, log[t]) /\ Writes(todo') = {1}
      /\ \A i \in DOMAIN todo' : todo'[i].op # "execute"
  <2>1. Write(t, m).op = "write"
    BY DEF Write
  <2>2. ASSUME todo' = <<Write(t, m)>>
        PROVE  /\ Rest(t, todo', disk[t], m, log[t]) /\ Writes(todo') = {1}
               /\ \A i \in DOMAIN todo' : todo'[i].op # "execute"
    BY <1>2, <2>1, <2>2, RestOfWrite
  <2>3. ASSUME NEW e, e.op \in {"pump", "stopped"}, e.op # "pump" => e.task = t,
               todo' = <<Write(t, m), e>>
        PROVE  /\ Rest(t, todo', disk[t], m, log[t]) /\ Writes(todo') = {1}
               /\ \A i \in DOMAIN todo' : todo'[i].op # "execute"
    <3>1. Rest(t, <<Write(t, m), e>>, disk[t], m, log[t]) /\ Writes(<<Write(t, m), e>>) = {1}
      BY <1>2, <2>3, RestOfWriteThen
    <3>2. \A i \in DOMAIN <<Write(t, m), e>> : <<Write(t, m), e>>[i].op # "execute"
      BY <2>1, <2>3
    <3>3. QED BY <2>3, <3>1, <3>2
  <2>4. Pump.op = "pump" /\ \A why : Stopped(t, why).op = "stopped" /\ Stopped(t, why).task = t
    BY DEF Pump, Stopped
  <2>5. QED BY <2>2, <2>3, <2>4
<1>4. QED BY <1>1, <1>2, <1>3 DEF Frame, Handles

\* What a finalization by recordTerminal does to the record of its task.
LEMMA Finalizes ==
    ASSUME TypeOK, RecInv, NEW t \in Tasks, NEW r \in Record, ~IsTerminal(r),
           ~Final(t, disk[t]),
           NEW hasRuntime \in BOOLEAN, NEW runtime \in Runtime,
           ~(hasRuntime /\ runtime.finalized),
           NEW completion \in Settled \ {"none"}, NEW restart \in BOOLEAN, NEW before,
           \/ before = <<>>
           \/ \E c \in Record : /\ before = <<Write(t, c)>> /\ ~IsTerminal(c)
                                /\ Past(disk[t]) => Past(c),
           RecordTerminal(t, r, hasRuntime, runtime, completion, restart, before, <<>>)
    PROVE  /\ \A u \in Tasks \ {t} : mem'[u] = mem[u]
           /\ mem'[t] \in Record /\ IsTerminal(mem'[t]) /\ CancelSafe(mem'[t])
           /\ mem'[t].cancel = r.cancel
           /\ Rest(t, todo', disk[t], mem'[t], log[t]) /\ Writes(todo') # {}
           /\ \A i \in DOMAIN todo' : todo'[i].op # "execute"
           /\ hasRuntime => /\ rt' = [runtime EXCEPT !.finalized = TRUE]
                            /\ runtime.timedOut \/ runtime.failed => mem'[t].status # "completed"
           /\ ~hasRuntime => rt' = rt
<1> DEFINE status == Outcome(r, hasRuntime, runtime, completion, restart)
           final(fault) == [r EXCEPT !.status = status,
                               !.recorded = fault \notin AppendFaults \/ Audited(t, status)]
<1>1. PICK fault \in Faults :
         /\ mem' = [mem EXCEPT ![t] = final(fault)]
         /\ todo' = before \o AuditOps(t, final(fault), fault # "append") \o <<>>
         /\ rt' = IF hasRuntime THEN [runtime EXCEPT !.finalized = TRUE] ELSE rt
  BY Zenon DEF RecordTerminal
<1>2. status \in Terminal
  BY OutcomeType
<1>3. /\ r.cancel => status = "cancelled"
      /\ hasRuntime /\ (runtime.timedOut \/ runtime.failed) => status # "completed"
  BY DEF Outcome, Settled
<1>4. (fault \notin AppendFaults \/ Audited(t, status)) \in BOOLEAN
  BY DEF Audited
<1> DEFINE f == final(fault)
<1>5. /\ f \in Record /\ IsTerminal(f) /\ f.status = status /\ f.cancel = r.cancel
      /\ Audited(t, f.status) => f.recorded = TRUE
  <2> HIDE DEF status
  <2>1. f \in Record /\ IsTerminal(f)
    BY <1>2, <1>4, FinalRecordType
  <2>2. f.status = status /\ f.cancel = r.cancel
        /\ f.recorded = (fault \notin AppendFaults \/ Audited(t, status))
    BY DEF Record
  <2>3. QED BY <2>1, <2>2
<1> HIDE DEF f, status, final
<1>6. CancelSafe(f)
  BY <1>3, <1>5 DEF CancelSafe
<1>7. mem'[t] = f /\ \A u \in Tasks \ {t} : mem'[u] = mem[u]
  BY <1>1 DEF TypeOK, f
<1> DEFINE q == AuditOps(t, f, fault # "append")
<1>8. q \in Seq(Op) /\ (fault # "append") \in BOOLEAN
  BY <1>5, AuditOpsType
<1>9. /\ Rest(t, q, disk[t], f, log[t]) /\ Writes(q) # {}
      /\ \A i \in DOMAIN q : q[i].op # "execute"
      /\ \A c \in Record : CancelSafe(c) /\ ~IsTerminal(c) /\ Follows(t, disk[t], c) =>
           /\ Rest(t, <<Write(t, c)>> \o q, disk[t], f, log[t]) /\ Writes(<<Write(t, c)>> \o q) # {}
           /\ \A i \in DOMAIN (<<Write(t, c)>> \o q) : (<<Write(t, c)>> \o q)[i].op # "execute"
  <2>1. (fault # "append") \in BOOLEAN /\ LinesTrue /\ (Final(t, disk[t]) => f.status = disk[t].status)
    BY DEF RecInv
  <2>2. QED BY <1>5, <1>6, <2>1, RestOfFinal
<1>10. todo' = before \o q \o <<>>
  BY <1>1 DEF f
<1>11. \A s \in Seq(Op) : <<>> \o s = s /\ s \o <<>> = s
  BY ConcatEmptySeq
<1> HIDE DEF q
<1>12. /\ Rest(t, todo', disk[t], f, log[t]) /\ Writes(todo') # {}
       /\ \A i \in DOMAIN todo' : todo'[i].op # "execute"
  <2>1. CASE before = <<>>
    <3>1. todo' = q
      BY <1>8, <1>10, <1>11, <2>1
    <3>2. QED BY <1>9, <3>1
  <2>2. ASSUME NEW c \in Record, before = <<Write(t, c)>>, ~IsTerminal(c), Past(disk[t]) => Past(c)
        PROVE  /\ Rest(t, todo', disk[t], f, log[t]) /\ Writes(todo') # {}
               /\ \A i \in DOMAIN todo' : todo'[i].op # "execute"
    <3>1. before \in Seq(Op) /\ before \o q \in Seq(Op)
      BY <1>8, <2>2, OperationTypes, ShortSequences, ConcatProperties
    <3>2. todo' = <<Write(t, c)>> \o q
      BY <1>10, <1>11, <2>2, <3>1
    <3>3. CancelSafe(c) /\ Follows(t, disk[t], c)
      BY <2>2 DEF CancelSafe, Follows
    <3>4. QED BY <1>9, <2>2, <3>2, <3>3
  <2>3. QED BY <2>1, <2>2
<1>13. QED BY <1>1, <1>3, <1>5, <1>6, <1>7, <1>12

\* A handler that finalizes a task that nothing has finalized for good.
LEMMA FinalHandles ==
    ASSUME TypeOK, RecInv, Frame, NEW t \in Tasks, NEW r \in Record, ~IsTerminal(r),
           ~Final(t, mem[t]),
           NEW hasRuntime \in BOOLEAN, NEW runtime \in Runtime,
           ~(hasRuntime /\ runtime.finalized),
           NEW completion \in Settled \ {"none"}, NEW restart \in BOOLEAN, NEW before,
           \/ before = <<>>
           \/ \E c \in Record : /\ before = <<Write(t, c)>> /\ ~IsTerminal(c)
                                /\ Past(mem[t]) => Past(c),
           RecordTerminal(t, r, hasRuntime, runtime, completion, restart, before, <<>>),
           mem[t].cancel => r.cancel,
           Known(mem[t]) \/ \A u \in Tasks : u < t => Known(mem[u]),
           life' = "closed" => Past(mem[t])
    PROVE  /\ Handles(t) /\ IsTerminal(mem'[t])
           /\ \A u \in Tasks \ {t} : mem'[u] = mem[u]
           /\ hasRuntime => /\ rt' = [runtime EXCEPT !.finalized = TRUE]
                            /\ runtime.timedOut \/ runtime.failed => mem'[t].status # "completed"
           /\ ~hasRuntime => rt' = rt
<1>1. mem[t].status = disk[t].status /\ (Past(mem[t]) <=> Past(disk[t]))
  BY NoWritesInSync DEF Frame
<1>2. ~Final(t, disk[t])
  BY <1>1 DEF Final, IsTerminal
<1>3. \/ before = <<>>
      \/ \E c \in Record : /\ before = <<Write(t, c)>> /\ ~IsTerminal(c)
                           /\ Past(disk[t]) => Past(c)
  BY <1>1
<1>4. /\ \A u \in Tasks \ {t} : mem'[u] = mem[u]
      /\ mem'[t] \in Record /\ IsTerminal(mem'[t]) /\ CancelSafe(mem'[t])
      /\ mem'[t].cancel = r.cancel
      /\ Rest(t, todo', disk[t], mem'[t], log[t]) /\ Writes(todo') # {}
      /\ \A i \in DOMAIN todo' : todo'[i].op # "execute"
      /\ hasRuntime => /\ rt' = [runtime EXCEPT !.finalized = TRUE]
                       /\ runtime.timedOut \/ runtime.failed => mem'[t].status # "completed"
      /\ ~hasRuntime => rt' = rt
  BY <1>2, <1>3, Finalizes
<1>5. Past(mem'[t]) /\ Known(mem'[t])
  BY <1>4, FinalIsPast
<1>6. Handles(t)
  BY <1>1, <1>4, <1>5 DEF Frame, Handles
<1>7. QED BY <1>4, <1>6

\* A step that finalizes no run and completes no record keeps the promise.
LEMMA HonestKept ==
    ASSUME TypeOK, RecInv, active' \in {active, Nobody},
           active' # Nobody =>
             /\ rt'.finalized => rt.finalized /\ rt'.timedOut = rt.timedOut /\ rt'.failed = rt.failed
             /\ mem'[active].status \in {mem[active].status, "cancelling", "cancelled"}
    PROVE  StoppedRunNotCompleted'
  BY DEF RecInv, StoppedRunNotCompleted

\* The record of a run that is not finalized can be finalized.
LEMMA LiveRunOpen ==
    ASSUME Inv, active \in Tasks, ~rt.finalized
    PROVE  /\ mem[active] \in Record /\ ~IsTerminal(mem[active]) /\ ~Final(active, mem[active])
           /\ Past(mem[active]) /\ Known(mem[active])
<1>1. mem[active].status \in {"running", "cancelling"}
  BY HolderKinds DEF Inv, RunInv, LiveRunRecorded
<1>2. QED BY <1>1 DEF Inv, TypeOK, NoRecord, IsTerminal, Terminal, Final, Past, Known

-----------------------------------------------------------------------------
(* runTask after its awaits *)

\* Whoever calls recordTerminal for the published run.
LEMMA RunFinalizes ==
    ASSUME Inv, RecInv, Frame, active \in Tasks, active' = active,
           NEW runtime \in Runtime, runtime.finalized = rt.finalized,
           runtime.finalized => runtime.timedOut = rt.timedOut,
           NEW completion \in Settled \ {"none"}, NEW restart \in BOOLEAN,
           RecordTerminal(active, mem[active], TRUE, runtime, completion, restart, <<>>, <<>>)
    PROVE  Handles(active) /\ StoppedRunNotCompleted'
<1>1. CASE runtime.finalized
  <2>1. mem' = [mem EXCEPT ![active] = mem[active]] /\ todo' = <<>> \o <<>> /\ rt' = rt
    BY <1>1 DEF RecordTerminal
  <2>2. mem' = mem
    BY <2>1 DEF Inv, TypeOK
  <2>3. todo' = <<>>
    BY <2>1
  <2>4. Handles(active)
    BY <2>2, <2>3, QuietHandles
  <2>5. StoppedRunNotCompleted'
    BY <2>1, <2>2, HonestKept DEF Inv
  <2>6. QED BY <2>4, <2>5
<1>2. CASE ~runtime.finalized
  <2>1. /\ mem[active] \in Record /\ ~IsTerminal(mem[active]) /\ ~Final(active, mem[active])
        /\ Past(mem[active]) /\ Known(mem[active])
    BY <1>2, LiveRunOpen
  <2>2. ASSUME NEW t \in Tasks, t = active, NEW has \in BOOLEAN, has = TRUE,
               NEW none, none = <<>>, NEW r, r = mem[active]
        PROVE  /\ Handles(t) /\ IsTerminal(mem'[t])
               /\ rt' = [runtime EXCEPT !.finalized = TRUE]
               /\ runtime.timedOut \/ runtime.failed => mem'[t].status # "completed"
    <3>1. RecordTerminal(t, r, has, runtime, completion, restart, none, <<>>)
      BY <2>2, Zenon
    <3>2. /\ r \in Record /\ ~IsTerminal(r) /\ (mem[t].cancel => r.cancel) /\ ~Final(t, mem[t])
          /\ life' = "closed" => Past(mem[t])
          /\ Known(mem[t]) \/ \A u \in Tasks : u < t => Known(mem[u])
          /\ ~(has /\ runtime.finalized) /\ TypeOK /\ none = <<>>
      BY <1>2, <2>1, <2>2 DEF Inv
    <3>3. /\ Handles(t) /\ IsTerminal(mem'[t])
          /\ has => /\ rt' = [runtime EXCEPT !.finalized = TRUE]
                    /\ runtime.timedOut \/ runtime.failed => mem'[t].status # "completed"
      BY <3>1, <3>2, FinalHandles
    <3>4. QED BY <2>2, <3>3
  <2>3. /\ Handles(active) /\ IsTerminal(mem'[active])
        /\ rt' = [runtime EXCEPT !.finalized = TRUE]
        /\ runtime.timedOut \/ runtime.failed => mem'[active].status # "completed"
    BY <2>2, Zenon
  <2>4. rt'.timedOut = runtime.timedOut /\ rt'.failed = runtime.failed
    BY <2>3 DEF Runtime
  <2>5. StoppedRunNotCompleted'
    BY <2>3, <2>4 DEF StoppedRunNotCompleted
  <2>6. QED BY <2>3, <2>5
<1>3. QED BY <1>1, <1>2

\* Between two awaits of a run: nothing is left to do, and the run stays.
LEMMA RunFrame ==
    ASSUME Inv, Alive, pc \in {"spawn", "thread", "turn", "running", "verify", "gemini",
                               "catch", "caught", "unwind", "unwound"},
           UNCHANGED <<disk, log, turns, active, stops, life, unloaded>>,
           pc' \in {"spawn", "thread"} => pc \in {"spawn", "thread"}
    PROVE  Frame /\ active \in Tasks /\ todo = <<>>
<1>1. todo = <<>> /\ life # "down" /\ life' # "down"
  BY DEF Alive, Drained
<1>2. active \in Tasks
  BY DEF Inv, TypeOK, RunInv, RunPublished
<1>3. QED BY <1>1, <1>2, NothingLeft DEF Frame, Called

\* closeAppServer of the finally block is the last await of a run.
LEMMA FinallyWaits == EnterFinally => pc' \in {"unwind", "unwound"}
  BY DEF EnterFinally

LEMMA AbandonRunHandles ==
    ASSUME Inv, RecInv, Frame, active \in Tasks, active' = active, AbandonRun
    PROVE  Handles(active) /\ StoppedRunNotCompleted'
<1> DEFINE runtime == Interrupted(ShuttingDown)
<1>1. RecordTerminal(active, mem[active], TRUE, runtime, StopCompletion, ShuttingDown, <<>>, <<>>)
  BY DEF AbandonRun
<1>2. ShuttingDown \in BOOLEAN /\ StopCompletion \in Settled \ {"none"}
  BY ShuttingDownType DEF StopCompletion, Settled
<1>3. runtime \in Runtime /\ runtime.finalized = rt.finalized /\ runtime.timedOut = rt.timedOut
  BY DEF Inv, TypeOK, Runtime, Interrupted
<1> HIDE DEF runtime
<1>4. QED BY <1>1, <1>2, <1>3, RunFinalizes

\* One answered request of runTask: a handler of the run, or turn/start is sent.
LEMMA RequestAnsweredKind ==
    ASSUME Inv, RecInv, NEW step \in {"spawn", "thread", "turn"}, NEW next,
           next = CASE step = "spawn" -> "thread" [] step = "thread" -> "turn" [] OTHER -> "running",
           RequestAnswered(step, next)
    PROVE  (Handles(active) /\ active \in Tasks /\ StoppedRunNotCompleted') \/ TurnSent
<1>1. CASE StopRequested
  <2>1. AbandonRun /\ Alive /\ pc = step
        /\ UNCHANGED <<disk, log, active, stops, life, unloaded>>
    BY <1>1 DEF RequestAnswered
  <2>2. pc' \in {"unwind", "unwound"} /\ turns' = turns
    BY <2>1, FinallyWaits DEF AbandonRun
  <2>3. Frame /\ active \in Tasks
    BY <2>1, <2>2, RunFrame
  <2>4. QED BY <2>1, <2>3, AbandonRunHandles
<1>2. CASE ~StopRequested /\ step = "thread"
  <2>1. next = "turn"
    BY <1>2
  <2>2. QED BY <1>2, <2>1 DEF TurnSent
<1>3. CASE ~StopRequested /\ step # "thread"
  <2>1. next # "turn" /\ (next \in {"spawn", "thread"} => step = "spawn")
    BY <1>3
  <2>2. /\ pc' = next /\ pc = step /\ Alive
        /\ UNCHANGED <<disk, log, turns, active, stops, life, unloaded, mem, rt, todo>>
    BY <1>3, <2>1 DEF RequestAnswered
  <2>3. Frame /\ active \in Tasks /\ todo = <<>>
    BY <2>1, <2>2, RunFrame
  <2>4. Handles(active)
    BY <2>2, <2>3, QuietHandles
  <2>5. StoppedRunNotCompleted'
    BY <2>2, HonestKept DEF Inv
  <2>6. QED BY <2>3, <2>4, <2>5
<1>4. QED BY <1>1, <1>2, <1>3

\* Whoever calls recordTerminal for a task that has no run in this process.
LEMMA QueueFinalizes ==
    ASSUME Inv, RecInv, Frame, NEW t \in Tasks, t # active, NEW r \in Record, ~IsTerminal(r),
           ~Final(t, mem[t]),
           NEW completion \in Settled \ {"none"}, NEW restart \in BOOLEAN, NEW before,
           \/ before = <<>>
           \/ \E c \in Record : /\ before = <<Write(t, c)>> /\ ~IsTerminal(c)
                                /\ Past(mem[t]) => Past(c),
           RecordTerminal(t, r, FALSE, rt, completion, restart, before, <<>>),
           mem[t].cancel => r.cancel,
           Known(mem[t]) \/ \A u \in Tasks : u < t => Known(mem[u]),
           life' = "closed" => Past(mem[t])
    PROVE  Handles(t) /\ StoppedRunNotCompleted'
<1>1. ASSUME NEW has \in BOOLEAN, has = FALSE, NEW runtime, runtime = rt
      PROVE  Handles(t) /\ (\A u \in Tasks \ {t} : mem'[u] = mem[u]) /\ rt' = rt
  <2>1. RecordTerminal(t, r, has, runtime, completion, restart, before, <<>>)
    BY <1>1, Zenon
  <2>2. ~has /\ ~(has /\ runtime.finalized) /\ runtime \in Runtime /\ TypeOK
    BY <1>1 DEF Inv, TypeOK
  <2>3. Handles(t) /\ (\A u \in Tasks \ {t} : mem'[u] = mem[u]) /\ (~has => rt' = rt)
    BY <2>1, <2>2, FinalHandles
  <2>4. QED BY <2>2, <2>3
<1>2. Handles(t) /\ (\A u \in Tasks \ {t} : mem'[u] = mem[u]) /\ rt' = rt
  BY <1>1
<1>3. active \in Tasks \cup {Nobody} /\ TypeOK
  BY DEF Inv, TypeOK
<1>4. StoppedRunNotCompleted'
  BY <1>2, <1>3, HonestKept DEF Frame
<1>5. QED BY <1>2, <1>4

LEMMA RequestFailsKind ==
    ASSUME Inv, RecInv, RequestFails
    PROVE  Handles(active) /\ active \in Tasks /\ StoppedRunNotCompleted'
<1>1. /\ Alive /\ pc \in {"spawn", "thread", "turn"} /\ todo' = todo
      /\ UNCHANGED <<disk, log, turns, active, stops, life, unloaded, mem>>
      /\ pc' \in {"unwind", "unwound", "catch", "caught"}
  BY DEF RequestFails, EnterFinally
<1>2. Frame /\ active \in Tasks /\ todo = <<>>
  BY <1>1, RunFrame
<1>3. Handles(active)
  BY <1>1, <1>2, QuietHandles
<1>4. rt'.finalized => rt.finalized /\ rt' = rt
  <2>1. CASE rt.finalized
    BY <2>1 DEF RequestFails
  <2>2. CASE ~rt.finalized
    BY <2>2 DEF RequestFails, Settle, Inv, TypeOK, Runtime
  <2>3. QED BY <2>1, <2>2
<1>5. StoppedRunNotCompleted'
  BY <1>1, <1>4, HonestKept DEF Inv
<1>6. QED BY <1>2, <1>3, <1>5

LEMMA CatchFinalizesKind ==
    ASSUME Inv, RecInv, CatchFinalizes
    PROVE  Handles(active) /\ active \in Tasks /\ StoppedRunNotCompleted'
<1>1. /\ Alive /\ pc \in {"caught", "catch"}
      /\ UNCHANGED <<disk, log, turns, active, stops, life, unloaded>>
      /\ pc' \in {"unwind", "unwound"}
      /\ RecordTerminal(active, mem[active], TRUE, rt, rt.end, rt.end = "interrupted", <<>>, <<>>)
  BY FinallyWaits DEF CatchFinalizes
<1>2. Frame /\ active \in Tasks
  BY <1>1, RunFrame
<1>3. rt \in Runtime /\ rt.end \in Settled \ {"none"} /\ (rt.end = "interrupted") \in BOOLEAN
  BY <1>1 DEF Inv, TypeOK, RunInv, EndKnown, Runtime
<1>4. QED BY <1>1, <1>2, <1>3, RunFinalizes

LEMMA RunResumesKind ==
    ASSUME Inv, RecInv, RunResumes
    PROVE  Handles(active) /\ active \in Tasks /\ StoppedRunNotCompleted'
<1> DEFINE end == IF ShuttingDown THEN "interrupted" ELSE rt.settled
<1>1. /\ Alive /\ pc = "running" /\ rt.settled # "none"
      /\ UNCHANGED <<disk, log, turns, active, stops, life, unloaded>>
  BY DEF RunResumes
<1>2. end \in Settled \ {"none"} /\ rt \in Runtime /\ ShuttingDown \in BOOLEAN
  BY <1>1, ShuttingDownType DEF Inv, TypeOK, Runtime, Settled
<1>3. CASE end = "completed" /\ ~rt.finalized /\ ~rt.failed /\ active \in Verified /\ ~Cancelled
  <2>1. pc' = "verify" /\ rt' = [rt EXCEPT !.end = end] /\ UNCHANGED <<mem, todo>>
    BY <1>3 DEF RunResumes
  <2>2. Frame /\ active \in Tasks /\ todo = <<>>
    BY <1>1, <2>1, RunFrame
  <2>3. Handles(active)
    BY <2>1, <2>2, QuietHandles
  <2> HIDE DEF end
  <2>4. ~rt'.finalized
    BY <1>2, <1>3, <2>1 DEF Runtime
  <2>5. StoppedRunNotCompleted'
    BY <2>4 DEF StoppedRunNotCompleted
  <2>6. QED BY <2>2, <2>3, <2>5
<1>4. CASE ~(end = "completed" /\ ~rt.finalized /\ ~rt.failed /\ active \in Verified /\ ~Cancelled)
  <2>1. /\ RecordTerminal(active, mem[active], TRUE, rt, end, ShuttingDown, <<>>, <<>>)
        /\ pc' \in {"unwind", "unwound"}
    BY <1>4, FinallyWaits DEF RunResumes
  <2>2. Frame /\ active \in Tasks
    BY <1>1, <2>1, RunFrame
  <2> HIDE DEF end
  <2>3. QED BY <1>1, <1>2, <2>1, <2>2, RunFinalizes
<1>5. QED BY <1>3, <1>4

LEMMA VerifyEndsKind ==
    ASSUME Inv, RecInv, NEW passed \in BOOLEAN, VerifyEnds(passed)
    PROVE  Handles(active) /\ active \in Tasks /\ StoppedRunNotCompleted'
<1> DEFINE void == StopRequested \/ rt.timedOut
           after == [rt EXCEPT !.failed = rt.failed \/ (~passed /\ ~void)]
<1>1. /\ Alive /\ pc = "verify"
      /\ UNCHANGED <<disk, log, turns, active, stops, life, unloaded>>
      /\ RecordTerminal(active, mem[active], TRUE, after, rt.end, FALSE, <<>>, <<>>)
      /\ pc' \in {"unwind", "unwound"}
  BY FinallyWaits DEF VerifyEnds
<1>2. Frame /\ active \in Tasks
  BY <1>1, RunFrame
<1>3. /\ after \in Runtime /\ after.finalized = rt.finalized /\ after.timedOut = rt.timedOut
      /\ rt.end \in Settled \ {"none"}
  BY <1>1 DEF Inv, TypeOK, RunInv, EndKnown, Runtime
<1> HIDE DEF after
<1>4. ASSUME NEW restart \in BOOLEAN, restart = FALSE
      PROVE  Handles(active) /\ StoppedRunNotCompleted'
  <2>1. RecordTerminal(active, mem[active], TRUE, after, rt.end, restart, <<>>, <<>>)
    BY <1>1, <1>4, Zenon
  <2>2. QED BY <1>1, <1>2, <1>3, <2>1, RunFinalizes
<1>5. QED BY <1>2, <1>4

LEMMA GeminiEndsKind ==
    ASSUME Inv, RecInv, NEW status \in {"completed", "failed"}, GeminiEnds(status)
    PROVE  Handles(active) /\ active \in Tasks /\ StoppedRunNotCompleted'
<1> DEFINE end == IF ShuttingDown THEN "interrupted" ELSE IF Cancelled THEN "cancelled" ELSE status
           runtime == Interrupted(ShuttingDown)
<1>1. /\ Alive /\ pc = "gemini"
      /\ UNCHANGED <<disk, log, turns, active, stops, life, unloaded>>
      /\ RecordTerminal(active, mem[active], TRUE, runtime, end, ShuttingDown, <<>>, <<>>)
      /\ pc' \in {"unwind", "unwound"}
  BY FinallyWaits DEF GeminiEnds
<1>2. Frame /\ active \in Tasks
  BY <1>1, RunFrame
<1>3. /\ runtime \in Runtime /\ runtime.finalized = rt.finalized /\ runtime.timedOut = rt.timedOut
      /\ end \in Settled \ {"none"} /\ ShuttingDown \in BOOLEAN
  BY ShuttingDownType DEF Inv, TypeOK, Runtime, Interrupted, Settled
<1> HIDE DEF runtime, end
<1>4. QED BY <1>1, <1>2, <1>3, RunFinalizes

LEMMA RetireKind ==
    ASSUME Inv, RecInv, Retire
    PROVE  Handles(active) /\ active \in Tasks /\ StoppedRunNotCompleted'
<1>1. /\ Alive /\ pc \in {"unwound", "unwind"} /\ active' = Nobody
      /\ UNCHANGED <<disk, log, turns, mem, stops, life, unloaded, todo>>
  BY DEF Retire
<1>2. active \in Tasks
  BY <1>1 DEF Inv, TypeOK, RunInv, RunPublished
<1>3. Frame /\ todo = <<>>
  BY <1>1, NothingLeft DEF Frame, Called, Alive, Drained
<1>4. Handles(active)
  BY <1>1, <1>2, <1>3, QuietHandles
<1>5. StoppedRunNotCompleted'
  BY <1>1 DEF StoppedRunNotCompleted
<1>6. QED BY <1>2, <1>4, <1>5

LEMMA TurnCompletedKind ==
    ASSUME Inv, RecInv, NEW status, TurnCompleted(status)
    PROVE  Handles(active) /\ active \in Tasks /\ StoppedRunNotCompleted'
<1>1. /\ Alive /\ pc \in {"turn", "running"} /\ pc' = pc /\ ~rt.finalized
      /\ rt' = [rt EXCEPT !.settled = status, !.failed = rt.failed \/ status = "failed"]
      /\ UNCHANGED <<disk, log, turns, active, mem, stops, life, unloaded, todo>>
  BY DEF TurnCompleted
<1>2. Frame /\ active \in Tasks /\ todo = <<>>
  BY <1>1, RunFrame
<1>3. Handles(active)
  BY <1>1, <1>2, QuietHandles
<1>4. StoppedRunNotCompleted'
  BY <1>1 DEF StoppedRunNotCompleted, Inv, TypeOK, Runtime
<1>5. QED BY <1>2, <1>3, <1>4

\* Every step of a run is a handler of its task, or sends the turn.
LEMMA RunStepRec == Inv /\ RecInv /\ RunStep /\ Inv' => RecInv'
<1> SUFFICES ASSUME Inv, RecInv, RunStep, Inv' PROVE RecInv'
  OBVIOUS
<1>1. (Handles(active) /\ active \in Tasks /\ StoppedRunNotCompleted') \/ TurnSent
  <2>1. CASE RequestAnswered("spawn", "thread")
    BY <2>1, RequestAnsweredKind
  <2>2. CASE RequestAnswered("thread", "turn")
    BY <2>2, RequestAnsweredKind
  <2>3. CASE RequestAnswered("turn", "running")
    BY <2>3, RequestAnsweredKind
  <2>4. CASE RequestFails
    BY <2>4, RequestFailsKind
  <2>5. CASE CatchFinalizes
    BY <2>5, CatchFinalizesKind
  <2>6. CASE RunResumes
    BY <2>6, RunResumesKind
  <2>7. ASSUME NEW passed \in BOOLEAN, VerifyEnds(passed)
        PROVE  Handles(active) /\ active \in Tasks /\ StoppedRunNotCompleted'
    BY <2>7, VerifyEndsKind
  <2>8. ASSUME NEW status \in {"completed", "failed"}, GeminiEnds(status)
        PROVE  Handles(active) /\ active \in Tasks /\ StoppedRunNotCompleted'
    BY <2>8, GeminiEndsKind
  <2>9. CASE Retire
    BY <2>9, RetireKind
  <2>10. QED BY <2>1, <2>2, <2>3, <2>4, <2>5, <2>6, <2>7, <2>8, <2>9 DEF RunStep
<1>2. QED BY <1>1, HandlesRec, TurnSentRec

-----------------------------------------------------------------------------
(* The pump *)

\* The FIFO head of the queue: older tasks left the queue, nothing of it runs.
LEMMA HeadOfQueue ==
    ASSUME Inv, RecInv, CanDispatch, Writes(todo) = {}, NEW t \in Tasks, t = NextQueued
    PROVE  /\ mem[t].status = "queued" /\ mem[t] \in Record /\ Known(mem[t])
           /\ ~IsTerminal(mem[t]) /\ ~Final(t, mem[t]) /\ ~Past(mem[t]) /\ ~Past(disk[t])
           /\ \A u \in Tasks : u < t => Past(mem[u])
           /\ turns[t] = 0 /\ log[t] = <<>> /\ life = "up" /\ active = Nobody
<1>1. life = "up" /\ active = Nobody /\ Queued # {}
  BY DEF CanDispatch
<1>2. mem[t].status = "queued"
  BY <1>1, QueueHead DEF Inv
<1>3. \A u \in Queued : t <= u
  <2>1. Queued \subseteq Nat
    BY BoundsAssumption, SMT DEF Queued, Tasks
  <2>2. PICK h \in Queued : \A u \in Queued : ~ (<<u, h>> \in OpToRel(<, Nat))
    BY <1>1, <2>1, NatLessThanWellFounded, WFMin
  <2>3. \A u \in Queued : h <= u
    <3>1. ASSUME NEW u \in Queued, u < h PROVE FALSE
      BY <2>1, <2>2, <3>1 DEF OpToRel
    <3>2. QED BY <2>1, <3>1, SMT
  <2>4. QED BY <2>3 DEF NextQueued
<1>4. mem[t] \in Record /\ Known(mem[t]) /\ ~IsTerminal(mem[t]) /\ ~Past(mem[t]) /\ ~Final(t, mem[t])
  BY <1>2 DEF Inv, TypeOK, NoRecord, Known, IsTerminal, Terminal, Past, Final
<1>5. ~Past(disk[t])
  BY <1>1, <1>4, NoWritesInSync
<1>6. turns[t] = 0 /\ log[t] = <<>>
  BY <1>5 DEF Inv, TypeOK, RecInv, TurnsKept, LinesTrue
<1>7. \A u \in Tasks : u < t => Past(mem[u])
  <2>1. SUFFICES ASSUME NEW u \in Tasks, u < t PROVE Past(mem[u])
    OBVIOUS
  <2>2. Known(mem[u])
    BY <1>4, <2>1 DEF RecInv, OrderKept
  <2>3. u \notin Queued
    BY <1>3, <2>1 DEF Tasks
  <2>4. QED BY <2>2, <2>3 DEF Queued, Known, Past
<1>8. QED BY <1>1, <1>2, <1>4, <1>5, <1>6, <1>7

\* The running record of the task that is started, and the run that is published.
LEMMA StartedRecord ==
    ASSUME NEW r \in Record
    PROVE  LET m == [r EXCEPT !.status = "running"]
           IN  /\ m \in Record /\ ~IsTerminal(m) /\ Past(m) /\ Known(m) /\ CancelSafe(m)
               /\ m.cancel = r.cancel
  BY DEF Record, Status, Terminal, IsTerminal, Past, Known, CancelSafe

\* No handler that keeps the calls in flight accepts a call of the backend.
LEMMA StopsKept == stops' = stops => \A u \in Tasks : Called(u)' => Called(u)
  BY DEF Called

\* Starting a run that is not over at once: the running record is written, and
\* perhaps the turn is handed over.
LEMMA StartHandles ==
    ASSUME Inv, RecInv, CanDispatch, Writes(todo) = {}, NEW t \in Tasks, t = NextQueued,
           UNCHANGED <<disk, log, stops, life, unloaded, turns>>, active' = t,
           rt' = FreshRuntime,
           mem' = [mem EXCEPT ![t] = [mem[t] EXCEPT !.status = "running"]],
           \/ todo' = <<Write(t, mem'[t])>>
           \/ todo' = <<Write(t, mem'[t]), Execute(t)>> /\ pc' = "gemini"
    PROVE  Handles(t) /\ StoppedRunNotCompleted'
<1>1. /\ mem[t].status = "queued" /\ mem[t] \in Record /\ Known(mem[t])
      /\ ~Past(mem[t]) /\ ~Past(disk[t])
      /\ \A u \in Tasks : u < t => Past(mem[u])
      /\ turns[t] = 0 /\ log[t] = <<>> /\ life = "up" /\ active = Nobody
  BY HeadOfQueue
<1> DEFINE m == [mem[t] EXCEPT !.status = "running"]
<1>2. m \in Record /\ ~IsTerminal(m) /\ Past(m) /\ Known(m) /\ CancelSafe(m) /\ m.cancel = mem[t].cancel
  BY <1>1, StartedRecord
<1>3. mem'[t] = m /\ \A u \in Tasks \ {t} : mem'[u] = mem[u]
  BY DEF Inv, TypeOK
<1> HIDE DEF m
<1>4. Follows(t, disk[t], m)
  <2>1. ~Final(t, disk[t])
    BY <1>1, FinalIsPast DEF Final
  <2>2. QED BY <1>1, <2>1 DEF Follows
<1>5. /\ Rest(t, todo', disk[t], m, log[t]) /\ Writes(todo') = {1}
      /\ \A i \in DOMAIN todo' : todo'[i].op = "execute" => pc' = "gemini"
  <2>1. ASSUME todo' = <<Write(t, m)>>
        PROVE  /\ Rest(t, todo', disk[t], m, log[t]) /\ Writes(todo') = {1}
               /\ \A i \in DOMAIN todo' : todo'[i].op # "execute"
    <3>1. Write(t, m).op = "write"
      BY DEF Write
    <3>2. QED BY <1>2, <1>4, <2>1, <3>1, RestOfWrite
  <2>2. ASSUME todo' = <<Write(t, m), Execute(t)>>
        PROVE  Rest(t, todo', disk[t], m, log[t]) /\ Writes(todo') = {1}
    <3> DEFINE e == Execute(t)
    <3>1. e.op = "execute" /\ e.task = t
      BY DEF Execute
    <3> HIDE DEF e
    <3>2. Rest(t, <<Write(t, m), e>>, disk[t], m, log[t]) /\ Writes(<<Write(t, m), e>>) = {1}
      BY <1>2, <1>4, <3>1, RestOfWriteThen
    <3>3. QED BY <2>2, <3>2 DEF e
  <2>3. QED BY <1>3, <2>1, <2>2
<1>6. \A u \in Tasks : Called(u)' => Called(u)
  BY StopsKept
<1>7. life' = "up" /\ life # "down" /\ unloaded' \subseteq unloaded
  BY <1>1
<1>8. Handles(t)
  BY <1>1, <1>2, <1>3, <1>5, <1>6, <1>7 DEF Handles
<1>9. ~rt'.finalized
  BY DEF FreshRuntime
<1>10. QED BY <1>8, <1>9 DEF StoppedRunNotCompleted

\* The record of a task that starts, and the terminal one of a task that was cancelled
\* before.
StartedAs(t, m) == m = [mem[t] EXCEPT !.status = "running"]
CancelledAs(m, f, recorded) == f = [m EXCEPT !.status = "cancelled", !.recorded = recorded]

\* A Gemini task whose cancellation was requested before it started is written as
\* running and finalized as cancelled at once.
LEMMA StartCancelledHandles ==
    ASSUME Inv, RecInv, CanDispatch, Writes(todo) = {}, NEW t \in Tasks, t = NextQueued,
           UNCHANGED <<disk, log, stops, life, unloaded, turns>>, active' = t, pc' = "returned",
           rt'.failed = FALSE, rt'.timedOut = FALSE,
           NEW recorded \in BOOLEAN, NEW appended \in BOOLEAN, NEW m, NEW f,
           StartedAs(t, m), CancelledAs(m, f, recorded),
           mem' = [mem EXCEPT ![t] = f],
           todo' = <<Write(t, m)>> \o AuditOps(t, f, appended)
    PROVE  Handles(t) /\ StoppedRunNotCompleted'
<1>1. /\ mem[t].status = "queued" /\ mem[t] \in Record /\ Known(mem[t])
      /\ ~Past(mem[t]) /\ ~Past(disk[t])
      /\ \A u \in Tasks : u < t => Past(mem[u])
      /\ turns[t] = 0 /\ log[t] = <<>> /\ life = "up" /\ active = Nobody
  BY HeadOfQueue
<1>2. m \in Record /\ ~IsTerminal(m) /\ Past(m) /\ Known(m) /\ CancelSafe(m) /\ m.cancel = mem[t].cancel
  BY <1>1, StartedRecord DEF StartedAs
<1>3. mem'[t] = f /\ \A u \in Tasks \ {t} : mem'[u] = mem[u]
  BY DEF Inv, TypeOK
<1>4. f \in Record /\ IsTerminal(f) /\ f.status = "cancelled" /\ f.cancel = m.cancel
  <2>1. "cancelled" \in Terminal
    BY DEF Terminal
  <2>2. f \in Record /\ IsTerminal(f)
    BY <1>2, <2>1, FinalRecordType DEF CancelledAs
  <2>3. f.status = "cancelled" /\ f.cancel = m.cancel
    BY <1>2 DEF Record, CancelledAs
  <2>4. QED BY <2>2, <2>3
<1>5. ~Final(t, disk[t]) /\ Follows(t, disk[t], m) /\ CancelSafe(f) /\ Past(f) /\ Known(f)
  <2>1. ~Final(t, disk[t])
    BY <1>1, FinalIsPast DEF Final
  <2>2. QED BY <1>1, <1>4, <2>1, FinalIsPast DEF Follows, CancelSafe
<1>6. ~Audited(t, f.status)
  BY <1>1 DEF Audited
<1>7. /\ Rest(t, todo', disk[t], f, log[t]) /\ Writes(todo') # {}
      /\ \A i \in DOMAIN todo' : todo'[i].op # "execute"
  <2>1. LinesTrue /\ TypeOK
    BY DEF Inv, RecInv
  <2>2. f \in Record /\ IsTerminal(f) /\ CancelSafe(f) /\ ~Audited(t, f.status) /\ ~Final(t, disk[t])
    BY <1>4, <1>5, <1>6
  <2>3. m \in Record /\ CancelSafe(m) /\ ~IsTerminal(m) /\ Follows(t, disk[t], m)
    BY <1>2, <1>5
  <2>4. \A c \in Record : CancelSafe(c) /\ ~IsTerminal(c) /\ Follows(t, disk[t], c) =>
          LET s == <<Write(t, c)>> \o AuditOps(t, f, appended)
          IN  /\ Rest(t, s, disk[t], f, log[t]) /\ Writes(s) # {}
              /\ \A i \in DOMAIN s : s[i].op # "execute"
    BY <2>1, <2>2, RestAfterRun
  <2>5. QED BY <2>3, <2>4
<1>8. \A u \in Tasks : Called(u)' => Called(u)
  BY StopsKept
<1>9. Handles(t)
  BY <1>1, <1>2, <1>3, <1>4, <1>5, <1>7, <1>8 DEF Handles
<1>10. StoppedRunNotCompleted'
  BY DEF StoppedRunNotCompleted
<1>11. QED BY <1>9, <1>10

\* A handler that leaves the writes of ensureExecutionRecord for a terminal record.
LEMMA AuditHandles ==
    ASSUME TypeOK, RecInv, Frame, NEW t \in Tasks, NEW f \in Record,
           mem'[t] = f, \A u \in Tasks \ {t} : mem'[u] = mem[u],
           IsTerminal(f), CancelSafe(f), f.recorded = TRUE,
           Final(t, mem[t]) => f.status = mem[t].status,
           mem[t].cancel => f.cancel, Known(mem[t]), life' = "closed" => Past(mem[t]),
           todo' = AuditOps(t, f, TRUE)
    PROVE  Handles(t)
<1>1. mem[t].status = disk[t].status /\ (Past(mem[t]) <=> Past(disk[t]))
  BY NoWritesInSync DEF Frame
<1>2. Final(t, disk[t]) => f.status = disk[t].status
  BY <1>1 DEF Final, IsTerminal
<1>3. LinesTrue /\ (Audited(t, f.status) => f.recorded = TRUE) /\ TRUE \in BOOLEAN
  BY DEF RecInv
<1>4. /\ Rest(t, todo', disk[t], f, log[t]) /\ Writes(todo') # {}
      /\ \A i \in DOMAIN todo' : todo'[i].op # "execute"
  BY <1>2, <1>3, RestOfFinal
<1>5. Past(f) /\ Known(f)
  BY FinalIsPast
<1>6. QED BY <1>1, <1>4, <1>5 DEF Frame, Handles

\* What the handlers keep: one task is handled, and no stopped run completes.
Handled == (\E t \in Tasks : Handles(t)) /\ StoppedRunNotCompleted'

\* The slot file of the task that is started could not be created.
LEMMA SlotFaultHandles ==
    ASSUME Inv, RecInv, Frame, CanDispatch, Writes(todo) = {}, NEW t \in Tasks, t = NextQueued,
           active' = active, life' = life, NEW s, s = (IF mem[t].cancel THEN "cancelled" ELSE "failed"),
           mem' = [mem EXCEPT ![t].status = s, ![t].recorded = TRUE],
           todo' = AuditOps(t, mem'[t], TRUE)
    PROVE  Handled
<1>1. /\ mem[t].status = "queued" /\ mem[t] \in Record /\ Known(mem[t])
      /\ ~IsTerminal(mem[t]) /\ ~Final(t, mem[t]) /\ life = "up" /\ active = Nobody
  BY HeadOfQueue
<1>2. s \in Terminal /\ TRUE \in BOOLEAN
  BY DEF Terminal
<1> DEFINE f == [mem[t] EXCEPT !.status = s, !.recorded = TRUE]
<1>3. f \in Record /\ IsTerminal(f)
  BY <1>1, <1>2, FinalRecordType
<1>4. f.status = s /\ f.recorded = TRUE /\ f.cancel = mem[t].cancel
  BY <1>1 DEF Record
<1>5. mem' = [mem EXCEPT ![t] = f]
  BY DEF Inv, TypeOK
<1>6. mem'[t] = f /\ \A u \in Tasks \ {t} : mem'[u] = mem[u]
  BY <1>5 DEF Inv, TypeOK
<1> HIDE DEF f
<1>7. CancelSafe(f)
  BY <1>4 DEF CancelSafe
<1>8. TypeOK /\ todo' = AuditOps(t, f, TRUE) /\ (life' = "closed" => Past(mem[t]))
  BY <1>1, <1>6 DEF Inv
<1>9. Handles(t)
  BY <1>1, <1>3, <1>4, <1>6, <1>7, <1>8, AuditHandles
<1>10. StoppedRunNotCompleted'
  BY <1>1 DEF StoppedRunNotCompleted
<1>11. QED BY <1>9, <1>10 DEF Handled

LEMMA PumpBodyHandled ==
    ASSUME Inv, RecInv, life # "down", Writes(todo) = {}, NEW scheduled \in BOOLEAN,
           PumpBody(<<>>, scheduled)
    PROVE  Handled
<1>1. UNCHANGED <<disk, log, paused, stops, life, unloaded, collector, spent>>
  BY DEF PumpBody
<1>2. \A u \in Tasks : Called(u)' => Called(u)
  BY <1>1, StopsKept
<1>3. CASE ~CanDispatch
  <2>1. todo' = <<>> /\ UNCHANGED <<mem, active, rt, pc, turns>>
    BY <1>3 DEF PumpBody
  <2>2. Frame
    BY <1>1, <1>2, <2>1 DEF Frame
  <2>3. PICK t \in Tasks : TRUE
    BY BoundsAssumption, SMT DEF Tasks
  <2>4. Handles(t)
    BY <2>1, <2>2, QuietHandles
  <2>5. StoppedRunNotCompleted'
    BY <2>1, HonestKept DEF Inv
  <2>6. QED BY <2>4, <2>5 DEF Handled
<1>4. ASSUME CanDispatch, NEW t \in Tasks, t = NextQueued PROVE Handled
  <2>1. /\ mem[t].status = "queued" /\ mem[t] \in Record /\ Known(mem[t])
        /\ ~IsTerminal(mem[t]) /\ ~Final(t, mem[t]) /\ life = "up" /\ active = Nobody
    BY <1>4, HeadOfQueue
  <2>2. CASE StartCodex(t, <<>>)
    <3> DEFINE r == [mem[t] EXCEPT !.status = "running"]
               w == Write(t, r)
    <3>1. /\ active' = t /\ rt' = FreshRuntime /\ mem' = [mem EXCEPT ![t] = r]
          /\ todo' = <<>> \o <<w>> /\ UNCHANGED turns
      BY <2>2 DEF StartCodex
    <3>2. mem'[t] = r
      BY <3>1 DEF Inv, TypeOK
    <3> HIDE DEF w
    <3>3. todo' = <<w>>
      BY <3>1, OneAndOne
    <3>4. Handles(t) /\ StoppedRunNotCompleted'
      BY <1>1, <1>4, <3>1, <3>2, <3>3, StartHandles DEF w
    <3>5. QED BY <3>4 DEF Handled
  <2>3. CASE StartGemini(t, <<>>) /\ ~mem[t].cancel
    <3> DEFINE r == [mem[t] EXCEPT !.status = "running"]
               w == Write(t, r)
               e == Execute(t)
    <3>1. /\ active' = t /\ rt' = FreshRuntime /\ mem' = [mem EXCEPT ![t] = r]
          /\ todo' = <<>> \o <<w, e>> /\ UNCHANGED turns /\ pc' = "gemini"
      BY <2>3 DEF StartGemini, HandOver
    <3>2. mem'[t] = r
      BY <3>1 DEF Inv, TypeOK
    <3> HIDE DEF w, e
    <3>3. todo' = <<w, e>>
      <4>1. <<w, e>> \in Seq({w, e})
        OBVIOUS
      <4>2. QED BY <3>1, <4>1, ConcatEmptySeq
    <3>4. Handles(t) /\ StoppedRunNotCompleted'
      BY <1>1, <1>4, <3>1, <3>2, <3>3, StartHandles DEF w, e
    <3>5. QED BY <3>4 DEF Handled
  <2>4. CASE StartGemini(t, <<>>) /\ mem[t].cancel
    <3> DEFINE m == [mem[t] EXCEPT !.status = "running"]
               final(fault) == [m EXCEPT !.status = "cancelled",
                                         !.recorded = fault \notin AppendFaults]
    <3>1. PICK fault \in Faults :
            /\ pc' = "returned" /\ rt' = [FreshRuntime EXCEPT !.finalized = TRUE]
            /\ mem' = [mem EXCEPT ![t] = final(fault)]
            /\ todo' = <<>> \o <<Write(t, m)>> \o AuditOps(t, final(fault), fault # "append")
      BY <2>4 DEF StartGemini
    <3>2. active' = t /\ UNCHANGED turns
      BY <2>4 DEF StartGemini
    <3>3. rt'.failed = FALSE /\ rt'.timedOut = FALSE
      BY <3>1 DEF FreshRuntime
    <3>4. (fault \notin AppendFaults) \in BOOLEAN /\ (fault # "append") \in BOOLEAN
      OBVIOUS
    <3>5. todo' = <<Write(t, m)>> \o AuditOps(t, final(fault), fault # "append")
      <4> HIDE DEF m, final
      <4>1. <<>> \o <<Write(t, m)>> = <<Write(t, m)>>
        BY OneAndOne
      <4>2. QED BY <3>1, <4>1
    <3>6. ASSUME NEW recorded \in BOOLEAN, recorded = (fault \notin AppendFaults),
                 NEW appended \in BOOLEAN, appended = (fault # "append"),
                 NEW mm, mm = m, NEW f, f = [mm EXCEPT !.status = "cancelled", !.recorded = recorded],
                 mem' = [mem EXCEPT ![t] = f],
                 todo' = <<Write(t, mm)>> \o AuditOps(t, f, appended)
          PROVE  Handles(t) /\ StoppedRunNotCompleted'
      <4>1. mm = [mem[t] EXCEPT !.status = "running"]
        BY <3>6
      <4>2. pc' = "returned" /\ UNCHANGED <<disk, log, stops, life, unloaded, turns>> /\ active' = t
        BY <1>1, <3>1, <3>2
      <4> HIDE DEF m, final
      <4>3. QED BY <1>4, <3>3, <3>6, <4>1, <4>2, StartCancelledHandles DEF StartedAs, CancelledAs
    <3>7. Handles(t) /\ StoppedRunNotCompleted'
      BY <3>1, <3>4, <3>5, <3>6, Zenon
    <3>8. QED BY <3>7 DEF Handled
  <2>5. ASSUME UNCHANGED <<active, rt, pc, turns>>,
               mem' = [mem EXCEPT ![t].status = IF mem[t].cancel THEN "cancelled" ELSE "failed",
                                  ![t].recorded = TRUE],
               todo' = <<>> \o AuditOps(t, mem'[t], TRUE)
        PROVE  Handled
    <3>1. Frame
      BY <1>1, <1>2, <2>5 DEF Frame
    <3> DEFINE s == IF mem[t].cancel THEN "cancelled" ELSE "failed"
               f == [mem[t] EXCEPT !.status = s, !.recorded = TRUE]
    <3>2. s \in Terminal /\ TRUE \in BOOLEAN
      BY DEF Terminal
    <3>3. mem' = [mem EXCEPT ![t].status = s, ![t].recorded = TRUE]
      BY <2>5
    <3>4. mem'[t] = f
      BY <3>3 DEF Inv, TypeOK
    <3> HIDE DEF s
    <3>5. f \in Record /\ IsTerminal(f)
      BY <2>1, <3>2, FinalRecordType
    <3>6. AuditOps(t, f, TRUE) \in Seq(Op)
      BY <3>2, <3>5, AuditOpsType
    <3>7. todo' = AuditOps(t, mem'[t], TRUE)
      BY <2>5, <3>4, <3>6, ConcatEmptySeq
    <3>8. QED BY <1>1, <1>4, <2>5, <3>1, <3>3, <3>7, SlotFaultHandles DEF s
  <2>6. ASSUME RecordTerminal(t, mem[t], FALSE, rt, "failed", FALSE, <<>>, <<>>),
               UNCHANGED <<active, rt, pc, turns>>
        PROVE  Handled
    <3>1. Frame
      BY <1>1, <1>2, <2>6 DEF Frame
    <3>2. t # active /\ life' # "closed" /\ "failed" \in Settled \ {"none"} /\ FALSE \in BOOLEAN
      BY <1>1, <2>1, HolderKinds DEF Settled
    <3>3. ASSUME NEW none, none = <<>> PROVE Handles(t) /\ StoppedRunNotCompleted'
      <4>1. RecordTerminal(t, mem[t], FALSE, rt, "failed", FALSE, none, <<>>)
        BY <2>6, <3>3, Zenon
      <4>2. QED BY <2>1, <3>1, <3>2, <3>3, <4>1, QueueFinalizes
    <3>4. Handles(t) /\ StoppedRunNotCompleted'
      BY <3>3, Zenon
    <3>5. QED BY <3>4 DEF Handled
  <2>7. Dispatch(<<>>, scheduled)
    BY <1>4 DEF PumpBody
  <2>8. QED BY <1>4, <2>2, <2>3, <2>4, <2>5, <2>6, <2>7 DEF Dispatch
<1>5. CanDispatch => NextQueued \in Tasks
  BY QueueHead DEF Inv, CanDispatch
<1>6. QED BY <1>3, <1>4, <1>5

LEMMA PumpNowHandled == Inv /\ RecInv /\ PumpNow => Handled
<1> SUFFICES ASSUME Inv, RecInv, PumpNow PROVE Handled
  OBVIOUS
<1>1. todo # <<>> /\ Head(todo).op = "pump" /\ todo \in Seq(Op) /\ pumpScheduled \in BOOLEAN
  BY DEF PumpNow, Inv, TypeOK
<1>2. PICK t \in Tasks : Rest(t, todo, disk[t], mem[t], log[t])
  BY DEF RecInv, HandlerKept
<1>3. Tail(todo) = <<>> /\ Writes(todo) = {}
  BY <1>1, <1>2, RestIsLast
<1>4. PumpBody(<<>>, pumpScheduled)
  BY <1>3 DEF PumpNow
<1>5. life # "down"
  BY <1>1 DEF RecInv, HandlerKept
<1>6. QED BY <1>1, <1>3, <1>4, <1>5, PumpBodyHandled

LEMMA PumpMicrotaskHandled == Inv /\ RecInv /\ PumpMicrotask => Handled
<1> SUFFICES ASSUME Inv, RecInv, PumpMicrotask PROVE Handled
  OBVIOUS
<1>1. life # "down" /\ todo = <<>> /\ PumpBody(<<>>, FALSE) /\ FALSE \in BOOLEAN
  BY DEF PumpMicrotask
<1>2. QED BY <1>1, NothingLeft, PumpBodyHandled

-----------------------------------------------------------------------------
(* stopRuntime, its callers, and the handlers that touch no record *)

\* A handler that changes no record, publishes no run and finalizes none.
LEMMA QuietHandled ==
    ASSUME Inv, RecInv, Frame, mem' = mem, active' = active, NEW t \in Tasks,
           \/ todo' = <<>>
           \/ \E why : todo' = <<Stopped(t, why)>>,
           rt'.finalized => rt.finalized /\ rt'.timedOut = rt.timedOut /\ rt'.failed = rt.failed
    PROVE  Handled
<1>1. Handles(t)
  BY QuietHandles
<1>2. StoppedRunNotCompleted'
  BY HonestKept DEF Inv
<1>3. QED BY <1>1, <1>2 DEF Handled

\* Every handler that leaves the records, the run and the calls alone.
LEMMA UntouchedHandled ==
    ASSUME Inv, RecInv, life # "down", life' # "down", todo = <<>>,
           UNCHANGED <<disk, log, mem, active, rt, pc, stops, turns, todo, unloaded>>
    PROVE  Handled
<1>1. Frame
  BY NothingLeft, StopsKept DEF Frame
<1>2. PICK t \in Tasks : TRUE
  BY BoundsAssumption, SMT DEF Tasks
<1>3. QED BY <1>1, <1>2, QuietHandled

LEMMA QuietStepsHandled ==
    ASSUME Inv, RecInv,
           \/ \E p \in BOOLEAN : SetPaused(p) \/ SetProductPaused(p)
           \/ NativeAcquire \/ NativeRelease \/ BeginCollect \/ EndCollect \/ FinishBoot
    PROVE  Handled
<1>1. /\ life # "down" /\ life' # "down" /\ todo = <<>>
      /\ UNCHANGED <<disk, log, mem, active, rt, pc, stops, turns, todo, unloaded>>
  BY DEF SetPaused, SetProductPaused, NativeAcquire, NativeRelease, BeginCollect, EndCollect,
         FinishBoot, Idle, Alive, Drained
<1>2. QED BY <1>1, UntouchedHandled

\* A stop that moves on: it hands over to its caller, or waits for something else.
LEMMA StopMovesHandled ==
    ASSUME Inv, RecInv, Alive, NEW s \in stops,
           UNCHANGED <<disk, log, mem, active, rt, pc, turns, life, unloaded>>,
           \A x \in stops' : x \in stops \/ x.stage # "called",
           todo' = <<>> \/ todo' = <<Stopped(s.task, s.reason)>>
    PROVE  Handled
<1>1. life # "down" /\ life' # "down" /\ todo = <<>>
  BY DEF Alive, Drained
<1>2. Frame
  BY <1>1, NothingLeft, NoNewCall DEF Frame
<1>3. s.task \in Tasks
  BY StopTypes DEF Inv, TypeOK
<1>4. QED BY <1>2, <1>3, QuietHandled

LEMMA StopStagesHandled ==
    ASSUME Inv, RecInv, NEW s \in stops,
           InterruptAnswered(s) \/ GraceOver(s) \/ CloseAwaited(s)
    PROVE  Handled
<1>1. Alive /\ UNCHANGED <<disk, log, mem, active, rt, pc, turns, life, unloaded>>
  BY DEF InterruptAnswered, GraceOver, CloseAwaited
<1>2. todo' = <<>> \/ todo' = <<Stopped(s.task, s.reason)>>
  BY DEF InterruptAnswered, GraceOver, CloseAwaited, Alive, Drained
<1>3. \A x \in stops' : x \in stops \/ x.stage # "called"
  <2>1. s \in Stop
    BY DEF Inv, TypeOK
  <2>2. [s EXCEPT !.stage = "grace"].stage = "grace" /\ [s EXCEPT !.stage = "closing"].stage = "closing"
    BY <2>1 DEF Stop
  <2>3. stops' \subseteq (stops \cup {[s EXCEPT !.stage = "grace"], [s EXCEPT !.stage = "closing"]})
    BY DEF InterruptAnswered, GraceOver, CloseAwaited
  <2>4. QED BY <2>2, <2>3
<1>4. QED BY <1>1, <1>2, <1>3, StopMovesHandled

LEMMA StopReturnsHandled == Inv /\ RecInv /\ StopReturns => Handled
<1> SUFFICES ASSUME Inv, RecInv, StopReturns PROVE Handled
  OBVIOUS
<1>1. /\ todo # <<>> /\ Head(todo).op = "stopped" /\ todo \in Seq(Op)
      /\ UNCHANGED <<disk, log, active, pc, stops, life, unloaded, turns>>
  BY DEF StopReturns, Inv, TypeOK
<1>2. PICK t \in Tasks : Rest(t, todo, disk[t], mem[t], log[t])
  BY DEF RecInv, HandlerKept
<1>3. Tail(todo) = <<>> /\ Writes(todo) = {} /\ Head(todo).task = t
  BY <1>1, <1>2, RestIsLast
<1>4. life # "down"
  BY <1>1 DEF RecInv, HandlerKept
<1>5. Frame
  BY <1>1, <1>3, <1>4, StopsKept DEF Frame
<1> DEFINE why == Head(todo).reason
           status == CASE why = "cancel" -> "cancelled"
                       [] why = "shutdown" -> "interrupted"
                       [] OTHER -> "failed"
           settled == Settle(status, rt)
<1>6. status \in Settled \ {"none"}
  BY DEF Settled
<1> HIDE DEF status
<1>7. /\ settled \in Runtime /\ settled.finalized = rt.finalized
      /\ settled.timedOut = rt.timedOut /\ settled.failed = rt.failed
  BY <1>6 DEF Inv, TypeOK, Runtime, Settle
<1>8. CASE why \in {"timeout", "policy"}
  <2>1. rt' = (IF active = t THEN settled ELSE rt) /\ todo' = <<>> /\ mem' = mem
    BY <1>3, <1>8 DEF StopReturns, status
  <2> HIDE DEF settled
  <2>2. QED BY <1>1, <1>5, <1>7, <2>1, QuietHandled
<1>9. CASE why \notin {"timeout", "policy"} /\ active # t
  <2>1. rt' = rt /\ todo' = <<>> /\ mem' = mem
    BY <1>3, <1>9 DEF StopReturns
  <2>2. QED BY <1>1, <1>5, <2>1, QuietHandled
<1>10. CASE why \notin {"timeout", "policy"} /\ active = t
  <2>1. RecordTerminal(active, mem[active], TRUE, settled, status, why = "shutdown", <<>>, <<>>)
    <3>1. RecordTerminal(t, mem[t], TRUE, settled, status, why = "shutdown", <<>>, Tail(todo))
      BY <1>3, <1>10, Zenon DEF StopReturns, status
    <3>2. QED BY <1>3, <1>10, <3>1, Zenon
  <2>2. (why = "shutdown") \in BOOLEAN /\ active \in Tasks /\ active' = active
    BY <1>1, <1>10
  <2> HIDE DEF settled
  <2>3. Handles(active) /\ StoppedRunNotCompleted'
    BY <1>5, <1>6, <1>7, <2>1, <2>2, RunFinalizes
  <2>4. QED BY <2>2, <2>3 DEF Handled
<1>11. QED BY <1>8, <1>9, <1>10

\* stopRuntime up to its first await leaves at most the hand-over to its caller.
LEMMA BeginStopKind ==
    ASSUME NEW t, NEW why \in Reasons, NEW before, NEW others, BeginStop(t, why, before, others)
    PROVE  /\ todo' = before \/ todo' = before \o <<Stopped(t, why)>>
           /\ \A x \in stops' : x \in others \/ x.stage # "called"
  BY DEF BeginStop

LEMMA DisturbedRunHandled ==
    ASSUME Inv, RecInv, TimeoutTask \/ PolicyAbort
    PROVE  Handled
<1>1. PICK why \in {"timeout", "policy"} : BeginStop(active, why, <<>>, stops)
  BY DEF TimeoutTask, PolicyAbort
<1>2. /\ Alive /\ ~rt.finalized /\ active \in Tasks
      /\ UNCHANGED <<disk, log, mem, active, pc, turns, life, unloaded>>
  BY DEF TimeoutTask, PolicyAbort, Inv, TypeOK, RunInv, RunPublished
<1>3. ~rt'.finalized
  BY <1>2 DEF TimeoutTask, PolicyAbort, Inv, TypeOK, Runtime
<1>4. /\ todo' = <<>> \/ todo' = <<Stopped(active, why)>>
      /\ \A x \in stops' : x \in stops \/ x.stage # "called"
  <2> DEFINE e == Stopped(active, why)
  <2>1. why \in Reasons
    BY DEF Reasons
  <2>2. /\ todo' = <<>> \/ todo' = <<>> \o <<e>>
        /\ \A x \in stops' : x \in stops \/ x.stage # "called"
    BY <1>1, <2>1, BeginStopKind
  <2> HIDE DEF e
  <2>3. <<>> \o <<e>> = <<e>>
    BY OneAndOne
  <2>4. QED BY <2>2, <2>3 DEF e
<1>5. life # "down" /\ life' # "down" /\ todo = <<>>
  BY <1>2 DEF Alive, Drained
<1>6. Frame
  BY <1>2, <1>4, <1>5, NothingLeft, NoNewCall DEF Frame
<1>7. QED BY <1>2, <1>3, <1>4, <1>6, QuietHandled

\* cancel() and performClose ask a run to stop: they write "cancelling" first.
LEMMA StopRequestHandled ==
    ASSUME Inv, RecInv, life = "up", life' # "down", todo = <<>>, active \in Tasks,
           NEW c \in Record, c.status = "cancelling", mem[active].cancel => c.cancel,
           ~Final(active, mem[active]), mem' = [mem EXCEPT ![active] = c],
           NEW why \in Reasons, NEW others, \A s \in others : s \in stops,
           BeginStop(active, why, <<Write(active, c)>>, others),
           UNCHANGED <<disk, log, active, pc, unloaded, turns>>,
           rt'.finalized => rt.finalized /\ rt'.timedOut = rt.timedOut /\ rt'.failed = rt.failed
    PROVE  Handled
<1>1. /\ todo' = <<Write(active, c)>> \/ todo' = <<Write(active, c), Stopped(active, why)>>
      /\ \A x \in stops' : x \in stops \/ x.stage # "called"
  <2> DEFINE w == Write(active, c)
             e == Stopped(active, why)
  <2>1. /\ todo' = <<w>> \/ todo' = <<w>> \o <<e>>
        /\ \A x \in others : x \in stops
        /\ \A x \in stops' : x \in others \/ x.stage # "called"
    BY BeginStopKind
  <2> HIDE DEF w, e
  <2>2. <<w>> \o <<e>> = <<w, e>>
    BY OneAndOne
  <2>3. QED BY <2>1, <2>2 DEF w, e
<1>2. Frame
  BY <1>1, NothingLeft, NoNewCall DEF Frame
<1>3. /\ mem'[active] = c /\ \A u \in Tasks \ {active} : mem'[u] = mem[u]
      /\ ~IsTerminal(c) /\ Past(c)
  BY DEF Inv, TypeOK, IsTerminal, Terminal, Past
<1>4. Past(mem[active]) /\ Known(mem[active])
  BY HolderKinds DEF RecInv, TurnsKept, Past, Known
<1>5. Handles(active)
  BY <1>1, <1>2, <1>3, <1>4, WriteHandles
<1>6. StoppedRunNotCompleted'
  BY <1>3, HonestKept DEF Inv
<1>7. QED BY <1>5, <1>6 DEF Handled

LEMMA CancelRecordHandled ==
    ASSUME Inv, RecInv, life = "up", todo = <<>>, NEW t \in Tasks, NEW r \in Record,
           r.status = mem[t].status, mem[t].cancel => r.cancel, ~Final(t, mem[t]), Known(mem[t]),
           NEW others, \A s \in others : s \in stops, CancelRecord(t, r, others),
           UNCHANGED <<disk, log, active, pc, life, unloaded, turns>>
    PROVE  Handled
<1> DEFINE c == [r EXCEPT !.status = "cancelling"]
<1>1. c \in Record /\ c.status = "cancelling" /\ c.cancel = r.cancel
  BY DEF Record, Status
<1>2. ~IsTerminal(c) /\ Past(c)
  BY <1>1 DEF IsTerminal, Terminal, Past
<1> HIDE DEF c
<1>3. "cancelled" \in Settled \ {"none"} /\ FALSE \in BOOLEAN /\ life' = "up" /\ "cancel" \in Reasons
  BY DEF Settled, Reasons
<1>4. CASE r.status = "queued"
  <2>1. stops' = others /\ RecordTerminal(t, r, FALSE, rt, "cancelled", FALSE, <<>>, <<>>)
    BY <1>4, Zenon DEF CancelRecord
  <2>2. Frame
    BY <1>3, <2>1, NothingLeft, NoNewCall DEF Frame
  <2>3. t # active /\ ~IsTerminal(r)
    BY <1>4, HolderKinds DEF RecInv, TurnsKept, Past, IsTerminal, Terminal
  <2>4. ASSUME NEW none, none = <<>> PROVE Handles(t) /\ StoppedRunNotCompleted'
    <3>1. RecordTerminal(t, r, FALSE, rt, "cancelled", FALSE, none, <<>>)
      BY <2>1, <2>4, Zenon
    <3>2. QED BY <1>3, <2>2, <2>3, <2>4, <3>1, QueueFinalizes
  <2>5. Handles(t) /\ StoppedRunNotCompleted'
    BY <2>4, Zenon
  <2>6. QED BY <2>5 DEF Handled
<1>5. CASE r.status # "queued" /\ active = t
  <2>1. /\ mem' = [mem EXCEPT ![active] = c] /\ rt' = rt
        /\ BeginStop(active, "cancel", <<Write(active, c)>>, others)
    BY <1>5 DEF CancelRecord, c
  <2>2. QED BY <1>1, <1>3, <1>5, <2>1, StopRequestHandled
<1>6. CASE r.status # "queued" /\ active # t
  <2>1. /\ RecordTerminal(t, c, FALSE, rt, "cancelled", FALSE, <<Write(t, c)>>, <<>>)
        /\ stops' = others
    BY <1>6, Zenon DEF CancelRecord, c
  <2>2. Frame
    BY <1>3, <2>1, NothingLeft, NoNewCall DEF Frame
  <2>3. ASSUME NEW before, before = <<Write(t, c)>> PROVE Handles(t) /\ StoppedRunNotCompleted'
    <3>1. RecordTerminal(t, c, FALSE, rt, "cancelled", FALSE, before, <<>>)
      BY <2>1, <2>3, Zenon
    <3>2. QED BY <1>1, <1>2, <1>3, <1>6, <2>2, <2>3, <3>1, QueueFinalizes
  <2>4. Handles(t) /\ StoppedRunNotCompleted'
    BY <2>3, Zenon
  <2>5. QED BY <2>4 DEF Handled
<1>7. QED BY <1>4, <1>5, <1>6

\* cancel() of a Gemini task records the request in memory and calls the backend.
LEMMA CancelHandled ==
    ASSUME Inv, RecInv, NEW t \in Tasks, Cancel(t)
    PROVE  Handled
<1> DEFINE r == [mem[t] EXCEPT !.cancel = TRUE]
<1>1. /\ life = "up" /\ todo = <<>> /\ Live(mem[t])
      /\ UNCHANGED <<disk, log, active, pc, life, unloaded, turns>>
  BY DEF Cancel, Idle, Drained
<1>2. /\ mem[t] \in Record /\ ~IsTerminal(mem[t]) /\ Known(mem[t]) /\ ~Final(t, mem[t])
  BY <1>1 DEF Inv, TypeOK, Live, NoRecord, IsTerminal, Terminal, Known, Final
<1>3. r \in Record /\ r.status = mem[t].status /\ r.cancel = TRUE
  BY <1>2 DEF Record
<1>4. CASE t \in Gemini
  <2>1. /\ mem' = [mem EXCEPT ![t] = r] /\ rt' = rt /\ todo' = todo
        /\ stops' = stops \cup {[task |-> t, reason |-> "cancel", stage |-> "called"]}
    BY <1>4 DEF Cancel
  <2> HIDE DEF r
  <2>2. mem'[t] = r /\ \A u \in Tasks \ {t} : mem'[u] = mem[u]
    BY <2>1 DEF Inv, TypeOK
  <2>3. ~IsTerminal(r) /\ (Past(mem[t]) => Past(r)) /\ Known(r) /\ CancelSafe(r)
    BY <1>2, <1>3 DEF IsTerminal, Past, Known, CancelSafe
  <2>4. \A u \in Tasks : Called(u)' => Called(u) \/ u = t
    BY <2>1 DEF Called
  <2>5. Rest(t, todo', disk[t], r, log[t]) /\ Writes(todo) = {} /\ Writes(todo') = {} /\ todo' = <<>>
    BY <1>1, <2>1, RestOfNone
  <2>6. Handles(t)
    BY <1>1, <1>2, <1>3, <1>4, <2>2, <2>3, <2>4, <2>5 DEF Handles
  <2>7. StoppedRunNotCompleted'
    BY <1>1, <1>3, <2>1, <2>2, HonestKept DEF Inv, TypeOK
  <2>8. QED BY <2>6, <2>7 DEF Handled
<1>5. CASE t \notin Gemini
  <2>1. CancelRecord(t, r, stops)
    BY <1>5 DEF Cancel
  <2> HIDE DEF r
  <2>2. QED BY <1>1, <1>2, <1>3, <2>1, CancelRecordHandled
<1>6. QED BY <1>4, <1>5

LEMMA CancelResumesHandled ==
    ASSUME Inv, RecInv, NEW s \in stops, CancelResumes(s)
    PROVE  Handled
<1>1. /\ life = "up" /\ todo = <<>> /\ s.stage = "called"
      /\ CancelRecord(s.task, mem[s.task], stops \ {s})
      /\ UNCHANGED <<disk, log, active, pc, life, unloaded, turns>>
  BY DEF CancelResumes
<1>2. s.task \in Tasks
  BY StopTypes DEF Inv, TypeOK
<1>3. mem[s.task].cancel /\ s.task \in Gemini
  BY <1>1, <1>2 DEF RecInv, CancelsKept, Called
<1>4. mem[s.task] \in Record /\ Known(mem[s.task])
  BY <1>2, <1>3 DEF Inv, TypeOK, NoRecord, Record, Status, Terminal, Known
<1>5. ~Final(s.task, mem[s.task])
  BY <1>2, <1>3 DEF RecInv, CancelsKept, CancelWins, Final
<1>6. QED BY <1>1, <1>2, <1>4, <1>5, CancelRecordHandled

LEMMA CloseHandled == Inv /\ RecInv /\ Close => Handled
<1> SUFFICES ASSUME Inv, RecInv, Close PROVE Handled
  OBVIOUS
<1>1. /\ life = "up" /\ life' = "closed" /\ todo = <<>>
      /\ UNCHANGED <<disk, log, active, pc, unloaded, turns>>
  BY DEF Close, Idle, Drained
<1>2. CASE active # Nobody /\ Live(mem[active])
  <2> DEFINE c == [mem[active] EXCEPT !.status = "cancelling"]
  <2>1. /\ rt' = [rt EXCEPT !.shutdown = TRUE] /\ mem' = [mem EXCEPT ![active] = c]
        /\ BeginStop(active, "shutdown", <<Write(active, c)>>, stops)
    BY <1>2 DEF Close
  <2>2. active \in Tasks /\ "shutdown" \in Reasons
    BY <1>2 DEF Inv, TypeOK, Reasons
  <2>3. mem[active] \in Record /\ ~Final(active, mem[active])
    BY <1>2, <2>2 DEF Inv, TypeOK, Live, NoRecord, IsTerminal, Terminal, Final
  <2>4. c \in Record /\ c.status = "cancelling" /\ c.cancel = mem[active].cancel
    BY <2>3 DEF Record, Status
  <2>5. rt'.finalized = rt.finalized /\ rt'.timedOut = rt.timedOut /\ rt'.failed = rt.failed
    BY <2>1 DEF Inv, TypeOK, Runtime
  <2> HIDE DEF c
  <2>6. QED BY <1>1, <2>1, <2>2, <2>3, <2>4, <2>5, StopRequestHandled
<1>3. CASE ~(active # Nobody /\ Live(mem[active]))
  <2>1. UNCHANGED <<rt, mem, stops, todo>>
    BY <1>3 DEF Close
  <2>2. QED BY <1>1, <2>1, UntouchedHandled
<1>4. QED BY <1>2, <1>3

-----------------------------------------------------------------------------
(* Admission, reads, and the repairs of a boot *)

LEMMA SubmitHandled ==
    ASSUME Inv, RecInv, NEW t \in Tasks, Submit(t)
    PROVE  Handled
<1> DEFINE r == [status |-> "queued", cancel |-> FALSE, recorded |-> FALSE]
<1>1. /\ life = "up" /\ todo = <<>> /\ mem[t] = NoRecord /\ \A u \in 1 .. t - 1 : mem[u] # NoRecord
      /\ UNCHANGED <<disk, log, active, pc, stops, life, unloaded, turns>>
  BY DEF Submit, Idle, Drained
<1>2. /\ r \in Record /\ ~IsTerminal(r) /\ r.status = "queued"
      /\ ~IsTerminal(mem[t]) /\ ~Final(t, mem[t]) /\ ~Past(mem[t]) /\ ~mem[t].cancel
  BY <1>1 DEF Record, Status, IsTerminal, Terminal, Final, NoRecord, Past
<1>3. \A u \in Tasks : u < t => Known(mem[u])
  <2>1. SUFFICES ASSUME NEW u \in Tasks, u < t PROVE Known(mem[u])
    OBVIOUS
  <2>2. mem[u] # NoRecord
    BY <1>1, <2>1, BoundsAssumption DEF Tasks
  <2>3. mem[u] \in Record
    BY <2>2 DEF Inv, TypeOK
  <2>4. QED BY <2>3 DEF Record, Status, Terminal, Known
<1> HIDE DEF r
<1>4. Frame
  BY <1>1, NothingLeft, StopsKept DEF Frame
<1>5. t # active
  BY <1>2, HolderKinds DEF RecInv, TurnsKept
<1>6. CASE mem' = [mem EXCEPT ![t] = r] /\ todo' = <<Write(t, r), Pump>> /\ UNCHANGED rt
  <2>1. mem'[t] = r /\ \A u \in Tasks \ {t} : mem'[u] = mem[u]
    BY <1>6 DEF Inv, TypeOK
  <2>2. Handles(t)
    BY <1>1, <1>2, <1>3, <1>4, <1>6, <2>1, WriteHandles
  <2>3. active # Nobody => mem'[active] = mem[active]
    BY <1>5, <2>1 DEF Inv, TypeOK
  <2>4. StoppedRunNotCompleted'
    BY <1>1, <1>6, <2>3, HonestKept DEF Inv
  <2>5. QED BY <2>2, <2>4 DEF Handled
<1>7. CASE RecordTerminal(t, r, FALSE, rt, "failed", FALSE, <<Write(t, r)>>, <<>>)
  <2>1. "failed" \in Settled \ {"none"} /\ FALSE \in BOOLEAN /\ life' # "closed"
    BY <1>1 DEF Settled
  <2>2. ASSUME NEW before, before = <<Write(t, r)>> PROVE Handles(t) /\ StoppedRunNotCompleted'
    <3>1. RecordTerminal(t, r, FALSE, rt, "failed", FALSE, before, <<>>)
      BY <1>7, <2>2, Zenon
    <3>2. QED BY <1>2, <1>3, <1>4, <1>5, <2>1, <2>2, <3>1, QueueFinalizes
  <2>3. Handles(t) /\ StoppedRunNotCompleted'
    BY <2>2, Zenon
  <2>4. QED BY <2>3 DEF Handled
<1>8. QED BY <1>6, <1>7, Zenon DEF Submit, r

\* A terminal record whose audit line is retried keeps what it says.
LEMMA RetriedRecord ==
    ASSUME Inv, RecInv, NEW t \in Tasks, IsTerminal(mem[t]),
           NEW f, f = [mem[t] EXCEPT !.recorded = TRUE]
    PROVE  /\ f \in Record /\ f.status = mem[t].status /\ f.cancel = mem[t].cancel
           /\ f.recorded = TRUE /\ IsTerminal(f) /\ CancelSafe(f)
           /\ Known(mem[t]) /\ Past(mem[t])
           /\ mem[t].recorded = TRUE => f = mem[t]
<1>1. mem[t] \in Record
  BY DEF Inv, TypeOK, IsTerminal, Terminal, NoRecord
<1>2. /\ f \in Record /\ f.status = mem[t].status /\ f.cancel = mem[t].cancel
      /\ f.recorded = TRUE /\ (mem[t].recorded = TRUE => f = mem[t])
  BY <1>1 DEF Record
<1>3. IsTerminal(f) /\ CancelSafe(f)
  BY <1>2 DEF IsTerminal, CancelSafe, RecInv, CancelsKept, CancelWins
<1>4. QED BY <1>2, <1>3, FinalIsPast

LEMMA GetHandled ==
    ASSUME Inv, RecInv, NEW t \in Tasks, Get(t)
    PROVE  Handled
<1> DEFINE f == [mem[t] EXCEPT !.recorded = TRUE]
<1>1. /\ life = "up" /\ todo = <<>> /\ IsTerminal(mem[t])
      /\ mem' = [mem EXCEPT ![t] = f] /\ todo' = AuditOps(t, f, TRUE)
      /\ UNCHANGED <<disk, log, active, rt, pc, stops, life, unloaded, turns>>
  BY DEF Get, Idle, Drained
<1>2. /\ f \in Record /\ f.status = mem[t].status /\ f.cancel = mem[t].cancel
      /\ f.recorded = TRUE /\ IsTerminal(f) /\ CancelSafe(f)
      /\ Known(mem[t]) /\ Past(mem[t])
  BY <1>1, RetriedRecord
<1> HIDE DEF f
<1>3. mem'[t] = f /\ \A u \in Tasks \ {t} : mem'[u] = mem[u]
  BY <1>1 DEF Inv, TypeOK
<1>4. Frame
  BY <1>1, NothingLeft, StopsKept DEF Frame
<1>5. Handles(t)
  BY <1>1, <1>2, <1>3, <1>4, AuditHandles DEF Inv
<1>6. active # Nobody => mem'[active].status = mem[active].status
  BY <1>2, <1>3 DEF Inv, TypeOK
<1>7. StoppedRunNotCompleted'
  BY <1>1, <1>6, HonestKept DEF Inv
<1>8. QED BY <1>5, <1>7 DEF Handled

\* A live record with an audit line is the record of a cancelled Gemini task: of
\* every other task the record was written before its line.
LEMMA LoadTaskHandled ==
    ASSUME Inv, RecInv, NEW t \in Tasks, LoadTask(t)
    PROVE  Handled
<1> DEFINE r == mem[t]
           repaired == [status |-> LineOf(t), recorded |-> TRUE,
                        cancel |-> r.cancel \/ LineOf(t) = "cancelled"]
           end == IF r.status = "queued" THEN "cancelled" ELSE "interrupted"
<1>1. /\ life = "recovering" /\ life' = "recovering" /\ todo = <<>> /\ t \in unloaded
      /\ unloaded' = unloaded \ {t}
      /\ UNCHANGED <<disk, log, active, pc, stops, turns>>
  BY DEF LoadTask
<1>2. active = Nobody /\ StoppedRunNotCompleted'
  BY <1>1 DEF Inv, RunInv, NoRunBeforeRecovery, StoppedRunNotCompleted
<1>3. Frame
  BY <1>1, NothingLeft, StopsKept DEF Frame
<1>4. Known(r) /\ r \in Record
  BY <1>1 DEF RecInv, CancelsKept, Known, Inv, TypeOK, NoRecord
<1>5. CASE IsTerminal(r)
  <2> DEFINE f == [r EXCEPT !.recorded = TRUE]
  <2>1. /\ mem' = [mem EXCEPT ![t] = f]
        /\ todo' = IF r.recorded /\ Audited(t, r.status) THEN <<>> ELSE AuditOps(t, mem'[t], TRUE)
    BY <1>5 DEF LoadTask
  <2>2. /\ f \in Record /\ f.status = mem[t].status /\ f.cancel = mem[t].cancel
        /\ f.recorded = TRUE /\ IsTerminal(f) /\ CancelSafe(f)
        /\ Known(mem[t]) /\ Past(mem[t])
        /\ mem[t].recorded = TRUE => f = mem[t]
    BY <1>5, RetriedRecord
  <2> HIDE DEF f
  <2>3. mem'[t] = f /\ \A u \in Tasks \ {t} : mem'[u] = mem[u]
    BY <2>1 DEF Inv, TypeOK
  <2>4. CASE r.recorded /\ Audited(t, r.status)
    <3>1. r.recorded = TRUE
      BY <1>4, <2>4 DEF Record
    <3>2. mem' = mem
      BY <2>1, <2>2, <3>1 DEF Inv, TypeOK
    <3>3. todo' = <<>>
      BY <2>1, <2>4
    <3>4. Handles(t)
      BY <1>3, <3>2, <3>3, QuietHandles
    <3>5. QED BY <1>2, <3>4 DEF Handled
  <2>5. CASE ~(r.recorded /\ Audited(t, r.status))
    <3>1. todo' = AuditOps(t, f, TRUE) /\ TypeOK /\ life' # "closed"
      BY <1>1, <2>1, <2>3, <2>5 DEF Inv
    <3>2. Handles(t)
      BY <1>3, <2>2, <2>3, <3>1, AuditHandles
    <3>3. QED BY <1>2, <3>2 DEF Handled
  <2>6. QED BY <2>4, <2>5
<1>6. CASE ~IsTerminal(r) /\ log[t] # <<>>
  <2>1. mem' = [mem EXCEPT ![t] = repaired] /\ todo' = <<Write(t, repaired)>>
    BY <1>6 DEF LoadTask
  <2>2. mem[t].status = disk[t].status
    BY <1>1, NothingLeft, NoWritesInSync
  <2>3. LineOf(t) \in Terminal
    BY <1>6, LineKnown DEF Inv
  <2>4. LineOf(t) = "cancelled" /\ t \in Gemini
    BY <1>6, <2>2, <2>3 DEF RecInv, LinesTrue, IsTerminal
  <2>5. /\ repaired.status = "cancelled" /\ repaired.cancel = TRUE /\ repaired \in Record
    BY <2>4 DEF Record, Status, Terminal
  <2> HIDE DEF repaired
  <2>6. IsTerminal(repaired) /\ CancelSafe(repaired) /\ Past(repaired) /\ Known(repaired)
    BY <2>5 DEF IsTerminal, Terminal, CancelSafe, Past, Known
  <2>7. Follows(t, disk[t], repaired)
    BY <1>6, <2>2, <2>6 DEF Follows, Final, IsTerminal
  <2>8. mem'[t] = repaired /\ \A u \in Tasks \ {t} : mem'[u] = mem[u]
    BY <2>1 DEF Inv, TypeOK
  <2>9. /\ Rest(t, todo', disk[t], repaired, log[t]) /\ Writes(todo') = {1}
        /\ \A i \in DOMAIN todo' : todo'[i].op # "execute"
    <3>1. Rest(t, <<Write(t, repaired)>>, disk[t], repaired, log[t])
          /\ Writes(<<Write(t, repaired)>>) = {1}
      BY <2>6, <2>7, RestOfWrite
    <3>2. Write(t, repaired).op = "write"
      BY DEF Write
    <3>3. QED BY <2>1, <3>1, <3>2
  <2>10. Handles(t)
    BY <1>1, <1>3, <1>4, <2>5, <2>6, <2>8, <2>9 DEF Handles, Frame
  <2>11. QED BY <1>2, <2>10 DEF Handled
<1>7. CASE ~IsTerminal(r) /\ log[t] = <<>> /\ Replayed(r)
  <2>1. mem' = mem /\ todo' = <<>>
    BY <1>1, <1>7 DEF LoadTask
  <2>2. Handles(t)
    BY <1>3, <2>1, QuietHandles
  <2>3. QED BY <1>2, <2>2 DEF Handled
<1>8. CASE ~IsTerminal(r) /\ log[t] = <<>> /\ ~Replayed(r)
  <2>1. RecordTerminal(t, r, FALSE, rt, end, TRUE, <<>>, <<>>)
    BY <1>8, Zenon DEF LoadTask
  <2>2. /\ end \in Settled \ {"none"} /\ TRUE \in BOOLEAN /\ t # active /\ life' # "closed"
        /\ ~Final(t, mem[t])
    BY <1>1, <1>2, <1>8, HolderKinds DEF Settled, Final
  <2> HIDE DEF end
  <2>3. ASSUME NEW none, none = <<>> PROVE Handles(t) /\ StoppedRunNotCompleted'
    <3>1. RecordTerminal(t, mem[t], FALSE, rt, end, TRUE, none, <<>>)
      BY <2>1, <2>3, Zenon
    <3>2. QED BY <1>3, <1>4, <1>8, <2>2, <2>3, <3>1, QueueFinalizes
  <2>4. Handles(t) /\ StoppedRunNotCompleted'
    BY <2>3, Zenon
  <2>5. QED BY <2>4 DEF Handled
<1>9. QED BY <1>5, <1>6, <1>7, <1>8

-----------------------------------------------------------------------------
(* The invariant *)

LEMMA HandledRec == Inv /\ RecInv /\ Inv' /\ Handled => RecInv'
  BY HandlesRec DEF Handled

LEMMA InitRec == Init => RecInv
<1> SUFFICES ASSUME Init PROVE RecInv
  OBVIOUS
<1>1. /\ disk = [t \in Tasks |-> NoRecord] /\ mem = [t \in Tasks |-> NoRecord]
      /\ log = [t \in Tasks |-> <<>>] /\ turns = [t \in Tasks |-> 0]
      /\ life = "down" /\ todo = <<>> /\ stops = {} /\ active = Nobody /\ unloaded = {}
  BY DEF Init
<1>2. HandlerKept
  <2>1. PICK t \in Tasks : TRUE
    BY BoundsAssumption, SMT DEF Tasks
  <2>2. Rest(t, todo, disk[t], mem[t], log[t])
    BY <1>1, RestOfNone
  <2>3. QED BY <1>1, <2>2 DEF HandlerKept
<1>3. CancelsKept /\ LinesTrue
  BY <1>1 DEF CancelsKept, CancelWins, Called, LinesTrue, NoRecord
<1>4. TurnsKept /\ OrderKept /\ StoppedRunNotCompleted
  BY <1>1, HolderKinds DEF TurnsKept, OrderKept, StoppedRunNotCompleted, NoRecord, Known
<1>5. QED BY <1>2, <1>3, <1>4 DEF RecInv

\* Every step is a handler that plans its writes, one of those writes, a turn that
\* is handed over, a death or a boot, or touches nothing RecInv speaks of.
LEMMA NextRec == Inv /\ RecInv /\ [Next]_vars /\ Inv' => RecInv'
<1> SUFFICES ASSUME Inv, RecInv, [Next]_vars, Inv' PROVE RecInv'
  OBVIOUS
<1>1. CASE HandlerStep
  BY <1>1, WriteTaskRec, AppendLineRec, ExecuteGeminiRec, PumpNowHandled, StopReturnsHandled,
     HandledRec DEF HandlerStep
<1>2. CASE RunStep
  BY <1>2, RunStepRec
<1>3. CASE StopStep
  <2>1. CASE \E s \in stops : InterruptAnswered(s) \/ GraceOver(s) \/ CloseAwaited(s)
    BY <2>1, StopStagesHandled, HandledRec
  <2>2. CASE \E s \in stops : CancelResumes(s)
    BY <2>2, CancelResumesHandled, HandledRec
  <2>3. CASE \E t \in Tasks : ClientExit(t)
    <3>1. Idles
      BY <2>3 DEF ClientExit, Idles
    <3>2. QED BY <3>1, IdlesRec
  <2>4. QED BY <1>3, <2>1, <2>2, <2>3 DEF StopStep
<1>4. CASE RecoveryStep
  BY <1>4, BootRec, LoadTaskHandled, QuietStepsHandled, HandledRec DEF RecoveryStep
<1>5. CASE Environment
  <2>1. CASE \E t \in Tasks : Submit(t) \/ Cancel(t) \/ Get(t)
    BY <2>1, SubmitHandled, CancelHandled, GetHandled, HandledRec
  <2>2. CASE \/ \E p \in BOOLEAN : SetPaused(p) \/ SetProductPaused(p)
             \/ NativeAcquire \/ NativeRelease \/ BeginCollect
    BY <2>2, QuietStepsHandled, HandledRec
  <2>3. CASE \E status \in {"completed", "failed", "interrupted"} : TurnCompleted(status)
    <3>1. Handles(active) /\ active \in Tasks /\ StoppedRunNotCompleted'
      BY <2>3, TurnCompletedKind
    <3>2. QED BY <3>1, HandlesRec
  <2>4. CASE PolicyAbort
    BY <2>4, DisturbedRunHandled, HandledRec
  <2>5. CASE Close
    BY <2>5, CloseHandled, HandledRec
  <2>6. CASE Crash
    BY <2>6, DieRec DEF Crash
  <2>7. QED BY <1>5, <2>1, <2>2, <2>3, <2>4, <2>5, <2>6 DEF Environment
<1>6. CASE UNCHANGED vars
  <2>1. Idles
    BY <1>6 DEF vars, Idles
  <2>2. QED BY <2>1, IdlesRec
<1>7. CASE PumpMicrotask
  BY <1>7, PumpMicrotaskHandled, HandledRec
<1>8. CASE TimeoutTask
  BY <1>8, DisturbedRunHandled, HandledRec
<1>9. CASE EndCollect
  BY <1>9, QuietStepsHandled, HandledRec
<1>10. CASE Exit
  BY <1>10, DieRec DEF Exit
<1>11. QED BY <1>1, <1>2, <1>3, <1>4, <1>5, <1>6, <1>7, <1>8, <1>9, <1>10 DEF Next

LEMMA RecordsInvariance == Spec => [](Inv /\ RecInv)
<1>1. Init => Inv /\ RecInv
  BY InitInv, InitRec
<1>2. (Inv /\ RecInv) /\ [Next]_vars => (Inv /\ RecInv)'
  BY NextInv, NextRec
<1>3. QED BY <1>1, <1>2, PTL DEF Spec

-----------------------------------------------------------------------------
(* The theorems *)

\* recordTerminal, loadTasks: a task whose cancellation was recorded, in memory or
\* on the disk, never ends completed, failed or interrupted, whatever crashes,
\* late answers and repairs come between.
THEOREM CancellationWins == Spec => []CancelWins
<1>1. RecInv => CancelWins
  BY DEF RecInv, CancelsKept
<1>2. QED BY <1>1, RecordsInvariance, PTL

\* runTask, executeGeminiTask, loadTasks: no provider turn is sent twice for a task,
\* across any number of crashes, and a task whose turn was sent is not queued again.
THEOREM TurnsSentOnce == Spec => []AtMostOneTurn
<1>1. RecInv => AtMostOneTurn
  BY DEF RecInv, TurnsKept, AtMostOneTurn, Past
<1>2. QED BY <1>1, RecordsInvariance, PTL

\* pump, queuePosition: no turn is sent for a task while an older one is queued.
THEOREM FirstInFirstOut == Spec => []FifoOrder
<1>1. RecInv => FifoOrder
  BY DEF RecInv, OrderKept, FifoOrder, Past
<1>2. QED BY <1>1, RecordsInvariance, PTL

\* timeoutTask, abortForPolicyViolation, recordTerminal: a run that was stopped by
\* its timer or its policy is not recorded as completed, however its turn ended.
THEOREM StoppedRunsFail == Spec => []StoppedRunNotCompleted
<1>1. RecInv => StoppedRunNotCompleted
  BY DEF RecInv
<1>2. QED BY <1>1, RecordsInvariance, PTL

\* ensureExecutionRecord, loadTasks: whatever tasks run beside it, a Codex task has at
\* most one audit line and its record says what the line says; of a Gemini task only
\* the line "cancelled" is ever contradicted.
THEOREM LinesTellTheTruth == Spec => []AuditTruth
<1>1. RecInv => AuditTruth
  BY DEF RecInv, LinesTrue, AuditTruth
<1>2. QED BY <1>1, RecordsInvariance, PTL

\* Only a durable write replaces a record on the disk, by one that may follow it;
\* once the manager is closed it replaces none that is queued.
LEMMA RecordsReplaced ==
    ASSUME Inv, RecInv, [Next]_vars, NEW t \in Tasks
    PROVE  /\ Follows(t, disk[t], disk'[t])
           /\ life = "closed" /\ ~Past(disk[t]) => disk'[t] = disk[t]
<1>1. ASSUME disk' = disk
      PROVE  Follows(t, disk[t], disk'[t]) /\ disk'[t] = disk[t]
  BY <1>1 DEF Follows
<1>2. CASE WriteTask
  <2>1. PICK u \in Tasks, r \in Record :
          /\ disk' = [disk EXCEPT ![u] = r] /\ Follows(u, disk[u], r)
          /\ life = "closed" => Past(disk[u])
    BY <1>2, WriteTaskEffect
  <2>2. CASE t = u
    BY <2>1, <2>2 DEF Inv, TypeOK
  <2>3. CASE t # u
    BY <2>1, <2>3 DEF Inv, TypeOK, Follows
  <2>4. QED BY <2>2, <2>3
<1>3. ~WriteTask => disk' = disk
  <2>1. SUFFICES ASSUME ~WriteTask PROVE disk' = disk
    OBVIOUS
  <2>2. CASE HandlerStep
    BY <2>1, <2>2 DEF HandlerStep, AppendLine, ExecuteGemini, PumpNow, PumpBody, StopReturns
  <2>3. CASE RunStep
    BY <2>3 DEF RunStep, RequestAnswered, RequestFails, CatchFinalizes, RunResumes, VerifyEnds,
                GeminiEnds, Retire
  <2>4. CASE StopStep
    BY <2>4 DEF StopStep, InterruptAnswered, GraceOver, CloseAwaited, CancelResumes, ClientExit
  <2>5. CASE RecoveryStep
    BY <2>5 DEF RecoveryStep, Boot, LoadTask, FinishBoot
  <2>6. CASE Environment
    BY <2>6 DEF Environment, Submit, Cancel, Get, SetPaused, SetProductPaused, TurnCompleted,
                PolicyAbort, NativeAcquire, NativeRelease, BeginCollect, Close, Crash, Die
  <2>7. CASE PumpMicrotask \/ TimeoutTask \/ EndCollect \/ Exit
    BY <2>7 DEF PumpMicrotask, PumpBody, TimeoutTask, EndCollect, Exit, Die
  <2>8. CASE UNCHANGED vars
    BY <2>8 DEF vars
  <2>9. QED BY <2>2, <2>3, <2>4, <2>5, <2>6, <2>7, <2>8 DEF Next
<1>4. QED BY <1>1, <1>2, <1>3

\* recordTerminal: for every mixture of Codex and Gemini tasks a durable terminal
\* status is never replaced, unless it is the "cancelled" of a Gemini task, by no late
\* answer, cancellation, crash or repair.
THEOREM TerminalStatusesLast == Spec => TerminalIsFinal
<1>1. Inv /\ RecInv /\ [Next]_vars
        => [\A t \in Tasks : Final(t, disk[t]) => disk'[t].status = disk[t].status]_vars
  BY RecordsReplaced DEF Follows
<1>2. QED BY <1>1, RecordsInvariance, PTL DEF Spec, TerminalIsFinal

\* performClose: between close() and the end of the process no durable queued
\* record changes, whatever the run that is still stopping does.
THEOREM ClosingKeepsTheQueue == Spec => QueueSurvivesShutdown
<1>1. Inv /\ RecInv /\ [Next]_vars
        => [\A t \in Tasks : life = "closed" /\ disk[t].status = "queued" => disk'[t] = disk[t]]_vars
  <2>1. SUFFICES ASSUME Inv, RecInv, [Next]_vars, NEW t \in Tasks, life = "closed",
                        disk[t].status = "queued"
                 PROVE  disk'[t] = disk[t]
    OBVIOUS
  <2>2. ~Past(disk[t])
    BY <2>1 DEF Past
  <2>3. QED BY <2>1, <2>2, RecordsReplaced
<1>2. QED BY <1>1, RecordsInvariance, PTL DEF Spec, QueueSurvivesShutdown
=============================================================================
