--------------------------- MODULE NativeLaneProofs ---------------------------
(* Proofs about NativeLane and the engine of Z2cEngine it composes, for every  *)
(* number of requests, queue size, crash bound and set of faults: first the    *)
(* properties of the engine, then that the lane implements WriterLease.        *)
EXTENDS NativeLane, SequenceTheorems, WellFoundedInduction, TLAPS

(* What makes the engine's properties inductive.  Memory is the disk unless a *)
(* write failed; a state's queue holds queued tasks, each once.               *)
IsSound(d) ==
  /\ IsInjective(d.queue) /\ \A i \in DOMAIN d.queue : d.status[d.queue[i]] = "queued"
  /\ IsInjective(d.tasks) /\ \A i \in DOMAIN d.tasks : d.status[d.tasks[i]] # "none"
Begun(s) == s \notin {"none", "queued"}
WriteThrough == healthy => mem = disk
(* The dispatcher sends only what the disk knows as begun and nobody has sent. *)
PumpSound ==
  /\ pump.at # "idle" => pump.task \in Reqs
  /\ pump.at = "evidence" => sent[pump.task] = 0 /\ Begun(disk.status[pump.task])
  /\ pump.at = "output" => pump.result \in Results
(* The head of the gate that awaits its session is not admitted yet.          *)
AskingIsNew == asking => gate # <<>> /\ disk.status[Head(gate)] = "none"
SentIsBegun == \A r \in Reqs : sent[r] > 0 => Begun(disk.status[r])
EngineInv ==
  /\ TypeOK /\ WriteThrough /\ IsSound(disk) /\ PumpSound /\ SentIsBegun
  /\ AskingIsNew
  /\ SentAtMostOnce /\ AnswerIsDurable

-----------------------------------------------------------------------------
(* The filter *)

\* Induction on the natural numbers up to a bound, for a set of numbers.
LEMMA UpTo ==
  ASSUME NEW N \in Nat, NEW P, 0 \in P,
         \A n \in 1..N : n - 1 \in P => n \in P
  PROVE  0..N \subseteq P
<1> DEFINE Bad == {n \in 0..N : n \notin P}
<1>1. SUFFICES ASSUME Bad # {} PROVE FALSE
  OBVIOUS
<1>2. Bad \subseteq Nat
  OBVIOUS
<1>3. PICK n \in Bad : \A m \in Bad : ~ (<<m, n>> \in OpToRel(<, Nat))
  BY <1>1, <1>2, NatLessThanWellFounded, WFMin
<1>4. n \in 1..N /\ n - 1 \in 0..N
  BY SMT
<1>5. n - 1 \in P
  <2>1. SUFFICES ASSUME n - 1 \in Bad PROVE FALSE
    BY <1>4
  <2>2. <<n - 1, n>> \in OpToRel(<, Nat)
    BY <1>2, <1>4, SMT DEF OpToRel
  <2>3. QED BY <1>3, <2>1, <2>2
<1>6. QED BY <1>4, <1>5

\* f solves the equations of the filter's recursion up to m.
Filters(s, S, f, m) ==
  /\ f = [n \in 0..m |-> f[n]]
  /\ f[0] = <<>>
  /\ \A n \in 1..m : f[n] = IF s[n] \in S THEN Append(f[n - 1], s[n]) ELSE f[n - 1]

\* The recursion of the filter has a solution.
LEMMA FilterExists ==
  ASSUME NEW T, NEW s \in Seq(T), NEW S
  PROVE  \E f : Filters(s, S, f, Len(s))
<1> DEFINE P == {m \in Nat : \E f : Filters(s, S, f, m)}
<1>1. 0 \in P
  <2> DEFINE f == [n \in 0..0 |-> <<>>]
  <2>1. Filters(s, S, f, 0)
    BY DEF Filters
  <2>2. QED BY <2>1
<1>2. ASSUME NEW m \in 1..Len(s), m - 1 \in P PROVE m \in P
  <2>1. PICK f : Filters(s, S, f, m - 1)
    BY <1>2
  <2> DEFINE last == IF s[m] \in S THEN Append(f[m - 1], s[m]) ELSE f[m - 1]
             g == [n \in 0..m |-> IF n = m THEN last ELSE f[n]]
  <2>2. g = [n \in 0..m |-> g[n]] /\ g[0] = f[0] /\ g[m] = last
    OBVIOUS
  <2>3. \A n \in 1..m - 1 : g[n] = f[n] /\ g[n - 1] = f[n - 1]
    OBVIOUS
  <2>4. g[m - 1] = f[m - 1]
    OBVIOUS
  <2> HIDE DEF g
  <2>5. Filters(s, S, g, m)
    <3>1. \A n \in 1..m - 1 : g[n] = IF s[n] \in S THEN Append(g[n - 1], s[n]) ELSE g[n - 1]
      BY <2>1, <2>3 DEF Filters
    <3>2. g[m] = IF s[m] \in S THEN Append(g[m - 1], s[m]) ELSE g[m - 1]
      BY <2>2, <2>4
    <3>3. g[0] = <<>>
      BY <2>1, <2>2 DEF Filters
    <3>4. 1..m = (1..m - 1) \cup {m}
      OBVIOUS
    <3>5. \A n \in 1..m : g[n] = IF s[n] \in S THEN Append(g[n - 1], s[n]) ELSE g[n - 1]
      BY <3>1, <3>2, <3>4, Zenon
    <3>6. QED BY <2>2, <3>3, <3>5, Zenon DEF Filters
  <2>6. m \in Nat
    BY LenProperties
  <2>7. QED BY <2>5, <2>6
<1>3. Len(s) \in P
  <2> HIDE DEF P
  <2>1. Len(s) \in Nat
    BY LenProperties
  <2>2. 0..Len(s) \subseteq P
    BY <1>1, <1>2, <2>1, UpTo
  <2>3. QED BY <2>1, <2>2
<1>4. QED BY <1>3

\* Kept is what the recursion computes.
LEMMA KeptIsFilter ==
  ASSUME NEW T, NEW s \in Seq(T), NEW S
  PROVE  \E f : Filters(s, S, f, Len(s)) /\ Kept(s, S) = f[Len(s)]
<1> DEFINE Eq(f) == f = [n \in 0..Len(s) |->
                       IF n = 0 THEN <<>>
                       ELSE IF s[n] \in S THEN Append(f[n - 1], s[n]) ELSE f[n - 1]]
           kept == CHOOSE f : Eq(f)
<1>0. Len(s) \in Nat
  BY LenProperties
<1>1. \E f : Eq(f)
  <2>1. PICK f : Filters(s, S, f, Len(s))
    BY FilterExists
  <2>2. \A n \in 0..Len(s) : f[n] = IF n = 0 THEN <<>>
                       ELSE IF s[n] \in S THEN Append(f[n - 1], s[n]) ELSE f[n - 1]
    BY <1>0, <2>1 DEF Filters
  <2>4. f = [n \in 0..Len(s) |-> f[n]]
    BY <2>1 DEF Filters
  <2>5. Eq(f)
    BY <2>2, <2>4, Zenon
  <2>3. QED BY <2>5
<1>2. Eq(kept)
  <2> HIDE DEF Eq
  <2>1. QED BY <1>1
<1>3. Kept(s, S) = kept[Len(s)]
  BY DEF Kept
<1> HIDE DEF kept
<1>4. Filters(s, S, kept, Len(s))
  <2>1. \A n \in 0..Len(s) : kept[n] = IF n = 0 THEN <<>>
                       ELSE IF s[n] \in S THEN Append(kept[n - 1], s[n]) ELSE kept[n - 1]
    BY <1>2, Zenon
  <2>2. kept = [n \in 0..Len(s) |-> kept[n]]
    BY <1>2, <2>1, Zenon
  <2>3. kept[0] = <<>> /\ \A n \in 1..Len(s) : n # 0 /\ n \in 0..Len(s)
    BY <1>0, <2>1
  <2>4. QED BY <2>1, <2>2, <2>3, Zenon DEF Filters
<1>5. QED BY <1>3, <1>4

\* A filter returns elements of the sequence that pass the test, in places of
\* their own when the sequence has no duplicates.
LEMMA KeptProperties ==
  ASSUME NEW T, NEW s \in Seq(T), NEW S
  PROVE  /\ Kept(s, S) \in Seq(T)
         /\ \A i \in DOMAIN Kept(s, S) : /\ Kept(s, S)[i] \in S
                                         /\ \E j \in DOMAIN s : s[j] = Kept(s, S)[i]
         /\ IsInjective(s) => IsInjective(Kept(s, S))
<1>1. PICK f : Filters(s, S, f, Len(s)) /\ Kept(s, S) = f[Len(s)]
  BY KeptIsFilter
<1>2. Len(s) \in Nat /\ DOMAIN s = 1..Len(s) /\ \A j \in 1..Len(s) : s[j] \in T
  BY LenProperties, ElementOfSeq
<1> DEFINE Good(m) == /\ f[m] \in Seq(T)
                      /\ \A i \in DOMAIN f[m] : f[m][i] \in S /\ \E j \in 1..m : s[j] = f[m][i]
                      /\ IsInjective(s) => IsInjective(f[m])
           P == {m \in 0..Len(s) : Good(m)}
<1>3. 0 \in P
  <2>1. f[0] = <<>>
    BY <1>1 DEF Filters
  <2>2. Good(0)
    BY <2>1 DEF IsInjective
  <2>3. QED BY <1>2, <2>2
<1>4. ASSUME NEW m \in 1..Len(s), m - 1 \in P PROVE m \in P
  <2>1. f[m] = IF s[m] \in S THEN Append(f[m - 1], s[m]) ELSE f[m - 1]
    BY <1>1 DEF Filters
  <2>2. Good(m - 1)
    BY <1>4
  <2>3. m \in Nat /\ m - 1 \in Nat /\ s[m] \in T /\ 1..m = (1..m - 1) \cup {m}
    BY <1>2
  <2>4. CASE s[m] \notin S
    <3>1. f[m] = f[m - 1]
      BY <2>1, <2>4
    <3>2. Good(m)
      BY <2>2, <2>3, <3>1
    <3>3. QED BY <1>2, <2>3, <3>2
  <2>5. CASE s[m] \in S
    <3> DEFINE p == f[m - 1]
    <3>1. f[m] = Append(p, s[m]) /\ p \in Seq(T)
      BY <2>1, <2>2, <2>5
    <3>2. /\ Append(p, s[m]) \in Seq(T)
          /\ Len(p) \in Nat /\ DOMAIN p = 1..Len(p)
          /\ DOMAIN Append(p, s[m]) = 1..Len(p) + 1
          /\ \A i \in 1..Len(p) : Append(p, s[m])[i] = p[i]
          /\ Append(p, s[m])[Len(p) + 1] = s[m]
      BY <2>3, <3>1, AppendProperties, LenProperties
    <3>3. 1..Len(p) + 1 = (1..Len(p)) \cup {Len(p) + 1}
      BY <3>2
    <3>4. \A i \in DOMAIN p : p[i] \in S /\ \E j \in 1..m - 1 : s[j] = p[i]
      BY <2>2
    <3>5. IsInjective(s) => IsInjective(p)
      BY <2>2
    <3> HIDE DEF p
    <3>6. \A i \in DOMAIN f[m] : f[m][i] \in S /\ \E j \in 1..m : s[j] = f[m][i]
      <4>1. ASSUME NEW i \in 1..Len(p)
            PROVE  f[m][i] \in S /\ \E j \in 1..m : s[j] = f[m][i]
        BY <2>3, <3>1, <3>2, <3>4
      <4>2. f[m][Len(p) + 1] = s[m] /\ m \in 1..m
        BY <2>3, <3>1, <3>2
      <4>3. QED BY <2>5, <3>1, <3>2, <3>3, <4>1, <4>2
    <3>7. ASSUME IsInjective(s) PROVE IsInjective(f[m])
      <4>1. ASSUME NEW i \in 1..Len(p) PROVE p[i] # s[m]
        <5>1. PICK j \in 1..m - 1 : s[j] = p[i]
          BY <3>2, <3>4
        <5>2. j # m /\ j \in DOMAIN s /\ m \in DOMAIN s
          BY <1>2, <2>3
        <5>3. QED BY <3>7, <5>1, <5>2 DEF IsInjective
      <4>2. \A i, j \in 1..Len(p) : p[i] = p[j] => i = j
        BY <3>2, <3>5, <3>7 DEF IsInjective
      <4>3. QED BY <3>1, <3>2, <3>3, <4>1, <4>2 DEF IsInjective
    <3>8. Good(m)
      BY <3>1, <3>2, <3>6, <3>7
    <3>9. QED BY <1>2, <2>3, <3>8
  <2>6. QED BY <2>4, <2>5
<1>5. Good(Len(s))
  <2>1. 0..Len(s) \subseteq P
    <3> HIDE DEF P
    <3>1. QED BY <1>2, <1>3, <1>4, UpTo
  <2>2. Len(s) \in P
    <3> HIDE DEF P
    <3>1. QED BY <1>2, <2>1
  <2>3. QED BY <2>2
<1>6. QED BY <1>1, <1>2, <1>5

-----------------------------------------------------------------------------
(* The states that a step of the engine writes *)

(* What a later state of the store has to respect of an earlier one.  N holds *)
(* what the step itself may bring about: the admission of a task, written     *)
(* <<r, "queued">>, and the end of an open one, <<r, its outcome>>.           *)
Later(N, d, e) ==
  \A r \in Reqs :
    /\ d.status[r] \in Terminal => e.status[r] = d.status[r]
    /\ d.status[r] # "none" => e.status[r] # "none"
    /\ Begun(d.status[r]) => Begun(e.status[r])
    /\ d.status[r] = "none" => e.status[r] = "none" \/ <<r, "queued">> \in N
    /\ e.status[r] \in Terminal \ {"cancelled", d.status[r]} => <<r, e.status[r]>> \in N
Follows(N, d, e) == e \in State /\ IsSound(e) /\ Later(N, d, e)

\* The order of states is transitive.
LEMMA FollowsOn ==
  ASSUME NEW N, NEW c \in State, NEW d \in State, NEW e, Follows(N, c, d), Follows(N, d, e)
  PROVE  Follows(N, c, e)
  BY DEF Follows, Later

\* A sound state follows itself: a step that writes nothing new.
LEMMA FollowsItself ==
  ASSUME NEW N, NEW d \in State, IsSound(d)
  PROVE  Follows(N, d, d)
  BY DEF Follows, Later

\* The head of a queue without duplicates is not in its tail.
LEMMA HeadLeaves ==
  ASSUME NEW T, NEW q \in Seq(T), q # <<>>, IsInjective(q)
  PROVE  /\ Head(q) \in T /\ Head(q) = q[1] /\ 1 \in DOMAIN q
         /\ Tail(q) \in Seq(T) /\ IsInjective(Tail(q))
         /\ \A i \in DOMAIN Tail(q) : /\ Tail(q)[i] # Head(q)
                                      /\ i + 1 \in DOMAIN q /\ Tail(q)[i] = q[i + 1]
<1>1. /\ Len(q) \in Nat \ {0} /\ DOMAIN q = 1..Len(q)
      /\ Head(q) = q[1] /\ Head(q) \in T
      /\ Tail(q) \in Seq(T) /\ Len(Tail(q)) = Len(q) - 1 /\ DOMAIN Tail(q) = 1..Len(q) - 1
      /\ \A i \in 1..Len(q) - 1 : Tail(q)[i] = q[i + 1]
  BY HeadTailProperties, LenProperties, EmptySeq
<1>2. \A i \in 1..Len(q) - 1 : i + 1 \in 1..Len(q) /\ i + 1 # 1 /\ 1 \in 1..Len(q)
  BY <1>1
<1>3. \A i, j \in 1..Len(q) - 1 : i + 1 = j + 1 => i = j
  BY <1>1
<1>4. QED BY <1>1, <1>2, <1>3 DEF IsInjective

\* A state with another status of one task.
LEMMA StatusUpdate ==
  ASSUME NEW m \in State, NEW r \in Reqs, NEW s \in Status
  PROVE  /\ [m EXCEPT !.status[r] = s] \in State
         /\ [m EXCEPT !.status[r] = s].status = [m.status EXCEPT ![r] = s]
         /\ [m EXCEPT !.status[r] = s].queue = m.queue
         /\ [m EXCEPT !.status[r] = s].tasks = m.tasks
         /\ [m EXCEPT !.status[r] = s].active = m.active
  BY DEF State

\* The dispatcher's two writes; the head of the queue is running then.
LEMMA WorkFollows ==
  ASSUME NEW N, NEW m \in State, IsSound(m), Ready(m)
  PROVE  /\ Head(m.queue) \in Reqs /\ m.status[Head(m.queue)] = "queued"
         /\ Follows(N, m, Reserved(m)) /\ Follows(N, m, Started(m))
         /\ Reserved(m).status = m.status
         /\ Started(m).status[Head(m.queue)] = "running"
<1> DEFINE h == Head(m.queue)
<1>1. m.queue \in Seq(Reqs) /\ m.queue # <<>> /\ IsInjective(m.queue)
  BY DEF State, IsSound, Ready
<1>2. /\ h \in Reqs /\ m.status[h] = "queued"
      /\ Tail(m.queue) \in Seq(Reqs) /\ IsInjective(Tail(m.queue))
      /\ \A i \in DOMAIN Tail(m.queue) : /\ Tail(m.queue)[i] # h
                                         /\ Tail(m.queue)[i] \in Reqs
                                         /\ m.status[Tail(m.queue)[i]] = "queued"
  <2>1. /\ h \in Reqs /\ h = m.queue[1] /\ 1 \in DOMAIN m.queue
        /\ Tail(m.queue) \in Seq(Reqs) /\ IsInjective(Tail(m.queue))
        /\ \A i \in DOMAIN Tail(m.queue) :
             /\ Tail(m.queue)[i] # h
             /\ i + 1 \in DOMAIN m.queue /\ Tail(m.queue)[i] = m.queue[i + 1]
    BY <1>1, HeadLeaves
  <2>2. \A i \in DOMAIN Tail(m.queue) : Tail(m.queue)[i] \in Reqs
    BY <2>1, ElementOfSeq, LenProperties
  <2>3. QED BY <2>1, <2>2 DEF IsSound
<1> HIDE DEF h
<1>3. Reserved(m) = [m EXCEPT !.active = h, !.queue = Tail(m.queue)]
  BY DEF Reserved, h
<1>4. Started(m) = [Reserved(m) EXCEPT !.status[h] = "running"]
  BY DEF Started, h
<1>5. /\ Reserved(m) \in State /\ Reserved(m).queue = Tail(m.queue)
      /\ Reserved(m).status = m.status /\ Reserved(m).tasks = m.tasks
  BY <1>2, <1>3 DEF State
<1>6. /\ Started(m) \in State /\ Started(m).queue = Tail(m.queue) /\ Started(m).tasks = m.tasks
      /\ Started(m).status = [m.status EXCEPT ![h] = "running"]
  <2>1. "running" \in Status
    BY DEF Status
  <2>2. QED BY <1>2, <1>4, <1>5, <2>1, StatusUpdate
<1>7. m.status \in [Reqs -> Status] /\ m.tasks \in Seq(Reqs)
  BY DEF State
<1>8. \A i \in DOMAIN m.tasks : m.tasks[i] \in Reqs
  BY <1>7, ElementOfSeq, LenProperties
<1>9. Follows(N, m, Reserved(m))
  BY <1>2, <1>5 DEF Follows, Later, IsSound
<1>10. Follows(N, m, Started(m))
  BY <1>2, <1>6, <1>7, <1>8 DEF Follows, Later, IsSound, Begun, Terminal
<1>11. QED BY <1>2, <1>5, <1>6, <1>7, <1>9, <1>10 DEF h

(* A list of states that a step may write one after the other.                *)
Chained(N, d, chain) ==
  /\ chain \in Seq(State) /\ Len(chain) \in Nat \ {0}
  /\ \A k \in 1..Len(chain) : Follows(N, d, chain[k])

\* Short sequences put together.
LEMMA ShortChains ==
  ASSUME NEW a \in State, NEW b \in State, NEW c \in State
  PROVE  /\ <<a>> \o <<>> = <<a>> /\ <<a, b>> \o <<>> = <<a, b>>
         /\ <<a>> \o <<b, c>> = <<a, b, c>>
<1>1. <<a>> \in Seq(State) /\ <<a, b>> \in Seq(State) /\ <<b, c>> \in Seq(State)
      /\ <<a, b, c>> \in Seq(State)
  OBVIOUS
<1>2. <<a>> \o <<>> = <<a>> /\ <<a, b>> \o <<>> = <<a, b>>
  BY <1>1, ConcatEmptySeq
<1>3. <<a>> \o <<b, c>> = <<a, b, c>>
  <2> DEFINE s == <<a>>  t == <<b, c>>  u == <<a, b, c>>
  <2>1. /\ Len(s) = 1 /\ Len(t) = 2 /\ Len(u) = 3 /\ s[1] = a /\ t[1] = b /\ t[2] = c
        /\ u[1] = a /\ u[2] = b /\ u[3] = c
        /\ s \in Seq(State) /\ t \in Seq(State) /\ u \in Seq(State)
    OBVIOUS
  <2> HIDE DEF s, t, u
  <2>2. /\ s \o t \in Seq(State) /\ Len(s \o t) = 3
        /\ \A i \in 1..3 : (s \o t)[i] = IF i <= 1 THEN s[i] ELSE t[i - 1]
    <3>1. /\ s \o t \in Seq(State) /\ Len(s \o t) = Len(s) + Len(t)
          /\ \A i \in 1..Len(s) + Len(t) :
               (s \o t)[i] = IF i <= Len(s) THEN s[i] ELSE t[i - Len(s)]
      BY <2>1, ConcatProperties, Zenon
    <3>2. QED BY <2>1, <3>1
  <2>3. \A i \in 1..3 : (s \o t)[i] = u[i]
    BY <2>1, <2>2
  <2>4. s \o t = u
    BY <2>1, <2>2, <2>3, SeqEqual
  <2>5. QED BY <2>4 DEF s, t, u
<1>5. QED BY <1>2, <1>3

\* Two pairs of states in a row are a list of four.
LEMMA FourChain ==
  ASSUME NEW a \in State, NEW b \in State, NEW c \in State, NEW d \in State
  PROVE  <<a, b>> \o <<c, d>> = <<a, b, c, d>>
<1> DEFINE s == <<a, b>>  t == <<c, d>>  u == <<a, b, c, d>>
<1>1. /\ Len(s) = 2 /\ Len(t) = 2 /\ Len(u) = 4 /\ s[1] = a /\ s[2] = b /\ t[1] = c /\ t[2] = d
      /\ u[1] = a /\ u[2] = b /\ u[3] = c /\ u[4] = d
      /\ s \in Seq(State) /\ t \in Seq(State) /\ u \in Seq(State)
  OBVIOUS
<1> HIDE DEF s, t, u
<1>2. /\ s \o t \in Seq(State) /\ Len(s \o t) = 4
      /\ \A i \in 1..4 : (s \o t)[i] = IF i <= 2 THEN s[i] ELSE t[i - 2]
  <2>1. /\ s \o t \in Seq(State) /\ Len(s \o t) = Len(s) + Len(t)
        /\ \A i \in 1..Len(s) + Len(t) :
             (s \o t)[i] = IF i <= Len(s) THEN s[i] ELSE t[i - Len(s)]
    BY <1>1, ConcatProperties, Zenon
  <2>2. QED BY <1>1, <2>1
<1>3. \A i \in 1..4 : (s \o t)[i] = u[i]
  BY <1>1, <1>2
<1>4. s \o t = u
  BY <1>1, <1>2, <1>3, SeqEqual
<1>5. QED BY <1>4 DEF s, t, u

\* A state and, when the dispatcher is kicked, what it writes.
LEMMA KickedChain ==
  ASSUME NEW N, NEW d \in State, NEW m \in State, Follows(N, d, m), NEW kicked \in BOOLEAN
  PROVE  LET chain == <<m>> \o (IF kicked THEN Work(m) ELSE <<>>)
         IN /\ Chained(N, d, chain) /\ chain[1] = m
            /\ kicked /\ Ready(m) => /\ Len(chain) = 3 /\ chain[2] = Reserved(m)
                                     /\ chain[3] = Started(m)
            /\ ~(kicked /\ Ready(m)) => Len(chain) = 1
<1> DEFINE chain == <<m>> \o (IF kicked THEN Work(m) ELSE <<>>)
<1>1. CASE kicked /\ Ready(m)
  <2>1. Follows(N, m, Reserved(m)) /\ Follows(N, m, Started(m))
    BY <1>1, WorkFollows DEF Follows
  <2>2. Follows(N, d, Reserved(m)) /\ Follows(N, d, Started(m))
    BY <2>1, FollowsOn
  <2>4. Reserved(m) \in State /\ Started(m) \in State
    BY <2>1 DEF Follows
  <2>3. chain = <<m, Reserved(m), Started(m)>>
    <3>1. (IF kicked THEN Work(m) ELSE <<>>) = <<Reserved(m), Started(m)>>
      BY <1>1, Zenon DEF Work
    <3>2. <<m>> \o <<Reserved(m), Started(m)>> = <<m, Reserved(m), Started(m)>>
      BY <2>4, ShortChains
    <3>3. QED BY <3>1, <3>2, Zenon
  <2> HIDE DEF chain
  <2>5. /\ chain \in Seq(State) /\ Len(chain) = 3
        /\ chain[1] = m /\ chain[2] = Reserved(m) /\ chain[3] = Started(m)
    BY <2>3, <2>4
  <2>6. \A k \in 1..3 : k = 1 \/ k = 2 \/ k = 3
    OBVIOUS
  <2>7. QED BY <1>1, <2>2, <2>5, <2>6 DEF Chained, chain
<1>2. CASE ~(kicked /\ Ready(m))
  <2>1. chain = <<m>>
    <3>1. (IF kicked THEN Work(m) ELSE <<>>) = <<>>
      BY <1>2, Zenon DEF Work
    <3>2. <<m>> \o <<>> = <<m>>
      BY ShortChains
    <3>3. QED BY <3>1, <3>2, Zenon
  <2> HIDE DEF chain
  <2>2. chain \in Seq(State) /\ Len(chain) = 1 /\ chain[1] = m
    BY <2>1
  <2>3. \A k \in 1..1 : k = 1
    OBVIOUS
  <2>4. QED BY <1>2, <2>2, <2>3 DEF Chained, chain
<1>3. QED BY <1>1, <1>2

\* Two states and what the dispatcher writes after the second.
LEMMA FinishChain ==
  ASSUME NEW N, NEW d \in State, NEW m1 \in State, NEW m2 \in State, Follows(N, d, m1), Follows(N, d, m2)
  PROVE  LET chain == <<m1, m2>> \o Work(m2)
         IN /\ Chained(N, d, chain) /\ chain[1] = m1 /\ chain[2] = m2
            /\ Ready(m2) => /\ Len(chain) = 4 /\ chain[3] = Reserved(m2)
                            /\ chain[4] = Started(m2)
            /\ ~Ready(m2) => Len(chain) = 2
<1> DEFINE chain == <<m1, m2>> \o Work(m2)
<1>1. CASE Ready(m2)
  <2>1. Follows(N, m2, Reserved(m2)) /\ Follows(N, m2, Started(m2))
    BY <1>1, WorkFollows DEF Follows
  <2>2. Follows(N, d, Reserved(m2)) /\ Follows(N, d, Started(m2))
    BY <2>1, FollowsOn
  <2>4. Reserved(m2) \in State /\ Started(m2) \in State
    BY <2>1 DEF Follows
  <2>3. chain = <<m1, m2, Reserved(m2), Started(m2)>>
    <3>1. Work(m2) = <<Reserved(m2), Started(m2)>>
      BY <1>1, Zenon DEF Work
    <3>2. <<m1, m2>> \o <<Reserved(m2), Started(m2)>> = <<m1, m2, Reserved(m2), Started(m2)>>
      BY <2>4, FourChain
    <3>3. QED BY <3>1, <3>2, Zenon
  <2> HIDE DEF chain
  <2>5. /\ chain \in Seq(State) /\ Len(chain) = 4
        /\ chain[1] = m1 /\ chain[2] = m2 /\ chain[3] = Reserved(m2) /\ chain[4] = Started(m2)
    BY <2>3, <2>4
  <2>6. \A k \in 1..4 : k = 1 \/ k = 2 \/ k = 3 \/ k = 4
    OBVIOUS
  <2>7. QED BY <1>1, <2>2, <2>5, <2>6 DEF Chained, chain
<1>2. CASE ~Ready(m2)
  <2>1. chain = <<m1, m2>>
    <3>1. Work(m2) = <<>>
      BY <1>2, Zenon DEF Work
    <3>2. <<m1, m2>> \o <<>> = <<m1, m2>>
      BY ShortChains
    <3>3. QED BY <3>1, <3>2, Zenon
  <2> HIDE DEF chain
  <2>2. chain \in Seq(State) /\ Len(chain) = 2 /\ chain[1] = m1 /\ chain[2] = m2
    BY <2>1
  <2>3. \A k \in 1..2 : k = 1 \/ k = 2
    OBVIOUS
  <2>4. QED BY <1>2, <2>2, <2>3 DEF Chained, chain
<1>3. QED BY <1>1, <1>2

\* The entries of a sequence with one more element in front.
LEMMA Prepended ==
  ASSUME NEW S, NEW a, NEW chain \in Seq(S), Len(chain) \in Nat \ {0}
  PROVE  /\ Last(<<a>> \o chain) = chain[Len(chain)]
         /\ (<<a>> \o chain)[1] = a
         /\ \A k \in 1..Len(chain) : (<<a>> \o chain)[k + 1] = chain[k]
<1> DEFINE U == S \cup {a}
           one == <<a>>
<1>1. one \in Seq(U) /\ Len(one) = 1 /\ one[1] = a
  OBVIOUS
<1>2. chain \in Seq(U)
  BY SeqMonotonic
<1> HIDE DEF one, U
<1>3. /\ Len(one \o chain) = 1 + Len(chain)
      /\ \A i \in 1 .. 1 + Len(chain) :
           (one \o chain)[i] = IF i <= 1 THEN one[i] ELSE chain[i - 1]
  <2>1. /\ Len(one \o chain) = Len(one) + Len(chain)
        /\ \A i \in 1 .. Len(one) + Len(chain) :
             (one \o chain)[i] = IF i <= Len(one) THEN one[i] ELSE chain[i - Len(one)]
    BY <1>1, <1>2, ConcatProperties, Zenon
  <2>2. QED BY <1>1, <2>1, Zenon
<1>4. \A k \in 1..Len(chain) : (one \o chain)[k + 1] = chain[k]
  <2>1. TAKE k \in 1..Len(chain)
  <2>2. k + 1 \in 1..1 + Len(chain) /\ ~(k + 1 <= 1) /\ (k + 1) - 1 = k
    OBVIOUS
  <2>3. QED BY <1>3, <2>2
<1>5. (one \o chain)[1] = a
  BY <1>1, <1>3
<1>6. Last(one \o chain) = chain[Len(chain)]
  BY <1>3, <1>4 DEF Last
<1>7. QED BY <1>4, <1>5, <1>6 DEF one
-----------------------------------------------------------------------------
(* What the ways to write do to the store *)

StoreMoves(N) ==
  /\ Follows(N, disk, disk') /\ mem' \in State
  /\ healthy' \in BOOLEAN /\ (healthy' => mem' = disk')

\* A step that writes a whole chain ends with memory and disk at its last state.
LEMMA WroteEffect ==
  ASSUME NEW N, WriteThrough, NEW chain, Chained(N, disk, chain), NEW then, Wrote(chain, then)
  PROVE  /\ StoreMoves(N) /\ pump' = then /\ healthy /\ mem = disk
         /\ disk' = chain[Len(chain)] /\ mem' = chain[Len(chain)]
<1>1. chain \in Seq(State) /\ Len(chain) \in Nat \ {0} /\ Len(chain) \in 1..Len(chain)
  BY DEF Chained
<1>2. Last(<<disk>> \o chain) = chain[Len(chain)] /\ Last(<<mem>> \o chain) = chain[Len(chain)]
  BY <1>1, Prepended
<1>3. Follows(N, disk, chain[Len(chain)])
  BY <1>1 DEF Chained
<1>4. QED BY <1>2, <1>3 DEF Wrote, StoreMoves, WriteThrough, Follows

\* A failed write leaves the disk at one of the states of the chain, or alone.
LEMMA FailedEffect ==
  ASSUME NEW N, disk \in State, IsSound(disk), WriteThrough,
         NEW chain, Chained(N, disk, chain), NEW k \in 0..Len(chain), NEW left \in State, NEW then,
         FailedWrite(chain, k, left, then)
  PROVE  /\ StoreMoves(N) /\ pump' = then /\ mem' = left /\ healthy /\ mem = disk
         /\ k = 0 => disk' = disk
         /\ k > 0 => disk' = chain[k]
<1>1. chain \in Seq(State) /\ Len(chain) \in Nat \ {0}
  BY DEF Chained
<1>2. /\ disk' = (<<disk>> \o chain)[k + 1] /\ mem' = left /\ pump' = then
      /\ healthy /\ ~healthy' /\ healthy' \in BOOLEAN
  BY DEF FailedWrite
<1>3. mem = disk
  BY <1>2 DEF WriteThrough
<1>4. k = 0 => disk' = disk
  BY <1>1, <1>2, Prepended
<1>5. k > 0 => disk' = chain[k] /\ k \in 1..Len(chain)
  BY <1>1, <1>2, Prepended
<1>6. Follows(N, disk, disk')
  <2>1. CASE k = 0
    BY <1>4, <2>1, FollowsItself, Zenon
  <2>2. CASE k > 0
    BY <1>5, <2>2, Zenon DEF Chained
  <2>3. QED BY <1>1, <2>1, <2>2
<1>7. QED BY <1>2, <1>3, <1>4, <1>5, <1>6, Zenon DEF StoreMoves
-----------------------------------------------------------------------------
(* The invariant of the engine, action by action *)

PumpType == pump \in [at: {"idle", "evidence", "turn", "output"},
                      task: Reqs \cup {None}, result: Results \cup {"none"}]

\* Where the dispatcher goes when it does not stay: to rest, or to a task that
\* this step marks as running.
PumpMoves ==
  \/ pump' = pump
  \/ pump' = Idle
  \/ \E h \in Reqs : /\ pump' = [at |-> "evidence", task |-> h, result |-> "none"]
                     /\ ~Begun(disk.status[h]) /\ disk'.status[h] = "running"

\* A step that writes and moves the dispatcher as it may keeps it sound.
LEMMA PumpStaysSound ==
  ASSUME EngineInv, NEW N, StoreMoves(N), PumpMoves, UNCHANGED sent
  PROVE  PumpType' /\ PumpSound'
<1>1. /\ PumpType /\ PumpSound /\ SentIsBegun /\ sent \in [Reqs -> Nat]
      /\ disk \in State /\ Later(N, disk, disk')
  BY DEF EngineInv, TypeOK, EngineTypeOK, PumpType, StoreMoves, Follows
<1>2. CASE pump' = pump
  BY <1>1, <1>2 DEF PumpSound, PumpType, Later
<1>3. CASE pump' = Idle
  BY <1>3 DEF PumpSound, PumpType, Idle
<1>4. ASSUME NEW h \in Reqs, ~Begun(disk.status[h]), disk'.status[h] = "running",
             pump' = [at |-> "evidence", task |-> h, result |-> "none"]
      PROVE  PumpType' /\ PumpSound'
  <2>1. sent[h] = 0
    BY <1>1, <1>4 DEF SentIsBegun
  <2>2. Begun(disk'.status[h])
    BY <1>4 DEF Begun
  <2>3. QED BY <1>4, <2>1, <2>2 DEF PumpSound, PumpType
<1>5. QED BY <1>2, <1>3, <1>4 DEF PumpMoves

\* A step that moves the store and sends nothing keeps the invariant if it moves
\* the dispatcher soundly and answers only what is on disk.
LEMMA StoreStepInv ==
  ASSUME EngineInv, NEW N, StoreMoves(N), PumpType', PumpSound',
         UNCHANGED <<sent, order, faults>>, LaneTypeOK',
         alive' \in BOOLEAN, asking' \in BOOLEAN, gate' \in Seq(Reqs),
         turn' \in [Reqs -> BOOLEAN], crashes' \in 0..MaxCrashes,
         reply' \in [Reqs -> Status \cup {"error"}],
         \A r \in Reqs : \/ reply'[r] \in {"none", "error"}
                         \/ reply'[r] = reply[r]
                         \/ disk'.status[r] # "none",
         asking' => asking /\ gate' # <<>> /\ Head(gate') = Head(gate) /\ Head(gate) \in Reqs
                   /\ <<Head(gate), "queued">> \notin N
  PROVE  EngineInv'
<1>1. /\ Follows(N, disk, disk') /\ disk' \in State /\ mem' \in State /\ healthy' \in BOOLEAN
      /\ healthy' => mem' = disk'
  BY DEF StoreMoves, Follows
<1>2. /\ EngineTypeOK /\ SentIsBegun /\ SentAtMostOnce /\ AnswerIsDurable /\ AskingIsNew
  BY DEF EngineInv, TypeOK
<1>3. EngineTypeOK'
  BY <1>1, <1>2 DEF EngineTypeOK, PumpType
<1>4. SentIsBegun' /\ SentAtMostOnce'
  BY <1>1, <1>2 DEF SentIsBegun, SentAtMostOnce, Follows, Later
<1>5. AnswerIsDurable'
  BY <1>1, <1>2 DEF AnswerIsDurable, Follows, Later
<1>6. AskingIsNew'
  BY <1>1, <1>2 DEF AskingIsNew, Follows, Later
<1>7. WriteThrough' /\ IsSound(disk')
  BY <1>1 DEF WriteThrough, Follows
<1>8. QED BY <1>3, <1>4, <1>5, <1>6, <1>7 DEF EngineInv, TypeOK, IsSound

\* A step that leaves the store alone moves nothing.
LEMMA StoreRests ==
  ASSUME EngineInv, UNCHANGED store
  PROVE  StoreMoves({}) /\ Follows({}, disk, disk')
<1>1. disk \in State /\ IsSound(disk) /\ mem \in State /\ healthy \in BOOLEAN /\ WriteThrough
  BY DEF EngineInv, TypeOK, EngineTypeOK
<1>2. Follows({}, disk, disk)
  BY <1>1, FollowsItself
<1>3. disk' = disk /\ mem' = mem /\ healthy' = healthy
  BY DEF store
<1>4. QED BY <1>1, <1>2, <1>3, Zenon DEF StoreMoves, WriteThrough

\* What the invariant says about the head of the gate.
LEMMA GateHead ==
  ASSUME EngineInv, gate # <<>>
  PROVE  /\ Head(gate) \in Reqs /\ Tail(gate) \in Seq(Reqs)
         /\ \A r : Head(Append(gate, r)) = Head(gate) /\ Append(gate, r) # <<>>
<1>1. gate \in Seq(Reqs)
  BY DEF EngineInv, TypeOK, EngineTypeOK
<1>2. Head(gate) \in Reqs /\ Tail(gate) \in Seq(Reqs)
  BY <1>1, HeadTailProperties
<1>3. ASSUME NEW r PROVE Head(Append(gate, r)) = Head(gate) /\ Append(gate, r) # <<>>
  <2>1. gate \in Seq(Reqs \cup {r})
    BY <1>1, SeqMonotonic
  <2>2. Append(gate, r)[1] = gate[1] /\ Len(Append(gate, r)) = Len(gate) + 1 /\ Len(gate) \in Nat
        /\ Append(gate, r) \in Seq(Reqs \cup {r})
    BY <2>1, AppendProperties, LenProperties, EmptySeq
  <2>3. QED BY <2>1, <2>2, HeadTailProperties
<1>4. QED BY <1>2, <1>3

LaneRests == UNCHANGED laneVars

\* A step that leaves the lane alone keeps its types.
LEMMA LaneTypesRest ==
  EngineInv /\ LaneRests => LaneTypeOK'
  BY DEF EngineInv, TypeOK, LaneTypeOK, LaneRests, laneVars

(* What a step may bring about in the state at hand: the admission of the head *)
(* of the gate, the outcome of the turn that is over, the interruption of what *)
(* a restart finds running.                                                    *)
Doing == {x \in Reqs \X Status : \/ gate # <<>> /\ x = <<Head(gate), "queued">>
                                 \/ \E out \in Outcomes : pump.at = "output" /\ x = <<pump.task, out>>
                                 \/ ~alive /\ x[2] = "interrupted"}
(* The invariant and the order of the durable states, for one step.           *)
Sound == /\ EngineInv' /\ Later(Doing, disk, disk')
         /\ pump'.at = "evidence" => pump' = pump \/ disk'.status[pump'.task] = "running"

\* What a step is allowed, it is also allowed as part of more.
LEMMA LaterGrows ==
  ASSUME NEW N, NEW M, N \subseteq M, NEW d, NEW e, Later(N, d, e)
  PROVE  Later(M, d, e)
  BY DEF Later

\* A step of the engine that only moves the gate, the dispatcher or a turn.
LEMMA QuietStep ==
  ASSUME EngineInv, UNCHANGED <<store, alive, sent, order, faults>>, LaneTypeOK',
         PumpType', PumpSound', pump'.at = "evidence" => pump' = pump,
         asking' \in BOOLEAN, gate' \in Seq(Reqs),
         turn' \in [Reqs -> BOOLEAN], crashes' \in 0..MaxCrashes,
         reply' \in [Reqs -> Status \cup {"error"}],
         \A r \in Reqs : \/ reply'[r] \in {"none", "error"}
                         \/ reply'[r] = reply[r]
                         \/ disk.status[r] # "none",
         asking' => asking /\ gate' # <<>> /\ Head(gate') = Head(gate)
  PROVE  Sound
<1>1. StoreMoves({}) /\ Follows({}, disk, disk')
  BY StoreRests
<1>2. disk' = disk /\ alive' \in BOOLEAN
  BY DEF store, EngineInv, TypeOK, EngineTypeOK
<1>3. asking => gate # <<>>
  BY DEF EngineInv, AskingIsNew
<1>4. asking => Head(gate) \in Reqs
  BY <1>3, GateHead
<1>5. EngineInv'
  BY <1>1, <1>2, <1>4, StoreStepInv
<1>6. Later(Doing, disk, disk')
  BY <1>1, LaterGrows DEF Follows
<1>7. QED BY <1>5, <1>6 DEF Sound

\* The dispatcher stays sound while neither it nor the store moves.
LEMMA PumpRests ==
  EngineInv /\ UNCHANGED <<store, pump, sent>> => PumpType' /\ PumpSound'
  BY DEF EngineInv, TypeOK, EngineTypeOK, PumpType, PumpSound, store

\* A submission arrives at the gate.
LEMMA SubmitSound ==
  ASSUME EngineInv, NEW r \in Reqs, Submit(r), LaneTypeOK'
  PROVE  Sound
<1>1. /\ gate \in Seq(Reqs) /\ asking \in BOOLEAN /\ turn \in [Reqs -> BOOLEAN]
      /\ reply \in [Reqs -> Status \cup {"error"}] /\ crashes \in 0..MaxCrashes
  BY DEF EngineInv, TypeOK, EngineTypeOK
<1>2. gate' \in Seq(Reqs) /\ gate' = Append(gate, r)
  BY <1>1, AppendProperties DEF Submit
<1>3. reply' \in [Reqs -> Status \cup {"error"}] /\ \A q \in Reqs : reply'[q] \in {"none", reply[q]}
  BY <1>1 DEF Submit, Status
<1>4. PumpType' /\ PumpSound' /\ pump' = pump
  BY PumpRests DEF Submit
<1>5. asking => gate' # <<>> /\ Head(gate') = Head(gate)
  BY <1>2, GateHead DEF EngineInv, AskingIsNew
<1>6. /\ UNCHANGED <<store, alive, sent, order, faults>>
      /\ asking' = asking /\ turn' = turn /\ crashes' = crashes
  BY DEF Submit
<1>7. QED BY <1>1, <1>2, <1>3, <1>4, <1>5, <1>6, QuietStep

\* A second submission of a key gets the admitted task.
LEMMA ReplaySound ==
  ASSUME EngineInv, Replay, LaneTypeOK'
  PROVE  Sound
<1>1. /\ gate \in Seq(Reqs) /\ asking \in BOOLEAN /\ turn \in [Reqs -> BOOLEAN]
      /\ reply \in [Reqs -> Status \cup {"error"}] /\ crashes \in 0..MaxCrashes
      /\ mem \in State /\ WriteThrough
  BY DEF EngineInv, TypeOK, EngineTypeOK
<1>2. Head(gate) \in Reqs /\ Tail(gate) \in Seq(Reqs)
  BY GateHead DEF Replay
<1>3. /\ gate' = Tail(gate) /\ asking' = FALSE
      /\ reply' = [reply EXCEPT ![Head(gate)] = mem.status[Head(gate)]]
      /\ mem.status[Head(gate)] # "none" /\ mem = disk
  BY <1>1 DEF Replay, Leave, WriteThrough
<1>4. mem.status[Head(gate)] \in Status
  BY <1>1, <1>2 DEF State
<1>5. /\ reply' \in [Reqs -> Status \cup {"error"}]
      /\ \A q \in Reqs : reply'[q] = reply[q] \/ disk.status[q] # "none"
  BY <1>1, <1>2, <1>3, <1>4
<1>6. PumpType' /\ PumpSound' /\ pump' = pump
  BY PumpRests DEF Replay
<1>7. /\ UNCHANGED <<store, alive, sent, order, faults>>
      /\ turn' = turn /\ crashes' = crashes
  BY DEF Replay
<1>8. QED BY <1>1, <1>2, <1>3, <1>5, <1>6, <1>7, QuietStep

\* A submission is refused: nothing is written.
LEMMA RefuseSound ==
  ASSUME EngineInv, Refuse, LaneTypeOK'
  PROVE  Sound
<1>1. /\ gate \in Seq(Reqs) /\ asking \in BOOLEAN /\ turn \in [Reqs -> BOOLEAN]
      /\ reply \in [Reqs -> Status \cup {"error"}] /\ crashes \in 0..MaxCrashes
  BY DEF EngineInv, TypeOK, EngineTypeOK
<1>2. Head(gate) \in Reqs /\ Tail(gate) \in Seq(Reqs)
  BY GateHead DEF Refuse
<1>3. /\ gate' = Tail(gate) /\ asking' = FALSE
      /\ reply' = [reply EXCEPT ![Head(gate)] = "error"]
  BY DEF Refuse, Leave
<1>4. /\ reply' \in [Reqs -> Status \cup {"error"}]
      /\ \A q \in Reqs : reply'[q] = reply[q] \/ reply'[q] = "error"
  BY <1>1, <1>2, <1>3
<1>5. PumpType' /\ PumpSound' /\ pump' = pump
  BY PumpRests DEF Refuse
<1>6. /\ UNCHANGED <<store, alive, sent, order, faults>>
      /\ turn' = turn /\ crashes' = crashes
  BY DEF Refuse
<1>7. QED BY <1>1, <1>2, <1>3, <1>4, <1>5, <1>6, QuietStep

\* The head of the gate asks for its session.
LEMMA AskSound ==
  ASSUME EngineInv, Ask, LaneTypeOK'
  PROVE  Sound
<1>1. /\ UNCHANGED <<disk, mem, healthy, alive, gate, pump, turn, sent, order, reply, crashes, faults>>
      /\ asking' = TRUE /\ gate # <<>> /\ mem.status[Head(gate)] = "none" /\ healthy
  BY DEF Ask, store
<1>2. mem = disk
  BY <1>1 DEF EngineInv, WriteThrough
<1>3. AskingIsNew'
  BY <1>1, <1>2 DEF AskingIsNew
<1>4. EngineTypeOK'
  BY <1>1 DEF EngineInv, TypeOK, EngineTypeOK
<1>5. /\ WriteThrough' /\ IsSound(disk)' /\ PumpSound' /\ SentIsBegun'
      /\ SentAtMostOnce' /\ AnswerIsDurable'
  BY <1>1 DEF EngineInv, WriteThrough, IsSound, PumpSound, SentIsBegun, SentAtMostOnce,
              AnswerIsDurable
<1>6. Later(Doing, disk, disk')
  BY <1>1 DEF Later
<1>7. QED BY <1>1, <1>3, <1>4, <1>5, <1>6 DEF EngineInv, TypeOK, Sound

\* The one instruction of a task leaves: nobody sent it before.
LEMMA SendSound ==
  ASSUME EngineInv, Send, LaneTypeOK'
  PROVE  Sound
<1> DEFINE t == pump.task
<1>1. /\ UNCHANGED <<disk, mem, healthy, alive, gate, asking, reply, crashes, faults>>
      /\ turn' = [turn EXCEPT ![t] = TRUE] /\ sent' = [sent EXCEPT ![t] = @ + 1]
      /\ order' = Append(order, t)
  BY DEF Send, store
<1>2. /\ t \in Reqs /\ sent[t] = 0 /\ Begun(disk.status[t])
  BY DEF Send, EngineInv, PumpSound
<1>3. PumpType /\ sent \in [Reqs -> Nat] /\ turn \in [Reqs -> BOOLEAN] /\ order \in Seq(Reqs)
  BY DEF EngineInv, TypeOK, EngineTypeOK, PumpType
<1>4. PumpType' /\ PumpSound' /\ pump'.at # "evidence"
  <2>1. \/ pump' = [pump EXCEPT !.at = "turn"]
        \/ pump' = [pump EXCEPT !.at = "output", !.result = "timeout"]
    BY DEF Send
  <2>2. CASE pump' = [pump EXCEPT !.at = "turn"]
    BY <1>2, <1>3, <2>2 DEF PumpType, PumpSound
  <2>3. CASE pump' = [pump EXCEPT !.at = "output", !.result = "timeout"]
    BY <1>2, <1>3, <2>3 DEF PumpType, PumpSound, Results
  <2>4. QED BY <2>1, <2>2, <2>3
<1> HIDE DEF t
<1>5. /\ sent' \in [Reqs -> Nat] /\ turn' \in [Reqs -> BOOLEAN] /\ order' \in Seq(Reqs)
      /\ sent'[t] = 1 /\ \A r \in Reqs : r # t => sent'[r] = sent[r]
  BY <1>1, <1>2, <1>3, AppendProperties
<1>6. EngineTypeOK'
  BY <1>1, <1>4, <1>5 DEF EngineInv, TypeOK, EngineTypeOK, PumpType
<1>7. SentIsBegun' /\ SentAtMostOnce'
  BY <1>1, <1>2, <1>5 DEF EngineInv, SentIsBegun, SentAtMostOnce
<1>8. WriteThrough' /\ IsSound(disk)' /\ AskingIsNew' /\ AnswerIsDurable'
  BY <1>1 DEF EngineInv, WriteThrough, IsSound, AskingIsNew, AnswerIsDurable
<1>9. Later(Doing, disk, disk')
  BY <1>1 DEF Later
<1>10. QED BY <1>4, <1>6, <1>7, <1>8, <1>9 DEF EngineInv, TypeOK, Sound

\* What QuietStep asks for of what a step leaves alone.
LEMMA GateRests ==
  ASSUME EngineInv, UNCHANGED <<gate, asking, reply, crashes>>
  PROVE  /\ asking' \in BOOLEAN /\ gate' \in Seq(Reqs) /\ crashes' \in 0..MaxCrashes
         /\ reply' \in [Reqs -> Status \cup {"error"}] /\ \A r \in Reqs : reply'[r] = reply[r]
         /\ asking' => asking /\ gate' # <<>> /\ Head(gate') = Head(gate)
  BY DEF EngineInv, TypeOK, EngineTypeOK, AskingIsNew

\* A send that fails leaves the instruction unsent.
LEMMA NotSentSound ==
  ASSUME EngineInv, NotSent \/ TurnTimeout, LaneTypeOK'
  PROVE  Sound
<1>1. /\ UNCHANGED <<gate, asking, reply, crashes>> /\ turn' = turn
      /\ UNCHANGED <<store, alive, sent, order, faults>>
      /\ pump.at # "idle"
      /\ \/ pump' = [pump EXCEPT !.at = "output", !.result = "failed"]
         \/ pump' = [pump EXCEPT !.at = "output", !.result = "timeout"]
  BY DEF NotSent, TurnTimeout
<1>2. PumpType /\ PumpSound /\ turn \in [Reqs -> BOOLEAN]
  BY DEF EngineInv, TypeOK, EngineTypeOK, PumpType
<1>3. PumpType' /\ PumpSound' /\ pump'.at # "evidence"
  BY <1>1, <1>2 DEF PumpType, PumpSound, Results
<1>4. QED BY <1>1, <1>2, <1>3, GateRests, QuietStep

\* A turn ends, or its waiter gives up on it.
LEMMA TurnEndsSound ==
  ASSUME EngineInv, NEW r \in Reqs, TurnEnds(r), LaneTypeOK'
  PROVE  Sound
<1>1. /\ UNCHANGED <<gate, asking, reply, crashes>>
      /\ UNCHANGED <<store, alive, sent, order, faults>>
      /\ turn' = [turn EXCEPT ![r] = FALSE]
  BY DEF TurnEnds
<1>2. PumpType /\ PumpSound /\ turn \in [Reqs -> BOOLEAN]
  BY DEF EngineInv, TypeOK, EngineTypeOK, PumpType
<1>3. PumpType' /\ PumpSound' /\ (pump'.at = "evidence" => pump' = pump)
  <2>1. CASE UNCHANGED pump
    BY <1>1, <2>1, PumpRests
  <2>2. ASSUME NEW out \in {"completed", "failed"}, pump.at = "turn",
               pump' = [pump EXCEPT !.at = "output", !.result = out]
        PROVE  PumpType' /\ PumpSound' /\ pump'.at = "output"
    BY <1>2, <2>2 DEF PumpType, PumpSound, Results
  <2>3. QED BY <2>1, <2>2 DEF TurnEnds
<1>4. turn' \in [Reqs -> BOOLEAN]
  BY <1>1, <1>2
<1>5. QED BY <1>1, <1>3, <1>4, GateRests, QuietStep
-----------------------------------------------------------------------------
(* The steps that write *)

\* The process dies, its store at a state that may follow.
LEMMA DownSound ==
  ASSUME EngineInv, NEW N \in SUBSET Doing, Follows(N, disk, disk'), Down, LaneTypeOK'
  PROVE  Sound
<1>1. /\ sent' = sent /\ order' = order /\ reply' = reply /\ faults' = faults
      /\ alive' = FALSE /\ gate' = <<>> /\ asking' = FALSE /\ pump' = Idle
      /\ healthy' = TRUE /\ mem' = disk' /\ crashes < MaxCrashes /\ crashes' = crashes + 1
  BY DEF Down
<1>2. StoreMoves(N)
  BY <1>1 DEF StoreMoves, Follows
<1>3. PumpType' /\ PumpSound'
  BY <1>1, <1>2, PumpStaysSound DEF PumpMoves
<1>4. turn' \in [Reqs -> BOOLEAN]
  BY DEF Down
<1>5. crashes \in 0..MaxCrashes /\ reply \in [Reqs -> Status \cup {"error"}]
  BY DEF EngineInv, TypeOK, EngineTypeOK
<1>6. crashes' \in 0..MaxCrashes /\ gate' \in Seq(Reqs)
  BY <1>1, <1>5, EngineConstants
<1>7. EngineInv'
  BY <1>1, <1>2, <1>3, <1>4, <1>5, <1>6, StoreStepInv
<1>8. QED BY <1>1, <1>7, LaterGrows DEF Sound, Follows, Idle

\* The service dies between two writes of a chain.
LEMMA DiesAfterSound ==
  ASSUME EngineInv, NEW N \in SUBSET Doing, NEW chain, Chained(N, disk, chain), DiesAfter(chain), LaneTypeOK'
  PROVE  Sound
<1>1. PICK k \in 1..(Len(chain) - 1) : disk' = chain[k]
  BY DEF DiesAfter
<1>2. k \in 1..Len(chain)
  BY <1>1 DEF Chained
<1>3. Follows(N, disk, disk')
  BY <1>1, <1>2 DEF Chained
<1>4. QED BY <1>3, DownSound DEF DiesAfter

\* The service dies between two steps.
LEMMA CrashSound ==
  ASSUME EngineInv, Crash, LaneTypeOK'
  PROVE  Sound
<1>1. disk' = disk /\ Down
  BY DEF Crash
<1>2. Follows({}, disk, disk)
  BY FollowsItself DEF EngineInv, TypeOK, EngineTypeOK
<1>3. Follows({}, disk, disk')
  BY <1>1, <1>2, Zenon
<1>4. QED BY <1>1, <1>3, DownSound

\* The loop fails after the writes that came before it.
LEMMA LoopFailsEffect ==
  ASSUME NEW N, disk \in State, IsSound(disk), WriteThrough, NEW m \in State, IsSound(m),
         NEW chain, Chained(N, disk, chain), NEW done \in Nat \ {0},
         Ready(m) => done + 1 <= Len(chain), LoopFails(m, chain, done)
  PROVE  StoreMoves(N) /\ pump' = Idle /\ healthy /\ disk' \in {chain[done], chain[done + 1]}
<1>1. Ready(m)
  BY DEF LoopFails
<1>2. Reserved(m) \in State /\ Started(m) \in State /\ Head(m.queue) \in Reqs
  BY <1>1, WorkFollows DEF Follows
<1>3. [Started(m) EXCEPT !.status[Head(m.queue)] = "failed"] \in State
  BY <1>2, StatusUpdate DEF Status, Terminal
<1>4. done \in 0..Len(chain) /\ done + 1 \in 0..Len(chain) /\ done + 1 > 0
  BY <1>1 DEF Chained
<1>5. CASE FailedWrite(chain, done, Reserved(m), Idle)
  <2>1. /\ StoreMoves(N) /\ pump' = Idle /\ healthy
        /\ disk' = chain[done]
    BY <1>2, <1>4, <1>5, FailedEffect
  <2>2. QED BY <2>1
<1>6. CASE FailedWrite(chain, done + 1, [Started(m) EXCEPT !.status[Head(m.queue)] = "failed"], Idle)
  <2>1. StoreMoves(N) /\ pump' = Idle /\ healthy /\ disk' = chain[done + 1]
    BY <1>3, <1>4, <1>6, FailedEffect
  <2>2. QED BY <2>1
<1>7. QED BY <1>5, <1>6 DEF LoopFails

\* Where the dispatcher goes after it wrote everything.
LEMMA PumpingMoves ==
  ASSUME NEW N, disk \in State, NEW m \in State, Follows(N, disk, m),
         Ready(m) => disk' = Started(m), pump' = Pumping(m)
  PROVE  PumpMoves
<1>1. CASE Ready(m)
  <2>1. /\ Head(m.queue) \in Reqs /\ m.status[Head(m.queue)] = "queued"
        /\ Started(m).status[Head(m.queue)] = "running"
    BY <1>1, WorkFollows DEF Follows
  <2>2. ~Begun(disk.status[Head(m.queue)])
    BY <2>1 DEF Follows, Later, Begun
  <2>3. disk'.status[Head(m.queue)] = "running"
    BY <1>1, <2>1
  <2>4. pump' = [at |-> "evidence", task |-> Head(m.queue), result |-> "none"]
    BY <1>1 DEF Pumping
  <2>5. QED BY <2>1, <2>2, <2>3, <2>4 DEF PumpMoves
<1>2. CASE ~Ready(m)
  BY <1>2 DEF Pumping, PumpMoves
<1>3. QED BY <1>1, <1>2

\* The task a submission admits is new in queue and order.
LEMMA AdmittedFollows ==
  ASSUME EngineInv, NEW r \in Reqs, mem = disk, disk.status[r] = "none"
  PROVE  Follows({<<r, "queued">>}, disk, Admitted(r)) /\ Admitted(r).status[r] = "queued"
<1> DEFINE q == Append(disk.queue, r)  t == Append(disk.tasks, r)
<1>1. disk \in State /\ IsSound(disk)
  BY DEF EngineInv, TypeOK, EngineTypeOK
<1>2. disk.queue \in Seq(Reqs) /\ disk.tasks \in Seq(Reqs) /\ disk.status \in [Reqs -> Status]
  BY <1>1 DEF State
<1>3. /\ q \in Seq(Reqs) /\ DOMAIN q = 1..Len(disk.queue) + 1 /\ q[Len(disk.queue) + 1] = r
      /\ Len(disk.queue) \in Nat /\ DOMAIN disk.queue = 1..Len(disk.queue)
      /\ \A i \in 1..Len(disk.queue) : q[i] = disk.queue[i] /\ disk.queue[i] \in Reqs
  BY <1>2, AppendProperties, LenProperties, ElementOfSeq
<1>4. /\ t \in Seq(Reqs) /\ DOMAIN t = 1..Len(disk.tasks) + 1 /\ t[Len(disk.tasks) + 1] = r
      /\ Len(disk.tasks) \in Nat /\ DOMAIN disk.tasks = 1..Len(disk.tasks)
      /\ \A i \in 1..Len(disk.tasks) : t[i] = disk.tasks[i] /\ disk.tasks[i] \in Reqs
  BY <1>2, AppendProperties, LenProperties, ElementOfSeq
<1> HIDE DEF q, t
<1>5. /\ Admitted(r) \in State /\ Admitted(r).queue = q /\ Admitted(r).tasks = t
      /\ Admitted(r).status = [disk.status EXCEPT ![r] = "queued"]
  <2>1. Admitted(r) = [disk EXCEPT !.status = [disk.status EXCEPT ![r] = "queued"],
                                   !.queue = q, !.tasks = t]
    BY <1>1 DEF Admitted, q, t, State
  <2>2. [disk.status EXCEPT ![r] = "queued"] \in [Reqs -> Status]
    BY <1>2 DEF Status
  <2>3. QED BY <1>1, <1>3, <1>4, <2>1, <2>2 DEF State
<1>6. \A i \in 1..Len(disk.queue) : disk.queue[i] # r /\ disk.status[disk.queue[i]] = "queued"
  BY <1>1, <1>3 DEF IsSound
<1>7. \A i \in 1..Len(disk.tasks) : disk.tasks[i] # r /\ disk.status[disk.tasks[i]] # "none"
  BY <1>1, <1>4 DEF IsSound
<1>8. IsInjective(q) /\ \A i \in DOMAIN q : Admitted(r).status[q[i]] = "queued"
  <2>1. \A i, j \in 1..Len(disk.queue) : q[i] = q[j] => i = j
    BY <1>1, <1>3 DEF IsSound, IsInjective
  <2>2. \A i \in DOMAIN q : i \in 1..Len(disk.queue) \/ i = Len(disk.queue) + 1
    BY <1>3
  <2>3. \A i \in DOMAIN q : Admitted(r).status[q[i]] = "queued"
    BY <1>2, <1>3, <1>5, <1>6, <2>2
  <2>4. IsInjective(q)
    BY <1>3, <1>6, <2>1, <2>2 DEF IsInjective
  <2>5. QED BY <2>3, <2>4
<1>9. IsInjective(t) /\ \A i \in DOMAIN t : Admitted(r).status[t[i]] # "none"
  <2>1. \A i, j \in 1..Len(disk.tasks) : t[i] = t[j] => i = j
    BY <1>1, <1>4 DEF IsSound, IsInjective
  <2>2. \A i \in DOMAIN t : i \in 1..Len(disk.tasks) \/ i = Len(disk.tasks) + 1
    BY <1>4
  <2>3. \A i \in DOMAIN t : Admitted(r).status[t[i]] # "none"
    BY <1>2, <1>4, <1>5, <1>7, <2>2
  <2>4. IsInjective(t)
    BY <1>4, <1>7, <2>1, <2>2 DEF IsInjective
  <2>5. QED BY <2>3, <2>4
<1>10. Later({<<r, "queued">>}, disk, Admitted(r))
  BY <1>2, <1>5 DEF Later, Begun, Terminal
<1>11. IsSound(Admitted(r))
  BY <1>5, <1>8, <1>9 DEF IsSound
<1>12. QED BY <1>2, <1>5, <1>10, <1>11 DEF Follows

\* The state of the store at each write of an admission.
LEMMA AdmitSound ==
  ASSUME EngineInv, Admit, LaneTypeOK'
  PROVE  Sound
<1> DEFINE r == Head(gate)
           m == Admitted(r)
           N == {<<r, "queued">>}
           kicked == pump = Idle
           chain == <<m>> \o (IF kicked THEN Work(m) ELSE <<>>)
<1>1. /\ alive /\ gate # <<>> /\ asking
      /\ \/ /\ Wrote(chain, IF kicked THEN Pumping(m) ELSE pump)
            /\ Leave(mem'.status[r])
            /\ UNCHANGED <<alive, turn, sent, order, crashes, faults>>
         \/ /\ FailedWrite(chain, 0, mem, pump)
            /\ Leave("error")
            /\ UNCHANGED <<alive, turn, sent, order, crashes, faults>>
         \/ /\ kicked /\ LoopFails(m, chain, 1)
            /\ Leave(mem'.status[r])
            /\ UNCHANGED <<alive, turn, sent, order, crashes, faults>>
         \/ DiesAfter(chain)
  BY DEF Admit
<1>2. /\ disk \in State /\ mem \in State /\ IsSound(disk) /\ WriteThrough /\ gate \in Seq(Reqs)
      /\ turn \in [Reqs -> BOOLEAN] /\ crashes \in 0..MaxCrashes /\ alive \in BOOLEAN
      /\ reply \in [Reqs -> Status \cup {"error"}]
  BY DEF EngineInv, TypeOK, EngineTypeOK
<1>3. r \in Reqs /\ Tail(gate) \in Seq(Reqs) /\ disk.status[r] = "none"
  BY <1>1, GateHead DEF EngineInv, AskingIsNew
<1>4. mem = disk
  BY <1>1, <1>2 DEF WriteThrough, Wrote, FailedWrite, LoopFails, DiesAfter
<1>15. N \in SUBSET Doing
  BY <1>1, <1>3 DEF Doing, Status
<1> HIDE DEF r
<1>5. Follows(N, disk, m) /\ m.status[r] = "queued" /\ m \in State /\ IsSound(m)
  BY <1>3, <1>4, AdmittedFollows DEF Follows
<1> HIDE DEF m, kicked, N
<1>6. kicked \in BOOLEAN
  BY DEF kicked
<1>7. /\ Chained(N, disk, chain) /\ Chained({}, m, chain)
      /\ kicked /\ Ready(m) => Len(chain) = 3 /\ chain[3] = Started(m)
      /\ ~(kicked /\ Ready(m)) => Len(chain) = 1 /\ chain[1] = m
  <2>1. Follows({}, m, m)
    BY <1>5, FollowsItself
  <2>2. QED BY <1>2, <1>5, <1>6, <2>1, KickedChain
<1>8. \A k \in 1..Len(chain) : chain[k].status[r] # "none" /\ chain[k] \in State
  BY <1>3, <1>5, <1>7 DEF Chained, Follows, Later
<1> HIDE DEF chain
<1>9. ASSUME StoreMoves(N), PumpMoves,
             UNCHANGED <<alive, turn, sent, order, crashes, faults>>,
             NEW a \in Status \cup {"error"}, Leave(a), a # "error" => disk'.status[r] # "none"
      PROVE  Sound
  <2>1. PumpType' /\ PumpSound'
    BY <1>9, PumpStaysSound
  <2>2. /\ gate' = Tail(gate) /\ asking' = FALSE /\ reply' = [reply EXCEPT ![r] = a]
    BY <1>9 DEF Leave, r
  <2>3. /\ reply' \in [Reqs -> Status \cup {"error"}]
        /\ \A q \in Reqs : \/ reply'[q] \in {"none", "error"}
                           \/ reply'[q] = reply[q]
                           \/ disk'.status[q] # "none"
    BY <1>2, <1>3, <1>9, <2>2
  <2>4. EngineInv'
    BY <1>2, <1>3, <1>9, <2>1, <2>2, <2>3, StoreStepInv
  <2>5. pump'.at = "evidence" => pump' = pump \/ disk'.status[pump'.task] = "running"
    BY <1>9 DEF PumpMoves, Idle
  <2>6. QED BY <1>9, <1>15, <2>4, <2>5, LaterGrows DEF Sound, StoreMoves, Follows
<1>10. CASE /\ Wrote(chain, IF kicked THEN Pumping(m) ELSE pump)
            /\ Leave(mem'.status[r])
            /\ UNCHANGED <<alive, turn, sent, order, crashes, faults>>
  <2>1. /\ StoreMoves(N) /\ pump' = IF kicked THEN Pumping(m) ELSE pump
        /\ disk' = chain[Len(chain)] /\ mem' = disk'
    BY <1>2, <1>7, <1>10, WroteEffect
  <2>2. Len(chain) \in 1..Len(chain)
    BY <1>7 DEF Chained
  <2>3. disk'.status[r] # "none" /\ disk' \in State
    BY <1>8, <2>1, <2>2
  <2>4. mem'.status[r] \in Status /\ mem'.status[r] = disk'.status[r]
    BY <1>3, <2>1, <2>3 DEF State
  <2>5. PumpMoves
    <3>1. CASE kicked
      <4>1. pump' = Pumping(m)
        BY <2>1, <3>1
      <4>2. Ready(m) => disk' = Started(m)
        BY <1>7, <2>1, <3>1
      <4>3. QED BY <1>2, <1>5, <4>1, <4>2, PumpingMoves
    <3>2. CASE ~kicked
      BY <2>1, <3>2 DEF PumpMoves
    <3>3. QED BY <3>1, <3>2
  <2>6. QED BY <1>9, <1>10, <2>1, <2>3, <2>4, <2>5
<1>11. CASE /\ FailedWrite(chain, 0, mem, pump)
            /\ Leave("error")
            /\ UNCHANGED <<alive, turn, sent, order, crashes, faults>>
  <2>1. 0 \in 0..Len(chain)
    BY <1>7 DEF Chained
  <2>2. StoreMoves(N) /\ pump' = pump
    BY <1>2, <1>7, <1>11, <2>1, FailedEffect
  <2>3. QED BY <1>9, <1>11, <2>2 DEF PumpMoves
<1>12. CASE /\ kicked /\ LoopFails(m, chain, 1)
            /\ Leave(mem'.status[r])
            /\ UNCHANGED <<alive, turn, sent, order, crashes, faults>>
  <2>1. Ready(m) /\ Len(chain) = 3
    BY <1>7, <1>12 DEF LoopFails
  <2>2. StoreMoves(N) /\ pump' = Idle /\ disk' \in {chain[1], chain[1 + 1]}
    <3>1. 1 \in Nat \ {0} /\ 1 + 1 <= Len(chain)
      BY <2>1
    <3>2. disk \in State /\ IsSound(disk) /\ WriteThrough /\ m \in State /\ IsSound(m)
      BY <1>2, <1>5
    <3>3. Chained(N, disk, chain) /\ LoopFails(m, chain, 1)
      BY <1>7, <1>12
    <3>4. QED BY <3>1, <3>2, <3>3, LoopFailsEffect, Zenon
  <2>3. disk'.status[r] # "none"
    BY <1>8, <2>1, <2>2
  <2>4. mem'.status[r] \in Status
    BY <1>3, <2>2 DEF State, StoreMoves
  <2>5. QED BY <1>9, <1>12, <2>2, <2>3, <2>4 DEF PumpMoves
<1>13. CASE DiesAfter(chain)
  BY <1>7, <1>13, <1>15, DiesAfterSound
<1>14. QED BY <1>1, <1>10, <1>11, <1>12, <1>13 DEF chain, kicked, m, r

\* A state in which a task that was not begun or not over has another status.
LEMMA StatusFollows ==
  ASSUME NEW d \in State, IsSound(d), NEW m \in State, NEW r \in Reqs, NEW s \in Terminal,
         m.status = d.status, m.tasks = d.tasks,
         d.status[r] \notin Terminal \cup {"none"},
         IsInjective(m.queue),
         \A i \in DOMAIN m.queue : m.queue[i] # r /\ d.status[m.queue[i]] = "queued"
  PROVE  /\ Follows({<<r, s>>}, d, [m EXCEPT !.status[r] = s])
         /\ s = "cancelled" => Follows({}, d, [m EXCEPT !.status[r] = s])
<1> DEFINE e == [m EXCEPT !.status[r] = s]
<1>1. /\ e \in State /\ e.queue = m.queue /\ e.tasks = d.tasks
      /\ e.status = [d.status EXCEPT ![r] = s]
  BY StatusUpdate DEF Status
<1> HIDE DEF e
<1>2. d.status \in [Reqs -> Status] /\ m.queue \in Seq(Reqs) /\ d.tasks \in Seq(Reqs)
  BY DEF State
<1>3. /\ \A i \in DOMAIN m.queue : m.queue[i] \in Reqs
      /\ \A i \in DOMAIN d.tasks : d.tasks[i] \in Reqs
  BY <1>2, ElementOfSeq, LenProperties
<1>4. IsSound(e)
  BY <1>1, <1>2, <1>3 DEF IsSound, Terminal
<1>5. Later({<<r, s>>}, d, e) /\ (s = "cancelled" => Later({}, d, e))
  BY <1>1, <1>2 DEF Later, Begun, Terminal
<1>6. QED BY <1>1, <1>4, <1>5 DEF Follows, e

\* A state with other fields that the order does not read follows too.
LEMMA VacatedFollows ==
  ASSUME NEW N, NEW d \in State, NEW m \in State, Follows(N, d, m)
  PROVE  /\ Follows(N, d, Vacated(m)) /\ Vacated(m).status = m.status
         /\ \A p \in BOOLEAN : Follows(N, d, [m EXCEPT !.paused = p])
<1>1. Vacated(m) \in State /\ Vacated(m).status = m.status /\ Vacated(m).queue = m.queue
      /\ Vacated(m).tasks = m.tasks
  BY DEF Vacated, State
<1>2. ASSUME NEW p \in BOOLEAN PROVE Follows(N, d, [m EXCEPT !.paused = p])
  BY <1>2 DEF Follows, IsSound, Later, State
<1>3. Follows(N, d, Vacated(m))
  BY <1>1 DEF Follows, IsSound, Later
<1>4. QED BY <1>1, <1>2, <1>3

\* What a task that ends leaves in the store.
LEMMA SettledFollows ==
  ASSUME NEW d \in State, IsSound(d), NEW r \in Reqs, NEW out \in Results
  PROVE  Follows({<<r, out>>}, d, Settled(d, r, out)) /\ Settled(d, r, out) \in State
<1>1. CASE d.status[r] = "running"
  <2>1. Settled(d, r, out) = [d EXCEPT !.status[r] = out]
    BY <1>1 DEF Settled
  <2>2. out \in Terminal /\ d.status[r] \notin Terminal \cup {"none"}
    BY <1>1 DEF Results, Terminal
  <2>3. IsInjective(d.queue)
        /\ \A i \in DOMAIN d.queue : d.queue[i] # r /\ d.status[d.queue[i]] = "queued"
    BY <1>1 DEF IsSound
  <2>4. Follows({<<r, out>>}, d, [d EXCEPT !.status[r] = out])
    BY <2>2, <2>3, StatusFollows
  <2>5. QED BY <2>1, <2>4 DEF Follows
<1>2. CASE d.status[r] # "running"
  <2>1. Settled(d, r, out) = d
    BY <1>2 DEF Settled
  <2>2. QED BY <2>1, FollowsItself
<1>3. QED BY <1>1, <1>2

\* Settling and vacating a state of any kind gives a state.
LEMMA SettledType ==
  ASSUME NEW m \in State, NEW r \in Reqs, NEW out \in Results
  PROVE  Settled(m, r, out) \in State /\ Vacated(Settled(m, r, out)) \in State
<1>1. [m EXCEPT !.status[r] = out] \in State
  BY StatusUpdate DEF Results, Status, Terminal
<1>2. Settled(m, r, out) \in State
  BY <1>1 DEF Settled
<1>3. \A e \in State : Vacated(e) \in State
  BY DEF Vacated, State
<1>4. QED BY <1>2, <1>3

\* A step that moves the store and the dispatcher and answers nobody.
LEMMA StoreOnlyStep ==
  ASSUME EngineInv, NEW N \in SUBSET Doing, StoreMoves(N), PumpMoves,
         asking => <<Head(gate), "queued">> \notin N,
         LaneTypeOK', alive' \in BOOLEAN,
         UNCHANGED <<gate, asking, turn, sent, order, reply, crashes, faults>>
  PROVE  Sound
<1>1. PumpType' /\ PumpSound'
  BY PumpStaysSound
<1>2. /\ asking' \in BOOLEAN /\ gate' \in Seq(Reqs) /\ crashes' \in 0..MaxCrashes
      /\ reply' \in [Reqs -> Status \cup {"error"}] /\ \A r \in Reqs : reply'[r] = reply[r]
      /\ asking' => asking /\ gate' # <<>> /\ Head(gate') = Head(gate)
  BY GateRests
<1>3. turn' \in [Reqs -> BOOLEAN]
  BY DEF EngineInv, TypeOK, EngineTypeOK
<1>4. asking => gate # <<>>
  BY DEF EngineInv, AskingIsNew
<1>5. asking => Head(gate) \in Reqs
  BY <1>4, GateHead
<1>6. EngineInv'
  BY <1>1, <1>2, <1>3, <1>5, StoreStepInv
<1>7. pump'.at = "evidence" => pump' = pump \/ disk'.status[pump'.task] = "running"
  BY DEF PumpMoves, Idle
<1>8. QED BY <1>6, <1>7, LaterGrows DEF Sound, StoreMoves, Follows

\* The output of a turn is read and the task settled.
LEMMA FinishSound ==
  ASSUME EngineInv, Finish, LaneTypeOK'
  PROVE  Sound
<1> DEFINE t == pump.task
           M1(out) == Settled(mem, t, out)
           M2(out) == Vacated(M1(out))
           Chain(out) == <<M1(out), M2(out)>> \o Work(M2(out))
           Rest == UNCHANGED <<alive, gate, asking, turn, sent, order, reply, crashes, faults>>
<1>1. PICK out \in Outcomes :
        \/ Wrote(Chain(out), Pumping(M2(out))) /\ Rest
        \/ /\ \/ FailedWrite(Chain(out), 0, Vacated(Settled(mem, t, "failed")), Idle)
              \/ FailedWrite(Chain(out), 1, M2(out), Idle)
              \/ LoopFails(M2(out), Chain(out), 2)
           /\ Rest
        \/ /\ ~healthy
           /\ mem' = Vacated(Settled(mem, t, "failed"))
           /\ pump' = Idle
           /\ UNCHANGED <<disk, healthy, alive, gate, asking, turn, sent, order, reply, crashes, faults>>
        \/ DiesAfter(Chain(out))
  BY DEF Finish
<1>2. /\ disk \in State /\ mem \in State /\ IsSound(disk) /\ WriteThrough /\ alive \in BOOLEAN
  BY DEF EngineInv, TypeOK, EngineTypeOK
<1>3. t \in Reqs /\ out \in Results /\ "failed" \in Results
  BY DEF EngineInv, PumpSound, Finish, Outcomes, Results
<1> DEFINE N == {<<t, out>>}
<1>14. N \in SUBSET Doing /\ \A q : <<q, "queued">> \notin N
  BY <1>3 DEF Finish, Doing, Results, Status, Terminal
<1> HIDE DEF t
<1> DEFINE m1 == M1(out)
           m2 == M2(out)
           chain == Chain(out)
           left == Vacated(Settled(mem, t, "failed"))
<1>4. left \in State
  BY <1>2, <1>3, SettledType
<1>5. CASE ~healthy /\ Rest /\ mem' = left /\ pump' = Idle /\ UNCHANGED <<disk, healthy>>
  <2>1. Follows(N, disk, disk')
    BY <1>2, <1>5, FollowsItself
  <2>2. healthy' = healthy /\ ~healthy /\ healthy \in BOOLEAN /\ mem' \in State
    BY <1>4, <1>5 DEF EngineInv, TypeOK, EngineTypeOK
  <2>4. StoreMoves(N)
    BY <2>1, <2>2, Zenon DEF StoreMoves
  <2>3. QED BY <1>2, <1>5, <2>4, <1>14, StoreOnlyStep DEF PumpMoves
<1>6. ASSUME mem = disk PROVE /\ m1 \in State /\ m2 \in State
                              /\ Follows(N, disk, m1) /\ Follows(N, disk, m2)
  <2>1. Follows(N, disk, m1) /\ m1 \in State
    BY <1>2, <1>3, <1>6, SettledFollows
  <2>2. Follows(N, disk, m2)
    BY <1>2, <2>1, VacatedFollows
  <2>3. QED BY <2>1, <2>2 DEF Follows
<1> HIDE DEF m1, M1, M2, N
<1>7. ASSUME mem = disk
      PROVE  /\ Chained(N, disk, chain) /\ IsSound(m2) /\ m2 \in State /\ Follows(N, disk, m2)
             /\ Ready(m2) => Len(chain) = 4 /\ chain[4] = Started(m2)
             /\ ~Ready(m2) => Len(chain) = 2
  <2>1. m1 \in State /\ m2 \in State /\ Follows(N, disk, m1) /\ Follows(N, disk, m2)
    BY <1>6, <1>7
  <2>2. chain = <<m1, m2>> \o Work(m2)
    BY DEF m1, m2
  <2> HIDE DEF chain, m2
  <2>3. QED BY <1>2, <2>1, <2>2, FinishChain DEF Follows
<1> HIDE DEF m2, chain, left
<1>8. CASE Wrote(chain, Pumping(m2)) /\ Rest
  <2>1. mem = disk
    BY <1>2, <1>8 DEF WriteThrough, Wrote
  <2>2. StoreMoves(N) /\ pump' = Pumping(m2) /\ disk' = chain[Len(chain)]
    BY <1>2, <1>7, <1>8, <2>1, WroteEffect
  <2>3. Ready(m2) => disk' = Started(m2)
    BY <1>7, <2>1, <2>2
  <2>4. PumpMoves
    BY <1>2, <1>7, <2>1, <2>2, <2>3, PumpingMoves
  <2>5. QED BY <1>2, <1>8, <2>2, <2>4, <1>14, StoreOnlyStep
<1>9. CASE FailedWrite(chain, 0, left, Idle) /\ Rest
  <2>1. mem = disk
    BY <1>2, <1>9 DEF WriteThrough, FailedWrite
  <2>2. 0 \in 0..Len(chain)
    BY <1>7, <2>1 DEF Chained
  <2>3. StoreMoves(N) /\ pump' = Idle
    BY <1>2, <1>4, <1>7, <1>9, <2>1, <2>2, FailedEffect
  <2>4. QED BY <1>2, <1>9, <2>3, <1>14, StoreOnlyStep DEF PumpMoves
<1>10. CASE FailedWrite(chain, 1, m2, Idle) /\ Rest
  <2>1. mem = disk
    BY <1>2, <1>10 DEF WriteThrough, FailedWrite
  <2>2. 1 \in 0..Len(chain)
    BY <1>7, <2>1 DEF Chained
  <2>3. StoreMoves(N) /\ pump' = Idle
    BY <1>2, <1>7, <1>10, <2>1, <2>2, FailedEffect
  <2>4. QED BY <1>2, <1>10, <2>3, <1>14, StoreOnlyStep DEF PumpMoves
<1>11. CASE LoopFails(m2, chain, 2) /\ Rest
  <2>1. mem = disk /\ Ready(m2)
    BY <1>2, <1>11 DEF WriteThrough, LoopFails, FailedWrite
  <2>5. Len(chain) = 4
    BY <1>7, <2>1, Zenon
  <2>2. 2 \in Nat \ {0} /\ 2 + 1 <= Len(chain)
    BY <2>5
  <2>3. IsSound(m2) /\ m2 \in State /\ Chained(N, disk, chain) /\ LoopFails(m2, chain, 2)
    BY <1>7, <1>11, <2>1
  <2>4. StoreMoves(N) /\ pump' = Idle
    BY <1>2, <2>2, <2>3, LoopFailsEffect, Zenon
  <2>6. QED BY <1>2, <1>11, <2>4, <1>14, StoreOnlyStep DEF PumpMoves
<1>12. CASE DiesAfter(chain)
  <2>1. mem = disk
    BY <1>2, <1>12 DEF WriteThrough, DiesAfter
  <2>2. QED BY <1>7, <1>12, <2>1, <1>14, DiesAfterSound
<1>13. QED BY <1>1, <1>5, <1>8, <1>9, <1>10, <1>11, <1>12 DEF chain, m2, left

\* A queued task leaves the queue, a running one keeps its lane.
LEMMA CancelTaskSound ==
  ASSUME EngineInv, NEW r \in Reqs, CancelTask(r), LaneTypeOK'
  PROVE  Sound
<1> DEFINE there == \E i \in DOMAIN mem.queue : mem.queue[i] = r
           chain == IF there THEN <<Without(r), Cancelled(Without(r), r)>>
                             ELSE <<Cancelled(mem, r)>>
           Rest == UNCHANGED <<alive, gate, asking, turn, sent, order, reply, crashes, faults>>
<1>1. /\ mem.status[r] \in {"queued", "running"}
      /\ \/ (Wrote(chain, pump) \/ FailedWrite(chain, 0, chain[1], pump)) /\ Rest
         \/ DiesAfter(chain)
  BY DEF CancelTask
<1>2. /\ disk \in State /\ mem \in State /\ IsSound(disk) /\ WriteThrough /\ alive \in BOOLEAN
  BY DEF EngineInv, TypeOK, EngineTypeOK
<1>3. mem = disk
  <2>1. healthy
    BY <1>1 DEF Wrote, FailedWrite, DiesAfter
  <2>2. QED BY <1>2, <2>1 DEF WriteThrough
<1> DEFINE w == Without(r)
<1>4. /\ w \in State /\ Follows({}, disk, w) /\ w.status = disk.status /\ w.tasks = disk.tasks
      /\ \A i \in DOMAIN w.queue : w.queue[i] # r
  <2> DEFINE q == Kept(disk.queue, Reqs \ {r})
  <2>1. disk.queue \in Seq(Reqs) /\ IsInjective(disk.queue)
    BY <1>2 DEF State, IsSound
  <2>2. /\ q \in Seq(Reqs) /\ IsInjective(q)
        /\ \A i \in DOMAIN q : q[i] \in Reqs \ {r} /\ \E j \in DOMAIN disk.queue : disk.queue[j] = q[i]
    <3>1. /\ q \in Seq(Reqs)
          /\ \A i \in DOMAIN q : /\ q[i] \in Reqs \ {r}
                                 /\ \E j \in DOMAIN disk.queue : disk.queue[j] = q[i]
          /\ IsInjective(disk.queue) => IsInjective(q)
      BY <2>1, KeptProperties
    <3>2. QED BY <2>1, <3>1
  <2>3. w = [disk EXCEPT !.queue = q]
    BY <1>3 DEF Without
  <2> HIDE DEF q, w
  <2>4. w \in State /\ w.queue = q /\ w.status = disk.status /\ w.tasks = disk.tasks
    BY <1>2, <2>2, <2>3 DEF State
  <2>5. IsSound(w)
    BY <1>2, <2>2, <2>4 DEF IsSound
  <2>6. QED BY <2>2, <2>4, <2>5 DEF Follows, Later
<1>5. "cancelled" \in Terminal /\ disk.status[r] \notin Terminal \cup {"none"}
  BY <1>1, <1>3 DEF Terminal
<1> HIDE DEF w
<1>6. Follows({}, disk, Cancelled(w, r)) /\ Cancelled(w, r) \in State
  <2>1. IsInjective(w.queue)
        /\ \A i \in DOMAIN w.queue : w.queue[i] # r /\ disk.status[w.queue[i]] = "queued"
    BY <1>4 DEF Follows, IsSound
  <2>2. Follows({}, disk, [w EXCEPT !.status[r] = "cancelled"])
    BY <1>2, <1>4, <1>5, <2>1, StatusFollows
  <2>3. QED BY <2>2 DEF Cancelled, Follows
<1>7. ASSUME ~there PROVE Follows({}, disk, Cancelled(disk, r)) /\ Cancelled(disk, r) \in State
  <2>1. IsInjective(disk.queue)
        /\ \A i \in DOMAIN disk.queue : disk.queue[i] # r /\ disk.status[disk.queue[i]] = "queued"
    BY <1>2, <1>3, <1>7 DEF IsSound
  <2>2. Follows({}, disk, [disk EXCEPT !.status[r] = "cancelled"])
    BY <1>2, <1>5, <2>1, StatusFollows
  <2>3. QED BY <2>2 DEF Cancelled, Follows
<1> HIDE DEF there
<1>8. Chained({}, disk, chain) /\ chain[1] \in State
  <2>1. CASE there
    <3>1. chain = <<w, Cancelled(w, r)>>
      BY <2>1 DEF w
    <3> HIDE DEF chain
    <3>2. chain \in Seq(State) /\ Len(chain) = 2 /\ chain[1] = w /\ chain[2] = Cancelled(w, r)
      BY <1>4, <1>6, <3>1
    <3>3. \A k \in 1..2 : k = 1 \/ k = 2
      OBVIOUS
    <3>4. QED BY <1>4, <1>6, <3>2, <3>3 DEF Chained
  <2>2. CASE ~there
    <3>1. chain = <<Cancelled(disk, r)>>
      BY <1>3, <2>2
    <3> HIDE DEF chain
    <3>2. chain \in Seq(State) /\ Len(chain) = 1 /\ chain[1] = Cancelled(disk, r)
      BY <1>7, <2>2, <3>1
    <3>3. \A k \in 1..1 : k = 1
      OBVIOUS
    <3>4. QED BY <1>7, <2>2, <3>2, <3>3 DEF Chained
  <2>3. QED BY <2>1, <2>2
<1> HIDE DEF chain
<1>9. CASE Wrote(chain, pump) /\ Rest
  <2>1. StoreMoves({}) /\ pump' = pump
    BY <1>2, <1>8, <1>9, WroteEffect
  <2>2. QED BY <1>2, <1>9, <2>1, StoreOnlyStep DEF PumpMoves
<1>10. CASE FailedWrite(chain, 0, chain[1], pump) /\ Rest
  <2>1. 0 \in 0..Len(chain)
    BY <1>8 DEF Chained
  <2>2. StoreMoves({}) /\ pump' = pump
    BY <1>2, <1>8, <1>10, <2>1, FailedEffect
  <2>3. QED BY <1>2, <1>10, <2>2, StoreOnlyStep DEF PumpMoves
<1>11. CASE DiesAfter(chain)
  BY <1>8, <1>11, DiesAfterSound
<1>12. QED BY <1>1, <1>9, <1>10, <1>11 DEF chain, there

\* Pausing and resuming.
LEMMA SetPausedSound ==
  ASSUME EngineInv, NEW p \in BOOLEAN, SetPaused(p), LaneTypeOK'
  PROVE  Sound
<1> DEFINE m == [mem EXCEPT !.paused = p]
           kicked == ~p /\ pump = Idle
           chain == <<m>> \o (IF kicked THEN Work(m) ELSE <<>>)
<1>1. /\ healthy /\ Wrote(chain, IF kicked THEN Pumping(m) ELSE pump)
      /\ UNCHANGED <<alive, gate, asking, turn, sent, order, reply, crashes, faults>>
  BY DEF SetPaused
<1>2. /\ disk \in State /\ mem \in State /\ IsSound(disk) /\ WriteThrough /\ alive \in BOOLEAN
  BY DEF EngineInv, TypeOK, EngineTypeOK
<1>3. mem = disk
  BY <1>1, <1>2 DEF WriteThrough
<1>4. Follows({}, disk, m)
  <2>1. Follows({}, disk, disk)
    BY <1>2, FollowsItself
  <2>2. QED BY <1>2, <1>3, <2>1, VacatedFollows
<1>5. m \in State
  BY <1>4 DEF Follows
<1>6. kicked \in BOOLEAN
  OBVIOUS
<1> HIDE DEF m, kicked
<1>7. /\ Chained({}, disk, chain)
      /\ kicked /\ Ready(m) => Len(chain) = 3 /\ chain[3] = Started(m)
  BY <1>2, <1>4, <1>5, <1>6, KickedChain
<1> HIDE DEF chain
<1>8. /\ StoreMoves({}) /\ pump' = IF kicked THEN Pumping(m) ELSE pump
      /\ disk' = chain[Len(chain)]
  BY <1>1, <1>2, <1>7, WroteEffect
<1>9. PumpMoves
  <2>1. CASE kicked
    <3>1. pump' = Pumping(m) /\ (Ready(m) => disk' = Started(m))
      BY <1>7, <1>8, <2>1
    <3>2. QED BY <1>2, <1>4, <1>5, <3>1, PumpingMoves
  <2>2. CASE ~kicked
    BY <1>8, <2>2 DEF PumpMoves
  <2>3. QED BY <2>1, <2>2
<1>10. QED BY <1>1, <1>2, <1>8, <1>9, StoreOnlyStep

\* Two sequences without duplicates that share no element.
LEMMA DisjointConcat ==
  ASSUME NEW T, NEW a \in Seq(T), NEW b \in Seq(T), IsInjective(a), IsInjective(b),
         \A i \in DOMAIN a, j \in DOMAIN b : a[i] # b[j]
  PROVE  /\ a \o b \in Seq(T) /\ IsInjective(a \o b)
         /\ \A k \in DOMAIN (a \o b) : \/ \E i \in DOMAIN a : (a \o b)[k] = a[i]
                                      \/ \E j \in DOMAIN b : (a \o b)[k] = b[j]
<1> DEFINE c == a \o b
<1>1. /\ c \in Seq(T) /\ Len(c) = Len(a) + Len(b)
      /\ \A k \in 1 .. Len(a) + Len(b) : c[k] = IF k <= Len(a) THEN a[k] ELSE b[k - Len(a)]
  BY ConcatProperties, Zenon
<1>2. /\ Len(a) \in Nat /\ Len(b) \in Nat /\ DOMAIN a = 1..Len(a) /\ DOMAIN b = 1..Len(b)
      /\ DOMAIN c = 1..Len(c)
  BY <1>1, LenProperties
<1> HIDE DEF c
<1>3. \A k \in 1..Len(a) : c[k] = a[k]
  BY <1>1, <1>2
<1>4. \A k \in Len(a) + 1 .. Len(a) + Len(b) : c[k] = b[k - Len(a)] /\ k - Len(a) \in 1..Len(b)
  BY <1>1, <1>2
<1>5. DOMAIN c = 1..Len(a) \cup Len(a) + 1 .. Len(a) + Len(b)
  BY <1>1, <1>2
<1>6. \A k \in DOMAIN c : \/ \E i \in DOMAIN a : c[k] = a[i]
                          \/ \E j \in DOMAIN b : c[k] = b[j]
  BY <1>2, <1>3, <1>4, <1>5
<1>7. IsInjective(c)
  <2>1. SUFFICES ASSUME NEW k \in DOMAIN c, NEW l \in DOMAIN c, c[k] = c[l] PROVE k = l
    BY DEF IsInjective
  <2>2. CASE k \in 1..Len(a) /\ l \in 1..Len(a)
    BY <1>2, <1>3, <2>1, <2>2 DEF IsInjective
  <2>3. CASE k \in Len(a) + 1 .. Len(a) + Len(b) /\ l \in Len(a) + 1 .. Len(a) + Len(b)
    <3>1. k - Len(a) = l - Len(a)
      BY <1>2, <1>4, <2>1, <2>3 DEF IsInjective
    <3>2. QED BY <1>2, <2>3, <3>1
  <2>4. CASE k \in 1..Len(a) /\ l \in Len(a) + 1 .. Len(a) + Len(b)
    BY <1>2, <1>3, <1>4, <2>1, <2>4
  <2>5. CASE l \in 1..Len(a) /\ k \in Len(a) + 1 .. Len(a) + Len(b)
    BY <1>2, <1>3, <1>4, <2>1, <2>5
  <2>6. QED BY <1>5, <2>2, <2>3, <2>4, <2>5
<1>8. QED BY <1>1, <1>6, <1>7 DEF c

\* What the restart makes of the disk: the queue is rebuilt without duplicates.
LEMMA ReconciledFollows ==
  ASSUME NEW d \in State, IsSound(d)
  PROVE  Follows(Reqs \X {"interrupted"}, d, Reconciled(d))
<1> DEFINE status == [r \in Reqs |-> IF d.status[r] = "running" THEN "interrupted"
                                                              ELSE d.status[r]]
           head == IF d.active = None THEN <<>> ELSE <<d.active>>
           others == Reqs \ {d.active}
           rest == Kept(d.queue, others)
           new == {r \in Reqs \ {d.active} : ~Contains(rest, r)}
           late == Kept(d.tasks, new)
           queued == {r \in Reqs : status[r] = "queued"}
           all == Kept(head \o rest \o late, queued)
<1>1. /\ d.status \in [Reqs -> Status] /\ d.active \in Reqs \cup {None}
      /\ d.queue \in Seq(Reqs) /\ d.tasks \in Seq(Reqs)
      /\ IsInjective(d.queue) /\ IsInjective(d.tasks)
  BY DEF State, IsSound
<1>2. /\ head \in Seq(Reqs) /\ IsInjective(head) /\ \A i \in DOMAIN head : head[i] = d.active
  <2>1. CASE d.active = None
    <3>1. head = <<>>
      BY <2>1
    <3>2. QED BY <3>1 DEF IsInjective
  <2>2. CASE d.active # None
    <3>1. head = <<d.active>> /\ d.active \in Reqs
      BY <1>1, <2>2
    <3>2. DOMAIN head = {1} /\ head[1] = d.active /\ head \in Seq(Reqs)
      BY <3>1
    <3>3. QED BY <3>2 DEF IsInjective
  <2>3. QED BY <2>1, <2>2
<1>3. /\ rest \in Seq(Reqs) /\ IsInjective(rest)
      /\ \A i \in DOMAIN rest : rest[i] \in others
  <2> HIDE DEF others
  <2>1. /\ rest \in Seq(Reqs)
        /\ \A i \in DOMAIN rest : /\ rest[i] \in others
                                  /\ \E j \in DOMAIN d.queue : d.queue[j] = rest[i]
        /\ IsInjective(d.queue) => IsInjective(rest)
    BY <1>1, KeptProperties
  <2>2. QED BY <1>1, <2>1
<1> HIDE DEF rest, new
<1>4. /\ late \in Seq(Reqs) /\ IsInjective(late)
      /\ \A i \in DOMAIN late : late[i] \in new
  <2>1. /\ late \in Seq(Reqs)
        /\ \A i \in DOMAIN late : /\ late[i] \in new
                                  /\ \E j \in DOMAIN d.tasks : d.tasks[j] = late[i]
        /\ IsInjective(d.tasks) => IsInjective(late)
    BY <1>1, KeptProperties
  <2>2. QED BY <1>1, <2>1
<1> HIDE DEF head, late
<1>5. /\ head \o rest \in Seq(Reqs) /\ IsInjective(head \o rest)
      /\ \A k \in DOMAIN (head \o rest) :
           \/ \E i \in DOMAIN head : (head \o rest)[k] = head[i]
           \/ \E j \in DOMAIN rest : (head \o rest)[k] = rest[j]
  <2>1. \A i \in DOMAIN head, j \in DOMAIN rest : head[i] # rest[j]
    BY <1>2, <1>3
  <2>2. QED BY <1>2, <1>3, <2>1, DisjointConcat
<1> DEFINE front == head \o rest
<1>6. \A k \in DOMAIN front, j \in DOMAIN late : front[k] # late[j]
  <2>1. ASSUME NEW j \in DOMAIN late PROVE late[j] # d.active /\ \A i \in DOMAIN rest : rest[i] # late[j]
    <3>1. late[j] # d.active /\ ~Contains(rest, late[j])
      BY <1>4 DEF new
    <3>2. DOMAIN rest = 1..Len(rest)
      BY <1>3, LenProperties
    <3>3. QED BY <3>1, <3>2 DEF Contains
  <2>2. QED BY <1>2, <1>5, <2>1
<1> HIDE DEF front
<1>7. front \o late \in Seq(Reqs) /\ IsInjective(front \o late)
  BY <1>4, <1>5, <1>6, DisjointConcat DEF front
<1> DEFINE total == front \o late
<1> HIDE DEF total, queued
<1>8. /\ Kept(total, queued) \in Seq(Reqs) /\ IsInjective(Kept(total, queued))
      /\ \A i \in DOMAIN Kept(total, queued) : Kept(total, queued)[i] \in queued
  <2>1. total \in Seq(Reqs) /\ IsInjective(total)
    BY <1>7 DEF total
  <2>2. /\ Kept(total, queued) \in Seq(Reqs)
        /\ \A i \in DOMAIN Kept(total, queued) :
             /\ Kept(total, queued)[i] \in queued
             /\ \E j \in DOMAIN total : total[j] = Kept(total, queued)[i]
        /\ IsInjective(total) => IsInjective(Kept(total, queued))
    BY <2>1, KeptProperties
  <2>3. QED BY <2>1, <2>2
<1>9. all = Kept(total, queued)
  BY DEF total, front
<1> HIDE DEF all, status
<1>10. Reconciled(d) = [d EXCEPT !.status = status, !.queue = all, !.active = None]
  BY DEF Reconciled, status, all, head, rest, late, new, queued, others
<1>11. status \in [Reqs -> Status]
  BY <1>1 DEF status, Status, Terminal
<1>12. /\ Reconciled(d) \in State /\ Reconciled(d).status = status
       /\ Reconciled(d).queue = all /\ Reconciled(d).tasks = d.tasks
  BY <1>8, <1>9, <1>10, <1>11 DEF State
<1>13. \A r \in Reqs : /\ d.status[r] = "running" => status[r] = "interrupted"
                       /\ d.status[r] # "running" => status[r] = d.status[r]
  BY DEF status
<1>14. IsSound(Reconciled(d))
  <2>1. \A i \in DOMAIN d.tasks : status[d.tasks[i]] # "none"
    <3>1. \A i \in DOMAIN d.tasks : d.tasks[i] \in Reqs
      BY <1>1, ElementOfSeq, LenProperties
    <3>2. \A r \in Reqs : d.status[r] # "none" => status[r] # "none"
      BY <1>13
    <3>3. QED BY <3>1, <3>2 DEF IsSound
  <2>2. \A i \in DOMAIN all : status[all[i]] = "queued"
    BY <1>8, <1>9 DEF queued
  <2>3. QED BY <1>1, <1>8, <1>9, <1>12, <2>1, <2>2 DEF IsSound
<1>15. Later(Reqs \X {"interrupted"}, d, Reconciled(d))
  <2>1. ASSUME NEW r \in Reqs
        PROVE  /\ d.status[r] \in Terminal => status[r] = d.status[r]
               /\ d.status[r] = "none" => status[r] = "none"
               /\ d.status[r] # "none" => status[r] # "none"
               /\ Begun(d.status[r]) => Begun(status[r])
               /\ status[r] # d.status[r] => <<r, status[r]>> \in Reqs \X {"interrupted"}
    <3>1. CASE d.status[r] = "running"
      BY <1>13, <3>1 DEF Begun, Terminal
    <3>2. CASE d.status[r] # "running"
      BY <1>13, <3>2
    <3>3. QED BY <3>1, <3>2
  <2>2. QED BY <1>12, <2>1 DEF Later
<1>16. QED BY <1>12, <1>14, <1>15 DEF Follows

\* The restart writes the reconciled state and may dispatch from it.
LEMMA RestartSound ==
  ASSUME EngineInv, Restart, LaneTypeOK'
  PROVE  Sound
<1> DEFINE m == Reconciled(disk)
           N == Reqs \X {"interrupted"}
           kicked == "unstarted" \notin faults
           chain == <<m>> \o (IF kicked THEN Work(m) ELSE <<>>)
<1>1. /\ Wrote(chain, IF kicked THEN Pumping(m) ELSE Idle) /\ alive' \in BOOLEAN
      /\ UNCHANGED <<gate, asking, turn, sent, order, reply, crashes, faults>>
  BY DEF Restart
<1>2. disk \in State /\ IsSound(disk) /\ WriteThrough
  BY DEF EngineInv, TypeOK, EngineTypeOK
<1>3. Follows(N, disk, m) /\ m \in State
  BY <1>2, ReconciledFollows DEF Follows
<1>4. kicked \in BOOLEAN
  OBVIOUS
<1>9. N \in SUBSET Doing /\ \A q : <<q, "queued">> \notin N
  BY DEF Restart, Doing, Status, Terminal
<1> HIDE DEF m, kicked, N
<1>5. /\ Chained(N, disk, chain)
      /\ kicked /\ Ready(m) => Len(chain) = 3 /\ chain[3] = Started(m)
  BY <1>2, <1>3, <1>4, KickedChain
<1> HIDE DEF chain
<1>6. /\ StoreMoves(N) /\ pump' = IF kicked THEN Pumping(m) ELSE Idle
      /\ disk' = chain[Len(chain)]
  BY <1>1, <1>2, <1>5, WroteEffect
<1>7. PumpMoves
  <2>1. CASE kicked
    <3>1. pump' = Pumping(m) /\ (Ready(m) => disk' = Started(m))
      BY <1>5, <1>6, <2>1
    <3>2. QED BY <1>2, <1>3, <3>1, PumpingMoves
  <2>2. CASE ~kicked
    BY <1>6, <2>2 DEF PumpMoves
  <2>3. QED BY <2>1, <2>2
<1>8. QED BY <1>1, <1>6, <1>7, <1>9, StoreOnlyStep
-----------------------------------------------------------------------------
(* The steps of the lane *)

SlotType == [by: {"free", "torn", "codex", "z2c"}, task: Reqs \cup {None},
             bound: BOOLEAN, marked: BOOLEAN, old: BOOLEAN]
RecoType == [at: {"idle", "get", "task", "key", "keyed", "lane", "probe", "proved"},
             task: Reqs \cup {None}, seen: Status]
(* The slot and the reconciliation name a request whenever they are about one. *)
Named == /\ slot.by = "z2c" => slot.task \in Reqs
         /\ reco.at # "idle" => reco.task \in Reqs
LaneInv == EngineInv /\ Named
CallType == [Reqs -> {"idle", "project", "sent", "ok", "failed"}]

\* The values that the lane writes into the slot and the reconciliation.
LEMMA LaneValues ==
  ASSUME LaneTypeOK
  PROVE  /\ Free \in SlotType /\ Torn \in SlotType /\ Bound \in SlotType /\ Cleared \in SlotType
         /\ [Free EXCEPT !.by = "codex"] \in SlotType
         /\ [slot EXCEPT !.marked = TRUE] \in SlotType
         /\ \A r \in Reqs : Reservation(r) \in SlotType /\ ReleasedBy(r) \in SlotType
         /\ ReleasedBy(reco.task) \in SlotType
         /\ \A b \in BOOLEAN : [slot EXCEPT !.old = b] \in SlotType
         /\ NoReco \in RecoType
<1>1. slot \in SlotType
  BY DEF LaneTypeOK, SlotType
<1>2. Free \in SlotType
  BY DEF Free, SlotType
<1>3. Torn \in SlotType
  BY <1>2 DEF Torn, SlotType
<1>4. Bound \in SlotType /\ [slot EXCEPT !.marked = TRUE] \in SlotType
      /\ \A b \in BOOLEAN : [slot EXCEPT !.old = b] \in SlotType
  BY <1>1 DEF Bound, SlotType
<1>5. [Free EXCEPT !.by = "codex"] \in SlotType /\ \A r \in Reqs : Reservation(r) \in SlotType
  BY <1>2 DEF Reservation, SlotType
<1>6. Cleared \in SlotType /\ \A r : ReleasedBy(r) \in SlotType
  BY <1>1, <1>2 DEF Cleared, ReleasedBy
<1>7. NoReco \in RecoType
  BY DEF NoReco, RecoType, Status
<1>8. QED BY <1>2, <1>3, <1>4, <1>5, <1>6, <1>7

\* What a request does to the lane keeps its types.
LEMMA RequestTypes ==
  ASSUME EngineInv, NEW r \in Reqs,
         \/ Reserve(r) \/ FailsBeforeDispatch(r) \/ Dispatch(r) \/ Arrive(r) \/ Lost(r)
         \/ Answered(r) \/ AnswerLost(r) \/ Observe(r) \/ TornReserve(r)
  PROVE  LaneTypeOK'
<1>1. LaneTypeOK /\ slot \in SlotType /\ call \in CallType /\ tries \in [Reqs -> 0..MaxTries]
      /\ reco \in RecoType
  BY DEF EngineInv, TypeOK, LaneTypeOK, SlotType, CallType, RecoType
<1>2. \A c \in {"idle", "project", "sent", "ok", "failed"} : [call EXCEPT ![r] = c] \in CallType
  BY <1>1 DEF CallType
<1>3. CASE Reserve(r)
  <2>1. tries' \in [Reqs -> 0..MaxTries]
    BY <1>1, <1>3, MaxTriesIsPositive DEF Reserve
  <2>2. slot' \in SlotType /\ call' \in CallType
    BY <1>1, <1>2, <1>3, LaneValues DEF Reserve
  <2>3. QED BY <1>1, <1>3, <2>1, <2>2 DEF Reserve, LaneTypeOK, SlotType, CallType
<1>4. CASE FailsBeforeDispatch(r)
  <2>1. slot' \in SlotType /\ call' \in CallType
    BY <1>1, <1>2, <1>4, LaneValues DEF FailsBeforeDispatch
  <2>2. QED BY <1>1, <1>4, <2>1 DEF FailsBeforeDispatch, LaneTypeOK, SlotType, CallType
<1>5. CASE Dispatch(r)
  <2>1. slot' \in SlotType /\ call' \in CallType
    BY <1>1, <1>2, <1>5, LaneValues DEF Dispatch
  <2>2. flying' \in SUBSET Reqs
    BY <1>1, <1>5 DEF Dispatch, LaneTypeOK
  <2>3. QED BY <1>1, <1>5, <2>1, <2>2 DEF Dispatch, LaneTypeOK, SlotType, CallType
<1>6. CASE Arrive(r) \/ Lost(r)
  <2>1. UNCHANGED <<slot, call, tries, reco, codex, up>> /\ flying' = flying \ {r}
    BY <1>6 DEF Arrive, Lost
  <2>2. QED BY <1>1, <2>1 DEF LaneTypeOK
<1>7. CASE Answered(r)
  <2>1. slot' \in SlotType
    BY <1>1, <1>7, LaneValues DEF Answered
  <2>2. call' \in CallType
    BY <1>2, <1>7 DEF Answered
  <2>3. QED BY <1>1, <1>7, <2>1, <2>2 DEF Answered, LaneTypeOK, SlotType, CallType
<1>8. CASE AnswerLost(r)
  <2>1. call' \in CallType
    BY <1>2, <1>8 DEF AnswerLost
  <2>2. QED BY <1>1, <1>8, <2>1 DEF AnswerLost, LaneTypeOK, CallType
<1>9. CASE Observe(r)
  <2>1. slot' \in SlotType
    BY <1>1, <1>9, LaneValues DEF Observe
  <2>2. QED BY <1>1, <1>9, <2>1 DEF Observe, LaneTypeOK, SlotType
<1>10. CASE TornReserve(r)
  <2>1. slot' \in SlotType /\ reco' \in RecoType
    BY <1>1, <1>10, LaneValues DEF TornReserve, BridgeDown
  <2>2. call' \in CallType
    BY <1>1, <1>10 DEF TornReserve, BridgeDown, CallType
  <2>3. up' = FALSE /\ codex' = "no" /\ UNCHANGED <<tries, flying>>
    BY <1>10 DEF TornReserve, BridgeDown
  <2>4. QED BY <1>1, <2>1, <2>2, <2>3 DEF LaneTypeOK, SlotType, CallType, RecoType
<1>11. QED BY <1>3, <1>4, <1>5, <1>6, <1>7, <1>8, <1>9, <1>10

\* What the reconciliation does keeps the types.
LEMMA RecoTypes ==
  ASSUME LaneInv,
         \/ RecoStart \/ RecoAsk \/ RecoTask \/ RecoKeyed \/ RecoProof \/ RecoRelease \/ RecoGivesUp
  PROVE  LaneTypeOK'
<1>1. LaneTypeOK /\ slot \in SlotType /\ reco \in RecoType
  BY DEF LaneInv, EngineInv, TypeOK, LaneTypeOK, SlotType, RecoType
<1>2. UNCHANGED <<call, tries, flying, codex, up>>
  BY DEF RecoStart, RecoAsk, RecoTask, RecoKeyed, RecoProof, RecoRelease, RecoGivesUp
<1>3. \A a \in {"idle", "get", "task", "key", "keyed", "lane", "probe", "proved"} :
        [reco EXCEPT !.at = a] \in RecoType
  BY <1>1 DEF RecoType
<1>4. slot' \in SlotType
  <2>1. slot' \in {slot, Free, Bound, ReleasedBy(reco.task)}
    BY DEF RecoStart, RecoAsk, RecoTask, RecoKeyed, RecoProof, RecoRelease, RecoGivesUp
  <2>2. QED BY <1>1, <2>1, LaneValues
<1>5. reco' \in RecoType
  <2>1. CASE RecoStart
    <3>1. "none" \in Status /\ slot.task \in Reqs \cup {None}
      BY <1>1 DEF Status, SlotType
    <3>2. QED BY <2>1, <3>1 DEF RecoStart, RecoType
  <2>2. CASE RecoAsk
    <3>1. mem.status[reco.task] \in Status
      <4>1. mem \in State /\ reco.task \in Reqs
        BY <2>2 DEF LaneInv, Named, EngineInv, TypeOK, EngineTypeOK, RecoAsk
      <4>2. QED BY <4>1 DEF State
    <3>2. QED BY <1>1, <2>2, <3>1 DEF RecoAsk, RecoType
  <2>3. CASE RecoTask \/ RecoKeyed \/ RecoProof
    BY <1>1, <1>3, <2>3, LaneValues DEF RecoTask, RecoKeyed, RecoProof
  <2>4. CASE RecoRelease \/ RecoGivesUp
    BY <1>1, <2>4, LaneValues DEF RecoRelease, RecoGivesUp
  <2>5. QED BY <2>1, <2>2, <2>3, <2>4
<1>6. QED BY <1>1, <1>2, <1>4, <1>5 DEF LaneTypeOK, SlotType, RecoType

\* What the codex lane, a crash and a start of the bridge do keeps the types.
LEMMA BridgeTypes ==
  ASSUME EngineInv,
         \/ CodexTakes \/ CodexRuns \/ CodexEnds \/ CodexReleases
         \/ BridgeCrash \/ Reboot \/ BridgeStart
  PROVE  LaneTypeOK'
<1>1. LaneTypeOK /\ slot \in SlotType /\ call \in CallType /\ reco \in RecoType
  BY DEF EngineInv, TypeOK, LaneTypeOK, SlotType, CallType, RecoType
<1>2. CASE CodexTakes \/ CodexRuns \/ CodexEnds \/ CodexReleases
  <2>1. slot' \in SlotType
    BY <1>1, <1>2, LaneValues DEF CodexTakes, CodexRuns, CodexEnds, CodexReleases
  <2>2. codex' \in {"no", "held", "turn", "over"} /\ UNCHANGED <<call, tries, flying, reco, up>>
    BY <1>2 DEF CodexTakes, CodexRuns, CodexEnds, CodexReleases
  <2>3. QED BY <1>1, <2>1, <2>2 DEF LaneTypeOK, SlotType
<1>3. CASE BridgeCrash \/ Reboot
  <2>1. slot' \in SlotType
    BY <1>1, <1>3, LaneValues DEF BridgeCrash, Reboot
  <2>2. call' \in CallType /\ reco' \in RecoType
    BY <1>1, <1>3, LaneValues DEF BridgeCrash, Reboot, BridgeDown, CallType
  <2>3. codex' = "no" /\ up' = FALSE /\ tries' = tries /\ flying' \in {flying, {}}
    BY <1>3 DEF BridgeCrash, Reboot, BridgeDown
  <2>4. QED BY <1>1, <2>1, <2>2, <2>3 DEF LaneTypeOK, SlotType, CallType, RecoType
<1>4. CASE BridgeStart
  <2>1. slot' \in SlotType
    BY <1>1, <1>4, LaneValues DEF BridgeStart
  <2>2. QED BY <1>1, <1>4, <2>1 DEF BridgeStart, LaneTypeOK, SlotType
<1>5. QED BY <1>2, <1>3, <1>4

\* A slot that is written is free, torn, the codex lane's, or a request's.
LEMMA NamedSlot ==
  ASSUME LaneInv,
         \/ slot' \in {slot, Free, Torn, [Free EXCEPT !.by = "codex"],
                       [slot EXCEPT !.bound = TRUE], [slot EXCEPT !.marked = TRUE]}
         \/ \E r \in Reqs : slot' = Reservation(r)
         \/ \E b \in BOOLEAN : slot' = [slot EXCEPT !.old = b]
  PROVE  slot'.by = "z2c" => slot'.task \in Reqs
<1>1. slot \in SlotType /\ (slot.by = "z2c" => slot.task \in Reqs)
  BY DEF LaneInv, Named, EngineInv, TypeOK, LaneTypeOK, SlotType
<1>2. Free.by = "free" /\ Torn.by = "torn" /\ [Free EXCEPT !.by = "codex"].by = "codex"
  BY DEF Free, Torn
<1>3. \A r \in Reqs : Reservation(r).task = r
  BY DEF Reservation, Free
<1>4. \A b \in BOOLEAN : /\ [slot EXCEPT !.bound = b].by = slot.by /\ [slot EXCEPT !.bound = b].task = slot.task
                        /\ [slot EXCEPT !.marked = b].by = slot.by /\ [slot EXCEPT !.marked = b].task = slot.task
                        /\ [slot EXCEPT !.old = b].by = slot.by /\ [slot EXCEPT !.old = b].task = slot.task
  BY <1>1 DEF SlotType
<1>5. QED BY <1>1, <1>2, <1>3, <1>4

\* A reconciliation starts for the request that the slot names, and keeps it.
LEMMA NamedStep ==
  ASSUME LaneInv, LaneStep
  PROVE  Named'
<1>1. slot \in SlotType /\ reco \in RecoType /\ Named
  BY DEF LaneInv, EngineInv, TypeOK, LaneTypeOK, SlotType, RecoType
<1>2. slot'.by = "z2c" => slot'.task \in Reqs
  <2>1. CASE RecoStart \/ RecoAsk \/ RecoTask \/ RecoKeyed \/ RecoProof \/ RecoRelease \/ RecoGivesUp
    <3>1. slot' \in {slot, Free, [slot EXCEPT !.bound = TRUE]}
      BY <2>1 DEF RecoStart, RecoAsk, RecoTask, RecoKeyed, RecoProof, RecoRelease, RecoGivesUp,
                  ReleasedBy, Bound
    <3>2. QED BY <3>1, NamedSlot
  <2>2. CASE CodexTakes \/ CodexRuns \/ CodexEnds \/ CodexReleases \/ BridgeCrash \/ BridgeStart
    <3>1. slot' \in {slot, Free, [Free EXCEPT !.by = "codex"]}
      BY <2>2 DEF CodexTakes, CodexRuns, CodexEnds, CodexReleases, BridgeCrash, BridgeStart, Cleared
    <3>2. QED BY <3>1, NamedSlot
  <2>3. CASE Reboot
    <3>1. slot' = slot \/ \E b \in BOOLEAN : slot' = [slot EXCEPT !.old = b]
      BY <2>3 DEF Reboot
    <3>2. QED BY <3>1, NamedSlot
  <2>4. ASSUME NEW r \in Reqs,
               \/ FailsBeforeDispatch(r) \/ Dispatch(r) \/ Arrive(r) \/ Lost(r)
               \/ Answered(r) \/ AnswerLost(r) \/ Observe(r) \/ TornReserve(r)
        PROVE  slot'.by = "z2c" => slot'.task \in Reqs
    <3>1. slot' \in {slot, Free, Torn, [slot EXCEPT !.bound = TRUE], [slot EXCEPT !.marked = TRUE]}
      BY <2>4 DEF FailsBeforeDispatch, Dispatch, Arrive, Lost, Answered, AnswerLost, Observe,
                  TornReserve, ReleasedBy, Bound
    <3>2. QED BY <3>1, NamedSlot
  <2>5. ASSUME NEW r \in Reqs, Reserve(r) PROVE slot'.by = "z2c" => slot'.task \in Reqs
    <3>1. slot' = Reservation(r)
      BY <2>5 DEF Reserve
    <3>2. QED BY <3>1, NamedSlot
  <2>6. QED BY <2>1, <2>2, <2>3, <2>4, <2>5 DEF LaneStep
<1>3. reco'.at # "idle" => reco'.task \in Reqs
  <2>1. CASE RecoStart
    BY <1>1, <2>1 DEF RecoStart, Named
  <2>2. CASE RecoAsk \/ RecoTask \/ RecoKeyed \/ RecoProof
    <3>1. reco.at # "idle"
      BY <2>2 DEF RecoAsk, RecoTask, RecoKeyed, RecoProof
    <3>2. \/ reco' = NoReco
          \/ \E a : reco' = [reco EXCEPT !.at = a]
          \/ \E a, b : reco' = [reco EXCEPT !.at = a, !.seen = b]
      BY <2>2, Zenon DEF RecoAsk, RecoTask, RecoKeyed, RecoProof
    <3>3. reco' = NoReco \/ reco'.task = reco.task
      BY <1>1, <3>2 DEF RecoType
    <3>4. QED BY <1>1, <3>1, <3>3 DEF Named, NoReco
  <2>3. CASE reco' = NoReco
    BY <2>3 DEF NoReco
  <2>4. CASE reco' = reco
    BY <1>1, <2>4 DEF Named
  <2>5. CASE RecoRelease \/ RecoGivesUp \/ BridgeCrash \/ Reboot \/ \E r \in Reqs : TornReserve(r)
    <3>1. reco' = NoReco
      BY <2>5 DEF RecoRelease, RecoGivesUp, BridgeCrash, Reboot, TornReserve, BridgeDown
    <3>2. QED BY <2>3, <3>1
  <2>6. CASE CodexTakes \/ CodexRuns \/ CodexEnds \/ CodexReleases \/ BridgeStart
    <3>1. reco' = reco
      BY <2>6 DEF CodexTakes, CodexRuns, CodexEnds, CodexReleases, BridgeStart
    <3>2. QED BY <2>4, <3>1
  <2>7. ASSUME NEW r \in Reqs,
               \/ Reserve(r) \/ FailsBeforeDispatch(r) \/ Dispatch(r) \/ Arrive(r) \/ Lost(r)
               \/ Answered(r) \/ AnswerLost(r) \/ Observe(r)
        PROVE  reco'.at # "idle" => reco'.task \in Reqs
    <3>1. reco' = reco
      BY <2>7 DEF Reserve, FailsBeforeDispatch, Dispatch, Arrive, Lost, Answered, AnswerLost, Observe
    <3>2. QED BY <2>4, <3>1
  <2>8. QED BY <2>1, <2>2, <2>5, <2>6, <2>7 DEF LaneStep
<1>4. QED BY <1>2, <1>3 DEF Named

\* A step that leaves the engine alone.
LEMMA EngineRests ==
  ASSUME EngineInv, UNCHANGED engineVars, LaneTypeOK'
  PROVE  Sound
<1>1. /\ UNCHANGED <<disk, mem, healthy, alive, gate, asking, pump, turn, sent, order, reply,
                    crashes, faults>>
  BY DEF engineVars
<1>2. EngineTypeOK'
  BY <1>1 DEF EngineInv, TypeOK, EngineTypeOK
<1>3. /\ WriteThrough' /\ IsSound(disk)' /\ PumpSound' /\ SentIsBegun' /\ AskingIsNew'
      /\ SentAtMostOnce' /\ AnswerIsDurable'
  BY <1>1 DEF EngineInv, WriteThrough, IsSound, PumpSound, SentIsBegun, AskingIsNew,
              SentAtMostOnce, AnswerIsDurable
<1>4. QED BY <1>1, <1>2, <1>3 DEF EngineInv, TypeOK, Sound, Later

\* The bridge goes down, and with a reboot the engine too.
LEMMA BridgeDownSound ==
  ASSUME EngineInv, BridgeCrash \/ Reboot \/ \E r \in Reqs : TornReserve(r), LaneTypeOK'
  PROVE  Sound
<1>1. crashes < MaxCrashes /\ crashes' = crashes + 1 /\ crashes \in 0..MaxCrashes
      /\ MaxCrashes \in Nat
  BY EngineConstants DEF BridgeCrash, Reboot, TornReserve, BridgeDown, EngineInv, TypeOK, EngineTypeOK
<1>2. crashes' \in 0..MaxCrashes
  BY <1>1
<1>3. CASE BridgeCrash \/ \E r \in Reqs : TornReserve(r)
  <2>1. UNCHANGED <<disk, mem, healthy, alive, gate, asking, pump, turn, sent, order, reply, faults>>
    BY <1>3 DEF BridgeCrash, TornReserve
  <2>2. EngineTypeOK'
    BY <1>2, <2>1 DEF EngineInv, TypeOK, EngineTypeOK
  <2>3. /\ WriteThrough' /\ IsSound(disk)' /\ PumpSound' /\ SentIsBegun' /\ AskingIsNew'
        /\ SentAtMostOnce' /\ AnswerIsDurable'
    BY <2>1 DEF EngineInv, WriteThrough, IsSound, PumpSound, SentIsBegun, AskingIsNew,
                SentAtMostOnce, AnswerIsDurable
  <2>4. QED BY <2>1, <2>2, <2>3 DEF EngineInv, TypeOK, Sound, Later
<1>4. CASE Reboot
  <2>1. /\ UNCHANGED <<disk, sent, order, reply, faults>> /\ alive' = FALSE /\ healthy' = TRUE
        /\ mem' = disk' /\ gate' = <<>> /\ asking' = FALSE /\ pump' = Idle
        /\ turn' = [r \in Reqs |-> FALSE]
    BY <1>4 DEF Reboot
  <2>2. Idle \in [at: {"idle", "evidence", "turn", "output"},
                 task: Reqs \cup {None}, result: Results \cup {"none"}]
    BY DEF Idle
  <2>3. EngineTypeOK'
    <3>1. /\ disk \in State /\ sent \in [Reqs -> Nat] /\ order \in Seq(Reqs)
          /\ reply \in [Reqs -> Status \cup {"error"}] /\ faults \in SUBSET Faults
      BY DEF EngineInv, TypeOK, EngineTypeOK
    <3>2. turn' \in [Reqs -> BOOLEAN] /\ gate' \in Seq(Reqs)
      BY <2>1
    <3>3. QED BY <1>2, <2>1, <2>2, <3>1, <3>2 DEF EngineTypeOK
  <2>4. /\ WriteThrough' /\ IsSound(disk)' /\ SentIsBegun' /\ AskingIsNew'
        /\ SentAtMostOnce' /\ AnswerIsDurable'
    BY <2>1 DEF EngineInv, WriteThrough, IsSound, SentIsBegun, AskingIsNew,
                SentAtMostOnce, AnswerIsDurable
  <2>5. PumpSound'
    BY <2>1 DEF PumpSound, Idle
  <2>6. QED BY <2>1, <2>3, <2>4, <2>5 DEF EngineInv, TypeOK, Sound, Later, Idle
<1>5. QED BY <1>3, <1>4
-----------------------------------------------------------------------------
(* The whole system *)

\* Init establishes the invariant.
LEMMA InitInv ==
  Init => LaneInv
<1>1. SUFFICES ASSUME Init PROVE LaneInv
  OBVIOUS
<1>2. EmptyState \in State /\ IsSound(EmptyState)
  BY DEF EmptyState, State, Status, IsSound, IsInjective
<1>3. EngineTypeOK
  <2>1. Idle \in [at: {"idle", "evidence", "turn", "output"},
                 task: Reqs \cup {None}, result: Results \cup {"none"}]
    BY DEF Idle
  <2>2. faults \in SUBSET Faults /\ crashes \in 0..MaxCrashes
    BY <1>1, EngineConstants DEF Init, EngineInit
  <2>3. /\ disk = EmptyState /\ mem = EmptyState /\ healthy = TRUE /\ alive = TRUE
        /\ gate = <<>> /\ asking = FALSE /\ pump = Idle /\ order = <<>>
    BY <1>1 DEF Init, EngineInit
  <2>4. /\ turn \in [Reqs -> BOOLEAN] /\ sent \in [Reqs -> Nat]
        /\ reply \in [Reqs -> Status \cup {"error"}]
    BY <1>1 DEF Init, EngineInit, Status
  <2>5. disk \in State /\ mem \in State
    BY <1>2, <2>3, Zenon
  <2>6. /\ pump \in [at: {"idle", "evidence", "turn", "output"},
                   task: Reqs \cup {None}, result: Results \cup {"none"}]
        /\ healthy \in BOOLEAN /\ alive \in BOOLEAN /\ asking \in BOOLEAN
    BY <2>1, <2>3, Zenon
  <2>7. gate \in Seq(Reqs) /\ order \in Seq(Reqs)
    BY <2>3
  <2>8. QED BY <2>2, <2>4, <2>5, <2>6, <2>7, Zenon DEF EngineTypeOK
<1>4. LaneTypeOK
  BY <1>1, MaxTriesIsPositive DEF Init, LaneInit, LaneTypeOK, Free, NoReco, Status
<1>5. Named
  BY <1>1 DEF Init, LaneInit, Named, Free, NoReco
<1>6. /\ WriteThrough /\ IsSound(disk) /\ PumpSound /\ SentIsBegun /\ AskingIsNew
      /\ SentAtMostOnce /\ AnswerIsDurable
  BY <1>1, <1>2 DEF Init, EngineInit, WriteThrough, PumpSound, SentIsBegun, AskingIsNew,
                    SentAtMostOnce, AnswerIsDurable, Idle
<1>7. QED BY <1>3, <1>4, <1>5, <1>6 DEF LaneInv, EngineInv, TypeOK

\* Every step keeps the invariant and the order of the states on disk.
LEMMA NextInv ==
  LaneInv /\ [Next]_vars => LaneInv' /\ Sound
<1>1. SUFFICES ASSUME LaneInv, [Next]_vars PROVE LaneInv' /\ Sound
  OBVIOUS
<1>2. EngineInv
  BY <1>1 DEF LaneInv
<1>3. CASE EngineStep /\ UNCHANGED laneVars
  <2>1. LaneTypeOK'
    BY <1>2, <1>3, LaneTypesRest DEF LaneRests
  <2>2. Named'
    BY <1>1, <1>3 DEF LaneInv, Named, laneVars
  <2>3. Sound
    BY <1>2, <1>3, <2>1, ReplaySound, RefuseSound, AskSound, AdmitSound, SendSound, NotSentSound,
       FinishSound, TurnEndsSound, CancelTaskSound, SetPausedSound, CrashSound, RestartSound
       DEF EngineStep
  <2>4. QED BY <2>2, <2>3 DEF LaneInv, Sound
<1>4. CASE LaneStep
  <2>1. LaneTypeOK'
    BY <1>1, <1>2, <1>4, RequestTypes, RecoTypes, BridgeTypes DEF LaneStep
  <2>2. Named'
    BY <1>1, <1>4, NamedStep
  <2>3. Sound
    <3>1. CASE UNCHANGED engineVars
      BY <1>2, <2>1, <3>1, EngineRests
    <3>2. CASE BridgeCrash \/ Reboot \/ \E r \in Reqs : TornReserve(r)
      BY <1>2, <2>1, <3>2, BridgeDownSound
    <3>3. ASSUME NEW r \in Reqs, Arrive(r) PROVE Sound
      BY <1>2, <2>1, <3>3, SubmitSound DEF Arrive
    <3>4. ASSUME NEW r \in Reqs,
                 \/ Reserve(r) \/ FailsBeforeDispatch(r) \/ Dispatch(r) \/ Lost(r)
                 \/ Answered(r) \/ AnswerLost(r) \/ Observe(r)
          PROVE  UNCHANGED engineVars
      BY <3>4 DEF Reserve, FailsBeforeDispatch, Dispatch, Lost, Answered, AnswerLost, Observe
    <3>5. ASSUME \/ RecoStart \/ RecoAsk \/ RecoTask \/ RecoKeyed \/ RecoProof \/ RecoRelease
                 \/ RecoGivesUp \/ CodexTakes \/ CodexRuns \/ CodexEnds \/ CodexReleases \/ BridgeStart
          PROVE  UNCHANGED engineVars
      BY <3>5 DEF RecoStart, RecoAsk, RecoTask, RecoKeyed, RecoProof, RecoRelease, RecoGivesUp,
                  CodexTakes, CodexRuns, CodexEnds, CodexReleases, BridgeStart
    <3>6. QED BY <1>4, <3>1, <3>2, <3>3, <3>4, <3>5 DEF LaneStep
  <2>4. QED BY <2>2, <2>3 DEF LaneInv, Sound
<1>5. CASE UNCHANGED vars
  <2>1. UNCHANGED engineVars /\ UNCHANGED laneVars
    BY <1>5 DEF vars
  <2>2. LaneTypeOK' /\ Named'
    BY <1>1, <1>2, <2>1, LaneTypesRest DEF LaneRests, LaneInv, Named, laneVars
  <2>3. Sound
    BY <1>2, <2>1, <2>2, EngineRests
  <2>4. QED BY <2>2, <2>3 DEF LaneInv, Sound
<1>6. QED BY <1>1, <1>3, <1>4, <1>5 DEF Next

\* The values of every variable, engine and lane, are of their types.
THEOREM LaneTypes == Spec => []TypeOK
<1>1. LaneInv => TypeOK
  BY DEF LaneInv, EngineInv
<1>2. QED BY <1>1, InitInv, NextInv, PTL DEF Spec

\* An instruction leaves at most once, whatever write fails, wherever the
\* service dies and however often its request is sent again: the running mark
\* of a task is on disk before its send, and nothing marked is dispatched.
THEOREM SentOnce == Spec => []SentAtMostOnce
<1>1. LaneInv => SentAtMostOnce
  BY DEF LaneInv, EngineInv
<1>2. QED BY <1>1, InitInv, NextInv, PTL DEF Spec

\* A task whose admission was answered is on disk, and stays there.
THEOREM AnswersStay == Spec => []AnswerIsDurable
<1>1. LaneInv => AnswerIsDurable
  BY DEF LaneInv, EngineInv
<1>2. QED BY <1>1, InitInv, NextInv, PTL DEF Spec

\* No step of the engine, of a late turn, of a cancellation or of a restart
\* replaces a terminal status on disk.
THEOREM TerminalStays == Spec => TerminalIsTruth
<1>1. LaneInv /\ [Next]_vars
        => [\A r \in Reqs : disk.status[r] \in Terminal => disk'.status[r] = disk.status[r]]_engineVars
  BY NextInv DEF Sound, Later
<1>2. QED BY <1>1, InitInv, NextInv, PTL DEF Spec, TerminalIsTruth
-----------------------------------------------------------------------------
(* The native lane keeps the lease of WriterLease: every step of NativeLane is *)
(* a step of the lease or leaves it alone, for every number of requests and    *)
(* every set of faults.                                                        *)

Waits(r) == \E i \in DOMAIN gate : gate[i] = r
(* The engine's word about a task can be relied on.                           *)
Trusted == \A f \in faults : Vouched(f)
Works(r) == /\ turn[r] /\ mem.status[r] \notin {"cancelled", "interrupted"}
            /\ Trusted
(* A request that the engine may still run, or runs.                          *)
Busy(r) == \/ mem.status[r] = "none" /\ (r \in flying \/ Waits(r))
           \/ mem.status[r] \in {"queued", "running"}
           \/ Works(r)

(* The slot is what its owners believe it is.                                 *)
SlotSound ==
  /\ up => ~slot.old
  /\ slot.old => "reboot" \in faults /\ crashes > 0
  /\ codex # "no" => up /\ slot.by = "codex"
  /\ up /\ slot.by = "codex" => codex # "no"
  /\ \A r \in Reqs : call[r] = "project" /\ HeldBy(r) => ~slot.marked
(* What the engine does when it fails or dies, and which turns can run.       *)
EngineSound ==
  /\ ~healthy => "save" \in faults
  /\ ~alive => pump.at = "idle" /\ gate = <<>>
  /\ \A r \in Reqs : turn[r] => sent[r] > 0
  /\ pump.at = "output" /\ pump.result # "timeout" => ~turn[pump.task]
(* What the statuses of trusted memory prove.                                 *)
StatusTruth ==
  Trusted =>
    /\ \A r \in Reqs : mem.status[r] \in {"completed", "failed"} => ~turn[r]
    /\ \A r \in Reqs : reply[r] \in Terminal => mem.status[r] = reply[r]
    /\ pump.at = "evidence" => mem.status[pump.task] \in {"running", "cancelled"}
BusyHeld == Trusted => \A r \in Reqs : Busy(r) => HeldBy(r) /\ slot.marked
BoundKnown == Trusted /\ slot.by = "z2c" /\ slot.bound => mem.status[slot.task] # "none"
(* What a reconciliation in flight has seen still holds.                      *)
RecoSound ==
  Trusted /\ reco.at # "idle" =>
    LET r == reco.task IN
    /\ mem.status[r] = "none" => HeldBy(r) /\ ~Pending(r) /\ r \notin flying /\ ~Waits(r)
    /\ reco.at = "get" => mem.status[r] # "none"
    /\ reco.at \in {"task", "keyed"} => (reco.seen = "none" <=> mem.status[r] = "none")
    /\ reco.at \in {"task", "keyed"} /\ reco.seen \in Terminal => mem.status[r] = reco.seen
    /\ reco.at = "probe" => mem.status[r] = "timeout"
    /\ reco.at \in {"lane", "proved"} => ~Busy(r)
LeaseInv == /\ LaneInv /\ SlotSound /\ EngineSound /\ StatusTruth
            /\ BusyHeld /\ BoundKnown /\ RecoSound
-----------------------------------------------------------------------------
(* Trust *)

NothingLost == /\ "unread" \notin faults
               /\ "save" \in faults => healthy /\ crashes = 0
               /\ "reboot" \in faults => crashes = 0
\* What trust means, fault by fault.
LEMMA TrustMeans == Trusted <=> NothingLost
<1>1. \A f : f \notin {"unread", "save", "reboot"} => Vouched(f)
  BY DEF Vouched
<1>2. ~Vouched("unread")
  BY DEF Vouched
<1>3. Vouched("save") <=> healthy /\ crashes = 0
  BY DEF Vouched
<1>4. Vouched("reboot") <=> crashes = 0
  BY DEF Vouched
<1>5. QED BY <1>1, <1>2, <1>3, <1>4, Zenon DEF Trusted, NothingLost

(* What a step of any kind does to trust: it is never regained.               *)
TrustStep == /\ faults' = faults /\ crashes \in Nat /\ crashes' \in Nat /\ crashes <= crashes'
             /\ healthy' => healthy \/ crashes' > 0

\* Trusted memory is the disk, before and after the step.
LEMMA TrustedMemory ==
  ASSUME LeaseInv, EngineInv', EngineSound', TrustStep, Trusted'
  PROVE  Trusted /\ healthy /\ healthy' /\ mem = disk /\ mem' = disk'
<1>1. NothingLost'
  BY TrustMeans, PTL
<1>2. healthy'
  BY <1>1 DEF EngineSound, NothingLost
<1>3. NothingLost
  BY <1>1 DEF TrustStep, NothingLost
<1>6. Trusted
  BY <1>3, TrustMeans
<1>4. healthy
  BY <1>3 DEF NothingLost, LeaseInv, EngineSound
<1>5. QED BY <1>2, <1>4, <1>6 DEF LeaseInv, LaneInv, EngineInv, WriteThrough
-----------------------------------------------------------------------------
(* What a step of the engine does beside the store *)

(* The engine writes and lives on; a submission may leave the gate.           *)
Writes ==
  /\ alive' /\ UNCHANGED <<turn, sent, faults, crashes>>
  /\ healthy' => healthy
  /\ healthy => healthy' \/ "save" \in faults
  /\ pump' = pump \/ pump'.at \in {"idle", "evidence"}
  /\ \/ UNCHANGED <<gate, reply>>
     \/ /\ gate # <<>> /\ gate' = Tail(gate)
        /\ \E answer \in {"error", mem'.status[Head(gate)]} :
             reply' = [reply EXCEPT ![Head(gate)] = answer]
(* It dies; what waits in the gate and the dispatcher die with it.            *)
Dies ==
  /\ ~alive' /\ UNCHANGED <<sent, faults, reply>> /\ crashes' = crashes + 1
  /\ healthy' /\ pump' = Idle /\ gate' = <<>>
  /\ \A r \in Reqs : turn'[r] => turn[r]

\* A crash is a crash, wherever it strikes.
LEMMA DownDies == Down => Dies
  BY DEF Down, Dies

\* The dispatcher's loop goes on with a task or rests.
LEMMA PumpingGoes == \A m : Pumping(m).at \in {"idle", "evidence"}
  BY DEF Pumping, Idle

\* A write of a whole chain, a failed write and a failed loop let the engine live.
LEMMA WriteKinds ==
  ASSUME healthy \in BOOLEAN,
         \/ \E chain, then : Wrote(chain, then)
                             /\ (then = pump \/ then.at \in {"idle", "evidence"})
         \/ \E chain, k, left, then : FailedWrite(chain, k, left, then)
                                      /\ (then = pump \/ then.at \in {"idle", "evidence"})
         \/ \E m, chain, done : LoopFails(m, chain, done)
  PROVE  /\ healthy' => healthy
         /\ healthy => healthy' \/ "save" \in faults
         /\ pump' = pump \/ pump'.at \in {"idle", "evidence"}
<1>1. ASSUME NEW chain, NEW k, NEW left, NEW then, FailedWrite(chain, k, left, then),
             then = pump \/ then.at \in {"idle", "evidence"}
      PROVE  /\ ~healthy' /\ "save" \in faults
             /\ pump' = pump \/ pump'.at \in {"idle", "evidence"}
  BY <1>1 DEF FailedWrite
<1>2. CASE \E m, chain, done : LoopFails(m, chain, done)
  <2>1. Idle.at = "idle"
    BY DEF Idle
  <2>2. \E chain, k, left : FailedWrite(chain, k, left, Idle)
    BY <1>2, Zenon DEF LoopFails
  <2>3. QED BY <1>1, <2>1, <2>2
<1>3. ASSUME NEW chain, NEW then, Wrote(chain, then),
             then = pump \/ then.at \in {"idle", "evidence"}
      PROVE  healthy' = healthy /\ (pump' = pump \/ pump'.at \in {"idle", "evidence"})
  BY <1>3 DEF Wrote
<1>4. QED BY <1>1, <1>2, <1>3

\* Every step that writes the store does one or the other.
LEMMA WritesOrDies ==
  ASSUME EngineInv,
         \/ Admit \/ Finish \/ (\E r \in Reqs : CancelTask(r)) \/ (\E p \in BOOLEAN : SetPaused(p))
         \/ Crash \/ Restart
  PROVE  Writes \/ Dies
<1>0. healthy \in BOOLEAN
  BY DEF EngineInv, TypeOK, EngineTypeOK
<1>i. Idle.at = "idle"
  BY DEF Idle
<1>1. CASE Crash
  BY <1>1, DownDies DEF Crash
<1>2. CASE Restart
  <2>1. /\ alive' /\ UNCHANGED <<gate, asking, turn, sent, reply, crashes, faults>>
        /\ \E chain, then : Wrote(chain, then)
                             /\ (then = pump \/ then.at \in {"idle", "evidence"})
    BY <1>2, <1>i, PumpingGoes DEF Restart
  <2>2. QED BY <1>0, <2>1, WriteKinds DEF Writes
<1>3. ASSUME NEW p \in BOOLEAN, SetPaused(p) PROVE Writes
  <2>1. /\ alive /\ UNCHANGED <<alive, gate, asking, turn, sent, reply, crashes, faults>>
        /\ \E chain, then : Wrote(chain, then)
                             /\ (then = pump \/ then.at \in {"idle", "evidence"})
    BY <1>3, <1>i, PumpingGoes DEF SetPaused
  <2>2. QED BY <1>0, <2>1, WriteKinds DEF Writes
<1>4. ASSUME NEW r \in Reqs, CancelTask(r) PROVE Writes \/ Dies
  <2> DEFINE chain == IF \E i \in DOMAIN mem.queue : mem.queue[i] = r
                      THEN <<Without(r), Cancelled(Without(r), r)>>
                      ELSE <<Cancelled(mem, r)>>
  <2> HIDE DEF chain
  <2>1. \/ /\ Wrote(chain, pump) \/ FailedWrite(chain, 0, chain[1], pump)
           /\ alive /\ UNCHANGED <<alive, gate, asking, turn, sent, reply, crashes, faults>>
        \/ DiesAfter(chain)
    BY <1>4 DEF CancelTask, chain
  <2>2. CASE DiesAfter(chain)
    BY <2>2, DownDies DEF DiesAfter
  <2>3. CASE /\ Wrote(chain, pump) \/ FailedWrite(chain, 0, chain[1], pump)
             /\ alive /\ UNCHANGED <<alive, gate, asking, turn, sent, reply, crashes, faults>>
    <3>1. \/ \E c, then : Wrote(c, then) /\ (then = pump \/ then.at \in {"idle", "evidence"})
          \/ \E c, k, left, then : FailedWrite(c, k, left, then)
                                      /\ (then = pump \/ then.at \in {"idle", "evidence"})
      BY <2>3
    <3>2. QED BY <1>0, <2>3, <3>1, WriteKinds DEF Writes
  <2>4. QED BY <2>1, <2>2, <2>3
<1>5. CASE Finish
  <2>1. PICK out \in Outcomes :
       LET m1 == Settled(mem, pump.task, out)
           m2 == Vacated(m1)
           chain == <<m1, m2>> \o Work(m2)
       IN \/ /\ Wrote(chain, Pumping(m2))
             /\ UNCHANGED <<alive, gate, asking, turn, sent, order, reply, crashes, faults>>
          \/ /\ \/ FailedWrite(chain, 0, Vacated(Settled(mem, pump.task, "failed")), Idle)
                \/ FailedWrite(chain, 1, m2, Idle)
                \/ LoopFails(m2, chain, 2)
             /\ UNCHANGED <<alive, gate, asking, turn, sent, order, reply, crashes, faults>>
          \/ /\ ~healthy
             /\ mem' = Vacated(Settled(mem, pump.task, "failed"))
             /\ pump' = Idle
             /\ UNCHANGED <<disk, healthy, alive, gate, asking, turn, sent, order, reply, crashes, faults>>
          \/ DiesAfter(chain)
    BY <1>5 DEF Finish
  <2> DEFINE m1 == Settled(mem, pump.task, out)
             m2 == Vacated(m1)
             chain == <<m1, m2>> \o Work(m2)
             left == Vacated(Settled(mem, pump.task, "failed"))
             Live == alive /\ UNCHANGED <<alive, gate, asking, turn, sent, order, reply, crashes, faults>>
  <2> HIDE DEF m1, m2, chain, left
  <2>2. \/ Wrote(chain, Pumping(m2)) /\ Live
        \/ /\ \/ FailedWrite(chain, 0, left, Idle) \/ FailedWrite(chain, 1, m2, Idle)
              \/ LoopFails(m2, chain, 2)
           /\ Live
        \/ ~healthy /\ pump' = Idle /\ UNCHANGED healthy /\ Live
        \/ DiesAfter(chain)
    BY <1>5, <2>1 DEF Finish, m1, m2, chain, left
  <2>3. CASE DiesAfter(chain)
    BY <2>3, DownDies DEF DiesAfter
  <2>4. CASE ~healthy /\ pump' = Idle /\ UNCHANGED healthy /\ Live
    BY <1>i, <2>4 DEF Writes
  <2>5. CASE Wrote(chain, Pumping(m2)) /\ Live
    <3>1. \E c, then : Wrote(c, then) /\ (then = pump \/ then.at \in {"idle", "evidence"})
      BY <2>5, PumpingGoes
    <3>2. QED BY <1>0, <2>5, <3>1, WriteKinds DEF Writes
  <2>6. CASE /\ \/ FailedWrite(chain, 0, left, Idle) \/ FailedWrite(chain, 1, m2, Idle)
                \/ LoopFails(m2, chain, 2)
             /\ Live
    <3>1. \/ \E c, k, l, then : FailedWrite(c, k, l, then)
                                  /\ (then = pump \/ then.at \in {"idle", "evidence"})
          \/ \E m, c, done : LoopFails(m, c, done)
      BY <1>i, <2>6
    <3>2. QED BY <1>0, <2>6, <3>1, WriteKinds DEF Writes
  <2>7. QED BY <2>2, <2>3, <2>4, <2>5, <2>6
<1>6. CASE Admit
  <2> DEFINE r == Head(gate)
             m == Admitted(r)
             kicked == pump = Idle
             chain == <<m>> \o (IF kicked THEN Work(m) ELSE <<>>)
             goes == IF kicked THEN Pumping(m) ELSE pump
             Live == alive /\ gate # <<>> /\ UNCHANGED <<alive, turn, sent, order, crashes, faults>>
  <2> HIDE DEF m, chain, goes, kicked
  <2>1. \/ Wrote(chain, goes) /\ Leave(mem'.status[r]) /\ Live
        \/ FailedWrite(chain, 0, mem, pump) /\ Leave("error") /\ Live
        \/ LoopFails(m, chain, 1) /\ Leave(mem'.status[r]) /\ Live
        \/ DiesAfter(chain)
    BY <1>6, Zenon DEF Admit, m, chain, goes, kicked
  <2>2. CASE DiesAfter(chain)
    BY <2>2, DownDies DEF DiesAfter
  <2>3. goes = pump \/ goes.at \in {"idle", "evidence"}
    BY PumpingGoes DEF goes
  <2>4. CASE \/ Wrote(chain, goes) /\ Leave(mem'.status[r]) /\ Live
             \/ FailedWrite(chain, 0, mem, pump) /\ Leave("error") /\ Live
             \/ LoopFails(m, chain, 1) /\ Leave(mem'.status[r]) /\ Live
    <3>1. \/ \E c, then : Wrote(c, then) /\ (then = pump \/ then.at \in {"idle", "evidence"})
          \/ \E c, k, l, then : FailedWrite(c, k, l, then)
                                  /\ (then = pump \/ then.at \in {"idle", "evidence"})
          \/ \E n, c, done : LoopFails(n, c, done)
      BY <2>3, <2>4
    <3>2. /\ healthy' => healthy
          /\ healthy => healthy' \/ "save" \in faults
          /\ pump' = pump \/ pump'.at \in {"idle", "evidence"}
      BY <1>0, <3>1, WriteKinds
    <3>3. /\ gate # <<>> /\ gate' = Tail(gate)
          /\ \E answer \in {"error", mem'.status[Head(gate)]} :
               reply' = [reply EXCEPT ![Head(gate)] = answer]
      BY <2>4 DEF Leave
    <3>4. alive' /\ UNCHANGED <<turn, sent, faults, crashes>>
      BY <2>4
    <3>5. QED BY <3>2, <3>3, <3>4, Zenon DEF Writes
  <2>5. QED BY <2>1, <2>2, <2>4
<1>7. QED BY <1>1, <1>2, <1>3, <1>4, <1>5, <1>6

(* The steps that leave the store alone.                                      *)
Sends == /\ alive /\ pump.at = "evidence" /\ UNCHANGED <<store, alive, gate, reply, crashes, faults>>
         /\ turn' = [turn EXCEPT ![pump.task] = TRUE]
         /\ sent' = [sent EXCEPT ![pump.task] = @ + 1]
         /\ pump'.at # "evidence" /\ (pump'.at = "output" => pump'.result = "timeout")
(* The gate moves and answers with what memory knows.                         *)
Answers == /\ alive /\ UNCHANGED <<store, alive, pump, turn, sent, crashes, faults>>
           /\ \/ UNCHANGED <<gate, reply>>
              \/ /\ gate # <<>> /\ gate' = Tail(gate)
                 /\ \E answer \in {"error", mem.status[Head(gate)]} :
                      reply' = [reply EXCEPT ![Head(gate)] = answer]
(* The dispatcher waits no longer; nothing is sent.                           *)
Waited == /\ UNCHANGED <<store, alive, gate, sent, reply, crashes, faults>>
          /\ \A r \in Reqs : turn'[r] => turn[r]
          /\ \/ pump' = pump
             \/ /\ alive /\ pump.at \in {"evidence", "turn"} /\ pump'.at = "output"
                /\ pump'.task = pump.task
                /\ pump'.result = "timeout" \/ pump.at = "evidence" \/ ~turn'[pump.task]
                /\ pump.at = "evidence" => UNCHANGED turn
Arrives == \E r \in Reqs : r \in flying /\ Submit(r)

\* Every other step of the engine is one of these.
LEMMA QuietKinds ==
  ASSUME EngineInv,
         \/ Replay \/ Refuse \/ Ask \/ Send \/ NotSent \/ TurnTimeout \/ (\E r \in Reqs : TurnEnds(r))
  PROVE  Sends \/ Answers \/ Waited
<1>1. PumpType /\ turn \in [Reqs -> BOOLEAN] /\ PumpSound
  BY DEF EngineInv, TypeOK, EngineTypeOK, PumpType
<1>2. CASE Replay \/ Refuse \/ Ask
  <2>1. Answers
    BY <1>2 DEF Replay, Refuse, Ask, Leave, Answers
  <2>2. QED BY <2>1
<1>3. CASE Send
  <2>1. pump'.at # "evidence" /\ (pump'.at = "output" => pump'.result = "timeout")
    BY <1>1, <1>3 DEF Send, PumpType
  <2>2. QED BY <1>3, <2>1 DEF Send, Sends
<1>4. CASE NotSent
  <2>1. pump'.at = "output" /\ pump'.task = pump.task
    BY <1>1, <1>4 DEF NotSent, PumpType
  <2>2. QED BY <1>4, <2>1 DEF NotSent, Waited
<1>5. CASE TurnTimeout
  <2>1. pump'.at = "output" /\ pump'.task = pump.task /\ pump'.result = "timeout"
    BY <1>1, <1>5 DEF TurnTimeout, PumpType
  <2>2. QED BY <1>5, <2>1 DEF TurnTimeout, Waited
<1>6. ASSUME NEW r \in Reqs, TurnEnds(r) PROVE Waited
  <2>1. /\ turn' = [turn EXCEPT ![r] = FALSE]
        /\ UNCHANGED <<store, alive, gate, asking, sent, order, reply, crashes, faults>>
    BY <1>6 DEF TurnEnds
  <2>2. (\A q \in Reqs : turn'[q] => turn[q]) /\ ~turn'[r]
    BY <1>1, <2>1
  <2>3. CASE pump' = pump
    BY <2>1, <2>2, <2>3 DEF Waited
  <2>4. CASE pump' # pump
    <3>1. /\ alive /\ pump.at = "turn" /\ pump.task = r
          /\ \E out \in {"completed", "failed"} :
               pump' = [pump EXCEPT !.at = "output", !.result = out]
      BY <1>6, <2>4 DEF TurnEnds
    <3>2. pump'.at = "output" /\ pump'.task = pump.task
      BY <1>1, <3>1 DEF PumpType
    <3>3. QED BY <2>1, <2>2, <3>1, <3>2 DEF Waited
  <2>5. QED BY <2>3, <2>4
<1>7. QED BY <1>2, <1>3, <1>4, <1>5, <1>6

\* What the engine knows of its failures and of its turns stays true.
LEMMA EngineSoundStep ==
  ASSUME LeaseInv, Writes \/ Dies \/ Sends \/ Answers \/ Waited \/ Arrives
  PROVE  EngineSound' /\ TrustStep
<1>1. /\ PumpType /\ turn \in [Reqs -> BOOLEAN] /\ sent \in [Reqs -> Nat] /\ PumpSound
      /\ EngineSound /\ healthy \in BOOLEAN /\ alive \in BOOLEAN
      /\ crashes \in 0..MaxCrashes /\ MaxCrashes \in Nat
  BY EngineConstants DEF LeaseInv, LaneInv, EngineInv, TypeOK, EngineTypeOK, PumpType
<1>2. CASE Writes
  BY <1>1, <1>2 DEF Writes, EngineSound, TrustStep
<1>3. CASE Dies
  BY <1>1, <1>3 DEF Dies, EngineSound, TrustStep, Idle
<1>4. CASE Sends
  BY <1>1, <1>4 DEF Sends, EngineSound, TrustStep, PumpSound, store
<1>5. CASE Answers
  BY <1>1, <1>5 DEF Answers, EngineSound, TrustStep, store
<1>6. CASE Waited
  BY <1>1, <1>6 DEF Waited, EngineSound, TrustStep, PumpSound, store
<1>7. CASE Arrives
  BY <1>1, <1>7 DEF Arrives, Submit, EngineSound, TrustStep, store
<1>8. QED BY <1>2, <1>3, <1>4, <1>5, <1>6, <1>7
-----------------------------------------------------------------------------
(* Steps of the engine *)

EngineMoves ==
  /\ Sound
  /\ Writes \/ Dies \/ Sends \/ Answers \/ Waited \/ Arrives
  /\ UNCHANGED <<slot, call, reco, codex, up>>
  /\ \A r \in Reqs : r \in flying' => r \in flying

\* What waits after a step waited or was on its way before it.
LEMMA WaitsStep ==
  ASSUME LeaseInv, EngineMoves, NEW r \in Reqs, r \in flying' \/ Waits(r)'
  PROVE  r \in flying \/ Waits(r)
<1>0. gate \in Seq(Reqs)
  BY DEF LeaseInv, LaneInv, EngineInv, TypeOK, EngineTypeOK
<1>1. CASE r \in flying'
  BY <1>1 DEF EngineMoves
<1>2. CASE Waits(r)'
  <2>1. PICK i \in DOMAIN gate' : gate'[i] = r
    BY <1>2 DEF Waits
  <2>2. CASE gate' = gate
    BY <2>1, <2>2 DEF Waits
  <2>3. CASE gate' = <<>>
    BY <2>1, <2>3
  <2>4. CASE gate # <<>> /\ gate' = Tail(gate)
    <3>1. /\ Len(gate) \in Nat \ {0} /\ DOMAIN gate = 1..Len(gate)
          /\ DOMAIN Tail(gate) = 1..Len(gate) - 1
          /\ \A j \in 1..Len(gate) - 1 : Tail(gate)[j] = gate[j + 1]
      BY <1>0, <2>4, HeadTailProperties, LenProperties, EmptySeq
    <3>2. i + 1 \in DOMAIN gate /\ gate[i + 1] = r
      BY <2>1, <2>4, <3>1
    <3>3. QED BY <3>2 DEF Waits
  <2>5. CASE Arrives
    <3>1. PICK q \in Reqs : q \in flying /\ gate' = Append(gate, q)
      BY <2>5 DEF Arrives, Submit
    <3>2. /\ Len(gate) \in Nat /\ DOMAIN gate = 1..Len(gate)
          /\ DOMAIN gate' = 1..Len(gate) + 1
          /\ \A j \in 1..Len(gate) : gate'[j] = gate[j]
          /\ gate'[Len(gate) + 1] = q
      BY <1>0, <3>1, AppendProperties, LenProperties
    <3>3. CASE i = Len(gate) + 1
      BY <2>1, <3>1, <3>2, <3>3
    <3>4. CASE i # Len(gate) + 1
      <4>1. i \in DOMAIN gate /\ gate[i] = r
        BY <2>1, <3>2, <3>4
      <4>2. QED BY <4>1 DEF Waits
    <3>5. QED BY <3>3, <3>4
  <2>6. QED BY <2>2, <2>3, <2>4, <2>5 DEF EngineMoves, Writes, Dies, Sends, Answers, Waited, store
<1>3. QED BY <1>1, <1>2

\* What trusted memory says of a task before and after a step of the engine.
LEMMA StatusStep ==
  ASSUME LeaseInv, EngineMoves, Trusted'
  PROVE  /\ Trusted /\ "unread" \notin faults
         /\ mem.status \in [Reqs -> Status] /\ mem'.status \in [Reqs -> Status]
         /\ Later(Doing, mem, mem')
         /\ \A r \in Reqs : mem.status[r] = "none" /\ mem'.status[r] # "none" => Waits(r)
         /\ \A r \in Reqs : mem'.status[r] \in {"completed", "failed"} \ {mem.status[r]}
                              => pump.at = "output" /\ pump.task = r /\ pump.result = mem'.status[r]
         /\ \A r \in Reqs : mem'.status[r] \in Terminal \ {"cancelled", mem.status[r]}
                              => pump.at = "output" \/ ~alive
<1>1. Sound /\ EngineInv' /\ EngineInv
  BY DEF EngineMoves, Sound, LeaseInv, LaneInv
<1>2. EngineSound' /\ TrustStep
  BY EngineSoundStep DEF EngineMoves
<1>3. Trusted /\ mem = disk /\ mem' = disk'
  BY <1>1, <1>2, TrustedMemory
<1>4. Later(Doing, mem, mem')
  BY <1>1, <1>3 DEF Sound
<1>5. NothingLost
  BY <1>3, TrustMeans
<1>6. "unread" \notin faults
  BY <1>5 DEF NothingLost
<1>7. Outcomes = {pump.result}
  BY <1>6 DEF Outcomes
<1>8. mem.status \in [Reqs -> Status] /\ mem'.status \in [Reqs -> Status]
  BY <1>1 DEF EngineInv, TypeOK, EngineTypeOK, State
<1>9. /\ gate \in Seq(Reqs) /\ (pump.at = "output" => pump.result \in Results)
  BY <1>1 DEF EngineInv, TypeOK, EngineTypeOK, PumpSound
<1>10. ASSUME NEW r \in Reqs, mem.status[r] = "none", mem'.status[r] # "none" PROVE Waits(r)
  <2>1. <<r, "queued">> \in Doing
    BY <1>4, <1>10 DEF Later
  <2>2. gate # <<>> /\ r = Head(gate)
    BY <1>7, <1>9, <2>1 DEF Doing, Results
  <2>3. 1 \in DOMAIN gate /\ gate[1] = r
    BY <1>9, <2>2, HeadTailProperties, LenProperties, EmptySeq
  <2>4. QED BY <2>3 DEF Waits
<1>11. ASSUME NEW r \in Reqs, mem'.status[r] \in Terminal \ {"cancelled", mem.status[r]}
       PROVE  \/ pump.at = "output" /\ pump.task = r /\ pump.result = mem'.status[r]
              \/ ~alive /\ mem'.status[r] = "interrupted"
  <2>1. <<r, mem'.status[r]>> \in Doing
    BY <1>4, <1>11 DEF Later
  <2>2. QED BY <1>7, <1>11, <2>1 DEF Doing, Terminal
<1>12. QED BY <1>3, <1>4, <1>6, <1>8, <1>10, <1>11 DEF Terminal

\* Which turns run after a step: those that ran, or the one that was sent.
LEMMA TurnStep ==
  ASSUME LeaseInv, EngineMoves, NEW r \in Reqs, turn'[r]
  PROVE  turn[r] \/ (Sends /\ r = pump.task)
<1>1. turn \in [Reqs -> BOOLEAN]
  BY DEF LeaseInv, LaneInv, EngineInv, TypeOK, EngineTypeOK
<1>2. QED BY <1>1 DEF EngineMoves, Writes, Dies, Sends, Answers, Waited, Arrives, Submit

\* A request that may run after a step of the engine could before it.
LEMMA BusyShrinks ==
  ASSUME LeaseInv, EngineMoves, Trusted', NEW r \in Reqs, Busy(r)'
  PROVE  Busy(r)
<1>1. /\ Trusted /\ mem.status[r] \in Status /\ mem'.status[r] \in Status
      /\ Later(Doing, mem, mem')
      /\ mem.status[r] = "none" /\ mem'.status[r] # "none" => Waits(r)
  BY StatusStep
<1>2. CASE mem'.status[r] = "none"
  <2>1. mem.status[r] = "none"
    BY <1>1, <1>2 DEF Later
  <2>2. CASE Works(r)'
    <3>1. sent'[r] > 0 /\ EngineInv'
      BY <2>2, EngineSoundStep DEF Works, EngineSound, EngineMoves, Sound
    <3>2. Begun(disk'.status[r])
      BY <3>1 DEF EngineInv, SentIsBegun
    <3>3. mem' = disk'
      BY EngineSoundStep, TrustedMemory DEF EngineMoves, Sound
    <3>4. QED BY <1>2, <3>2, <3>3 DEF Begun
  <2>3. CASE r \in flying' \/ Waits(r)'
    BY <2>1, <2>3, WaitsStep DEF Busy
  <2>4. QED BY <1>2, <2>2, <2>3 DEF Busy
<1>3. CASE mem'.status[r] \in {"queued", "running"}
  <2>1. mem.status[r] \notin Terminal
    BY <1>1, <1>3 DEF Later, Terminal
  <2>2. QED BY <1>1, <1>3, <2>1 DEF Status, Busy
<1>4. CASE Works(r)'
  <2>1. turn'[r] /\ mem'.status[r] \notin {"cancelled", "interrupted"}
    BY <1>4 DEF Works
  <2>2. mem.status[r] \notin {"cancelled", "interrupted"}
    BY <1>1, <2>1 DEF Later, Terminal
  <2>3. CASE turn[r]
    BY <1>1, <2>2, <2>3 DEF Works, Busy
  <2>4. CASE Sends /\ r = pump.task
    <3>1. mem.status[r] \in {"running", "cancelled"}
      BY <1>1, <2>4 DEF LeaseInv, StatusTruth, Sends
    <3>2. QED BY <2>2, <3>1 DEF Busy
  <2>5. QED BY <2>1, <2>3, <2>4, TurnStep
<1>5. QED BY <1>2, <1>3, <1>4 DEF Busy

\* The statuses still prove what they prove.
LEMMA StatusTruthStep ==
  ASSUME LeaseInv, EngineMoves
  PROVE  StatusTruth'
<1>1. SUFFICES ASSUME Trusted'
               PROVE  /\ \A r \in Reqs : mem'.status[r] \in {"completed", "failed"} => ~turn'[r]
                      /\ \A r \in Reqs : reply'[r] \in Terminal => mem'.status[r] = reply'[r]
                      /\ pump'.at = "evidence" => mem'.status[pump'.task] \in {"running", "cancelled"}
  BY DEF StatusTruth
<1>2. /\ Trusted /\ mem.status \in [Reqs -> Status] /\ mem'.status \in [Reqs -> Status]
      /\ Later(Doing, mem, mem')
      /\ \A r \in Reqs : mem'.status[r] \in {"completed", "failed"} \ {mem.status[r]}
                           => pump.at = "output" /\ pump.task = r /\ pump.result = mem'.status[r]
      /\ \A r \in Reqs : mem'.status[r] \in Terminal \ {"cancelled", mem.status[r]}
                           => pump.at = "output" \/ ~alive
  BY <1>1, StatusStep
<1>3. /\ \A r \in Reqs : mem.status[r] \in {"completed", "failed"} => ~turn[r]
      /\ \A r \in Reqs : reply[r] \in Terminal => mem.status[r] = reply[r]
      /\ pump.at = "evidence" => mem.status[pump.task] \in {"running", "cancelled"}
  BY <1>2 DEF LeaseInv, StatusTruth
<1>4. ASSUME NEW r \in Reqs, mem'.status[r] \in {"completed", "failed"}, turn'[r] PROVE FALSE
  <2>1. CASE Sends /\ r = pump.task
    <3>1. mem.status[r] \in {"running", "cancelled"} /\ mem' = mem
      BY <1>3, <2>1 DEF Sends, store
    <3>2. QED BY <1>4, <3>1
  <2>2. CASE turn[r]
    <3>1. mem'.status[r] # mem.status[r]
      BY <1>3, <1>4, <2>2
    <3>2. pump.at = "output" /\ pump.task = r /\ pump.result = mem'.status[r]
      BY <1>2, <1>4, <3>1
    <3>3. QED BY <1>4, <2>2, <3>2 DEF LeaseInv, EngineSound
  <2>3. QED BY <1>4, <2>1, <2>2, TurnStep
<1>5. ASSUME NEW r \in Reqs, reply'[r] \in Terminal PROVE mem'.status[r] = reply'[r]
  <2>1. reply \in [Reqs -> Status \cup {"error"}] /\ gate \in Seq(Reqs)
    BY DEF LeaseInv, LaneInv, EngineInv, TypeOK, EngineTypeOK
  <2>2. CASE reply'[r] = reply[r]
    BY <1>2, <1>3, <1>5, <2>2 DEF Later
  <2>3. CASE reply'[r] # reply[r]
    <3>1. CASE Arrives
      BY <1>5, <2>1, <2>3, <3>1 DEF Arrives, Submit, Terminal
    <3>2. CASE Writes
      <4>1. PICK answer \in {"error", mem'.status[Head(gate)]} :
              reply' = [reply EXCEPT ![Head(gate)] = answer]
        BY <2>3, <3>2 DEF Writes
      <4>2. QED BY <1>5, <2>1, <2>3, <4>1 DEF Terminal
    <3>3. CASE Answers
      <4>1. PICK answer \in {"error", mem.status[Head(gate)]} :
              reply' = [reply EXCEPT ![Head(gate)] = answer]
        BY <2>3, <3>3 DEF Answers
      <4>2. mem' = mem
        BY <3>3 DEF Answers, store
      <4>3. QED BY <1>5, <2>1, <2>3, <4>1, <4>2 DEF Terminal
    <3>4. QED BY <2>3, <3>1, <3>2, <3>3 DEF EngineMoves, Dies, Sends, Waited
  <2>4. QED BY <2>2, <2>3
<1>6. ASSUME pump'.at = "evidence" PROVE mem'.status[pump'.task] \in {"running", "cancelled"}
  <2>1. mem' = disk' /\ mem = disk
    BY <1>1, EngineSoundStep, TrustedMemory DEF EngineMoves, Sound
  <2>2. CASE disk'.status[pump'.task] = "running"
    BY <2>1, <2>2
  <2>3. CASE pump' = pump
    <3>1. pump.task \in Reqs /\ pump.at = "evidence"
      BY <1>6, <2>3 DEF LeaseInv, LaneInv, EngineInv, PumpSound
    <3>2. mem.status[pump.task] \in {"running", "cancelled"} /\ alive
      BY <1>3, <3>1 DEF LeaseInv, EngineSound
    <3>3. mem'.status[pump.task] \notin Terminal \ {"cancelled"}
      BY <1>2, <3>1, <3>2 DEF Later, Terminal
    <3>4. Begun(mem'.status[pump.task])
      BY <1>2, <3>1, <3>2 DEF Later, Begun
    <3>5. mem'.status[pump.task] \in Status
      BY <1>2, <3>1
    <3>6. QED BY <2>3, <3>3, <3>4, <3>5 DEF Status, Begun
  <2>4. QED BY <1>6, <2>2, <2>3 DEF EngineMoves, Sound
<1>7. QED BY <1>4, <1>5, <1>6

\* A reconciliation in flight is right about the task while the engine moves on.
LEMMA RecoSoundRests ==
  ASSUME LeaseInv, EngineMoves
  PROVE  RecoSound'
<1>0. reco' = reco
  BY DEF EngineMoves
<1>1. SUFFICES ASSUME Trusted', reco.at # "idle", NEW r, r = reco.task
               PROVE  /\ mem'.status[r] = "none"
                           => HeldBy(r)' /\ ~Pending(r)' /\ r \notin flying' /\ ~Waits(r)'
                      /\ reco.at = "get" => mem'.status[r] # "none"
                      /\ reco.at \in {"task", "keyed"} => (reco.seen = "none" <=> mem'.status[r] = "none")
                      /\ reco.at \in {"task", "keyed"} /\ reco.seen \in Terminal => mem'.status[r] = reco.seen
                      /\ reco.at = "probe" => mem'.status[r] = "timeout"
                      /\ reco.at \in {"lane", "proved"} => ~Busy(r)'
  BY <1>0 DEF RecoSound, HeldBy, Pending, Waits, Busy, Works
<1>2. r \in Reqs
  BY <1>1 DEF LeaseInv, LaneInv, Named
<1>3. /\ Trusted /\ Later(Doing, mem, mem')
      /\ mem.status[r] = "none" /\ mem'.status[r] # "none" => Waits(r)
  BY <1>1, <1>2, StatusStep
<1>4. /\ mem.status[r] = "none" => HeldBy(r) /\ ~Pending(r) /\ r \notin flying /\ ~Waits(r)
      /\ reco.at = "get" => mem.status[r] # "none"
      /\ reco.at \in {"task", "keyed"} => (reco.seen = "none" <=> mem.status[r] = "none")
      /\ reco.at \in {"task", "keyed"} /\ reco.seen \in Terminal => mem.status[r] = reco.seen
      /\ reco.at = "probe" => mem.status[r] = "timeout"
      /\ reco.at \in {"lane", "proved"} => ~Busy(r)
  BY <1>1, <1>3 DEF LeaseInv, RecoSound
<1>5. mem'.status[r] = "none" <=> mem.status[r] = "none"
  BY <1>2, <1>3, <1>4 DEF Later
<1>6. mem'.status[r] = "none" => HeldBy(r)' /\ ~Pending(r)' /\ r \notin flying' /\ ~Waits(r)'
  <2>1. (HeldBy(r)' <=> HeldBy(r)) /\ (Pending(r)' <=> Pending(r))
    BY DEF EngineMoves, HeldBy, Pending
  <2>2. QED BY <1>2, <1>4, <1>5, <2>1, WaitsStep
<1>7. mem.status[r] \in Terminal => mem'.status[r] = mem.status[r]
  BY <1>2, <1>3 DEF Later
<1>8. reco.at \in {"lane", "proved"} => ~Busy(r)'
  BY <1>1, <1>2, <1>4, BusyShrinks
<1>9. QED BY <1>4, <1>5, <1>6, <1>7, <1>8 DEF Terminal

(* A step of the lease, or one that leaves holder and workers alone.          *)
LeaseStep == Lease!Next \/ UNCHANGED <<Holder, Working>>

Workers == {r \in Reqs : Works(r)} \cup (IF codex = "turn" THEN {"codex"} ELSE {})

\* Who works: the requests with a turn that counts, and the codex lane.
LEMMA WorkingIs ==
  /\ Working = Workers
  /\ \A r \in Reqs : HeldBy(r) => Holder = r
  /\ "codex" \notin Reqs
<1>1. \A r \in Reqs : Works(r) <=> /\ turn[r]
                                   /\ mem.status[r] \notin {"cancelled", "interrupted"}
                                   /\ \A f \in faults : Vouched(f)
  BY DEF Works, Trusted
<1>2. QED BY <1>1, OwnersDiffer DEF Working, Workers, HeldBy, Holder

\* Who works after a step.
LEMMA WorkingNext ==
  Working' = {r \in Reqs : Works(r)'} \cup (IF codex' = "turn" THEN {"codex"} ELSE {})
<1>1. Working = Workers
  BY WorkingIs
<1>2. (Working = Workers)'
  BY <1>1, PTL
<1>3. QED BY <1>2, Zenon DEF Workers

\* Nobody works when every holder of the slot rests.
LEMMA NoWork ==
  ASSUME LeaseInv, codex # "turn", Trusted => \A r \in Reqs : HeldBy(r) => ~Busy(r)
  PROVE  Working = {}
<1>1. \A r \in Reqs : ~Works(r)
  BY DEF LeaseInv, BusyHeld, Busy, Works
<1>2. QED BY <1>1, WorkingIs DEF Workers

\* The lease moves as its actions say.
LEMMA LeaseMoves ==
  /\ \A o \in (Reqs \cup {"codex", "torn"}) :
       /\ Holder = None /\ Holder' = o /\ Working' = Working => LeaseStep
       /\ Holder = o /\ Holder' = o /\ Working' = Working \cup {o} => LeaseStep
  /\ Holder' = Holder /\ Working' \in SUBSET Working => LeaseStep
  /\ Holder # None /\ Holder \notin Working /\ Holder' = None /\ Working' = Working => LeaseStep
<1>1. None \notin Reqs \cup {"codex", "torn"}
  BY EngineConstants, OwnersDiffer
<1>2. QED BY <1>1 DEF LeaseStep, Lease!Next, Lease!Acquire, Lease!Begin, Lease!End, Lease!Release

\* A step of the engine keeps the invariant, and is the begin or the end of
\* work under the lease.
LEMMA EngineMovesSound ==
  ASSUME LeaseInv, EngineMoves
  PROVE  SlotSound' /\ EngineSound' /\ StatusTruth' /\ BusyHeld' /\ BoundKnown' /\ RecoSound' /\ LeaseStep
<1>1. EngineSound' /\ TrustStep
  BY EngineSoundStep DEF EngineMoves
<1>2. UNCHANGED <<slot, call, reco, codex, up>>
  BY DEF EngineMoves
<1>3. SlotSound'
  BY <1>1, <1>2 DEF LeaseInv, SlotSound, TrustStep, HeldBy
<1>4. BusyHeld'
  <2>1. ASSUME Trusted', NEW r \in Reqs, Busy(r)' PROVE HeldBy(r) /\ slot.marked
    BY <2>1, BusyShrinks, StatusStep DEF LeaseInv, BusyHeld
  <2>2. QED BY <1>2, <2>1 DEF BusyHeld, HeldBy
<1>5. BoundKnown'
  <2>1. ASSUME Trusted', slot.by = "z2c", slot.bound PROVE mem'.status[slot.task] # "none"
    <3>1. slot.task \in Reqs
      BY <2>1 DEF LeaseInv, LaneInv, Named
    <3>2. Trusted /\ Later(Doing, mem, mem')
      BY <2>1, StatusStep
    <3>3. QED BY <2>1, <3>1, <3>2 DEF LeaseInv, BoundKnown, Later
  <2>2. QED BY <1>2, <2>1 DEF BoundKnown
<1>6. Holder' = Holder
  BY <1>2 DEF Holder
<1>7. LeaseStep
  <2>1. ASSUME NEW r \in Reqs, Works(r)' PROVE Works(r) \/ (Sends /\ r = pump.task /\ HeldBy(r))
    <3>1. /\ Trusted' /\ turn'[r] /\ mem'.status[r] \notin {"cancelled", "interrupted"} /\ Busy(r)'
      BY <2>1 DEF Works, Busy
    <3>2. Trusted /\ Later(Doing, mem, mem') /\ Busy(r)
      BY <3>1, StatusStep, BusyShrinks
    <3>3. mem.status[r] \notin {"cancelled", "interrupted"} /\ HeldBy(r)
      BY <3>1, <3>2 DEF Later, Terminal, LeaseInv, BusyHeld
    <3>4. QED BY <3>1, <3>2, <3>3, TurnStep DEF Works
  <2>2. CASE \A r \in Reqs : Works(r)' => Works(r)
    <3>1. Working' \subseteq Working
      <4>1. Working' = {r \in Reqs : Works(r)'} \cup (IF codex' = "turn" THEN {"codex"} ELSE {})
        BY WorkingNext
      <4>2. QED BY <1>2, <2>2, <4>1, WorkingIs DEF Workers
    <3>2. QED BY <1>6, <3>1, LeaseMoves
  <2>3. ASSUME NEW q \in Reqs, Works(q)', ~Works(q) PROVE LeaseStep
    <3>1. Sends /\ q = pump.task /\ HeldBy(q)
      BY <2>1, <2>3
    <3>2. Trusted' /\ Trusted
      BY <2>3, StatusStep DEF Works
    <3>3. \A r \in Reqs : r # q => (Works(r)' <=> Works(r))
      <4>1. turn \in [Reqs -> BOOLEAN]
        BY DEF LeaseInv, LaneInv, EngineInv, TypeOK, EngineTypeOK
      <4>2. mem' = mem /\ \A r \in Reqs : r # q => turn'[r] = turn[r]
        BY <3>1, <4>1 DEF Sends, store
      <4>3. QED BY <3>2, <4>2 DEF Works
    <3>4. Working' = {r \in Reqs : Works(r)'} \cup (IF codex' = "turn" THEN {"codex"} ELSE {})
      BY WorkingNext
    <3>5. Working' = Working \cup {q}
      BY <1>2, <2>3, <3>3, <3>4, WorkingIs DEF Workers
    <3>6. Holder = q
      BY <3>1, WorkingIs
    <3>7. QED BY <1>6, <3>5, <3>6, LeaseMoves
  <2>4. QED BY <2>2, <2>3
<1>8. QED BY <1>1, <1>3, <1>4, <1>5, <1>7, StatusTruthStep, RecoSoundRests
-----------------------------------------------------------------------------
(* Steps of the lane *)

\* What a step of the lane leaves alone in the engine.
LEMMA EngineStill ==
  ASSUME LeaseInv, UNCHANGED engineVars
  PROVE  /\ EngineSound' /\ StatusTruth' /\ (Trusted' <=> Trusted)
         /\ \A r \in Reqs : (Works(r)' <=> Works(r)) /\ (Waits(r)' <=> Waits(r))
         /\ mem' = mem
         /\ codex' = codex => Working' = Working
<1>1. UNCHANGED <<mem, healthy, alive, gate, pump, turn, sent, reply, crashes, faults>>
  BY DEF engineVars
<1>2. EngineSound'
  BY <1>1 DEF LeaseInv, EngineSound
<1>3. NothingLost' <=> NothingLost
  BY <1>1 DEF NothingLost
<1>4. Trusted' <=> NothingLost'
  BY TrustMeans, PTL
<1>5. Trusted' <=> Trusted
  BY <1>3, <1>4, TrustMeans
<1>6. StatusTruth'
  BY <1>1, <1>5 DEF LeaseInv, StatusTruth
<1>7. \A r \in Reqs : (Works(r)' <=> Works(r)) /\ (Waits(r)' <=> Waits(r))
  BY <1>1, <1>5 DEF Works, Waits
<1>8. codex' = codex => Working' = Working
  BY <1>7, WorkingNext, WorkingIs DEF Workers
<1>9. QED BY <1>1, <1>2, <1>5, <1>6, <1>7, <1>8

(* A reconciliation is about a task that the engine does not know.            *)
Unknown == Trusted /\ reco.at # "idle" /\ mem.status[reco.task] = "none"

\* It was not on its way then, and the slot was its own.
LEMMA UnknownHeld ==
  ASSUME LeaseInv, Unknown
  PROVE  /\ reco.task \in Reqs /\ HeldBy(reco.task)
         /\ call[reco.task] \notin {"project", "sent"} /\ reco.task \notin flying
  BY DEF LeaseInv, LaneInv, Named, RecoSound, Unknown, Pending

\* A reconciliation that goes on while the lane moves is right about its task.
LEMMA RecoKept ==
  ASSUME LeaseInv, UNCHANGED engineVars, reco' = reco,
         Unknown => /\ slot'.by = slot.by /\ slot'.task = slot.task
                    /\ call'[reco.task] = call[reco.task]
                    /\ reco.task \in flying' => reco.task \in flying
  PROVE  RecoSound'
<1>1. SUFFICES ASSUME Trusted', reco.at # "idle", NEW r, r = reco.task
               PROVE  /\ mem'.status[r] = "none"
                           => HeldBy(r)' /\ ~Pending(r)' /\ r \notin flying' /\ ~Waits(r)'
                      /\ reco.at = "get" => mem'.status[r] # "none"
                      /\ reco.at \in {"task", "keyed"} => (reco.seen = "none" <=> mem'.status[r] = "none")
                      /\ reco.at \in {"task", "keyed"} /\ reco.seen \in Terminal => mem'.status[r] = reco.seen
                      /\ reco.at = "probe" => mem'.status[r] = "timeout"
                      /\ reco.at \in {"lane", "proved"} => ~Busy(r)'
  BY DEF RecoSound, HeldBy, Pending, Waits, Busy, Works
<1>2. r \in Reqs
  BY <1>1 DEF LeaseInv, LaneInv, Named
<1>3. Trusted /\ mem' = mem /\ (Waits(r)' <=> Waits(r)) /\ (Works(r)' <=> Works(r))
  BY <1>1, <1>2, EngineStill
<1>4. /\ mem.status[r] = "none" => HeldBy(r) /\ ~Pending(r) /\ r \notin flying /\ ~Waits(r)
      /\ reco.at = "get" => mem.status[r] # "none"
      /\ reco.at \in {"task", "keyed"} => (reco.seen = "none" <=> mem.status[r] = "none")
      /\ reco.at \in {"task", "keyed"} /\ reco.seen \in Terminal => mem.status[r] = reco.seen
      /\ reco.at = "probe" => mem.status[r] = "timeout"
      /\ reco.at \in {"lane", "proved"} => ~Busy(r)
  BY <1>1, <1>3 DEF LeaseInv, RecoSound
<1>5. mem.status[r] = "none" => HeldBy(r)' /\ ~Pending(r)' /\ r \notin flying' /\ ~Waits(r)'
  BY <1>1, <1>2, <1>3, <1>4 DEF Unknown, HeldBy, Pending
<1>6. reco.at \in {"lane", "proved"} => ~Busy(r)'
  BY <1>3, <1>4, <1>5 DEF Busy
<1>7. QED BY <1>3, <1>4, <1>5, <1>6

\* No reconciliation, nothing to be right about.
LEMMA RecoGone ==
  ASSUME reco' = NoReco
  PROVE  RecoSound'
  BY DEF RecoSound, NoReco

(* The part of the invariant about the slot, and the step of the lease.       *)
SlotGood == SlotSound' /\ BusyHeld' /\ BoundKnown' /\ LeaseStep

\* A step of the lane that leaves the slot and the codex lane alone.
LEMMA SlotStays ==
  ASSUME LeaseInv, UNCHANGED engineVars, UNCHANGED <<slot, codex, up>>,
         \A q \in Reqs : q \in flying' => q \in flying,
         \A q \in Reqs : call'[q] = "project" => call[q] = "project"
  PROVE  SlotGood
<1>1. crashes' = crashes /\ faults' = faults
  BY DEF engineVars
<1>2. SlotSound'
  BY <1>1 DEF LeaseInv, SlotSound, HeldBy
<1>3. BusyHeld'
  BY EngineStill DEF LeaseInv, BusyHeld, Busy, HeldBy
<1>4. BoundKnown'
  BY EngineStill DEF LeaseInv, BoundKnown
<1>5. Holder' = Holder
  BY DEF Holder
<1>6. LeaseStep
  BY <1>5, EngineStill DEF LeaseStep
<1>7. QED BY <1>2, <1>3, <1>4, <1>6 DEF SlotGood

\* The slot of a request that is not busy is freed.
LEMMA SlotFreed ==
  ASSUME LeaseInv, UNCHANGED engineVars, UNCHANGED <<flying, codex, up>>,
         NEW r \in Reqs, HeldBy(r), Trusted => ~Busy(r), slot' = Free
  PROVE  SlotGood
<1>1. crashes' = crashes /\ faults' = faults
  BY DEF engineVars
<1>2. slot'.by = "free" /\ ~slot'.old
  BY DEF Free
<1>3. codex = "no"
  BY DEF LeaseInv, SlotSound, HeldBy
<1>4. Trusted => \A q \in Reqs : ~Busy(q)
  BY DEF LeaseInv, BusyHeld, HeldBy
<1>5. SlotSound'
  BY <1>1, <1>2, <1>3 DEF SlotSound, HeldBy
<1>6. BusyHeld' /\ BoundKnown'
  BY <1>2, <1>4, EngineStill DEF BusyHeld, BoundKnown, Busy
<1>7. Working = {} /\ Working' = Working
  BY <1>3, <1>4, NoWork, EngineStill
<1>8. Holder = r /\ Holder' = None /\ r # None
  BY <1>2, WorkingIs, EngineConstants DEF Holder
<1>9. LeaseStep
  BY <1>7, <1>8, LeaseMoves
<1>10. QED BY <1>5, <1>6, <1>9 DEF SlotGood

\* The slot of a request is marked or bound; when it is bound the engine knows
\* the task.
LEMMA SlotGrows ==
  ASSUME LeaseInv, UNCHANGED engineVars, UNCHANGED <<codex, up>>, slot \in SlotType,
         NEW r \in Reqs, HeldBy(r),
         \/ slot' = [slot EXCEPT !.marked = TRUE] /\ call'[r] # "project"
         \/ slot' = Bound /\ (Trusted => mem.status[r] # "none"),
         \A q \in Reqs \ {r} : q \in flying' => q \in flying,
         \A q \in Reqs : call'[q] = "project" => call[q] = "project",
         r \in flying' => r \in flying \/ slot'.marked
  PROVE  SlotGood
<1>1. crashes' = crashes /\ faults' = faults
  BY DEF engineVars
<1>2. /\ slot'.by = "z2c" /\ slot'.task = r /\ slot'.old = slot.old
      /\ (slot.marked => slot'.marked) /\ (slot'.bound => slot.bound \/ (Trusted => mem.status[r] # "none"))
      /\ (slot'.marked => slot.marked \/ call'[r] # "project")
  BY DEF HeldBy, SlotType, Bound
<1>3. SlotSound'
  BY <1>1, <1>2 DEF LeaseInv, SlotSound, HeldBy
<1>4. BusyHeld'
  <2>1. ASSUME Trusted', NEW q \in Reqs, Busy(q)' PROVE q = r /\ slot'.marked
    <3>1. Trusted /\ mem' = mem /\ (Waits(q)' <=> Waits(q)) /\ (Works(q)' <=> Works(q))
      BY <2>1, EngineStill
    <3>2. Busy(q) \/ (q = r /\ slot'.marked)
      BY <2>1, <3>1 DEF Busy
    <3>3. QED BY <1>2, <3>1, <3>2 DEF LeaseInv, BusyHeld, HeldBy
  <2>2. QED BY <1>2, <2>1 DEF BusyHeld, HeldBy
<1>5. BoundKnown'
  BY <1>2, EngineStill DEF LeaseInv, BoundKnown, HeldBy
<1>6. Holder' = Holder
  BY <1>2 DEF Holder, HeldBy
<1>7. LeaseStep
  BY <1>6, EngineStill DEF LeaseStep
<1>8. QED BY <1>3, <1>4, <1>5, <1>7 DEF SlotGood

LaneGood == SlotGood /\ RecoSound' /\ EngineSound' /\ StatusTruth'

\* A slot that reads as free to somebody who wants it is free, and nobody works
\* or may work.
LEMMA SlotIsFree ==
  ASSUME LeaseInv, up, codex = "no", Cleared.by = "free"
  PROVE  /\ slot.by = "free" /\ Holder = None /\ Working = {}
         /\ Trusted => \A r \in Reqs : ~Busy(r)
         /\ Trusted /\ reco.at # "idle" => mem.status[reco.task] # "none"
<1>1. slot.by = "free"
  BY DEF LeaseInv, SlotSound, Cleared
<1>2. \A r \in Reqs : ~HeldBy(r)
  BY <1>1 DEF HeldBy
<1>3. QED BY <1>1, <1>2, NoWork DEF LeaseInv, BusyHeld, RecoSound, HeldBy, Holder, LaneInv, Named

\* A request takes the slot, and its reservation is not marked yet.
LEMMA ReserveSound ==
  ASSUME LeaseInv, NEW r \in Reqs, Reserve(r)
  PROVE  LaneGood
<1>1. UNCHANGED engineVars /\ UNCHANGED <<flying, reco, codex, up>> /\ slot' = Reservation(r)
  BY DEF Reserve
<1>2. /\ slot.by = "free" /\ Holder = None /\ Working = {}
      /\ Trusted => \A q \in Reqs : ~Busy(q)
      /\ Trusted /\ reco.at # "idle" => mem.status[reco.task] # "none"
  BY SlotIsFree DEF Reserve
<1>3. /\ slot'.by = "z2c" /\ slot'.task = r /\ ~slot'.old /\ ~slot'.marked /\ ~slot'.bound
  BY <1>1 DEF Reservation, Free
<1>4. codex = "no"
  BY DEF Reserve
<1>5. SlotSound'
  BY <1>1, <1>3, <1>4 DEF SlotSound
<1>6. BusyHeld' /\ BoundKnown'
  BY <1>1, <1>2, <1>3, EngineStill DEF BusyHeld, BoundKnown, Busy
<1>7. Holder' = r /\ Working' = Working
  BY <1>1, <1>3, EngineStill DEF Holder
<1>8. LeaseStep
  BY <1>2, <1>7, LeaseMoves
<1>9. RecoSound'
  BY <1>1, <1>2, RecoKept DEF Unknown
<1>10. QED BY <1>1, <1>5, <1>6, <1>8, <1>9, EngineStill DEF LaneGood, SlotGood

\* The codex lane takes the slot.
LEMMA CodexTakesSound ==
  ASSUME LeaseInv, CodexTakes
  PROVE  LaneGood
<1>1. UNCHANGED engineVars /\ UNCHANGED <<call, flying, reco, up>> /\ slot' = [Free EXCEPT !.by = "codex"]
  BY DEF CodexTakes
<1>2. /\ slot.by = "free" /\ Holder = None /\ Working = {}
      /\ Trusted => \A q \in Reqs : ~Busy(q)
      /\ Trusted /\ reco.at # "idle" => mem.status[reco.task] # "none"
  BY SlotIsFree DEF CodexTakes
<1>3. slot'.by = "codex" /\ ~slot'.old
  BY <1>1 DEF Free
<1>4. codex = "no" /\ codex' = "held" /\ up
  BY DEF CodexTakes
<1>5. SlotSound'
  BY <1>1, <1>3, <1>4 DEF SlotSound, HeldBy
<1>6. BusyHeld' /\ BoundKnown'
  BY <1>1, <1>2, <1>3, EngineStill DEF BusyHeld, BoundKnown, Busy
<1>7. Holder' = "codex"
  BY <1>3 DEF Holder
<1>8. Working' = Working
  BY <1>1, <1>4, EngineStill, WorkingIs, WorkingNext DEF Workers
<1>9. LeaseStep
  BY <1>2, <1>7, <1>8, LeaseMoves
<1>10. RecoSound'
  BY <1>1, <1>2, RecoKept DEF Unknown
<1>11. QED BY <1>1, <1>5, <1>6, <1>9, <1>10, EngineStill DEF LaneGood, SlotGood

\* A dispatch that fails before it is marked frees a slot nobody was told of.
LEMMA FailsBeforeDispatchSound ==
  ASSUME LeaseInv, NEW r \in Reqs, FailsBeforeDispatch(r)
  PROVE  LaneGood
<1>1. /\ UNCHANGED engineVars /\ UNCHANGED <<flying, reco, codex, up>>
      /\ slot' = (IF HeldBy(r) THEN Free ELSE slot)
  BY DEF FailsBeforeDispatch, ReleasedBy
<1>2. \A q \in Reqs : (call'[q] = "project" => call[q] = "project") /\ (Pending(q)' => Pending(q))
  BY DEF FailsBeforeDispatch, LeaseInv, LaneInv, EngineInv, TypeOK, LaneTypeOK, Pending
<1>3. SlotGood
  <2>1. CASE HeldBy(r)
    <3>1. Trusted => ~Busy(r)
      BY <2>1 DEF FailsBeforeDispatch, LeaseInv, SlotSound, BusyHeld
    <3>2. QED BY <1>1, <2>1, <3>1, SlotFreed
  <2>2. CASE ~HeldBy(r)
    BY <1>1, <1>2, <2>2, SlotStays
  <2>3. QED BY <2>1, <2>2
<1>4. RecoSound'
  <2>1. ASSUME Unknown PROVE slot' = slot /\ call'[reco.task] = call[reco.task]
    <3>1. reco.task \in Reqs /\ HeldBy(reco.task) /\ reco.task # r
      BY <2>1, UnknownHeld DEF FailsBeforeDispatch
    <3>2. slot' = slot
      BY <1>1, <3>1 DEF HeldBy
    <3>3. QED BY <3>1, <3>2 DEF FailsBeforeDispatch, LeaseInv, LaneInv, EngineInv, TypeOK, LaneTypeOK
  <2>2. QED BY <1>1, <2>1, RecoKept
<1>5. QED BY <1>1, <1>3, <1>4, EngineStill DEF LaneGood

\* The reservation is marked, and the request leaves.
LEMMA DispatchSound ==
  ASSUME LeaseInv, NEW r \in Reqs, Dispatch(r)
  PROVE  LaneGood
<1>1. /\ UNCHANGED engineVars /\ UNCHANGED <<reco, codex, up>> /\ HeldBy(r)
      /\ slot' = [slot EXCEPT !.marked = TRUE] /\ flying' = flying \cup {r}
      /\ call' = [call EXCEPT ![r] = "sent"] /\ call[r] = "project"
  BY DEF Dispatch
<1>2. slot \in SlotType /\ call \in CallType
  BY DEF LeaseInv, LaneInv, EngineInv, TypeOK, LaneTypeOK, SlotType, CallType
<1>3. call'[r] = "sent" /\ \A q \in Reqs \ {r} : call'[q] = call[q]
  BY <1>1, <1>2 DEF CallType
<1>4. slot'.marked /\ slot'.by = slot.by /\ slot'.task = slot.task
  BY <1>1, <1>2 DEF SlotType
<1>5. SlotGood
  <2>1. \A q \in Reqs : call'[q] = "project" => call[q] = "project"
    BY <1>3
  <2>2. \A q \in Reqs \ {r} : q \in flying' => q \in flying
    BY <1>1
  <2>3. QED BY <1>1, <1>2, <1>3, <1>4, <2>1, <2>2, SlotGrows
<1>6. RecoSound'
  <2>1. ~Unknown
    BY <1>1, UnknownHeld DEF HeldBy
  <2>2. QED BY <1>1, <2>1, RecoKept
<1>7. QED BY <1>1, <1>5, <1>6, EngineStill DEF LaneGood

\* A submission is lost on its way, or its answer is.
LEMMA LossSound ==
  ASSUME LeaseInv, NEW r \in Reqs, Lost(r) \/ AnswerLost(r)
  PROVE  LaneGood
<1>1. /\ UNCHANGED engineVars /\ UNCHANGED <<slot, reco, codex, up>>
      /\ \A q \in Reqs : q \in flying' => q \in flying
  BY DEF Lost, AnswerLost
<1>2. \A q \in Reqs : (call'[q] = "project" => call[q] = "project") /\ (Pending(q)' => Pending(q))
  BY DEF Lost, AnswerLost, LeaseInv, LaneInv, EngineInv, TypeOK, LaneTypeOK, Pending
<1>3. SlotGood
  BY <1>1, <1>2, SlotStays
<1>4. Unknown => call'[reco.task] = call[reco.task]
  BY UnknownHeld DEF Lost, AnswerLost, LeaseInv, LaneInv, EngineInv, TypeOK, LaneTypeOK
<1>5. RecoSound'
  <2>1. Unknown => (reco.task \in flying' => reco.task \in flying)
    BY <1>1, UnknownHeld
  <2>2. QED BY <1>1, <1>4, <2>1, RecoKept
<1>6. QED BY <1>1, <1>3, <1>5, EngineStill DEF LaneGood

\* A status that proves the end of a turn is the status of a request at rest.
LEMMA ProvesRest ==
  ASSUME LeaseInv, NEW r \in Reqs, Trusted, Proves(mem.status[r])
  PROVE  ~Busy(r)
  BY DEF Proves, Terminal, LeaseInv, StatusTruth, Busy, Works

\* The answer of the engine frees the slot when it proves the end of the turn,
\* and binds it when it does not.
LEMMA AnsweredSound ==
  ASSUME LeaseInv, NEW r \in Reqs, Answered(r)
  PROVE  LaneGood
<1> DEFINE refused == reply[r] = "error" \/ ~HeldBy(r)
<1>1. /\ UNCHANGED engineVars /\ UNCHANGED <<flying, reco, codex, up>>
      /\ call[r] = "sent" /\ reply[r] # "none"
      /\ slot' = IF refused THEN slot ELSE IF Proves(reply[r]) THEN Free ELSE Bound
      /\ call' = [call EXCEPT ![r] = IF refused THEN "failed" ELSE "ok"]
  BY DEF Answered
<1>2. slot \in SlotType /\ call \in CallType
  BY DEF LeaseInv, LaneInv, EngineInv, TypeOK, LaneTypeOK, SlotType, CallType
<1>3. \A q \in Reqs : (call'[q] = "project" => call[q] = "project") /\ (Pending(q)' => Pending(q))
  BY <1>1, <1>2 DEF CallType, Pending
<1>4. SlotGood
  <2>1. CASE refused
    BY <1>1, <1>3, <2>1, SlotStays
  <2>2. CASE ~refused /\ Proves(reply[r])
    <3>1. Trusted => mem.status[r] = reply[r]
      BY <2>2 DEF LeaseInv, StatusTruth, Proves
    <3>2. Trusted => ~Busy(r)
      BY <2>2, <3>1, ProvesRest
    <3>3. QED BY <1>1, <2>2, <3>2, SlotFreed
  <2>3. CASE ~refused /\ ~Proves(reply[r])
    <3>1. Trusted => mem.status[r] # "none"
      <4>1. disk.status[r] # "none"
        BY <1>1, <2>3 DEF LeaseInv, LaneInv, EngineInv, AnswerIsDurable
      <4>2. Trusted => mem = disk
        <5>1. Trusted => (healthy \/ "save" \notin faults)
          BY TrustMeans DEF NothingLost
        <5>2. QED BY <5>1 DEF LeaseInv, EngineSound, LaneInv, EngineInv, WriteThrough
      <4>3. QED BY <4>1, <4>2
    <3>2. QED BY <1>1, <1>2, <1>3, <2>3, <3>1, SlotGrows
  <2>4. QED BY <2>1, <2>2, <2>3
<1>5. RecoSound'
  <2>1. ASSUME Unknown PROVE slot' = slot /\ call'[reco.task] = call[reco.task]
    <3>1. reco.task \in Reqs /\ HeldBy(reco.task) /\ reco.task # r
      BY <1>1, <2>1, UnknownHeld
    <3>2. slot' = slot
      BY <1>1, <3>1 DEF HeldBy
    <3>3. QED BY <1>1, <1>2, <3>1, <3>2 DEF CallType
  <2>2. QED BY <1>1, <2>1, RecoKept
<1>6. QED BY <1>1, <1>4, <1>5, EngineStill DEF LaneGood

\* A task view that proves the end frees the slot.
LEMMA ObserveSound ==
  ASSUME LeaseInv, NEW r \in Reqs, Observe(r)
  PROVE  LaneGood
<1>1. /\ UNCHANGED engineVars /\ UNCHANGED <<call, flying, reco, codex, up>>
      /\ HeldBy(r) /\ slot' = Free /\ Proves(mem.status[r])
  BY DEF Observe
<1>2. SlotGood
  BY <1>1, ProvesRest, SlotFreed
<1>3. ~Unknown
  BY <1>1, UnknownHeld DEF HeldBy, Unknown, Proves, Terminal
<1>5. RecoSound'
  BY <1>1, <1>3, RecoKept
<1>6. QED BY <1>1, <1>2, <1>5, EngineStill DEF LaneGood

\* A reconciliation that moves to another place keeps what it knows.
LEMMA RecoMoves ==
  ASSUME LeaseInv, UNCHANGED engineVars, UNCHANGED <<call, flying>>,
         slot'.by = slot.by, slot'.task = slot.task,
         NEW r \in Reqs, reco'.task = r,
         Trusted => /\ mem.status[r] = "none" => HeldBy(r) /\ ~Pending(r) /\ r \notin flying /\ ~Waits(r)
                    /\ reco'.at = "get" => mem.status[r] # "none"
                    /\ reco'.at \in {"task", "keyed"} => reco'.seen = mem.status[r]
                    /\ reco'.at = "probe" => mem.status[r] = "timeout"
                    /\ reco'.at \in {"lane", "proved"} => ~Busy(r)
  PROVE  RecoSound'
<1>1. SUFFICES ASSUME Trusted', reco'.at # "idle", NEW q, q = reco'.task
               PROVE  /\ mem'.status[q] = "none"
                           => HeldBy(q)' /\ ~Pending(q)' /\ q \notin flying' /\ ~Waits(q)'
                      /\ reco'.at = "get" => mem'.status[q] # "none"
                      /\ reco'.at \in {"task", "keyed"} => (reco'.seen = "none" <=> mem'.status[q] = "none")
                      /\ reco'.at \in {"task", "keyed"} /\ reco'.seen \in Terminal => mem'.status[q] = reco'.seen
                      /\ reco'.at = "probe" => mem'.status[q] = "timeout"
                      /\ reco'.at \in {"lane", "proved"} => ~Busy(q)'
  BY DEF RecoSound, HeldBy, Pending, Waits, Busy, Works
<1>2. Trusted /\ mem' = mem /\ (Waits(r)' <=> Waits(r)) /\ (Works(r)' <=> Works(r)) /\ q = r
  BY <1>1, EngineStill
<1>3. (HeldBy(r)' <=> HeldBy(r)) /\ (Pending(r)' <=> Pending(r))
  BY DEF HeldBy, Pending
<1>4. Busy(r)' <=> Busy(r)
  BY <1>2 DEF Busy
<1>5. QED BY <1>2, <1>3, <1>4

\* What the reconciliation knows while it waits, when memory can be trusted.
LEMMA RecoKnows ==
  ASSUME LeaseInv, Trusted, reco.at # "idle", NEW r, r = reco.task
  PROVE  /\ r \in Reqs
         /\ mem.status[r] = "none" => HeldBy(r) /\ ~Pending(r) /\ r \notin flying /\ ~Waits(r)
         /\ reco.at = "get" => mem.status[r] # "none"
         /\ reco.at \in {"task", "keyed"} => (reco.seen = "none" <=> mem.status[r] = "none")
         /\ reco.at \in {"task", "keyed"} /\ reco.seen \in Terminal => mem.status[r] = reco.seen
         /\ reco.at = "probe" => mem.status[r] = "timeout"
         /\ reco.at \in {"lane", "proved"} => ~Busy(r)
  BY DEF LeaseInv, RecoSound, LaneInv, Named

\* A reconciliation that ends frees the slot of a task at rest or leaves it.
LEMMA RecoEnds ==
  ASSUME LeaseInv, UNCHANGED engineVars, UNCHANGED <<call, flying, codex, up>>,
         NEW r \in Reqs, reco' = NoReco,
         slot' = slot \/ (slot' = ReleasedBy(r) /\ (Trusted => ~Busy(r)))
  PROVE  LaneGood
<1>1. CASE slot' = slot
  BY <1>1, SlotStays, RecoGone, EngineStill DEF LaneGood
<1>2. CASE slot' # slot
  <2>1. HeldBy(r) /\ slot' = Free /\ (Trusted => ~Busy(r))
    BY <1>2 DEF ReleasedBy
  <2>2. QED BY <2>1, SlotFreed, RecoGone, EngineStill DEF LaneGood
<1>3. QED BY <1>1, <1>2

\* A reconciliation starts for a request that is not on its way.
LEMMA RecoStartSound ==
  ASSUME LeaseInv, RecoStart
  PROVE  LaneGood
<1>1. /\ UNCHANGED engineVars /\ UNCHANGED <<slot, call, flying, codex, up>>
      /\ slot.by = "z2c" /\ ~Pending(slot.task)
      /\ slot.bound \/ Settles(slot.task)
      /\ reco' = [at |-> IF slot.bound THEN "get" ELSE IF slot.marked THEN "key" ELSE "lane",
                  task |-> slot.task, seen |-> "none"]
  BY DEF RecoStart
<1>2. PICK r \in Reqs : r = slot.task
  BY <1>1 DEF LeaseInv, LaneInv, Named
<1>3. HeldBy(r)
  BY <1>1, <1>2 DEF HeldBy
<1>4. /\ reco'.task = r
      /\ reco'.at = (IF slot.bound THEN "get" ELSE IF slot.marked THEN "key" ELSE "lane")
  BY <1>1, <1>2
<1>5. Settles(r) => r \notin flying /\ ~Waits(r)
  <2>1. gate \in Seq(Reqs) /\ DOMAIN gate = 1..Len(gate)
    BY LenProperties DEF LeaseInv, LaneInv, EngineInv, TypeOK, EngineTypeOK
  <2>2. QED BY <2>1 DEF Settles, Contains, Waits
<1>6. ASSUME Trusted PROVE slot.bound => mem.status[r] # "none"
  BY <1>1, <1>2, <1>6 DEF LeaseInv, BoundKnown
<1>7. ASSUME Trusted, ~slot.marked PROVE ~Busy(r)
  BY <1>7 DEF LeaseInv, BusyHeld
<1>8. RecoSound'
  BY <1>1, <1>2, <1>3, <1>4, <1>5, <1>6, <1>7, RecoMoves
<1>9. SlotGood
  BY <1>1, SlotStays
<1>10. QED BY <1>1, <1>8, <1>9, EngineStill DEF LaneGood

\* The status of the task, as the engine has it, is brought back.
LEMMA RecoAskSound ==
  ASSUME LeaseInv, RecoAsk
  PROVE  LaneGood
<1>1. /\ UNCHANGED engineVars /\ UNCHANGED <<slot, call, flying, codex, up>>
      /\ reco.at \in {"get", "key"}
      /\ reco' = [reco EXCEPT !.at = IF @ = "get" THEN "task" ELSE "keyed",
                              !.seen = mem.status[reco.task]]
  BY DEF RecoAsk
<1>2. reco \in RecoType
  BY DEF LeaseInv, LaneInv, EngineInv, TypeOK, LaneTypeOK, RecoType
<1>3. PICK r \in Reqs : r = reco.task
  BY <1>1 DEF LeaseInv, LaneInv, Named
<1>4. reco'.task = r /\ reco'.seen = mem.status[r] /\ reco'.at \in {"task", "keyed"}
  BY <1>1, <1>2, <1>3 DEF RecoType
<1>5. RecoSound'
  BY <1>1, <1>3, <1>4, RecoKnows, RecoMoves
<1>6. SlotGood
  BY <1>1, SlotStays
<1>7. QED BY <1>1, <1>5, <1>6, EngineStill DEF LaneGood

\* The status of a bound task is applied to the slot as it is then.
LEMMA RecoTaskSound ==
  ASSUME LeaseInv, RecoTask
  PROVE  LaneGood
<1>1. UNCHANGED engineVars /\ UNCHANGED <<call, flying, codex, up>> /\ reco.at = "task"
  BY DEF RecoTask
<1>2. reco \in RecoType
  BY DEF LeaseInv, LaneInv, EngineInv, TypeOK, LaneTypeOK, RecoType
<1>3. PICK r \in Reqs : r = reco.task
  BY <1>1 DEF LeaseInv, LaneInv, Named
<1>4. CASE reco' = [reco EXCEPT !.at = "probe"] /\ UNCHANGED slot /\ reco.seen = "timeout"
  <2>1. reco'.task = r /\ reco'.at = "probe"
    BY <1>2, <1>3, <1>4 DEF RecoType
  <2>2. Trusted => mem.status[r] = "timeout"
    BY <1>1, <1>3, <1>4, RecoKnows DEF Terminal
  <2>3. RecoSound'
    BY <1>1, <1>3, <1>4, <2>1, <2>2, RecoMoves
  <2>4. QED BY <1>1, <1>4, <2>3, SlotStays, EngineStill DEF LaneGood
<1>5. CASE reco' = NoReco /\ slot' = IF Proves(reco.seen) THEN ReleasedBy(reco.task) ELSE slot
  <2>1. ASSUME Trusted, Proves(reco.seen) PROVE ~Busy(r)
    <3>1. mem.status[r] = reco.seen
      BY <1>1, <1>3, <2>1, RecoKnows DEF Proves
    <3>2. QED BY <2>1, <3>1, ProvesRest
  <2>2. slot' = slot \/ (slot' = ReleasedBy(r) /\ (Trusted => ~Busy(r)))
    BY <1>3, <1>5, <2>1
  <2>3. QED BY <1>1, <1>5, <2>2, RecoEnds
<1>6. QED BY <1>4, <1>5 DEF RecoTask

\* The status of a task found by its key is applied to the slot as it is then.
LEMMA RecoKeyedSound ==
  ASSUME LeaseInv, RecoKeyed
  PROVE  LaneGood
<1>1. UNCHANGED engineVars /\ UNCHANGED <<call, flying, codex, up>> /\ reco.at = "keyed"
  BY DEF RecoKeyed
<1>2. reco \in RecoType /\ slot \in SlotType
  BY DEF LeaseInv, LaneInv, EngineInv, TypeOK, LaneTypeOK, RecoType, SlotType
<1>3. PICK r \in Reqs : r = reco.task
  BY <1>1 DEF LeaseInv, LaneInv, Named
<1>4. CASE reco.seen = "none" /\ reco' = [reco EXCEPT !.at = "lane"] /\ UNCHANGED slot
  <2>1. reco'.task = r /\ reco'.at = "lane"
    BY <1>2, <1>3, <1>4 DEF RecoType
  <2>2. ASSUME Trusted
        PROVE  mem.status[r] = "none" /\ HeldBy(r) /\ ~Pending(r) /\ r \notin flying /\ ~Waits(r)
    BY <1>1, <1>3, <1>4, <2>2, RecoKnows
  <2>3. ASSUME Trusted PROVE ~Busy(r)
    <3>1. mem = disk
      <4>1. NothingLost
        BY <2>3, TrustMeans
      <4>2. QED BY <4>1 DEF NothingLost, LeaseInv, EngineSound, LaneInv, EngineInv, WriteThrough
    <3>2. ~turn[r]
      BY <2>2, <2>3, <3>1 DEF LeaseInv, EngineSound, LaneInv, EngineInv, SentIsBegun, Begun
    <3>3. QED BY <2>2, <2>3, <3>2 DEF Busy, Works
  <2>4. RecoSound'
    BY <1>1, <1>3, <1>4, <2>1, <2>2, <2>3, RecoMoves
  <2>5. QED BY <1>1, <1>4, <2>4, SlotStays, EngineStill DEF LaneGood
<1>5. CASE /\ reco.seen # "none" /\ reco' = NoReco
           /\ slot' = IF Proves(reco.seen) THEN ReleasedBy(reco.task)
                      ELSE IF HeldBy(reco.task) /\ ~slot.bound THEN Bound ELSE slot
  <2>1. CASE Proves(reco.seen)
    <3>1. Trusted => mem.status[r] = reco.seen
      BY <1>1, <1>3, <2>1, RecoKnows DEF Proves
    <3>2. Trusted => ~Busy(r)
      BY <2>1, <3>1, ProvesRest
    <3>3. QED BY <1>1, <1>3, <1>5, <2>1, <3>2, RecoEnds
  <2>2. CASE ~Proves(reco.seen) /\ slot' = slot
    BY <1>1, <1>3, <1>5, <2>2, RecoEnds
  <2>3. CASE HeldBy(r) /\ slot' = Bound
    <3>1. Trusted => mem.status[r] # "none"
      BY <1>1, <1>3, <1>5, RecoKnows
    <3>2. SlotGood
      BY <1>1, <1>2, <2>3, <3>1, SlotGrows
    <3>3. QED BY <1>1, <1>5, <3>2, RecoGone, EngineStill DEF LaneGood
  <2>4. QED BY <1>3, <1>5, <2>1, <2>2, <2>3
<1>6. QED BY <1>4, <1>5 DEF RecoKeyed

\* The last proofs, the release on them, and giving up.
LEMMA RecoLastSound ==
  ASSUME LeaseInv, RecoProof \/ RecoRelease \/ RecoGivesUp
  PROVE  LaneGood
<1>1. UNCHANGED engineVars /\ UNCHANGED <<call, flying, codex, up>> /\ reco.at # "idle"
  BY DEF RecoProof, RecoRelease, RecoGivesUp
<1>2. reco \in RecoType
  BY DEF LeaseInv, LaneInv, EngineInv, TypeOK, LaneTypeOK, RecoType
<1>3. PICK r \in Reqs : r = reco.task
  BY <1>1 DEF LeaseInv, LaneInv, Named
<1>4. CASE RecoProof
  <2>1. reco'.task = r /\ reco'.at = "proved" /\ UNCHANGED slot
    BY <1>2, <1>3, <1>4 DEF RecoType, RecoProof
  <2>2. ASSUME Trusted PROVE ~Busy(r)
    <3>1. CASE reco.at = "lane"
      BY <1>3, <2>2, <3>1, RecoKnows
    <3>2. CASE reco.at = "probe" /\ ~turn[r]
      <4>1. mem.status[r] = "timeout"
        BY <1>3, <2>2, <3>2, RecoKnows
      <4>2. QED BY <3>2, <4>1 DEF Busy, Works
    <3>3. QED BY <1>3, <1>4, <3>1, <3>2 DEF RecoProof
  <2>3. RecoSound'
    BY <1>1, <1>3, <2>1, <2>2, RecoKnows, RecoMoves
  <2>4. QED BY <1>1, <2>1, <2>3, SlotStays, EngineStill DEF LaneGood
<1>5. CASE RecoRelease
  <2>1. reco.at = "proved" /\ slot' = ReleasedBy(r) /\ reco' = NoReco
    BY <1>3, <1>5 DEF RecoRelease
  <2>2. Trusted => ~Busy(r)
    BY <1>3, <2>1, RecoKnows
  <2>3. QED BY <1>1, <2>1, <2>2, RecoEnds
<1>6. CASE RecoGivesUp
  <2>1. slot' = slot /\ reco' = NoReco
    BY <1>6 DEF RecoGivesUp
  <2>2. QED BY <1>1, <1>3, <2>1, RecoEnds
<1>7. QED BY <1>4, <1>5, <1>6

\* The codex lane works under its lease and gives it back when its turn is over.
LEMMA CodexSound ==
  ASSUME LeaseInv, CodexRuns \/ CodexEnds \/ CodexReleases
  PROVE  LaneGood
<1>1. UNCHANGED engineVars /\ UNCHANGED <<call, flying, reco, up>> /\ codex # "no"
  BY DEF CodexRuns, CodexEnds, CodexReleases
<1>2. crashes' = crashes /\ faults' = faults
  BY <1>1 DEF engineVars
<1>3. up /\ slot.by = "codex" /\ ~slot.old
  BY <1>1 DEF LeaseInv, SlotSound
<1>4. Holder = "codex" /\ "codex" \notin Reqs /\ "codex" # None
  BY <1>3, OwnersDiffer DEF Holder
<1>5. Trusted => \A r \in Reqs : ~Busy(r)
  BY <1>3 DEF LeaseInv, BusyHeld, HeldBy
<1>6. \A r \in Reqs : ~Works(r) /\ ~Works(r)'
  BY <1>1, <1>5, EngineStill DEF Busy, Works
<1>7. /\ Working = (IF codex = "turn" THEN {"codex"} ELSE {})
      /\ Working' = (IF codex' = "turn" THEN {"codex"} ELSE {})
  BY <1>6, WorkingIs, WorkingNext DEF Workers
<1>8. ~Unknown
  BY <1>3, UnknownHeld DEF HeldBy
<1>9. RecoSound'
  BY <1>1, <1>8, RecoKept
<1>10. CASE CodexRuns \/ CodexEnds
  <2>1. slot' = slot /\ codex' \in {"turn", "over"}
    BY <1>10 DEF CodexRuns, CodexEnds
  <2>2. SlotSound'
    BY <1>1, <1>2, <1>3, <2>1 DEF LeaseInv, SlotSound, HeldBy
  <2>3. BusyHeld' /\ BoundKnown'
    BY <1>1, <1>3, <1>5, <2>1, EngineStill DEF BusyHeld, BoundKnown, Busy
  <2>4. Holder' = Holder
    BY <2>1 DEF Holder
  <2>5. LeaseStep
    <3>1. CASE CodexRuns
      BY <1>4, <1>7, <2>4, <3>1, LeaseMoves DEF CodexRuns
    <3>2. CASE CodexEnds
      BY <1>7, <2>4, <3>2, LeaseMoves DEF CodexEnds
    <3>3. QED BY <1>10, <3>1, <3>2
  <2>6. QED BY <1>1, <1>9, <2>2, <2>3, <2>5, EngineStill DEF LaneGood, SlotGood
<1>11. CASE CodexReleases
  <2>1. slot' = Free /\ codex' = "no" /\ codex = "over"
    BY <1>3, <1>11 DEF CodexReleases
  <2>2. slot'.by = "free" /\ ~slot'.old
    BY <2>1 DEF Free
  <2>3. SlotSound'
    BY <2>1, <2>2 DEF SlotSound, HeldBy
  <2>4. BusyHeld' /\ BoundKnown'
    BY <1>1, <1>5, <2>2, EngineStill DEF BusyHeld, BoundKnown, Busy
  <2>5. Holder' = None
    BY <2>2 DEF Holder
  <2>6. LeaseStep
    BY <1>4, <1>7, <2>1, <2>5, LeaseMoves
  <2>7. QED BY <1>1, <1>9, <2>3, <2>4, <2>6, EngineStill DEF LaneGood, SlotGood
<1>12. QED BY <1>1, <1>10, <1>11

\* A bridge that starts drops the lease of an earlier boot or of the codex lane.
LEMMA BridgeStartSound ==
  ASSUME LeaseInv, BridgeStart
  PROVE  LaneGood
<1>1. /\ UNCHANGED engineVars /\ UNCHANGED <<call, flying, reco, codex>>
      /\ ~up /\ up' = TRUE /\ slot' = Cleared
  BY DEF BridgeStart
<1>2. codex = "no" /\ crashes' = crashes /\ faults' = faults
  BY <1>1 DEF LeaseInv, SlotSound, engineVars
<1>3. CASE slot' = slot /\ ~slot.old /\ slot.by # "codex"
  <2>1. SlotSound'
    BY <1>1, <1>2, <1>3 DEF LeaseInv, SlotSound, HeldBy
  <2>2. BusyHeld' /\ BoundKnown'
    BY <1>1, <1>3, EngineStill DEF LeaseInv, BusyHeld, BoundKnown, Busy, HeldBy
  <2>3. LeaseStep
    BY <1>1, <1>3, EngineStill DEF LeaseStep, Holder
  <2>4. RecoSound'
    BY <1>1, <1>3, RecoKept
  <2>5. QED BY <1>1, <2>1, <2>2, <2>3, <2>4, EngineStill DEF LaneGood, SlotGood
<1>4. CASE slot' = Free /\ (slot.old \/ slot.by = "codex")
  <2>1. slot'.by = "free" /\ ~slot'.old
    BY <1>4 DEF Free
  <2>2. Trusted => ~slot.old
    <3>1. Trusted => ("reboot" \in faults => crashes = 0)
      BY TrustMeans DEF NothingLost
    <3>2. crashes \in Nat
      BY DEF LeaseInv, LaneInv, EngineInv, TypeOK, EngineTypeOK
    <3>3. QED BY <3>1, <3>2 DEF LeaseInv, SlotSound
  <2>3. Trusted => \A r \in Reqs : ~HeldBy(r)
    BY <1>4, <2>2 DEF HeldBy
  <2>4. Trusted => \A r \in Reqs : ~Busy(r)
    BY <2>3 DEF LeaseInv, BusyHeld
  <2>5. Working = {} /\ Working' = Working
    BY <1>1, <1>2, <2>3, NoWork, EngineStill
  <2>6. Holder' = None
    BY <2>1 DEF Holder
  <2>7. LeaseStep
    <3>1. CASE Holder = None
      BY <2>5, <2>6, <3>1 DEF LeaseStep
    <3>2. CASE Holder # None
      BY <2>5, <2>6, <3>2, LeaseMoves
    <3>3. QED BY <3>1, <3>2
  <2>8. SlotSound'
    BY <1>1, <1>2, <2>1 DEF SlotSound, HeldBy
  <2>9. BusyHeld' /\ BoundKnown'
    BY <1>1, <2>1, <2>4, EngineStill DEF BusyHeld, BoundKnown, Busy
  <2>10. ~Unknown
    BY <2>3, UnknownHeld DEF Unknown
  <2>11. RecoSound'
    BY <1>1, <2>10, RecoKept
  <2>12. QED BY <1>1, <2>7, <2>8, <2>9, <2>11, EngineStill DEF LaneGood, SlotGood
<1>5. QED BY <1>1, <1>2, <1>3, <1>4 DEF Cleared

\* The bridge goes down: what runs goes on under the lease it has, or the whole
\* machine stops; a slot file may be left torn where the slot was free.
LEMMA LaneDownSound ==
  ASSUME LeaseInv, BridgeCrash \/ Reboot \/ \E r \in Reqs : TornReserve(r)
  PROVE  LaneGood
<1>1. /\ crashes' = crashes + 1 /\ up' = FALSE /\ reco' = NoReco /\ codex' = "no"
      /\ call' = [r \in Reqs |-> IF Pending(r) THEN "failed" ELSE call[r]]
      /\ UNCHANGED <<disk, sent, order, reply, faults>> /\ up
  BY DEF BridgeCrash, Reboot, TornReserve, BridgeDown
<1>2. crashes \in Nat
  BY DEF LeaseInv, LaneInv, EngineInv, TypeOK, EngineTypeOK
<1>3. \A r \in Reqs : call'[r] # "project"
  BY <1>1 DEF Pending
<1>4. RecoSound'
  BY <1>1, RecoGone
<1>5. Trusted' <=> NothingLost'
  BY TrustMeans, PTL
<1>6. CASE BridgeCrash \/ \E r \in Reqs : TornReserve(r)
  <2>1. UNCHANGED <<disk, mem, healthy, alive, gate, asking, pump, turn, sent, order, reply, faults, flying>>
    BY <1>6 DEF BridgeCrash, TornReserve
  <2>2. Trusted' => Trusted
    BY <1>1, <1>2, <1>5, <2>1, TrustMeans DEF NothingLost
  <2>3. EngineSound' /\ StatusTruth'
    <3>1. EngineSound'
      BY <2>1 DEF LeaseInv, EngineSound
    <3>2. StatusTruth'
      BY <2>1, <2>2 DEF LeaseInv, StatusTruth
    <3>3. QED BY <3>1, <3>2
  <2>4. \A r \in Reqs : /\ Works(r)' => Works(r)
                        /\ Trusted' /\ Busy(r)' => Busy(r)
    BY <2>1, <2>2 DEF Works, Busy, Waits
  <2>5. CASE BridgeCrash
    <3>1. slot' = slot
      BY <2>5 DEF BridgeCrash
    <3>2. SlotSound'
      BY <1>1, <1>2, <1>3, <3>1 DEF LeaseInv, SlotSound
    <3>3. BusyHeld' /\ BoundKnown'
      BY <2>1, <2>2, <2>4, <3>1 DEF LeaseInv, BusyHeld, BoundKnown, HeldBy
    <3>4. Holder' = Holder /\ Working' \subseteq Working
      BY <1>1, <2>4, <3>1, WorkingIs, WorkingNext DEF Holder, Workers
    <3>5. LeaseStep
      BY <3>4, LeaseMoves
    <3>6. QED BY <1>4, <2>3, <3>2, <3>3, <3>5 DEF LaneGood, SlotGood
  <2>6. CASE \E r \in Reqs : TornReserve(r)
    <3>1. slot' = Torn /\ codex = "no" /\ Cleared.by = "free"
      BY <2>6 DEF TornReserve
    <3>2. Holder = None /\ Working = {} /\ (Trusted => \A r \in Reqs : ~Busy(r))
      BY <1>1, <3>1, SlotIsFree
    <3>3. slot'.by = "torn" /\ ~slot'.old
      BY <3>1 DEF Torn, Free
    <3>4. SlotSound'
      BY <1>1, <1>3, <3>3 DEF SlotSound
    <3>5. BusyHeld' /\ BoundKnown'
      BY <2>2, <2>4, <3>2, <3>3 DEF BusyHeld, BoundKnown
    <3>6. Holder' = "torn"
      BY <3>3 DEF Holder
    <3>7. Working' = Working
      <4>1. \A r \in Reqs : ~Works(r)
        BY <3>2, WorkingIs DEF Workers
      <4>2. QED BY <1>1, <2>4, <3>2, <4>1, WorkingNext
    <3>8. LeaseStep
      BY <3>2, <3>6, <3>7, LeaseMoves
    <3>9. QED BY <1>4, <2>3, <3>4, <3>5, <3>8 DEF LaneGood, SlotGood
  <2>7. QED BY <1>6, <2>5, <2>6
<1>7. CASE Reboot
  <2>1. /\ "reboot" \in faults /\ alive' = FALSE /\ healthy' = TRUE /\ gate' = <<>> /\ pump' = Idle
        /\ turn' = [r \in Reqs |-> FALSE]
        /\ slot' = IF slot.by = "free" THEN slot ELSE [slot EXCEPT !.old = slot.by # "torn"]
    BY <1>7 DEF Reboot
  <2>2. ~Trusted'
    BY <1>1, <1>2, <1>5, <2>1 DEF NothingLost
  <2>3. EngineSound'
    BY <2>1 DEF EngineSound, Idle
  <2>4. StatusTruth' /\ BusyHeld' /\ BoundKnown'
    BY <2>2 DEF StatusTruth, BusyHeld, BoundKnown
  <2>5. slot \in SlotType
    BY DEF LeaseInv, LaneInv, EngineInv, TypeOK, LaneTypeOK, SlotType
  <2>6. slot'.by = slot.by /\ slot'.task = slot.task
    BY <2>1, <2>5 DEF SlotType
  <2>7. SlotSound'
    BY <1>1, <1>2, <1>3, <2>1 DEF SlotSound
  <2>8. Holder' = Holder
    BY <2>6 DEF Holder
  <2>9. Working' \subseteq Working
    BY <1>1, <2>1, WorkingNext DEF Works
  <2>10. LeaseStep
    BY <2>8, <2>9, LeaseMoves
  <2>11. QED BY <1>4, <2>3, <2>4, <2>7, <2>10 DEF LaneGood, SlotGood
<1>8. QED BY <1>6, <1>7
-----------------------------------------------------------------------------
(* The whole lane *)

\* Init establishes the invariant, with a lease nobody has.
LEMMA InitLease ==
  ASSUME Init
  PROVE  LeaseInv /\ Lease!Init
<1>1. LaneInv
  BY InitInv
<1>2. /\ disk = EmptyState /\ mem = EmptyState /\ healthy = TRUE /\ alive = TRUE /\ gate = <<>>
      /\ pump = Idle /\ crashes = 0 /\ turn = [r \in Reqs |-> FALSE]
      /\ reply = [r \in Reqs |-> "none"]
      /\ slot = Free /\ call = [r \in Reqs |-> "idle"] /\ flying = {} /\ reco = NoReco
      /\ codex = "no" /\ up = TRUE
  BY DEF Init, EngineInit, LaneInit
<1>3. \A r \in Reqs : mem.status[r] = "none" /\ ~turn[r] /\ reply[r] = "none" /\ call[r] = "idle"
  BY <1>2 DEF EmptyState
<1>4. slot.by = "free" /\ ~slot.old
  BY <1>2 DEF Free
<1>5. pump.at = "idle" /\ reco.at = "idle"
  BY <1>2 DEF Idle, NoReco
<1>6. \A r \in Reqs : ~Busy(r)
  BY <1>2, <1>3 DEF Busy, Works, Waits
<1>7. SlotSound
  BY <1>2, <1>3, <1>4 DEF SlotSound
<1>8. EngineSound /\ StatusTruth
  BY <1>2, <1>3, <1>5 DEF EngineSound, StatusTruth, Terminal
<1>9. BusyHeld /\ BoundKnown /\ RecoSound
  BY <1>4, <1>5, <1>6 DEF BusyHeld, BoundKnown, RecoSound
<1>10. LeaseInv
  BY <1>1, <1>7, <1>8, <1>9 DEF LeaseInv
<1>11. Working = {}
  BY <1>2, <1>6, <1>10, NoWork
<1>12. Lease!Init
  BY <1>4, <1>11 DEF Lease!Init, Holder
<1>13. QED BY <1>10, <1>12

\* A step of the engine is one that writes, dies, sends, answers or waits.
LEMMA EngineStepMoves ==
  ASSUME LeaseInv, Sound, EngineStep, UNCHANGED laneVars
  PROVE  EngineMoves
<1>1. EngineInv
  BY DEF LeaseInv, LaneInv
<1>2. Writes \/ Dies \/ Sends \/ Answers \/ Waited
  <2>1. CASE \/ Admit \/ Finish \/ (\E r \in Reqs : CancelTask(r)) \/ (\E p \in BOOLEAN : SetPaused(p))
             \/ Crash \/ Restart
    BY <1>1, <2>1, WritesOrDies
  <2>2. CASE \/ Replay \/ Refuse \/ Ask \/ Send \/ NotSent \/ TurnTimeout
             \/ (\E r \in Reqs : TurnEnds(r))
    BY <1>1, <2>2, QuietKinds
  <2>3. QED BY <2>1, <2>2 DEF EngineStep
<1>3. UNCHANGED <<slot, call, reco, codex, up, flying>>
  BY DEF laneVars
<1>4. QED BY <1>2, <1>3 DEF EngineMoves

\* Every step keeps the invariant and is a step of the lease.
LEMMA NextLease ==
  LeaseInv /\ [Next]_vars => LeaseInv' /\ [Lease!Next]_(Lease!vars)
<1>1. SUFFICES ASSUME LeaseInv, [Next]_vars
               PROVE  LeaseInv' /\ LeaseStep
  BY DEF LeaseStep, Lease!vars
<1>2. LaneInv' /\ Sound
  BY <1>1, NextInv DEF LeaseInv
<1>3. ASSUME EngineMoves PROVE LeaseInv' /\ LeaseStep
  <2>1. /\ SlotSound' /\ EngineSound' /\ StatusTruth' /\ BusyHeld' /\ BoundKnown' /\ RecoSound'
        /\ LeaseStep
    BY <1>1, <1>3, EngineMovesSound
  <2>2. QED BY <1>2, <2>1 DEF LeaseInv
<1>4. ASSUME LaneGood PROVE LeaseInv' /\ LeaseStep
  BY <1>2, <1>4 DEF LaneGood, SlotGood, LeaseInv
<1>5. CASE EngineStep /\ UNCHANGED laneVars
  <2>1. EngineMoves
    BY <1>1, <1>2, <1>5, EngineStepMoves
  <2>2. QED BY <1>3, <2>1
<1>6. CASE LaneStep
  <2>1. ASSUME NEW r \in Reqs, Arrive(r) PROVE EngineMoves
    BY <1>2, <2>1 DEF Arrive, Arrives, EngineMoves
  <2>2. ASSUME NEW r \in Reqs,
               \/ Reserve(r) \/ FailsBeforeDispatch(r) \/ Dispatch(r) \/ Lost(r)
               \/ Answered(r) \/ AnswerLost(r) \/ Observe(r)
        PROVE  LaneGood
    BY <1>1, <2>2, ReserveSound, FailsBeforeDispatchSound, DispatchSound, LossSound,
       AnsweredSound, ObserveSound
  <2>3. ASSUME \/ RecoStart \/ RecoAsk \/ RecoTask \/ RecoKeyed \/ RecoProof \/ RecoRelease
               \/ RecoGivesUp
        PROVE  LaneGood
    BY <1>1, <2>3, RecoStartSound, RecoAskSound, RecoTaskSound, RecoKeyedSound, RecoLastSound
  <2>4. ASSUME CodexTakes \/ CodexRuns \/ CodexEnds \/ CodexReleases PROVE LaneGood
    BY <1>1, <2>4, CodexTakesSound, CodexSound
  <2>5. ASSUME BridgeCrash \/ Reboot \/ BridgeStart \/ \E r \in Reqs : TornReserve(r)
        PROVE  LaneGood
    BY <1>1, <2>5, LaneDownSound, BridgeStartSound
  <2>6. QED BY <1>3, <1>4, <1>6, <2>1, <2>2, <2>3, <2>4, <2>5 DEF LaneStep
<1>7. CASE UNCHANGED vars
  <2>1. UNCHANGED engineVars /\ UNCHANGED <<slot, call, flying, reco, codex, up>>
    BY <1>7 DEF vars, laneVars
  <2>2. SlotGood
    BY <1>1, <2>1, SlotStays
  <2>3. RecoSound'
    BY <1>1, <2>1, RecoKept
  <2>4. LaneGood
    BY <1>1, <2>1, <2>2, <2>3, EngineStill DEF LaneGood
  <2>5. QED BY <1>4, <2>4
<1>8. QED BY <1>1, <1>5, <1>6, <1>7 DEF Next

\* The lane keeps the lease of WriterLease: the slot is taken only when it is
\* free, given back only when its holder does not work, and a turn whose end the
\* engine has not declared runs only under it.  This holds for any number of
\* requests, dispatches, crashes and any mix of faults the engine can vouch for.
THEOREM LaneKeepsLease == Spec => LeaseSpec
<1>1. Init => LeaseInv /\ Lease!Init
  BY InitLease
<1>2. QED BY <1>1, NextLease, PTL DEF Spec, LeaseSpec, Lease!Spec

\* So two writers never work in one workspace while the engine can be trusted
\* with what it says of them.
THEOREM OneWriterWorks == Spec => []Lease!Exclusive
<1>1. LeaseInv => Lease!Exclusive
  <2>1. SUFFICES ASSUME LeaseInv PROVE \A o \in Working : o = Holder /\ o # None
    BY SMT DEF Lease!Exclusive
  <2>2. ASSUME NEW r \in Reqs, Works(r) PROVE r = Holder /\ r # None
    <3>1. HeldBy(r)
      BY <2>1, <2>2 DEF LeaseInv, BusyHeld, Busy, Works
    <3>2. QED BY <3>1, WorkingIs, EngineConstants
  <2>3. ASSUME codex = "turn" PROVE "codex" = Holder /\ "codex" # None
    BY <2>1, <2>3, OwnersDiffer DEF LeaseInv, SlotSound, Holder
  <2>4. QED BY <2>2, <2>3, WorkingIs DEF Workers
<1>2. QED BY <1>1, InitLease, NextLease, PTL DEF Spec
=============================================================================
