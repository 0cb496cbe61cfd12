----------------------------- MODULE WriterLease -----------------------------
(* What the workspace slot promises: one lease, taken only when it is free,   *)
(* given back only when its holder's turn does not run, and turns that begin  *)
(* only under the lease.                                                      *)
EXTENDS TLAPS

CONSTANTS Owners, None

VARIABLES holder, working

vars == <<holder, working>>

Init == holder = None /\ working = {}

Acquire(o) == /\ holder = None
              /\ holder' = o
              /\ UNCHANGED working
Begin(o) == /\ holder = o
            /\ working' = working \cup {o}
            /\ UNCHANGED holder
End == /\ working' \in SUBSET working
       /\ UNCHANGED holder
Release == /\ holder # None
           /\ holder \notin working
           /\ holder' = None
           /\ UNCHANGED working

Next == \/ \E o \in Owners \ {None} : Acquire(o) \/ Begin(o)
        \/ End \/ Release

Spec == Init /\ [][Next]_vars
-----------------------------------------------------------------------------
(* Whoever works holds the lease, so at most one owner works.                 *)
Exclusive == working \subseteq {holder} \ {None}

(* The initial states give nobody the lease and let nobody work.              *)
LEMMA InitExclusive == Init => Exclusive
  BY SMT DEF Init, Exclusive

(* No step lets an owner work without the lease: the lease is taken when      *)
(* nobody works, and given back only by a holder that stopped.                *)
LEMMA StepExclusive == Exclusive /\ [Next]_vars => Exclusive'
<1> SUFFICES ASSUME Exclusive, [Next]_vars PROVE Exclusive'
  OBVIOUS
<1>1. ASSUME NEW o \in Owners \ {None}, Acquire(o) PROVE Exclusive'
  BY <1>1, SMT DEF Acquire, Exclusive
<1>2. ASSUME NEW o \in Owners \ {None}, Begin(o) PROVE Exclusive'
  BY <1>2, SMT DEF Begin, Exclusive
<1>3. CASE End
  BY <1>3, SMT DEF End, Exclusive
<1>4. CASE Release
  BY <1>4, SMT DEF Release, Exclusive
<1>5. CASE UNCHANGED vars
  BY <1>5, SMT DEF vars, Exclusive
<1> QED
  BY <1>1, <1>2, <1>3, <1>4, <1>5 DEF Next

(* At most one owner works, and it holds the slot (execution/slot.ts).        *)
THEOREM LeaseIsExclusive == Spec => []Exclusive
<1> QED
  BY InitExclusive, StepExclusive, PTL DEF Spec
=============================================================================
