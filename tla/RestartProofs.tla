------------------------------ MODULE RestartProofs -----------------------------
(* The restart hand-off (Restart) for any number of requests, deaths and      *)
(* refusals. RecordInv is kept by every step. HandOffInv is kept where every  *)
(* rename of a reclaim hits the lock of the request it reclaims               *)
(* (KeepsNewerLocks), and gives FencedNeverActs and OneHelperActs. CrossInv   *)
(* is kept by every step until a launch failed among three requests           *)
(* (Crossed): while no launch failed by LockInv, and while two requests asked *)
(* by TokenSent. It gives HandOffSafe, for RestartSpec as it stands.          *)
EXTENDS Restart, TLAPS

(* The values of a record and of a lock, and the places of the askers and     *)
(* the helpers, grouped by what has happened so far: Unsent before the        *)
(* request is published, Judging while the record of another request is       *)
(* reclaimed, Claiming with the claim held, Working with the lock in use,     *)
(* Saving where records are written.                                          *)
HandoffStates == Ended \cup {"requested", "stopping", "starting"}
Handoffs == [id: Requests \cup {NoRequest}, helper: BOOLEAN, state: HandoffStates,
             error: {"none", "LAUNCH_FAILED", "OTHER"}, old: Nat, new: Nat]
LockDirs == [by: Requests \cup {NoRequest}, token: Requests \cup {NoRequest},
             claims: SUBSET Requests, fresh: BOOLEAN]
Judging == {"proves", "fences", "fenced", "renames", "unfences"}
Unsent == {"asks", "made", "owns", "finds", "reclaimed", "joined"} \cup Judging
AskerPlaces ==
  Unsent \cup {"valid", "launches", "returned", "clears", "rmdir", "refused", "dead"}
Saving ==
  {"checks", "looks", "stops", "stopped", "ensures", "observes", "finishes", "confirms"}
Claiming == {"claimed", "names", "releases", "unclaims"} \cup Saving
Working == {"starts", "claims"} \cup Claiming
ActingPlaces == {"names", "releases"} \cup Saving
HelperPlaces == Working \cup {"none", "rmdir", "done", "dead"}

PlacesTyped ==
  /\ age \in [Requests -> {"new", "graced", "expired"}]
  /\ asker \in [Requests -> AskerPlaces] /\ fencing \in [Requests -> BOOLEAN]
  /\ helper \in [Requests -> HelperPlaces]
LockTyped == lockDir \in LockDirs /\ quarantine \subseteq Requests
RecordsTyped ==
  /\ bridges \in 1..MaxBridges /\ running \in 0..bridges
  /\ handoff \in Handoffs /\ handoff.new <= bridges
  /\ seen \in [Requests -> Handoffs] /\ \A q \in Requests : seen[q].new <= bridges
  /\ own \in [Requests -> Handoffs]
  /\ \A q \in Requests : own[q].new <= bridges /\ own[q].id \in {q, NoRequest}
HandOffTypes == PlacesTyped /\ LockTyped /\ RecordsTyped

(* No helper will ever come of the request, the one it had is gone, or its    *)
(* start is too old for a helper to claim it.                                 *)
Unlaunched(q) == helper[q] = "none" /\ asker[q] \in {"clears", "rmdir", "refused", "dead"}
Gone(q) == helper[q] \in {"dead", "done"}
TooLate(q) == age[q] # "new" \/ Unlaunched(q) \/ Gone(q)

(* What every step keeps. A helper runs only for an asker that returned, the  *)
(* identity of a request is unknown until its record is written, a record of  *)
(* LAUNCH_FAILED is true, a helper writes over its own record, and a reclaim  *)
(* goes on only for a request that is too late.                               *)
Launched == \A q \in Requests : helper[q] # "none" => asker[q] = "returned"
Unpublished ==
  \A q \in Requests : asker[q] \in Unsent =>
    q \notin quarantine /\ handoff.id # q /\ \A x \in Requests : seen[x].id # q
Truthful(h) ==
  h # NoHandoff =>
    /\ h.id \in Requests
    /\ h.state = "complete" => h.helper
    /\ h.state = "failed" /\ ~h.helper /\ h.error = "LAUNCH_FAILED" => Unlaunched(h.id)
OwnTrue ==
  \A q \in Requests :
    /\ helper[q] \in {"claims", "claimed", "names"} =>
         own[q].id = q /\ own[q].state = "requested"
    /\ helper[q] \in Saving => own[q].id = q /\ own[q].helper
    /\ asker[q] \in {"valid", "launches"} => seen[q].id = q /\ seen[q].state = "requested"
Judged ==
  \A x \in Requests : asker[x] \in Judging =>
    /\ seen[x].id \in Requests /\ TooLate(seen[x].id)
    /\ seen[x].helper => Gone(seen[x].id)
    /\ asker[x] # "proves" => seen[x].helper \/ fencing[x]
(* A request whose lock may still be used, and which was not moved away: the  *)
(* lock has its token.                                                        *)
Expected(q) ==
  q \notin quarantine /\ (asker[q] \in {"valid", "launches"} \/ helper[q] \in Working)
TokensKept ==
  \A q \in Requests : asker[q] = "owns" \/ Expected(q) => lockDir.token = q
(* The reclaimer has put the claim of the request into the lock. The claim    *)
(* excludes the one of the helper, and those of other reclaimers.             *)
Holds(x, q) == asker[x] \in {"fenced", "renames", "unfences"} /\ fencing[x] /\ seen[x].id = q
ClaimsKept ==
  \A q \in Requests : Expected(q) =>
    /\ helper[q] \in Claiming => q \in lockDir.claims
    /\ \A x \in Requests : Holds(x, q) =>
         /\ q \in lockDir.claims /\ helper[q] \notin Claiming
         /\ \A y \in Requests : Holds(y, q) => y = x
(* The requests that were moved away are too late, and their helpers do not   *)
(* act.                                                                       *)
ReclaimsSettled ==
  \A q \in quarantine : TooLate(q) /\ helper[q] \notin ActingPlaces
RecordInv ==
  HandOffTypes /\ Launched /\ Unpublished /\ Truthful(handoff) /\ OwnTrue /\ Judged
HandOffInv == RecordInv /\ TokensKept /\ ClaimsKept /\ ReclaimsSettled

(* What the record of the request shows once its helper has written: the      *)
(* helper, or a failure.                                                      *)
Overtaken(q) ==
  handoff.id = q => handoff.helper \/ (handoff.state = "failed" /\ handoff.error = "OTHER")
(* A lock carries the token of the request that made it, or none. Who made    *)
(* it and did not hand it over is not named by any record.                    *)
LockNamed ==
  (lockDir = NoLockDir \/ lockDir.by \in Requests) /\ lockDir.token \in {lockDir.by, NoRequest}
Owning == {"made", "owns", "clears", "rmdir"}
LockOwned ==
  \A q \in Requests :
    /\ asker[q] \in Owning =>
         /\ lockDir.by = q /\ q \notin quarantine /\ handoff.id # q
         /\ \A x \in Requests : seen[x].id # q
    /\ asker[q] \in {"owns", "clears"} => lockDir.token = q
    /\ asker[q] \in {"made", "rmdir"} \/ helper[q] = "rmdir" =>
         lockDir.by = q /\ lockDir.token = NoRequest
(* A helper that acted is seen in the record, and a reclaim that is past its  *)
(* checks is about the lock of its request.                                   *)
SavesShow == \A q \in Requests : helper[q] \in Saving \cup {"releases", "rmdir"} => Overtaken(q)
ReclaimsOwn ==
  \A x, q \in Requests : asker[x] \in Judging /\ seen[x].id = q /\ q \notin quarantine =>
    /\ seen[x].helper \/ ~(seen[x].state = "failed" /\ seen[x].error = "OTHER")
    /\ asker[x] \in {"fences", "fenced"} => lockDir.by = q \/ (~seen[x].helper /\ Overtaken(q))
    /\ asker[x] = "renames" => lockDir.by = q /\ helper[q] # "rmdir"
LockInv == LockNamed /\ LockOwned /\ SavesShow /\ ReclaimsOwn

(* Every launch succeeds.                                                     *)
NoLaunchFails == \A r \in Requests : ~LaunchFails(r)

(* The steps of a helper between its claim and its release: it writes its     *)
(* own record, or moves on; meanwhile bridges come and go.                    *)
HelperWrites(r) ==
  \E h \in Handoffs, w \in Saving \cup {"releases"} :
    /\ helper[r] \in {"names"} \cup Saving
    /\ h.id = r /\ h.new = own[r].new
    /\ h.helper \/ (w = "releases" /\ h.state = "failed" /\ h.error = "OTHER")
    /\ own' = [own EXCEPT ![r] = h] /\ handoff' = h /\ helper' = [helper EXCEPT ![r] = w]
    /\ UNCHANGED <<lockDir, quarantine, age, askVars>>
HelperGoesOn(r) ==
  /\ helper[r] \in Saving
  /\ \E w \in Saving : helper' = [helper EXCEPT ![r] = w]
  /\ \/ UNCHANGED own
     \/ \E b \in Nat : b <= bridges' /\ own' = [own EXCEPT ![r].new = b]
  /\ UNCHANGED <<handoff, lockDir, quarantine, age, askVars>>
BridgesGo ==
  /\ bridges' \in Nat /\ bridges' >= bridges /\ bridges' <= MaxBridges
  /\ running' \in 0..bridges'

\* A record in another state is one, of the same request.
LEMMA StateTyped ==
  ASSUME NEW h \in Handoffs, NEW s \in HandoffStates
  PROVE  LET g == [h EXCEPT !.state = s] IN
         g \in Handoffs /\ g.id = h.id /\ g.new = h.new /\ g.helper = h.helper
BY SMT DEF Handoffs

\* A fresh record is one, of the request that makes it.
LEMMA FreshTyped ==
  ASSUME NEW r \in Requests \cup {NoRequest}, NEW o \in Nat
  PROVE  LET h == FreshHandoff(r, o) IN
         /\ h \in Handoffs /\ h.id = r /\ h.new = 0 /\ h.state = "requested" /\ ~h.helper
         /\ h.error = "none"
<1>1. FreshHandoff(r, o) \in Handoffs
  BY SMT DEF FreshHandoff, Handoffs, HandoffStates
<1>2. QED BY <1>1, SMT DEF FreshHandoff

\* The record that stands for none is one, of no request.
LEMMA NoHandoffTyped ==
  NoHandoff \in Handoffs /\ NoHandoff.id = NoRequest /\ NoHandoff.new = 0
<1> DEFINE f == FreshHandoff(NoRequest, 0)
<1>1. f \in Handoffs /\ f.id = NoRequest /\ f.new = 0
  BY FreshTyped, SMT
<1> HIDE DEF f
<1>2. NoHandoff = [f EXCEPT !.state = "complete"]
  BY DEF NoHandoff, f
<1>3. "complete" \in HandoffStates
  BY DEF HandoffStates, Ended
<1>4. /\ [f EXCEPT !.state = "complete"] \in Handoffs
      /\ [f EXCEPT !.state = "complete"].id = f.id /\ [f EXCEPT !.state = "complete"].new = f.new
  BY <1>1, <1>3, StateTyped, Zenon
<1>5. QED BY <1>1, <1>2, <1>4, Zenon

\* Writing LAUNCH_FAILED leaves a record of the same request.
LEMMA LaunchFailedTyped ==
  ASSUME NEW h \in Handoffs
  PROVE  LET g == LaunchFailed(h) IN
         g \in Handoffs /\ g.id = h.id /\ g.new = h.new /\ g.state = "failed"
<1>1. LaunchFailed(h) \in Handoffs
  BY Zenon DEF LaunchFailed, Handoffs, HandoffStates, Ended
<1>2. QED BY <1>1, SMT DEF LaunchFailed

\* Naming the helper leaves a record of the same request.
LEMMA NamedTyped ==
  ASSUME NEW h \in Handoffs
  PROVE  LET g == [h EXCEPT !.helper = TRUE] IN
         g \in Handoffs /\ g.id = h.id /\ g.new = h.new /\ g.helper
<1>1. [h EXCEPT !.helper = TRUE] \in Handoffs
  BY Zenon DEF Handoffs
<1>2. QED BY <1>1, SMT

\* The record of a failed restart is that of the request, with its helper.
LEMMA FailedTyped ==
  ASSUME RecordsTyped, NEW r \in Requests
  PROVE  LET g == Failed(r) IN
         /\ g \in Handoffs /\ g.id = own[r].id /\ g.new = own[r].new /\ g.helper = own[r].helper
         /\ g.state = "failed" /\ g.error = "OTHER"
<1>1. own[r] \in Handoffs
  BY DEF RecordsTyped
<1>2. Failed(r) \in Handoffs
  BY <1>1, Zenon DEF Failed, Handoffs, HandoffStates, Ended
<1>3. QED BY <1>2, SMT DEF Failed

\* Noting the new bridge changes nothing else of a record.
LEMMA NewTyped ==
  ASSUME NEW h \in Handoffs, NEW b \in Nat
  PROVE  LET g == [h EXCEPT !.new = b] IN
         g \in Handoffs /\ g.id = h.id /\ g.new = b /\ g.helper = h.helper
BY SMT DEF Handoffs

\* When a step is a write of the helper: a record of its own, that names it or failed.
LEMMA WritesWhen ==
  ASSUME NEW r \in Requests, NEW h \in Handoffs, NEW w \in Saving \cup {"releases"},
         helper[r] \in {"names"} \cup Saving, h.id = r, h.new = own[r].new,
         h.helper \/ (w = "releases" /\ h.state = "failed" /\ h.error = "OTHER"),
         own' = [own EXCEPT ![r] = h], handoff' = h, helper' = [helper EXCEPT ![r] = w],
         UNCHANGED <<lockDir, quarantine, age, askVars>>
  PROVE  HelperWrites(r)
BY Zenon DEF HelperWrites

\* Between its claim and its release a helper writes its own record or moves on.
LEMMA HelperWritesAre ==
  ASSUME RecordInv, NEW r \in Requests,
         HelperNames(r) \/ HelperChecks(r) \/ HelperLooks(r) \/ HelperStops(r)
           \/ HelperStarting(r) \/ HelperEnsures(r) \/ HelperObserves(r)
           \/ HelperFinishes(r) \/ HelperConfirms(r)
  PROVE  (HelperWrites(r) \/ HelperGoesOn(r)) /\ BridgesGo
<1> DEFINE W(h, w) ==
      /\ own' = [own EXCEPT ![r] = h] /\ handoff' = h /\ helper' = [helper EXCEPT ![r] = w]
      /\ UNCHANGED <<lockDir, quarantine, age, askVars>>
<1>1. /\ RecordsTyped /\ own[r] \in Handoffs
      /\ (helper[r] \in {"names"} \cup Saving => own[r].id = r)
      /\ (helper[r] \in Saving => own[r].helper)
  BY SMT DEF RecordsTyped, OwnTrue, RecordInv, HandOffTypes
<1>2. ASSUME helper[r] \in {"names"} \cup Saving, W(Failed(r), "releases")
      PROVE  HelperWrites(r)
  <2> DEFINE g == Failed(r)
  <2>1. g \in Handoffs /\ g.id = r /\ g.new = own[r].new /\ g.state = "failed" /\ g.error = "OTHER"
    BY <1>1, <1>2, FailedTyped, SMT
  <2> HIDE DEF g
  <2>2. W(g, "releases")
    BY <1>2 DEF g
  <2>3. QED BY <1>2, <2>1, <2>2, WritesWhen, Zenon
<1>3. ASSUME helper[r] \in Saving, NEW s \in HandoffStates, NEW w \in Saving \cup {"releases"},
             W([own[r] EXCEPT !.state = s], w)
      PROVE  HelperWrites(r)
  <2> DEFINE g == [own[r] EXCEPT !.state = s]
  <2>1. g \in Handoffs /\ g.id = r /\ g.new = own[r].new /\ g.helper
    BY <1>1, <1>3, StateTyped, SMT
  <2> HIDE DEF g
  <2>2. W(g, w)
    BY <1>3 DEF g
  <2>3. QED BY <1>3, <2>1, <2>2, WritesWhen, Zenon
<1>4. UNCHANGED bridges /\ (UNCHANGED running \/ running' = 0) => BridgesGo
  BY <1>1, SMT DEF BridgesGo, RecordsTyped
<1>5. CASE HelperNames(r)
  <2>1. ASSUME HelperSaves(r, [own[r] EXCEPT !.helper = TRUE], "checks")
        PROVE  HelperWrites(r)
    <3> DEFINE g == [own[r] EXCEPT !.helper = TRUE]
    <3>1. g \in Handoffs /\ g.id = r /\ g.new = own[r].new /\ g.helper
      BY <1>1, <1>5, NamedTyped, SMT DEF HelperNames
    <3> HIDE DEF g
    <3>2. W(g, "checks")
      BY <2>1, Zenon DEF g, HelperSaves, Saves, Helps
    <3>3. QED BY <1>5, <3>1, <3>2, WritesWhen, Zenon DEF HelperNames, Saving
  <2>2. ASSUME HelperFails(r)
        PROVE  HelperWrites(r)
    <3>1. W(Failed(r), "releases")
      BY <2>2, Zenon DEF HelperFails, HelperSaves, Saves, Helps
    <3>2. QED BY <1>2, <1>5, <3>1, Zenon DEF HelperNames
  <2>3. BridgesGo
    BY <1>4, <1>5, SMT DEF HelperNames, HelperFails, HelperSaves
  <2>4. QED BY <1>5, <2>1, <2>2, <2>3, SMT DEF HelperNames
<1>13. ASSUME helper[r] \in Saving, NEW w \in Saving, Helps(r, w),
              UNCHANGED <<lockVars, age, askVars, own>>
       PROVE  HelperGoesOn(r)
  <2>1. UNCHANGED <<handoff, lockDir, quarantine, age, askVars, own>>
    BY <1>13, Zenon DEF lockVars
  <2>2. QED BY <1>13, <2>1, Zenon DEF HelperGoesOn, Helps
<1>6. CASE HelperChecks(r)
  <2>1. ASSUME HelperMoves(r, "looks")
        PROVE  HelperGoesOn(r)
    BY <1>6, <1>13, <2>1, Zenon DEF HelperChecks, HelperMoves, Saving
  <2>2. ASSUME HelperFails(r)
        PROVE  HelperWrites(r)
    <3>1. W(Failed(r), "releases")
      BY <2>2, Zenon DEF HelperFails, HelperSaves, Saves, Helps
    <3>2. QED BY <1>2, <1>6, <3>1, Zenon DEF HelperChecks, Saving
  <2>3. BridgesGo
    BY <1>4, <1>6, SMT DEF HelperChecks, HelperFails, HelperSaves, HelperMoves
  <2>4. QED BY <1>6, <2>1, <2>2, <2>3, SMT DEF HelperChecks
<1>6a. CASE HelperLooks(r)
  <2>1. ASSUME HelperSaves(r, [own[r] EXCEPT !.state = "stopping"], "stops")
        PROVE  HelperWrites(r)
    <3>1. W([own[r] EXCEPT !.state = "stopping"], "stops")
      BY <2>1, Zenon DEF HelperSaves, Saves, Helps
    <3>2. QED BY <1>3, <1>6a, <3>1, Zenon DEF HelperLooks, Saving, HandoffStates
  <2>2. ASSUME HelperFails(r)
        PROVE  HelperWrites(r)
    <3>1. W(Failed(r), "releases")
      BY <2>2, Zenon DEF HelperFails, HelperSaves, Saves, Helps
    <3>2. QED BY <1>2, <1>6a, <3>1, Zenon DEF HelperLooks, Saving
  <2>3. BridgesGo
    BY <1>4, <1>6a, SMT DEF HelperLooks, HelperFails, HelperSaves
  <2>4. QED BY <1>6a, <2>1, <2>2, <2>3, SMT DEF HelperLooks
<1>7. CASE HelperStops(r)
  <2>1. ASSUME HelperFails(r)
        PROVE  HelperWrites(r)
    <3>1. W(Failed(r), "releases")
      BY <2>1, Zenon DEF HelperFails, HelperSaves, Saves, Helps
    <3>2. QED BY <1>2, <1>7, <3>1, Zenon DEF HelperStops, Saving
  <2>2. ASSUME HelperMoves(r, "stopped")
        PROVE  HelperGoesOn(r)
    BY <1>7, <1>13, <2>2, Zenon DEF HelperStops, HelperMoves, Saving
  <2>3. BridgesGo
    BY <1>4, <1>7, SMT DEF HelperStops, HelperFails, HelperSaves, HelperMoves
  <2>4. QED BY <1>7, <2>1, <2>2, <2>3, SMT DEF HelperStops
<1>8. CASE HelperStarting(r)
  <2>1. ASSUME HelperSaves(r, [own[r] EXCEPT !.state = "starting"], "ensures")
        PROVE  HelperWrites(r)
    <3>1. W([own[r] EXCEPT !.state = "starting"], "ensures")
      BY <2>1, Zenon DEF HelperSaves, Saves, Helps
    <3>2. QED BY <1>3, <1>8, <3>1, Zenon DEF HelperStarting, Saving, HandoffStates
  <2>2. ASSUME HelperFails(r)
        PROVE  HelperWrites(r)
    <3>1. W(Failed(r), "releases")
      BY <2>2, Zenon DEF HelperFails, HelperSaves, Saves, Helps
    <3>2. QED BY <1>2, <1>8, <3>1, Zenon DEF HelperStarting, Saving
  <2>3. BridgesGo
    BY <1>4, <1>8, SMT DEF HelperStarting, HelperFails, HelperSaves
  <2>4. QED BY <1>8, <2>1, <2>2, <2>3, SMT DEF HelperStarting
<1>9. CASE HelperEnsures(r)
  <2>1. BridgesGo
    <3>1. Spawn \/ UNCHANGED runVars
      BY <1>9, Zenon DEF HelperEnsures
    <3>2. QED BY <1>1, <3>1, RestartConstants, SMT DEF Spawn, runVars, BridgesGo,
                 RecordsTyped
  <2>2. ASSUME own' = [own EXCEPT ![r].new = running'] /\ Helps(r, "observes") /\ UNCHANGED handoff
        PROVE  HelperGoesOn(r)
    <3>1. running' \in Nat /\ running' <= bridges'
      BY <2>1, SMT DEF BridgesGo
    <3>2. helper[r] = "ensures" /\ UNCHANGED <<lockDir, quarantine, age, askVars>>
      BY <1>9, Zenon DEF HelperEnsures
    <3>3. helper' = [helper EXCEPT ![r] = "observes"]
      BY <2>2 DEF Helps
    <3>4. \E b \in Nat : b <= bridges' /\ own' = [own EXCEPT ![r].new = b]
      BY <2>2, <3>1, Zenon
    <3>5. QED BY <2>2, <3>2, <3>3, <3>4, Zenon DEF HelperGoesOn, Saving
  <2>3. ASSUME Saves(r, Failed(r)) /\ Helps(r, "releases")
        PROVE  HelperWrites(r)
    <3>1. W(Failed(r), "releases")
      BY <1>9, <2>3, Zenon DEF HelperEnsures, Saves, Helps
    <3>2. QED BY <1>2, <1>9, <3>1, Zenon DEF HelperEnsures, Saving
  <2>4. QED BY <1>9, <2>1, <2>2, <2>3, SMT DEF HelperEnsures
<1>10. CASE HelperObserves(r)
  <2>1. ASSUME HelperSaves(r, own[r], "finishes")
        PROVE  HelperWrites(r)
    <3>1. W(own[r], "finishes")
      BY <2>1, Zenon DEF HelperSaves, Saves, Helps
    <3>2. QED BY <1>1, <1>10, <3>1, WritesWhen, Zenon DEF HelperObserves, Saving
  <2>2. ASSUME HelperFails(r)
        PROVE  HelperWrites(r)
    <3>1. W(Failed(r), "releases")
      BY <2>2, Zenon DEF HelperFails, HelperSaves, Saves, Helps
    <3>2. QED BY <1>2, <1>10, <3>1, Zenon DEF HelperObserves, Saving
  <2>3. BridgesGo
    BY <1>4, <1>10, SMT DEF HelperObserves, HelperFails, HelperSaves
  <2>4. QED BY <1>10, <2>1, <2>2, <2>3, SMT DEF HelperObserves
<1>11. CASE HelperFinishes(r)
  <2>1. ASSUME HelperMoves(r, "confirms")
        PROVE  HelperGoesOn(r)
    BY <1>11, <1>13, <2>1, Zenon DEF HelperFinishes, HelperMoves, Saving
  <2>2. ASSUME HelperFails(r)
        PROVE  HelperWrites(r)
    <3>1. W(Failed(r), "releases")
      BY <2>2, Zenon DEF HelperFails, HelperSaves, Saves, Helps
    <3>2. QED BY <1>2, <1>11, <3>1, Zenon DEF HelperFinishes, Saving
  <2>3. BridgesGo
    BY <1>4, <1>11, SMT DEF HelperFinishes, HelperFails, HelperSaves, HelperMoves
  <2>4. QED BY <1>11, <2>1, <2>2, <2>3, SMT DEF HelperFinishes
<1>11a. CASE HelperConfirms(r)
  <2>1. ASSUME HelperSaves(r, [own[r] EXCEPT !.state = "complete"], "releases")
        PROVE  HelperWrites(r)
    <3>1. W([own[r] EXCEPT !.state = "complete"], "releases")
      BY <2>1, Zenon DEF HelperSaves, Saves, Helps
    <3>2. QED BY <1>3, <1>11a, <3>1, Zenon DEF HelperConfirms, Saving, HandoffStates, Ended
  <2>2. ASSUME HelperFails(r)
        PROVE  HelperWrites(r)
    <3>1. W(Failed(r), "releases")
      BY <2>2, Zenon DEF HelperFails, HelperSaves, Saves, Helps
    <3>2. QED BY <1>2, <1>11a, <3>1, Zenon DEF HelperConfirms, Saving
  <2>3. BridgesGo
    BY <1>4, <1>11a, SMT DEF HelperConfirms, HelperFails, HelperSaves
  <2>4. QED BY <1>11a, <2>1, <2>2, <2>3, SMT DEF HelperConfirms
<1>12. QED BY <1>5, <1>6, <1>6a, <1>7, <1>8, <1>9, <1>10, <1>11, <1>11a

(* Who begins to act had its claim and read its own request.                  *)
GoesToWork ==
  \A q \in Requests : helper'[q] \in ActingPlaces =>
    helper[q] \in ActingPlaces \/ (helper[q] = "claimed" /\ StillAsked(q))

(* The entries of the lock. *)
LEMMA NoLockFields ==
  /\ NoLockDir \in LockDirs /\ NoLockDir.token = NoRequest /\ NoLockDir.claims = {}
  /\ NoLockDir.by = NoRequest /\ ~NoLockDir.fresh
BY SMT DEF NoLockDir, LockDirs

\* What a change of an entry leaves of the lock directory.
LEMMA EnterFields ==
  ASSUME NEW l \in LockDirs, Enter(l)
  PROVE  /\ lockDir' \in LockDirs /\ lockDir'.by = l.by
         /\ lockDir'.token = l.token /\ lockDir'.claims = l.claims
<1>1. lockDir' \in LockDirs
  BY Zenon DEF Enter, LockDirs
<1>2. QED BY <1>1, SMT DEF Enter

\* What a change of handoff-id leaves of the lock directory.
LEMMA TokenFields ==
  ASSUME NEW l \in LockDirs, NEW t \in Requests \cup {NoRequest}
  PROVE  LET m == [l EXCEPT !.token = t] IN
         m \in LockDirs /\ m.token = t /\ m.claims = l.claims /\ m.by = l.by
<1>1. [l EXCEPT !.token = t] \in LockDirs
  BY Zenon DEF LockDirs
<1>2. QED BY SMT DEF LockDirs

\* What a change of the claims leaves of the lock directory.
LEMMA ClaimFields ==
  ASSUME NEW l \in LockDirs, NEW c \in SUBSET Requests
  PROVE  LET m == [l EXCEPT !.claims = c] IN
         m \in LockDirs /\ m.token = l.token /\ m.claims = c /\ m.by = l.by
<1>1. [l EXCEPT !.claims = c] \in LockDirs
  BY Zenon DEF LockDirs
<1>2. QED BY SMT DEF LockDirs

(* A directory is made, or nothing happens to it. *)
MakesLockMove(r) ==
  /\ lockDir' \in LockDirs /\ lockDir'.token = lockDir.token
  /\ lockDir'.claims = lockDir.claims
  /\ \/ /\ lockDir = NoLockDir /\ lockDir'.by = r
        /\ asker' = [asker EXCEPT ![r] = "made"]
     \/ /\ UNCHANGED lockDir
        /\ \E w \in {"finds", "refused"} : asker' = [asker EXCEPT ![r] = w]

\* mkdir makes a lock of the asker, without entries, or finds one.
LEMMA MakesLockMoves ==
  ASSUME LockTyped, NEW r \in Requests, MakesLock(r)
  PROVE  MakesLockMove(r)
<1>1. CASE /\ lockDir = NoLockDir /\ Enter([NoLockDir EXCEPT !.by = r]) /\ Asks(r, "made")
  <2> DEFINE l == [NoLockDir EXCEPT !.by = r]
  <2>1. l \in LockDirs
    BY NoLockFields, Zenon DEF LockDirs
  <2>2. l.token = NoLockDir.token /\ l.claims = NoLockDir.claims /\ l.by = r
    BY SMT DEF LockDirs
  <2> HIDE DEF l
  <2>3. Enter(l)
    BY <1>1 DEF l
  <2>4. QED BY <1>1, <2>1, <2>2, <2>3, EnterFields, Zenon DEF Asks, MakesLockMove
<1>2. CASE UNCHANGED lockDir /\ (Asks(r, "finds") \/ Asks(r, "refused"))
  BY <1>2, Zenon DEF LockTyped, Asks, MakesLockMove
<1>3. QED BY <1>1, <1>2, Zenon DEF MakesLock

\* Writing handoff-id changes only that.
LEMMA TokenMoves ==
  ASSUME LockTyped, NEW t \in Requests \cup {NoRequest}, Enter([lockDir EXCEPT !.token = t])
  PROVE  /\ lockDir' \in LockDirs /\ lockDir'.token = t /\ lockDir'.claims = lockDir.claims
         /\ lockDir'.by = lockDir.by
<1> DEFINE l == [lockDir EXCEPT !.token = t]
<1>1. l \in LockDirs /\ l.token = t /\ l.claims = lockDir.claims /\ l.by = lockDir.by
  BY TokenFields, Zenon DEF LockTyped
<1> HIDE DEF l
<1>2. Enter(l)
  BY DEF l
<1>3. QED BY <1>1, <1>2, EnterFields, Zenon

\* Writing a claim changes only the claims.
LEMMA ClaimMoves ==
  ASSUME LockTyped, NEW c \in SUBSET Requests, Enter([lockDir EXCEPT !.claims = c])
  PROVE  /\ lockDir' \in LockDirs /\ lockDir'.claims = c /\ lockDir'.token = lockDir.token
         /\ lockDir'.by = lockDir.by
<1> DEFINE l == [lockDir EXCEPT !.claims = c]
<1>1. l \in LockDirs /\ l.claims = c /\ l.token = lockDir.token /\ l.by = lockDir.by
  BY ClaimFields, Zenon DEF LockTyped
<1> HIDE DEF l
<1>2. Enter(l)
  BY DEF l
<1>3. QED BY <1>1, <1>2, EnterFields, Zenon

(* What each step on the lock does, in the fields of the record (the Move of  *)
(* a step is the step as the proofs use it).                                  *)
PutsTokenMove(r) ==
  \/ /\ lockDir.token = NoRequest /\ asker' = [asker EXCEPT ![r] = "owns"]
     /\ lockDir' \in LockDirs /\ lockDir'.token = r /\ lockDir'.claims = lockDir.claims
     /\ lockDir'.by = lockDir.by
  \/ UNCHANGED lockDir /\ \E w \in {"refused", "finds"} : asker' = [asker EXCEPT ![r] = w]

\* The asker puts its id into the lock, or finds that of another.
LEMMA PutsTokenMoves ==
  ASSUME LockTyped, NEW r \in Requests, PutsToken(r)
  PROVE  PutsTokenMove(r)
<1>1. ASSUME Enter([lockDir EXCEPT !.token = r])
      PROVE  /\ lockDir' \in LockDirs /\ lockDir'.token = r /\ lockDir'.claims = lockDir.claims
             /\ lockDir'.by = lockDir.by
  BY <1>1, TokenMoves, Zenon
<1>2. QED BY <1>1, Zenon DEF PutsToken, Asks, PutsTokenMove

ClearsTokenMove(r) ==
  \/ /\ lockDir.token = r /\ lockDir' \in LockDirs /\ lockDir'.token = NoRequest
     /\ lockDir'.claims = lockDir.claims /\ lockDir'.by = lockDir.by
  \/ UNCHANGED lockDir

\* The asker whose launch failed removes its entries, or leaves the lock.
LEMMA ClearsTokenMoves ==
  ASSUME LockTyped, NEW r \in Requests, ClearsToken(r)
  PROVE  ClearsTokenMove(r)
<1>1. ASSUME Enter([lockDir EXCEPT !.token = NoRequest])
      PROVE  /\ lockDir' \in LockDirs /\ lockDir'.token = NoRequest
             /\ lockDir'.claims = lockDir.claims /\ lockDir'.by = lockDir.by
  BY <1>1, TokenMoves, Zenon
<1>2. QED BY <1>1, Zenon DEF ClearsToken, ClearsTokenMove

(* The claim of q is made, by its helper or by a reclaimer; or it fails. *)
LEMMA ClaimIsMade ==
  ASSUME LockTyped, NEW q \in Requests, q \notin lockDir.claims,
         Enter([lockDir EXCEPT !.claims = @ \cup {q}])
  PROVE  /\ lockDir' \in LockDirs /\ lockDir'.claims = lockDir.claims \cup {q}
         /\ lockDir'.token = lockDir.token /\ lockDir'.by = lockDir.by
<1>1. lockDir.claims \cup {q} \in SUBSET Requests
  BY SMT DEF LockTyped, LockDirs
<1>2. Enter([lockDir EXCEPT !.claims = lockDir.claims \cup {q}])
  OBVIOUS
<1>3. QED BY <1>1, ClaimMoves, Zenon

\* Removing one claim leaves the others and the token.
LEMMA ClaimIsRemoved ==
  ASSUME LockTyped, NEW q \in Requests, Enter([lockDir EXCEPT !.claims = @ \ {q}])
  PROVE  /\ lockDir' \in LockDirs /\ lockDir'.claims = lockDir.claims \ {q}
         /\ lockDir'.token = lockDir.token /\ lockDir'.by = lockDir.by
<1>1. lockDir.claims \ {q} \in SUBSET Requests
  BY SMT DEF LockTyped, LockDirs
<1>2. Enter([lockDir EXCEPT !.claims = lockDir.claims \ {q}])
  OBVIOUS
<1>3. QED BY <1>1, ClaimMoves, Zenon

FencesMove(r) ==
  \/ /\ seen[r].id \notin lockDir.claims /\ asker' = [asker EXCEPT ![r] = "fenced"]
     /\ lockDir' \in LockDirs /\ lockDir'.claims = lockDir.claims \cup {seen[r].id}
     /\ lockDir'.token = lockDir.token /\ lockDir'.by = lockDir.by
  \/ UNCHANGED lockDir /\ asker' = [asker EXCEPT ![r] = "refused"]

\* The reclaimer writes the claim of the helper it fences, or gives up.
LEMMA FencesMoves ==
  ASSUME LockTyped, NEW r \in Requests, seen[r].id \in Requests, Fences(r)
  PROVE  FencesMove(r)
<1>1. ASSUME seen[r].id \notin lockDir.claims,
             Enter([lockDir EXCEPT !.claims = @ \cup {seen[r].id}])
      PROVE  lockDir' \in LockDirs /\ lockDir'.claims = lockDir.claims \cup {seen[r].id}
             /\ lockDir'.token = lockDir.token /\ lockDir'.by = lockDir.by
  BY <1>1, ClaimIsMade, Zenon
<1>2. QED BY <1>1, Zenon DEF Fences, Asks, FencesMove

HelperClaimsMove(r) ==
  \/ /\ r \notin lockDir.claims /\ helper' = [helper EXCEPT ![r] = "claimed"]
     /\ lockDir' \in LockDirs /\ lockDir'.claims = lockDir.claims \cup {r}
     /\ lockDir'.token = lockDir.token /\ lockDir'.by = lockDir.by
  \/ UNCHANGED lockDir /\ helper' = [helper EXCEPT ![r] = "done"]

\* The helper writes its claim, or gives up.
LEMMA HelperClaimsMoves ==
  ASSUME LockTyped, NEW r \in Requests, HelperClaims(r)
  PROVE  HelperClaimsMove(r)
<1>1. ASSUME r \notin lockDir.claims, Enter([lockDir EXCEPT !.claims = @ \cup {r}])
      PROVE  lockDir' \in LockDirs /\ lockDir'.claims = lockDir.claims \cup {r}
             /\ lockDir'.token = lockDir.token /\ lockDir'.by = lockDir.by
  BY <1>1, ClaimIsMade, Zenon
<1>2. QED BY <1>1, Zenon DEF HelperClaims, Helps, HelperClaimsMove

UnfencesMove(r) ==
  \/ /\ fencing[r] /\ lockDir' \in LockDirs
     /\ lockDir'.claims = lockDir.claims \ {seen[r].id} /\ lockDir'.token = lockDir.token
     /\ lockDir'.by = lockDir.by
  \/ UNCHANGED lockDir

\* A reclaim that failed takes its claim back.
LEMMA UnfencesMoves ==
  ASSUME LockTyped, NEW r \in Requests, seen[r].id \in Requests, Unfences(r)
  PROVE  UnfencesMove(r)
<1>1. ASSUME Enter([lockDir EXCEPT !.claims = @ \ {seen[r].id}])
      PROVE  lockDir' \in LockDirs /\ lockDir'.claims = lockDir.claims \ {seen[r].id}
             /\ lockDir'.token = lockDir.token /\ lockDir'.by = lockDir.by
  BY <1>1, ClaimIsRemoved, Zenon
<1>2. QED BY <1>1, Zenon DEF Unfences, UnfencesMove

HelperUnclaimsMove(r) ==
  \/ /\ lockDir' \in LockDirs
     /\ lockDir'.claims = lockDir.claims \ {r} /\ lockDir'.token = lockDir.token
     /\ lockDir'.by = lockDir.by
  \/ UNCHANGED lockDir

\* A helper that was overtaken takes its claim back.
LEMMA HelperUnclaimsMoves ==
  ASSUME LockTyped, NEW r \in Requests, HelperUnclaims(r)
  PROVE  HelperUnclaimsMove(r)
<1>1. ASSUME Enter([lockDir EXCEPT !.claims = @ \ {r}])
      PROVE  lockDir' \in LockDirs /\ lockDir'.claims = lockDir.claims \ {r}
             /\ lockDir'.token = lockDir.token /\ lockDir'.by = lockDir.by
  BY <1>1, ClaimIsRemoved, Zenon
<1>2. QED BY <1>1, Zenon DEF HelperUnclaims, HelperUnclaimsMove

HelperReleasesMove(r) ==
  \/ /\ lockDir.token \in {r, NoRequest}
     /\ lockDir' \in LockDirs /\ lockDir'.token = NoRequest /\ lockDir'.by = lockDir.by
     /\ helper' = [helper EXCEPT ![r] = "rmdir"]
  \/ UNCHANGED lockDir /\ helper' = [helper EXCEPT ![r] = "done"]

\* The helper removes the entries of a lock that is its own.
LEMMA HelperReleasesMoves ==
  ASSUME LockTyped, NEW r \in Requests, HelperReleases(r)
  PROVE  HelperReleasesMove(r)
<1>1. ASSUME Enter([lockDir EXCEPT !.token = NoRequest, !.claims = {}])
      PROVE  lockDir' \in LockDirs /\ lockDir'.token = NoRequest /\ lockDir'.by = lockDir.by
  <2> DEFINE l == [lockDir EXCEPT !.token = NoRequest, !.claims = {}]
  <2>1. l \in LockDirs
    BY Zenon DEF LockTyped, LockDirs
  <2>2. l.token = NoRequest /\ l.by = lockDir.by
    BY SMT DEF LockDirs
  <2> HIDE DEF l
  <2>3. Enter(l)
    BY <1>1 DEF l
  <2>4. QED BY <2>1, <2>2, <2>3, EnterFields, Zenon
<1>2. QED BY <1>1, Zenon DEF HelperReleases, LockOf, Helps, HelperReleasesMove

LockAgesMove ==
  /\ lockDir' \in LockDirs /\ lockDir'.token = lockDir.token
  /\ lockDir'.claims = lockDir.claims /\ lockDir'.by = lockDir.by

\* Time changes nothing of a lock but its age.
LEMMA LockAgesMoves ==
  ASSUME LockTyped, LockAges
  PROVE  LockAgesMove
<1>1. lockDir' \in LockDirs
  BY Zenon DEF LockAges, LockTyped, LockDirs
<1>2. QED BY <1>1, SMT DEF LockAges, LockAgesMove

(* The record that a request makes, or its failure, names it. *)
ValidatesMove(r) ==
  /\ asker[r] = "owns"
  /\ UNCHANGED <<lockDir, quarantine, age, fencing, helper, own, running, bridges>>
  /\ \/ \E h \in Handoffs :
          /\ h.id = r /\ h.new = 0 /\ h.state = "requested" /\ UNCHANGED handoff
          /\ seen' = [seen EXCEPT ![r] = h] /\ asker' = [asker EXCEPT ![r] = "valid"]
     \/ \E g \in Handoffs :
          /\ g.id = r /\ g.new = 0 /\ g.state = "failed" /\ handoff' = g
          /\ seen' = [seen EXCEPT ![r] = g] /\ asker' = [asker EXCEPT ![r] = "clears"]
     \/ UNCHANGED <<handoff, seen>> /\ asker' = [asker EXCEPT ![r] = "clears"]

\* The record is made once, under the id of its request.
LEMMA ValidatesMoves ==
  ASSUME RecordInv, NEW r \in Requests, Validates(r)
  PROVE  ValidatesMove(r)
<1> DEFINE h == FreshHandoff(r, running)
<1>1. running \in Nat
  BY SMT DEF RecordInv, HandOffTypes, RecordsTyped
<1>2. h \in Handoffs /\ h.id = r /\ h.new = 0 /\ h.state = "requested"
  BY <1>1, FreshTyped, SMT
<1> HIDE DEF h
<1> DEFINE g == LaunchFailed(h)
<1>3. g \in Handoffs /\ g.id = r /\ g.new = 0 /\ g.state = "failed"
  BY <1>2, LaunchFailedTyped, Zenon
<1> HIDE DEF g
<1>4. \/ seen' = [seen EXCEPT ![r] = h] /\ UNCHANGED handoff /\ Asks(r, "valid")
      \/ seen' = [seen EXCEPT ![r] = g] /\ handoff' = g /\ Asks(r, "clears")
      \/ UNCHANGED <<handoff, seen>> /\ Asks(r, "clears")
  BY Zenon DEF Validates, SavesFailed, h, g
<1>5. /\ asker[r] = "owns"
      /\ UNCHANGED <<lockDir, quarantine, age, fencing, helper, own, running, bridges>>
  BY Zenon DEF Validates, helperVars, runVars
<1>6. QED BY <1>2, <1>3, <1>4, <1>5, Zenon DEF Asks, ValidatesMove

PublishesMove(r) ==
  /\ asker[r] = "valid"
  /\ UNCHANGED <<lockDir, quarantine, age, seen, fencing, helper, own, running, bridges>>
  /\ seen[r] \in Handoffs /\ seen[r].id = r /\ seen[r].state = "requested"
  /\ handoff' = seen[r] /\ asker' = [asker EXCEPT ![r] = "launches"]

\* What is published is the record that was made.
LEMMA PublishesMoves ==
  ASSUME RecordInv, NEW r \in Requests, Publishes(r)
  PROVE  PublishesMove(r)
<1>1. /\ asker[r] = "valid"
      /\ UNCHANGED <<lockDir, quarantine, age, seen, fencing, helper, own, running, bridges>>
      /\ handoff' = seen[r] /\ asker' = [asker EXCEPT ![r] = "launches"]
  BY Zenon DEF Publishes, helperVars, runVars, Asks
<1>2. seen[r] \in Handoffs /\ seen[r].id = r /\ seen[r].state = "requested"
  BY <1>1, SMT DEF RecordInv, HandOffTypes, RecordsTyped, OwnTrue
<1>3. QED BY <1>1, <1>2, Zenon DEF PublishesMove

LaunchFailsMove(r) ==
  /\ asker[r] = "launches" /\ seen[r].id = r
  /\ UNCHANGED <<lockDir, quarantine, age, fencing, helper, own, running, bridges>>
  /\ \E g \in Handoffs :
       /\ g.id = r /\ g.new = seen[r].new /\ g.state = "failed" /\ handoff' = g
       /\ seen' = [seen EXCEPT ![r] = g] /\ asker' = [asker EXCEPT ![r] = "clears"]

\* A launch that fails is written as such by the asker alone.
LEMMA LaunchFailsMoves ==
  ASSUME RecordInv, NEW r \in Requests, LaunchFails(r)
  PROVE  LaunchFailsMove(r)
<1>1. seen[r] \in Handoffs /\ seen[r].id = r
  BY SMT DEF RecordInv, HandOffTypes, RecordsTyped, OwnTrue, LaunchFails
<1> DEFINE g == LaunchFailed(seen[r])
<1>2. g \in Handoffs /\ g.id = r /\ g.new = seen[r].new /\ g.state = "failed"
  BY <1>1, LaunchFailedTyped, Zenon
<1>3. /\ handoff' = g /\ seen' = [seen EXCEPT ![r] = g]
      /\ asker' = [asker EXCEPT ![r] = "clears"]
  BY Zenon DEF LaunchFails, SavesFailed, Asks
<1> HIDE DEF g
<1>4. /\ asker[r] = "launches"
      /\ UNCHANGED <<lockDir, quarantine, age, fencing, helper, own, running, bridges>>
  BY Zenon DEF LaunchFails, helperVars, runVars
<1>5. QED BY <1>1, <1>2, <1>3, <1>4, Zenon DEF LaunchFailsMove

(* A record that is judged reclaimable is of a request that is settled. *)
FindsMove(r) ==
  /\ asker[r] = "finds"
  /\ UNCHANGED <<handoff, lockDir, quarantine, age, fencing, helper, own, running, bridges>>
  /\ \/ /\ handoff.id \in Requests /\ TooLate(handoff.id)
        /\ handoff.helper => Gone(handoff.id)
        /\ handoff.helper \/ ~(handoff.state = "failed" /\ handoff.error = "OTHER")
        /\ seen' = [seen EXCEPT ![r] = handoff] /\ asker' = [asker EXCEPT ![r] = "proves"]
     \/ UNCHANGED seen /\ \E w \in {"joined", "refused"} : asker' = [asker EXCEPT ![r] = w]

\* Who finds a lock reads the record and judges it, or joins, or is refused.
LEMMA FindsMoves ==
  ASSUME RecordInv, NEW r \in Requests, Finds(r)
  PROVE  FindsMove(r)
<1>1. /\ asker[r] = "finds"
      /\ UNCHANGED <<handoff, lockDir, quarantine, age, fencing, helper, own, running, bridges>>
  BY Zenon DEF Finds, lockVars, helperVars, runVars
<1>2. CASE /\ handoff # NoHandoff /\ Stale(handoff) /\ Proved(handoff)
           /\ (~handoff.helper /\ handoff.state = "failed") => handoff.error = "LAUNCH_FAILED"
           /\ seen' = [seen EXCEPT ![r] = handoff] /\ Asks(r, "proves")
  <2>1. /\ handoff.id \in Requests /\ handoff.helper \in BOOLEAN
        /\ handoff.state = "complete" => handoff.helper
        /\ handoff.state = "failed" /\ ~handoff.helper => Unlaunched(handoff.id)
    BY <1>2, SMT DEF RecordInv, Truthful, HandOffTypes, RecordsTyped, Handoffs
  <2>2. handoff.helper => Gone(handoff.id)
    BY <1>2, SMT DEF Proved, HelperGone, Gone
  <2>3. TooLate(handoff.id)
    BY <1>2, <2>1, <2>2, SMT DEF Stale, Ended, TooLate
  <2>4. handoff.helper \/ ~(handoff.state = "failed" /\ handoff.error = "OTHER")
    BY <1>2, SMT
  <2>5. QED BY <1>1, <1>2, <2>1, <2>2, <2>3, Zenon DEF Asks, FindsMove
<1>3. CASE UNCHANGED seen /\ (Asks(r, "joined") \/ Asks(r, "refused"))
  BY <1>1, <1>3, Zenon DEF Asks, FindsMove
<1>4. QED BY <1>2, <1>3, Zenon DEF Finds

ProvesMove(r) ==
  /\ asker[r] = "proves"
  /\ UNCHANGED <<handoff, lockDir, quarantine, age, seen, helper, own, running, bridges>>
  /\ \/ \E b \in BOOLEAN, w \in {"fences", "fenced"} :
          /\ ~seen[r].helper => b
          /\ fencing' = [fencing EXCEPT ![r] = b] /\ asker' = [asker EXCEPT ![r] = w]
          /\ Reclaimable(seen[r].id)
     \/ UNCHANGED fencing /\ asker' = [asker EXCEPT ![r] = "refused"]

\* The first proofs hold of the record that was read.
LEMMA ProvesMoves ==
  ASSUME RecordInv, NEW r \in Requests, Proves(r)
  PROVE  ProvesMove(r)
<1> DEFINE b == ~seen[r].helper \/ (lockDir.token = NoRequest /\ seen[r].id \notin lockDir.claims)
<1>1. b \in BOOLEAN /\ (~seen[r].helper => b)
  OBVIOUS
<1> HIDE DEF b
<1>2. \/ /\ Reclaimable(seen[r].id) /\ fencing' = [fencing EXCEPT ![r] = b]
         /\ (Asks(r, "fences") \/ Asks(r, "fenced"))
      \/ UNCHANGED fencing /\ Asks(r, "refused")
  BY Zenon DEF Proves, b
<1>3. /\ asker[r] = "proves"
      /\ UNCHANGED <<handoff, lockDir, quarantine, age, seen, helper, own, running, bridges>>
  BY Zenon DEF Proves, lockVars, helperVars, runVars
<1>4. QED BY <1>1, <1>2, <1>3, Zenon DEF Asks, ProvesMove

(* A rename takes whatever directory has the name of the lock. *)
RenamesMove(r) ==
  /\ asker[r] = "renames"
  /\ UNCHANGED <<handoff, age, seen, fencing, helper, own, running, bridges>>
  /\ \/ /\ seen[r].id \in Requests /\ seen[r].id \notin quarantine
        /\ lockDir # NoLockDir
        /\ quarantine' = quarantine \cup {seen[r].id} /\ lockDir' = NoLockDir
        /\ asker' = [asker EXCEPT ![r] = "reclaimed"]
     \/ /\ UNCHANGED <<lockDir, quarantine>>
        /\ \E w \in {"fenced", "unfences"} : asker' = [asker EXCEPT ![r] = w]

\* The rename moves the lock away, or is refused.
LEMMA RenamesMoves ==
  ASSUME RecordInv, NEW r \in Requests, Renames(r)
  PROVE  RenamesMove(r)
<1>1. seen[r].id \in Requests
  BY Zenon DEF Renames, RecordInv, Judged, Judging
<1>2. /\ asker[r] = "renames"
      /\ UNCHANGED <<handoff, age, seen, fencing, helper, own, running, bridges>>
  BY Zenon DEF Renames, helperVars, runVars
<1>3. CASE /\ lockDir # NoLockDir /\ seen[r].id \notin quarantine
           /\ quarantine' = quarantine \cup {seen[r].id} /\ lockDir' = NoLockDir
           /\ Asks(r, "reclaimed")
  BY <1>1, <1>3, <1>2, Zenon DEF Asks, RenamesMove
<1>4. CASE UNCHANGED <<lockDir, quarantine>> /\ (Asks(r, "unfences") \/ Asks(r, "fenced"))
  BY <1>4, <1>2, Zenon DEF Asks, RenamesMove
<1>5. QED BY <1>3, <1>4, Zenon DEF Renames

(* The lock of an owner is its own, so that its record is made. *)
ValidatesOwn(r) ==
  /\ asker[r] = "owns"
  /\ UNCHANGED <<handoff, lockDir, quarantine, age, fencing, helper, own, running, bridges>>
  /\ \/ \E h \in Handoffs :
          /\ h.id = r /\ h.state = "requested" /\ ~h.helper
          /\ seen' = [seen EXCEPT ![r] = h] /\ asker' = [asker EXCEPT ![r] = "valid"]
     \/ UNCHANGED seen /\ asker' = [asker EXCEPT ![r] = "clears"]

\* The record is made by the owner of the lock.
LEMMA ValidatesOwned ==
  ASSUME RecordInv, TokensKept, NEW r \in Requests, Validates(r)
  PROVE  ValidatesOwn(r)
<1>1. running \in Nat /\ asker[r] = "owns" /\ lockDir.token = r
  BY SMT DEF RecordInv, HandOffTypes, RecordsTyped, TokensKept, Validates
<1>2. LockOf(r)
  BY <1>1, NoLockFields, RestartConstants, SMT DEF LockOf
<1> DEFINE h == FreshHandoff(r, running)
<1>3. h \in Handoffs /\ h.id = r /\ h.state = "requested" /\ ~h.helper
  BY <1>1, FreshTyped, SMT
<1> HIDE DEF h
<1>4. /\ UNCHANGED handoff
      /\ \/ seen' = [seen EXCEPT ![r] = h] /\ Asks(r, "valid")
         \/ UNCHANGED seen /\ Asks(r, "clears")
  BY <1>2, Zenon DEF Validates, h
<1>5. /\ asker[r] = "owns"
      /\ UNCHANGED <<lockDir, quarantine, age, fencing, helper, own, running, bridges>>
  BY Zenon DEF Validates, helperVars, runVars
<1>6. QED BY <1>3, <1>4, <1>5, Zenon DEF Asks, ValidatesOwn

(* What is so late stays: no request is launched twice, and nobody comes      *)
(* back.                                                                      *)
Onward ==
  \A q \in Requests :
    /\ Unlaunched(q) => Unlaunched(q)'
    /\ Gone(q) => Gone(q)'
    /\ age[q] # "new" => age'[q] # "new"
    /\ asker[q] \notin Unsent => asker'[q] \notin Unsent

\* What stays when a helper moves on between its claim and its release.
LEMMA GoesOnKeeps ==
  ASSUME RecordInv, NEW r \in Requests, HelperGoesOn(r)
  PROVE  /\ helper[r] \in Saving /\ helper'[r] \in Saving
         /\ \A q \in Requests \ {r} : helper'[q] = helper[q]
         /\ asker' = asker /\ seen' = seen /\ age' = age
         /\ handoff' = handoff /\ lockDir' = lockDir /\ quarantine' = quarantine
<1>1. PICK w \in Saving : helper' = [helper EXCEPT ![r] = w]
  BY Zenon DEF HelperGoesOn
<1>2. helper[r] \in Saving /\ UNCHANGED <<handoff, lockDir, quarantine, age, askVars>>
  BY Zenon DEF HelperGoesOn
<1>3. helper'[r] = w /\ \A q \in Requests \ {r} : helper'[q] = helper[q]
  BY <1>1, SMT DEF RecordInv, HandOffTypes, PlacesTyped
<1>4. QED BY <1>1, <1>2, <1>3, Zenon DEF askVars

\* Ages only grow and nobody goes back: what is too late stays too late.
LEMMA OnwardKeeps ==
  ASSUME RecordInv, RestartNext
  PROVE  Onward
<1>1. ASSUME UNCHANGED <<age, asker, helper>>
      PROVE  Onward
  BY <1>1, Zenon DEF Onward, Unlaunched, Gone
<1>2. ASSUME LockAges \/ BridgeEnds \/ BridgeStarts
      PROVE  UNCHANGED <<age, asker, helper>>
  BY <1>2, Zenon DEF LockAges, BridgeEnds, BridgeStarts, askVars, helperVars
<1>3. ASSUME NEW r \in Requests, MakesLock(r)
      PROVE  Onward
  BY <1>3, SMT
     DEF MakesLock, Asks, Onward, Unlaunched, Gone, AskerPlaces, RecordInv, HandOffTypes,
         PlacesTyped, helperVars
<1>4. ASSUME NEW r \in Requests, PutsToken(r)
      PROVE  Onward
  BY <1>4, SMT
     DEF PutsToken, Asks, Onward, Unlaunched, Gone, AskerPlaces, RecordInv, HandOffTypes,
         PlacesTyped, helperVars
<1>5. ASSUME NEW r \in Requests, Validates(r)
      PROVE  Onward
  BY <1>5, SMT
     DEF Validates, SavesFailed, Asks, Onward, Unlaunched, Gone, AskerPlaces, RecordInv, HandOffTypes,
         PlacesTyped, helperVars
<1>5a. ASSUME NEW r \in Requests, Publishes(r)
      PROVE  Onward
  <2>1. PublishesMove(r)
    BY <1>5a, PublishesMoves
  <2>2. QED BY <2>1, SMT
       DEF PublishesMove, Onward, Unlaunched, Gone, AskerPlaces, Unsent, Judging, RecordInv,
           HandOffTypes, PlacesTyped
<1>6. ASSUME NEW r \in Requests, Launches(r)
      PROVE  Onward
  BY <1>6, SMT
     DEF Launches, Asks, Helps, Onward, Unlaunched, Gone, Judging, Unsent, RecordInv,
         Launched
<1>7. ASSUME NEW r \in Requests, LaunchFails(r)
      PROVE  Onward
  BY <1>7, SMT DEF LaunchFails, SavesFailed, Asks, Onward, Unlaunched, Gone, Judging, Unsent, helperVars
<1>8. ASSUME NEW r \in Requests, ClearsToken(r)
      PROVE  Onward
  BY <1>8, SMT
     DEF ClearsToken, Asks, Onward, Unlaunched, Gone, Judging, Unsent, RecordInv,
         HandOffTypes, PlacesTyped, helperVars
<1>9. ASSUME NEW r \in Requests, ClearsDir(r)
      PROVE  Onward
  BY <1>9, SMT DEF ClearsDir, Asks, Onward, Unlaunched, Gone, Judging, Unsent, helperVars
<1>10. ASSUME NEW r \in Requests, Finds(r)
      PROVE  Onward
  BY <1>10, SMT
     DEF Finds, Asks, Onward, Unlaunched, Gone, AskerPlaces, RecordInv, HandOffTypes,
         PlacesTyped, helperVars
<1>11. ASSUME NEW r \in Requests, Proves(r)
      PROVE  Onward
  BY <1>11, SMT
     DEF Proves, Asks, Onward, Unlaunched, Gone, AskerPlaces, RecordInv, HandOffTypes,
         PlacesTyped, helperVars
<1>12. ASSUME NEW r \in Requests, Fences(r)
      PROVE  Onward
  BY <1>12, SMT
     DEF Fences, Asks, Onward, Unlaunched, Gone, AskerPlaces, RecordInv, HandOffTypes,
         PlacesTyped, helperVars
<1>13. ASSUME NEW r \in Requests, Rechecks(r)
      PROVE  Onward
  BY <1>13, SMT
     DEF Rechecks, Asks, Onward, Unlaunched, Gone, AskerPlaces, RecordInv, HandOffTypes,
         PlacesTyped, helperVars
<1>14. ASSUME NEW r \in Requests, Renames(r)
      PROVE  Onward
  BY <1>14, SMT
     DEF Renames, Asks, Onward, Unlaunched, Gone, AskerPlaces, RecordInv, HandOffTypes,
         PlacesTyped, helperVars
<1>15. ASSUME NEW r \in Requests, Unfences(r)
      PROVE  Onward
  BY <1>15, SMT
     DEF Unfences, Asks, Onward, Unlaunched, Gone, AskerPlaces, RecordInv, HandOffTypes,
         PlacesTyped, helperVars
<1>16. ASSUME NEW r \in Requests, HelperReads(r)
      PROVE  Onward
  BY <1>16, SMT
     DEF HelperReads, Helps, Onward, Unlaunched, Gone, RecordInv, HandOffTypes, PlacesTyped,
         askVars
<1>17. ASSUME NEW r \in Requests, HelperClaims(r)
      PROVE  Onward
  BY <1>17, SMT
     DEF HelperClaims, Helps, Onward, Unlaunched, Gone, RecordInv, HandOffTypes, PlacesTyped,
         askVars
<1>18. ASSUME NEW r \in Requests, HelperRereads(r)
      PROVE  Onward
  BY <1>18, SMT DEF HelperRereads, Helps, Onward, Unlaunched, Gone, askVars
<1>19. ASSUME NEW r \in Requests, HelperUnclaims(r)
      PROVE  Onward
  BY <1>19, SMT DEF HelperUnclaims, Helps, Onward, Unlaunched, Gone, askVars
<1>20. ASSUME NEW r \in Requests, HelperWrites(r), BridgesGo
      PROVE  Onward
  BY <1>20, SMT DEF HelperWrites, Onward, Unlaunched, Gone, Saving, askVars
<1>21. ASSUME NEW r \in Requests, HelperGoesOn(r), BridgesGo
      PROVE  Onward
  BY <1>21, GoesOnKeeps, SMT DEF Onward, Unlaunched, Gone, Saving
<1>22. ASSUME NEW r \in Requests, HelperReleases(r)
      PROVE  Onward
  BY <1>22, SMT
     DEF HelperReleases, Helps, Onward, Unlaunched, Gone, RecordInv, HandOffTypes,
         PlacesTyped, askVars
<1>23. ASSUME NEW r \in Requests, HelperRemoves(r)
      PROVE  Onward
  BY <1>23, SMT DEF HelperRemoves, Helps, Onward, Unlaunched, Gone, askVars
<1>24. ASSUME NEW r \in Requests, Ages(r)
      PROVE  Onward
  BY <1>24, SMT DEF Ages, Onward, Unlaunched, Gone, askVars, helperVars
<1>25. ASSUME NEW r \in Requests, AskerDies(r)
      PROVE  Onward
  BY <1>25, SMT DEF AskerDies, Asks, Onward, Unlaunched, Gone, Judging, Unsent, helperVars
<1>26. ASSUME NEW r \in Requests, HelperDies(r)
      PROVE  Onward
  BY <1>26, SMT DEF HelperDies, Helps, Onward, Unlaunched, Gone, askVars
<1>27. QED
  BY HelperWritesAre, <1>5a, <1>1, <1>2, <1>3, <1>4, <1>5, <1>6, <1>7, <1>8, <1>9, <1>10, <1>11,
     <1>12, <1>13, <1>14, <1>15, <1>16, <1>17, <1>18, <1>19, <1>20, <1>21, <1>22, <1>23,
     <1>24, <1>25, <1>26, SMT
     DEF RestartNext, AskerSteps, HelperSteps

\* Every step keeps the places.
LEMMA PlacesTypedKeeps ==
  ASSUME RecordInv, RestartNext
  PROVE  PlacesTyped'
<1>1. ASSUME UNCHANGED <<age, asker, fencing, helper>>
      PROVE  PlacesTyped'
  BY <1>1, Zenon DEF RecordInv, HandOffTypes, PlacesTyped
<1>2. ASSUME LockAges \/ BridgeEnds \/ BridgeStarts
      PROVE  UNCHANGED <<age, asker, fencing, helper>>
  BY <1>2, Zenon DEF LockAges, BridgeEnds, BridgeStarts, askVars, helperVars
<1>3. ASSUME NEW r \in Requests, MakesLock(r)
      PROVE  PlacesTyped'
  BY <1>3, SMT
     DEF MakesLock, Asks, PlacesTyped, Unsent, AskerPlaces, RecordInv, HandOffTypes,
         helperVars
<1>4. ASSUME NEW r \in Requests, PutsToken(r)
      PROVE  PlacesTyped'
  BY <1>4, SMT
     DEF PutsToken, Asks, PlacesTyped, Unsent, AskerPlaces, RecordInv, HandOffTypes,
         helperVars
<1>5. ASSUME NEW r \in Requests, Validates(r)
      PROVE  PlacesTyped'
  BY <1>5, SMT
     DEF Validates, SavesFailed, Asks, PlacesTyped, AskerPlaces, RecordInv, HandOffTypes, helperVars
<1>5a. ASSUME NEW r \in Requests, Publishes(r)
      PROVE  PlacesTyped'
  BY <1>5a, SMT
     DEF Publishes, Asks, PlacesTyped, AskerPlaces, RecordInv, HandOffTypes, helperVars
<1>6. ASSUME NEW r \in Requests, Launches(r)
      PROVE  PlacesTyped'
  BY <1>6, SMT
     DEF Launches, Asks, Helps, PlacesTyped, AskerPlaces, HelperPlaces, Working, RecordInv,
         HandOffTypes
<1>7. ASSUME NEW r \in Requests, LaunchFails(r)
      PROVE  PlacesTyped'
  BY <1>7, SMT
     DEF LaunchFails, SavesFailed, Asks, PlacesTyped, AskerPlaces, RecordInv, HandOffTypes, helperVars
<1>8. ASSUME NEW r \in Requests, ClearsToken(r)
      PROVE  PlacesTyped'
  BY <1>8, SMT
     DEF ClearsToken, Asks, PlacesTyped, AskerPlaces, RecordInv, HandOffTypes, helperVars
<1>9. ASSUME NEW r \in Requests, ClearsDir(r)
      PROVE  PlacesTyped'
  BY <1>9, SMT
     DEF ClearsDir, Asks, PlacesTyped, AskerPlaces, RecordInv, HandOffTypes, helperVars
<1>10. ASSUME NEW r \in Requests, Finds(r)
      PROVE  PlacesTyped'
  BY <1>10, SMT
     DEF Finds, Asks, PlacesTyped, Judging, Unsent, AskerPlaces, RecordInv, HandOffTypes,
         helperVars
<1>11. ASSUME NEW r \in Requests, Proves(r)
      PROVE  PlacesTyped'
  <2>1. ProvesMove(r)
    BY <1>11, ProvesMoves
  <2>2. QED BY <2>1, SMT
       DEF ProvesMove, PlacesTyped, Judging, Unsent, AskerPlaces, RecordInv, HandOffTypes
<1>12. ASSUME NEW r \in Requests, Fences(r)
      PROVE  PlacesTyped'
  BY <1>12, SMT
     DEF Fences, Asks, PlacesTyped, Judging, Unsent, AskerPlaces, RecordInv, HandOffTypes,
         helperVars
<1>13. ASSUME NEW r \in Requests, Rechecks(r)
      PROVE  PlacesTyped'
  BY <1>13, SMT
     DEF Rechecks, Asks, PlacesTyped, Judging, Unsent, AskerPlaces, RecordInv, HandOffTypes,
         helperVars
<1>14. ASSUME NEW r \in Requests, Renames(r)
      PROVE  PlacesTyped'
  BY <1>14, SMT
     DEF Renames, Asks, PlacesTyped, Judging, Unsent, AskerPlaces, RecordInv, HandOffTypes,
         helperVars
<1>15. ASSUME NEW r \in Requests, Unfences(r)
      PROVE  PlacesTyped'
  BY <1>15, SMT
     DEF Unfences, Asks, PlacesTyped, AskerPlaces, RecordInv, HandOffTypes, helperVars
<1>16. ASSUME NEW r \in Requests, HelperReads(r)
      PROVE  PlacesTyped'
  BY <1>16, SMT
     DEF HelperReads, Helps, PlacesTyped, HelperPlaces, Working, RecordInv, HandOffTypes,
         askVars
<1>17. ASSUME NEW r \in Requests, HelperClaims(r)
      PROVE  PlacesTyped'
  BY <1>17, SMT
     DEF HelperClaims, Helps, PlacesTyped, HelperPlaces, Working, Claiming, RecordInv,
         HandOffTypes, askVars
<1>18. ASSUME NEW r \in Requests, HelperRereads(r)
      PROVE  PlacesTyped'
  BY <1>18, SMT
     DEF HelperRereads, Helps, PlacesTyped, HelperPlaces, Working, Claiming, RecordInv,
         HandOffTypes, askVars
<1>19. ASSUME NEW r \in Requests, HelperUnclaims(r)
      PROVE  PlacesTyped'
  BY <1>19, SMT
     DEF HelperUnclaims, Helps, PlacesTyped, HelperPlaces, RecordInv, HandOffTypes, askVars
<1>20. ASSUME NEW r \in Requests, HelperWrites(r), BridgesGo
      PROVE  PlacesTyped'
  BY <1>20, SMT
     DEF HelperWrites, PlacesTyped, HelperPlaces, Working, Claiming, RecordInv, HandOffTypes,
         askVars
<1>21. ASSUME NEW r \in Requests, HelperGoesOn(r), BridgesGo
      PROVE  PlacesTyped'
  BY <1>21, SMT
     DEF HelperGoesOn, PlacesTyped, HelperPlaces, Working, Claiming, Saving, RecordInv,
         HandOffTypes, askVars
<1>22. ASSUME NEW r \in Requests, HelperReleases(r)
      PROVE  PlacesTyped'
  BY <1>22, SMT
     DEF HelperReleases, Helps, PlacesTyped, HelperPlaces, RecordInv, HandOffTypes, askVars
<1>23. ASSUME NEW r \in Requests, HelperRemoves(r)
      PROVE  PlacesTyped'
  BY <1>23, SMT
     DEF HelperRemoves, Helps, PlacesTyped, HelperPlaces, RecordInv, HandOffTypes, askVars
<1>24. ASSUME NEW r \in Requests, Ages(r)
      PROVE  PlacesTyped'
  BY <1>24, SMT DEF Ages, PlacesTyped, RecordInv, HandOffTypes, askVars, helperVars
<1>25. ASSUME NEW r \in Requests, AskerDies(r)
      PROVE  PlacesTyped'
  BY <1>25, SMT
     DEF AskerDies, Asks, PlacesTyped, AskerPlaces, RecordInv, HandOffTypes, helperVars
<1>26. ASSUME NEW r \in Requests, HelperDies(r)
      PROVE  PlacesTyped'
  BY <1>26, SMT
     DEF HelperDies, Helps, PlacesTyped, HelperPlaces, RecordInv, HandOffTypes, askVars
<1>27. QED
  BY HelperWritesAre, <1>5a, <1>1, <1>2, <1>3, <1>4, <1>5, <1>6, <1>7, <1>8, <1>9, <1>10, <1>11,
     <1>12, <1>13, <1>14, <1>15, <1>16, <1>17, <1>18, <1>19, <1>20, <1>21, <1>22, <1>23,
     <1>24, <1>25, <1>26, SMT
     DEF RestartNext, AskerSteps, HelperSteps

\* Every step keeps the type of the lock.
LEMMA LockTypedKeeps ==
  ASSUME RecordInv, RestartNext
  PROVE  LockTyped'
<1>1. ASSUME UNCHANGED <<lockDir, quarantine>>
      PROVE  LockTyped'
  BY <1>1, Zenon DEF RecordInv, HandOffTypes, LockTyped
<1>2. ASSUME NEW r \in Requests,
             Validates(r) \/ Publishes(r) \/ Launches(r) \/ LaunchFails(r) \/ Finds(r) \/ Proves(r)
               \/ Rechecks(r) \/ HelperReads(r) \/ HelperRereads(r) \/ HelperWrites(r)
               \/ HelperGoesOn(r) \/ Ages(r) \/ AskerDies(r) \/ HelperDies(r)
      PROVE  UNCHANGED <<lockDir, quarantine>>
  BY <1>2, Zenon
     DEF Validates, Publishes, Launches, LaunchFails, Finds, Proves, Rechecks, HelperReads,
         HelperRereads, HelperWrites, HelperGoesOn, Ages, AskerDies, HelperDies, lockVars
<1>3. ASSUME BridgeEnds \/ BridgeStarts
      PROVE  UNCHANGED <<lockDir, quarantine>>
  BY <1>3, Zenon DEF BridgeEnds, BridgeStarts, lockVars
<1>4. ASSUME NEW r \in Requests, MakesLock(r)
      PROVE  LockTyped'
  <2>1. MakesLockMove(r)
    BY <1>4, MakesLockMoves, SMT DEF RecordInv, HandOffTypes
  <2>2. QED BY <1>4, <2>1, SMT
       DEF MakesLockMove, MakesLock, LockTyped, RecordInv, HandOffTypes
<1>5. ASSUME NEW r \in Requests, PutsToken(r)
      PROVE  LockTyped'
  <2>1. PutsTokenMove(r)
    BY <1>5, PutsTokenMoves, SMT DEF RecordInv, HandOffTypes
  <2>2. QED BY <1>5, <2>1, SMT
       DEF PutsTokenMove, PutsToken, LockTyped, RecordInv, HandOffTypes
<1>6. ASSUME NEW r \in Requests, ClearsToken(r)
      PROVE  LockTyped'
  <2>1. ClearsTokenMove(r)
    BY <1>6, ClearsTokenMoves, SMT DEF RecordInv, HandOffTypes
  <2>2. QED BY <1>6, <2>1, SMT
       DEF ClearsTokenMove, ClearsToken, LockTyped, RecordInv, HandOffTypes
<1>7. ASSUME NEW r \in Requests, ClearsDir(r)
      PROVE  LockTyped'
  BY <1>7, SMT DEF ClearsDir, NoLockDir, LockTyped, LockDirs, RecordInv, HandOffTypes
<1>8. ASSUME NEW r \in Requests, Fences(r)
      PROVE  LockTyped'
  <2>1. FencesMove(r)
    BY <1>8, FencesMoves, SMT DEF RecordInv, HandOffTypes, Judged, Judging, Fences
  <2>2. QED BY <1>8, <2>1, SMT DEF FencesMove, Fences, LockTyped, RecordInv, HandOffTypes
<1>9. ASSUME NEW r \in Requests, Renames(r)
      PROVE  LockTyped'
  <2>1. RenamesMove(r)
    BY <1>9, RenamesMoves
  <2>2. QED BY <2>1, NoLockFields, SMT DEF RenamesMove, LockTyped, RecordInv, HandOffTypes
<1>10. ASSUME NEW r \in Requests, Unfences(r)
      PROVE  LockTyped'
  <2>1. UnfencesMove(r)
    BY <1>10, UnfencesMoves, SMT DEF RecordInv, HandOffTypes, Judged, Judging, Unfences
  <2>2. QED BY <1>10, <2>1, SMT DEF UnfencesMove, Unfences, LockTyped, RecordInv,
               HandOffTypes
<1>11. ASSUME NEW r \in Requests, HelperClaims(r)
      PROVE  LockTyped'
  <2>1. HelperClaimsMove(r)
    BY <1>11, HelperClaimsMoves, SMT DEF RecordInv, HandOffTypes
  <2>2. QED BY <1>11, <2>1, SMT
       DEF HelperClaimsMove, HelperClaims, LockTyped, RecordInv, HandOffTypes
<1>12. ASSUME NEW r \in Requests, HelperUnclaims(r)
      PROVE  LockTyped'
  <2>1. HelperUnclaimsMove(r)
    BY <1>12, HelperUnclaimsMoves, SMT DEF RecordInv, HandOffTypes
  <2>2. QED BY <1>12, <2>1, SMT
       DEF HelperUnclaimsMove, HelperUnclaims, LockTyped, RecordInv, HandOffTypes
<1>13. ASSUME NEW r \in Requests, HelperReleases(r)
      PROVE  LockTyped'
  <2>1. HelperReleasesMove(r)
    BY <1>13, HelperReleasesMoves, SMT DEF RecordInv, HandOffTypes
  <2>2. QED BY <1>13, <2>1, SMT
       DEF HelperReleasesMove, HelperReleases, LockTyped, RecordInv, HandOffTypes
<1>14. ASSUME NEW r \in Requests, HelperRemoves(r)
      PROVE  LockTyped'
  BY <1>14, SMT DEF HelperRemoves, NoLockDir, LockTyped, LockDirs, RecordInv, HandOffTypes
<1>15. ASSUME LockAges
      PROVE  LockTyped'
  <2>1. LockAgesMove
    BY <1>15, LockAgesMoves, SMT DEF RecordInv, HandOffTypes
  <2>2. QED BY <1>15, <2>1, SMT DEF LockAgesMove, LockAges, LockTyped, RecordInv,
               HandOffTypes
<1>16. QED
  BY HelperWritesAre, <1>1, <1>2, <1>3, <1>4, <1>5, <1>6, <1>7, <1>8, <1>9, <1>10, <1>11,
     <1>12, <1>13, <1>14, <1>15, SMT
     DEF RestartNext, AskerSteps, HelperSteps

\* Every step keeps the type of the records.
LEMMA RecordsTypedKeeps ==
  ASSUME RecordInv, RestartNext
  PROVE  RecordsTyped'
<1>1. ASSUME UNCHANGED <<handoff, seen, own, running, bridges>>
      PROVE  RecordsTyped'
  BY <1>1, Zenon DEF RecordInv, HandOffTypes, RecordsTyped
<1>2. ASSUME NEW r \in Requests,
             MakesLock(r) \/ PutsToken(r) \/ Launches(r) \/ ClearsToken(r) \/ ClearsDir(r)
               \/ Proves(r) \/ Fences(r) \/ Rechecks(r) \/ Renames(r) \/ Unfences(r)
               \/ HelperClaims(r) \/ HelperRereads(r) \/ HelperUnclaims(r)
               \/ HelperReleases(r) \/ HelperRemoves(r) \/ Ages(r) \/ AskerDies(r)
               \/ HelperDies(r)
      PROVE  UNCHANGED <<handoff, seen, own, running, bridges>>
  BY <1>2, Zenon
     DEF MakesLock, PutsToken, Launches, ClearsToken, ClearsDir, Proves, Fences, Rechecks,
         Renames, Unfences, HelperClaims, HelperRereads, HelperUnclaims, HelperReleases,
         HelperRemoves, Ages, AskerDies, HelperDies, lockVars, askVars, helperVars, runVars
<1>3. ASSUME LockAges
      PROVE  UNCHANGED <<handoff, seen, own, running, bridges>>
  BY <1>3, Zenon DEF LockAges, askVars, helperVars, runVars
<1>4. ASSUME NEW r \in Requests, Validates(r)
      PROVE  RecordsTyped'
  <2>1. ValidatesMove(r)
    BY <1>4, ValidatesMoves
  <2>2. QED BY <2>1, SMT DEF ValidatesMove, RecordsTyped, RecordInv, HandOffTypes
<1>4a. ASSUME NEW r \in Requests, Publishes(r)
      PROVE  RecordsTyped'
  <2>1. PublishesMove(r)
    BY <1>4a, PublishesMoves
  <2>2. QED BY <2>1, SMT
       DEF PublishesMove, RecordsTyped, RecordInv, HandOffTypes
<1>5. ASSUME NEW r \in Requests, LaunchFails(r)
      PROVE  RecordsTyped'
  <2>1. LaunchFailsMove(r)
    BY <1>5, LaunchFailsMoves
  <2>2. QED BY <2>1, SMT DEF LaunchFailsMove, RecordsTyped, RecordInv, HandOffTypes
<1>6. ASSUME NEW r \in Requests, Finds(r)
      PROVE  RecordsTyped'
  <2>1. FindsMove(r)
    BY <1>6, FindsMoves
  <2>2. QED BY <2>1, SMT DEF FindsMove, RecordsTyped, RecordInv, HandOffTypes
<1>7. ASSUME NEW r \in Requests, HelperReads(r)
      PROVE  RecordsTyped'
  BY <1>7, SMT
     DEF HelperReads, RecordsTyped, RecordInv, HandOffTypes, lockVars, askVars, runVars
<1>8. ASSUME NEW r \in Requests, HelperWrites(r), BridgesGo
      PROVE  RecordsTyped'
  BY <1>8, SMT
     DEF HelperWrites, RecordsTyped, BridgesGo, RecordInv, HandOffTypes, askVars, Handoffs
<1>9. ASSUME NEW r \in Requests, HelperGoesOn(r), BridgesGo
      PROVE  RecordsTyped'
  <2>1. /\ own' \in [Requests -> Handoffs]
        /\ \A q \in Requests : own'[q].id = own[q].id /\ own'[q].new <= bridges'
    <3>1. CASE UNCHANGED own
      BY <1>9, <3>1, SMT DEF RecordInv, HandOffTypes, RecordsTyped, BridgesGo, Handoffs
    <3>2. ASSUME NEW b \in Nat, b <= bridges', own' = [own EXCEPT ![r].new = b]
          PROVE  <2>1
      <4> DEFINE g == [own[r] EXCEPT !.new = b]
      <4>1. g \in Handoffs /\ g.id = own[r].id /\ g.new = b
        BY NewTyped, SMT DEF RecordInv, HandOffTypes, RecordsTyped
      <4>2. own' = [own EXCEPT ![r] = g]
        BY <3>2, Zenon
      <4> HIDE DEF g
      <4>3. \A q \in Requests : own[q].new <= bridges'
        BY <1>9, SMT DEF RecordInv, HandOffTypes, RecordsTyped, BridgesGo, Handoffs
      <4>4. QED BY <3>2, <4>1, <4>2, <4>3, SMT DEF RecordInv, HandOffTypes, RecordsTyped
    <3>3. QED BY <1>9, <3>1, <3>2, Zenon DEF HelperGoesOn
  <2>2. UNCHANGED <<handoff, seen>>
    BY <1>9, Zenon DEF HelperGoesOn, askVars
  <2>3. QED BY <1>9, <2>1, <2>2, SMT
       DEF RecordInv, HandOffTypes, RecordsTyped, BridgesGo, Handoffs
<1>10. ASSUME BridgeEnds
      PROVE  RecordsTyped'
  BY <1>10, SMT
     DEF BridgeEnds, RecordsTyped, RecordInv, HandOffTypes, lockVars, askVars, helperVars
<1>11. ASSUME BridgeStarts
      PROVE  RecordsTyped'
  BY <1>11, RestartConstants, SMT
     DEF BridgeStarts, RecordsTyped, Spawn, RecordInv, HandOffTypes, lockVars, askVars,
         helperVars, Handoffs
<1>12. QED
  BY HelperWritesAre, <1>4a, <1>1, <1>2, <1>3, <1>4, <1>5, <1>6, <1>7, <1>8, <1>9, <1>10, <1>11,
     SMT
     DEF RestartNext, AskerSteps, HelperSteps

\* Every step keeps: a helper runs only for an asker that returned.
LEMMA LaunchedKeeps ==
  ASSUME RecordInv, RestartNext
  PROVE  Launched'
<1>1. ASSUME UNCHANGED <<asker, helper>>
      PROVE  Launched'
  BY <1>1, Zenon DEF RecordInv, Launched
<1>2. ASSUME NEW r \in Requests,
             Ages(r)
      PROVE  UNCHANGED <<asker, helper>>
  BY <1>2, Zenon DEF Ages, askVars, helperVars
<1>3. ASSUME LockAges \/ BridgeEnds \/ BridgeStarts
      PROVE  UNCHANGED <<asker, helper>>
  BY <1>3, Zenon DEF LockAges, BridgeEnds, BridgeStarts, askVars, helperVars
<1>4. ASSUME NEW r \in Requests, MakesLock(r)
      PROVE  Launched'
  BY <1>4, SMT DEF MakesLock, Asks, Launched, RecordInv, HandOffTypes, PlacesTyped,
     helperVars
<1>5. ASSUME NEW r \in Requests, PutsToken(r)
      PROVE  Launched'
  BY <1>5, SMT DEF PutsToken, Asks, Launched, RecordInv, HandOffTypes, PlacesTyped,
     helperVars
<1>6. ASSUME NEW r \in Requests, Validates(r)
      PROVE  Launched'
  BY <1>6, SMT DEF Validates, SavesFailed, Asks, Launched, RecordInv, HandOffTypes, PlacesTyped,
     helperVars
<1>6a. ASSUME NEW r \in Requests, Publishes(r)
      PROVE  Launched'
  BY <1>6a, SMT DEF Publishes, Asks, Launched, RecordInv, HandOffTypes, PlacesTyped,
     helperVars
<1>7. ASSUME NEW r \in Requests, Launches(r)
      PROVE  Launched'
  BY <1>7, SMT DEF Launches, Asks, Helps, Launched, RecordInv, HandOffTypes, PlacesTyped
<1>8. ASSUME NEW r \in Requests, LaunchFails(r)
      PROVE  Launched'
  BY <1>8, SMT DEF LaunchFails, SavesFailed, Asks, Launched, RecordInv, helperVars
<1>9. ASSUME NEW r \in Requests, ClearsToken(r)
      PROVE  Launched'
  BY <1>9, SMT
     DEF ClearsToken, Asks, Launched, RecordInv, HandOffTypes, PlacesTyped, helperVars
<1>10. ASSUME NEW r \in Requests, ClearsDir(r)
      PROVE  Launched'
  BY <1>10, SMT DEF ClearsDir, Asks, Launched, RecordInv, helperVars
<1>11. ASSUME NEW r \in Requests, Finds(r)
      PROVE  Launched'
  BY <1>11, SMT DEF Finds, Asks, Launched, RecordInv, HandOffTypes, PlacesTyped, helperVars
<1>12. ASSUME NEW r \in Requests, Proves(r)
      PROVE  Launched'
  BY <1>12, SMT DEF Proves, Asks, Launched, RecordInv, HandOffTypes, PlacesTyped, helperVars
<1>13. ASSUME NEW r \in Requests, Fences(r)
      PROVE  Launched'
  BY <1>13, SMT DEF Fences, Asks, Launched, RecordInv, HandOffTypes, PlacesTyped, helperVars
<1>14. ASSUME NEW r \in Requests, Rechecks(r)
      PROVE  Launched'
  BY <1>14, SMT DEF Rechecks, Asks, Launched, RecordInv, HandOffTypes, PlacesTyped,
     helperVars
<1>15. ASSUME NEW r \in Requests, Renames(r)
      PROVE  Launched'
  BY <1>15, SMT DEF Renames, Asks, Launched, RecordInv, HandOffTypes, PlacesTyped,
     helperVars
<1>16. ASSUME NEW r \in Requests, Unfences(r)
      PROVE  Launched'
  BY <1>16, SMT DEF Unfences, Asks, Launched, RecordInv, helperVars
<1>17. ASSUME NEW r \in Requests, HelperReads(r)
      PROVE  Launched'
  BY <1>17, SMT
     DEF HelperReads, Helps, Launched, RecordInv, HandOffTypes, PlacesTyped, askVars
<1>18. ASSUME NEW r \in Requests, HelperClaims(r)
      PROVE  Launched'
  BY <1>18, SMT
     DEF HelperClaims, Helps, Launched, RecordInv, HandOffTypes, PlacesTyped, askVars
<1>19. ASSUME NEW r \in Requests, HelperRereads(r)
      PROVE  Launched'
  BY <1>19, SMT DEF HelperRereads, Helps, Launched, RecordInv, askVars
<1>20. ASSUME NEW r \in Requests, HelperUnclaims(r)
      PROVE  Launched'
  BY <1>20, SMT DEF HelperUnclaims, Helps, Launched, RecordInv, askVars
<1>21. ASSUME NEW r \in Requests, HelperWrites(r), BridgesGo
      PROVE  Launched'
  BY <1>21, SMT DEF HelperWrites, Launched, Saving, RecordInv, askVars
<1>22. ASSUME NEW r \in Requests, HelperGoesOn(r), BridgesGo
      PROVE  Launched'
  BY <1>22, GoesOnKeeps, SMT DEF Launched, RecordInv, Saving
<1>23. ASSUME NEW r \in Requests, HelperReleases(r)
      PROVE  Launched'
  BY <1>23, SMT
     DEF HelperReleases, Helps, Launched, RecordInv, HandOffTypes, PlacesTyped, askVars
<1>24. ASSUME NEW r \in Requests, HelperRemoves(r)
      PROVE  Launched'
  BY <1>24, SMT DEF HelperRemoves, Helps, Launched, RecordInv, askVars
<1>25. ASSUME NEW r \in Requests, AskerDies(r)
      PROVE  Launched'
  BY <1>25, SMT DEF AskerDies, Asks, Over, Launched, RecordInv, helperVars
<1>26. ASSUME NEW r \in Requests, HelperDies(r)
      PROVE  Launched'
  BY <1>26, SMT DEF HelperDies, Helps, Launched, RecordInv, askVars
<1>27. QED
  BY HelperWritesAre, <1>6a, <1>1, <1>2, <1>3, <1>4, <1>5, <1>6, <1>7, <1>8, <1>9, <1>10, <1>11,
     <1>12, <1>13, <1>14, <1>15, <1>16, <1>17, <1>18, <1>19, <1>20, <1>21, <1>22, <1>23,
     <1>24, <1>25, <1>26, SMT
     DEF RestartNext, AskerSteps, HelperSteps

\* Every step keeps: nobody has read, or moved away, what is not published.
LEMMA UnpublishedKeeps ==
  ASSUME RecordInv, RestartNext
  PROVE  Unpublished'
<1>1. ASSUME UNCHANGED <<asker, quarantine, handoff, seen>>
      PROVE  Unpublished'
  BY <1>1, Zenon DEF RecordInv, Unpublished
<1>2. ASSUME NEW r \in Requests,
             HelperReads(r) \/ HelperClaims(r) \/ HelperRereads(r) \/ HelperUnclaims(r)
               \/ HelperGoesOn(r) \/ HelperReleases(r) \/ HelperRemoves(r) \/ Ages(r)
               \/ HelperDies(r)
      PROVE  UNCHANGED <<asker, quarantine, handoff, seen>>
  BY <1>2, Zenon
     DEF HelperReads, HelperClaims, HelperRereads, HelperUnclaims, HelperGoesOn,
         HelperReleases, HelperRemoves, Ages, HelperDies, lockVars, askVars
<1>3. ASSUME LockAges \/ BridgeEnds \/ BridgeStarts
      PROVE  UNCHANGED <<asker, quarantine, handoff, seen>>
  BY <1>3, Zenon DEF LockAges, BridgeEnds, BridgeStarts, lockVars, askVars
<1>4. ASSUME NEW r \in Requests, MakesLock(r)
      PROVE  Unpublished'
  BY <1>4, SMT
     DEF MakesLock, Asks, Unpublished, AskerPlaces, RecordInv, HandOffTypes, PlacesTyped
<1>5. ASSUME NEW r \in Requests, PutsToken(r)
      PROVE  Unpublished'
  BY <1>5, SMT
     DEF PutsToken, Asks, Unpublished, AskerPlaces, RecordInv, HandOffTypes, PlacesTyped
<1>6. ASSUME NEW r \in Requests, Validates(r)
      PROVE  Unpublished'
  <2>1. ValidatesMove(r)
    BY <1>6, ValidatesMoves
  <2>2. QED BY <2>1, SMT
       DEF ValidatesMove, Unpublished, Unsent, Judging, RecordInv, HandOffTypes, PlacesTyped,
           RecordsTyped
<1>6a. ASSUME NEW r \in Requests, Publishes(r)
      PROVE  Unpublished'
  <2>1. PublishesMove(r)
    BY <1>6a, PublishesMoves
  <2>2. QED BY <2>1, SMT
       DEF PublishesMove, Unpublished, Unsent, Judging, RecordInv, HandOffTypes, PlacesTyped,
           RecordsTyped
<1>7. ASSUME NEW r \in Requests, Launches(r)
      PROVE  Unpublished'
  BY <1>7, SMT DEF Launches, Asks, Unpublished, Unsent, Judging, RecordInv, lockVars
<1>8. ASSUME NEW r \in Requests, LaunchFails(r)
      PROVE  Unpublished'
  <2>1. LaunchFailsMove(r)
    BY <1>8, LaunchFailsMoves
  <2>2. QED BY <2>1, SMT DEF LaunchFailsMove, Unpublished, Unsent, Judging, RecordInv,
           HandOffTypes, PlacesTyped, RecordsTyped
<1>9. ASSUME NEW r \in Requests, ClearsToken(r)
      PROVE  Unpublished'
  BY <1>9, SMT
     DEF ClearsToken, Asks, Unpublished, Unsent, Judging, RecordInv, HandOffTypes,
         PlacesTyped
<1>10. ASSUME NEW r \in Requests, ClearsDir(r)
      PROVE  Unpublished'
  BY <1>10, SMT DEF ClearsDir, Asks, Unpublished, Unsent, Judging, RecordInv
<1>11. ASSUME NEW r \in Requests, Finds(r)
      PROVE  Unpublished'
  BY <1>11, SMT
     DEF Finds, Asks, Unpublished, Unsent, RecordInv, HandOffTypes, PlacesTyped,
         RecordsTyped, lockVars
<1>12. ASSUME NEW r \in Requests, Proves(r)
      PROVE  Unpublished'
  BY <1>12, SMT
     DEF Proves, Asks, Unpublished, AskerPlaces, RecordInv, HandOffTypes, PlacesTyped,
         lockVars
<1>13. ASSUME NEW r \in Requests, Fences(r)
      PROVE  Unpublished'
  BY <1>13, SMT
     DEF Fences, Asks, Unpublished, AskerPlaces, RecordInv, HandOffTypes, PlacesTyped
<1>14. ASSUME NEW r \in Requests, Rechecks(r)
      PROVE  Unpublished'
  BY <1>14, SMT
     DEF Rechecks, Asks, Unpublished, AskerPlaces, RecordInv, HandOffTypes, PlacesTyped,
         lockVars
<1>15. ASSUME NEW r \in Requests, Renames(r)
      PROVE  Unpublished'
  BY <1>15, SMT
     DEF Renames, Asks, Unpublished, AskerPlaces, RecordInv, HandOffTypes, PlacesTyped
<1>16. ASSUME NEW r \in Requests, Unfences(r)
      PROVE  Unpublished'
  BY <1>16, SMT
     DEF Unfences, Asks, Unpublished, AskerPlaces, RecordInv, HandOffTypes, PlacesTyped
<1>17. ASSUME NEW r \in Requests, HelperWrites(r), BridgesGo
      PROVE  Unpublished'
  BY <1>17, SMT
     DEF HelperWrites, Unpublished, Unsent, Judging, Saving, RecordInv, Launched, askVars
<1>18. ASSUME NEW r \in Requests, AskerDies(r)
      PROVE  Unpublished'
  BY <1>18, SMT DEF AskerDies, Asks, Unpublished, Unsent, Judging, RecordInv, lockVars
<1>19. QED
  BY HelperWritesAre, <1>6a, <1>1, <1>2, <1>3, <1>4, <1>5, <1>6, <1>7, <1>8, <1>9, <1>10, <1>11,
     <1>12, <1>13, <1>14, <1>15, <1>16, <1>17, <1>18, SMT
     DEF RestartNext, AskerSteps, HelperSteps

\* Every step keeps the record true of its helper.
LEMMA TruthfulHandoffKeeps ==
  ASSUME RecordInv, RestartNext
  PROVE  Truthful(handoff)'
<1>1. ASSUME UNCHANGED <<handoff, helper, asker>>
      PROVE  Truthful(handoff)'
  BY <1>1, Zenon DEF RecordInv, Truthful, Unlaunched
<1>2. ASSUME NEW r \in Requests,
             Ages(r)
      PROVE  UNCHANGED <<handoff, helper, asker>>
  BY <1>2, Zenon DEF Ages, lockVars, askVars, helperVars
<1>3. ASSUME LockAges \/ BridgeEnds \/ BridgeStarts
      PROVE  UNCHANGED <<handoff, helper, asker>>
  BY <1>3, Zenon DEF LockAges, BridgeEnds, BridgeStarts, lockVars, askVars, helperVars
<1>4. ASSUME NEW r \in Requests, MakesLock(r)
      PROVE  Truthful(handoff)'
  BY <1>4, OnwardKeeps, SMT DEF MakesLock, Truthful, RecordInv, Onward
<1>5. ASSUME NEW r \in Requests, PutsToken(r)
      PROVE  Truthful(handoff)'
  BY <1>5, OnwardKeeps, SMT DEF PutsToken, Truthful, RecordInv, Onward
<1>6. ASSUME NEW r \in Requests, Validates(r)
      PROVE  Truthful(handoff)'
  <2>1. ValidatesMove(r)
    BY <1>6, ValidatesMoves
  <2>2. QED BY <2>1, OnwardKeeps, SMT
       DEF ValidatesMove, Onward, Truthful, RecordInv, HandOffTypes, PlacesTyped, Launched, Unlaunched
<1>6a. ASSUME NEW r \in Requests, Publishes(r)
      PROVE  Truthful(handoff)'
  <2>1. PublishesMove(r)
    BY <1>6a, PublishesMoves
  <2>2. QED BY <2>1, SMT
       DEF PublishesMove, Truthful, RecordInv, HandOffTypes, PlacesTyped, Launched, Unlaunched
<1>7. ASSUME NEW r \in Requests, Launches(r)
      PROVE  Truthful(handoff)'
  BY <1>7, OnwardKeeps, SMT DEF Launches, Truthful, RecordInv, Onward, lockVars
<1>8. ASSUME NEW r \in Requests, LaunchFails(r)
      PROVE  Truthful(handoff)'
  <2>1. LaunchFailsMove(r)
    BY <1>8, LaunchFailsMoves
  <2>2. QED BY <2>1, SMT
       DEF LaunchFailsMove, Truthful, RecordInv, HandOffTypes, PlacesTyped, Launched,
           Unlaunched
<1>9. ASSUME NEW r \in Requests, ClearsToken(r)
      PROVE  Truthful(handoff)'
  BY <1>9, OnwardKeeps, SMT DEF ClearsToken, Truthful, RecordInv, Onward
<1>10. ASSUME NEW r \in Requests, ClearsDir(r)
      PROVE  Truthful(handoff)'
  BY <1>10, OnwardKeeps, SMT DEF ClearsDir, Truthful, RecordInv, Onward
<1>11. ASSUME NEW r \in Requests, Finds(r)
      PROVE  Truthful(handoff)'
  BY <1>11, OnwardKeeps, SMT DEF Finds, Truthful, RecordInv, Onward, lockVars
<1>12. ASSUME NEW r \in Requests, Proves(r)
      PROVE  Truthful(handoff)'
  BY <1>12, OnwardKeeps, SMT DEF Proves, Truthful, RecordInv, Onward, lockVars
<1>13. ASSUME NEW r \in Requests, Fences(r)
      PROVE  Truthful(handoff)'
  BY <1>13, OnwardKeeps, SMT DEF Fences, Truthful, RecordInv, Onward
<1>14. ASSUME NEW r \in Requests, Rechecks(r)
      PROVE  Truthful(handoff)'
  BY <1>14, OnwardKeeps, SMT DEF Rechecks, Truthful, RecordInv, Onward, lockVars
<1>15. ASSUME NEW r \in Requests, Renames(r)
      PROVE  Truthful(handoff)'
  BY <1>15, OnwardKeeps, SMT DEF Renames, Truthful, RecordInv, Onward
<1>16. ASSUME NEW r \in Requests, Unfences(r)
      PROVE  Truthful(handoff)'
  BY <1>16, OnwardKeeps, SMT DEF Unfences, Truthful, RecordInv, Onward
<1>17. ASSUME NEW r \in Requests, HelperReads(r)
      PROVE  Truthful(handoff)'
  BY <1>17, OnwardKeeps, SMT DEF HelperReads, Truthful, RecordInv, Onward, lockVars
<1>18. ASSUME NEW r \in Requests, HelperClaims(r)
      PROVE  Truthful(handoff)'
  BY <1>18, OnwardKeeps, SMT DEF HelperClaims, Truthful, RecordInv, Onward
<1>19. ASSUME NEW r \in Requests, HelperRereads(r)
      PROVE  Truthful(handoff)'
  BY <1>19, OnwardKeeps, SMT DEF HelperRereads, Truthful, RecordInv, Onward, lockVars
<1>20. ASSUME NEW r \in Requests, HelperUnclaims(r)
      PROVE  Truthful(handoff)'
  BY <1>20, OnwardKeeps, SMT DEF HelperUnclaims, Truthful, RecordInv, Onward
<1>21. ASSUME NEW r \in Requests, HelperWrites(r), BridgesGo
      PROVE  Truthful(handoff)'
  BY <1>21, SMT DEF HelperWrites, Truthful
<1>22. ASSUME NEW r \in Requests, HelperGoesOn(r), BridgesGo
      PROVE  Truthful(handoff)'
  BY <1>22, OnwardKeeps, SMT DEF HelperGoesOn, Truthful, RecordInv, Onward
<1>23. ASSUME NEW r \in Requests, HelperReleases(r)
      PROVE  Truthful(handoff)'
  BY <1>23, OnwardKeeps, SMT DEF HelperReleases, Truthful, RecordInv, Onward
<1>24. ASSUME NEW r \in Requests, HelperRemoves(r)
      PROVE  Truthful(handoff)'
  BY <1>24, OnwardKeeps, SMT DEF HelperRemoves, Truthful, RecordInv, Onward
<1>25. ASSUME NEW r \in Requests, AskerDies(r)
      PROVE  Truthful(handoff)'
  BY <1>25, OnwardKeeps, SMT DEF AskerDies, Truthful, RecordInv, Onward, lockVars
<1>26. ASSUME NEW r \in Requests, HelperDies(r)
      PROVE  Truthful(handoff)'
  BY <1>26, OnwardKeeps, SMT DEF HelperDies, Truthful, RecordInv, Onward, lockVars
<1>27. QED
  BY HelperWritesAre, <1>6a, <1>1, <1>2, <1>3, <1>4, <1>5, <1>6, <1>7, <1>8, <1>9, <1>10, <1>11,
     <1>12, <1>13, <1>14, <1>15, <1>16, <1>17, <1>18, <1>19, <1>20, <1>21, <1>22, <1>23,
     <1>24, <1>25, <1>26, SMT
     DEF RestartNext, AskerSteps, HelperSteps

\* Every step keeps the copy of the helper its own.
LEMMA OwnTrueKeeps ==
  ASSUME RecordInv, RestartNext
  PROVE  OwnTrue'
<1>1. ASSUME UNCHANGED <<helper, own, asker, seen>>
      PROVE  OwnTrue'
  BY <1>1, Zenon DEF RecordInv, OwnTrue
<1>2. ASSUME NEW r \in Requests,
             Ages(r)
      PROVE  UNCHANGED <<helper, own, asker, seen>>
  BY <1>2, Zenon DEF Ages, askVars, helperVars
<1>3. ASSUME LockAges \/ BridgeEnds \/ BridgeStarts
      PROVE  UNCHANGED <<helper, own, asker, seen>>
  BY <1>3, Zenon DEF LockAges, BridgeEnds, BridgeStarts, askVars, helperVars
<1>4. ASSUME NEW r \in Requests, MakesLock(r)
      PROVE  OwnTrue'
  BY <1>4, SMT DEF MakesLock, Asks, OwnTrue, RecordInv, HandOffTypes, PlacesTyped,
     helperVars
<1>5. ASSUME NEW r \in Requests, PutsToken(r)
      PROVE  OwnTrue'
  BY <1>5, SMT DEF PutsToken, Asks, OwnTrue, RecordInv, HandOffTypes, PlacesTyped,
     helperVars
<1>6. ASSUME NEW r \in Requests, Validates(r)
      PROVE  OwnTrue'
  <2>1. ValidatesMove(r)
    BY <1>6, ValidatesMoves
  <2>2. QED BY <2>1, SMT
       DEF ValidatesMove, OwnTrue, RecordInv, HandOffTypes, RecordsTyped, PlacesTyped
<1>6a. ASSUME NEW r \in Requests, Publishes(r)
      PROVE  OwnTrue'
  <2>1. PublishesMove(r)
    BY <1>6a, PublishesMoves
  <2>2. QED BY <2>1, SMT
       DEF PublishesMove, OwnTrue, RecordInv, HandOffTypes, RecordsTyped, PlacesTyped
<1>7. ASSUME NEW r \in Requests, Launches(r)
      PROVE  OwnTrue'
  BY <1>7, SMT DEF Launches, Asks, Helps, OwnTrue, Saving, RecordInv
<1>8. ASSUME NEW r \in Requests, LaunchFails(r)
      PROVE  OwnTrue'
  <2>1. LaunchFailsMove(r)
    BY <1>8, LaunchFailsMoves
  <2>2. QED BY <2>1, SMT
       DEF LaunchFailsMove, OwnTrue, RecordInv, HandOffTypes, RecordsTyped, PlacesTyped
<1>9. ASSUME NEW r \in Requests, ClearsToken(r)
      PROVE  OwnTrue'
  BY <1>9, SMT
     DEF ClearsToken, Asks, OwnTrue, RecordInv, HandOffTypes, PlacesTyped, helperVars
<1>10. ASSUME NEW r \in Requests, ClearsDir(r)
      PROVE  OwnTrue'
  BY <1>10, SMT DEF ClearsDir, Asks, OwnTrue, RecordInv, helperVars
<1>11. ASSUME NEW r \in Requests, Finds(r)
      PROVE  OwnTrue'
  BY <1>11, SMT
     DEF Finds, Asks, OwnTrue, RecordInv, HandOffTypes, RecordsTyped, PlacesTyped, helperVars
<1>12. ASSUME NEW r \in Requests, Proves(r)
      PROVE  OwnTrue'
  BY <1>12, SMT DEF Proves, Asks, OwnTrue, RecordInv, HandOffTypes, PlacesTyped, helperVars
<1>13. ASSUME NEW r \in Requests, Fences(r)
      PROVE  OwnTrue'
  BY <1>13, SMT DEF Fences, Asks, OwnTrue, RecordInv, HandOffTypes, PlacesTyped, helperVars
<1>14. ASSUME NEW r \in Requests, Rechecks(r)
      PROVE  OwnTrue'
  BY <1>14, SMT DEF Rechecks, Asks, OwnTrue, RecordInv, HandOffTypes, PlacesTyped,
     helperVars
<1>15. ASSUME NEW r \in Requests, Renames(r)
      PROVE  OwnTrue'
  BY <1>15, SMT DEF Renames, Asks, OwnTrue, RecordInv, HandOffTypes, PlacesTyped, helperVars
<1>16. ASSUME NEW r \in Requests, Unfences(r)
      PROVE  OwnTrue'
  BY <1>16, SMT DEF Unfences, Asks, OwnTrue, RecordInv, helperVars
<1>17. ASSUME NEW r \in Requests, HelperReads(r)
      PROVE  OwnTrue'
  BY <1>17, SMT
     DEF HelperReads, Helps, OwnTrue, Saving, RecordInv, HandOffTypes, RecordsTyped,
         PlacesTyped, askVars
<1>18. ASSUME NEW r \in Requests, HelperClaims(r)
      PROVE  OwnTrue'
  BY <1>18, SMT
     DEF HelperClaims, Helps, OwnTrue, Saving, RecordInv, HandOffTypes, PlacesTyped, askVars
<1>19. ASSUME NEW r \in Requests, HelperRereads(r)
      PROVE  OwnTrue'
  BY <1>19, SMT DEF HelperRereads, Helps, OwnTrue, Saving, RecordInv, askVars
<1>20. ASSUME NEW r \in Requests, HelperUnclaims(r)
      PROVE  OwnTrue'
  BY <1>20, SMT DEF HelperUnclaims, Helps, OwnTrue, Saving, RecordInv, askVars
<1>21. ASSUME NEW r \in Requests, HelperWrites(r), BridgesGo
      PROVE  OwnTrue'
  BY <1>21, SMT
     DEF HelperWrites, OwnTrue, Saving, RecordInv, HandOffTypes, RecordsTyped, PlacesTyped,
         askVars
<1>22. ASSUME NEW r \in Requests, HelperGoesOn(r), BridgesGo
      PROVE  OwnTrue'
  <2>1. own'[r].id = own[r].id /\ own'[r].helper = own[r].helper
    <3>1. CASE UNCHANGED own
      BY <3>1
    <3>2. ASSUME NEW b \in Nat, own' = [own EXCEPT ![r].new = b]
          PROVE  <2>1
      <4> DEFINE g == [own[r] EXCEPT !.new = b]
      <4>1. g \in Handoffs /\ g.id = own[r].id /\ g.helper = own[r].helper
        BY NewTyped, SMT DEF RecordInv, HandOffTypes, RecordsTyped
      <4>2. own' = [own EXCEPT ![r] = g]
        BY <3>2, Zenon
      <4> HIDE DEF g
      <4>3. QED BY <4>1, <4>2, SMT
    <3>3. QED BY <1>22, <3>2, Zenon DEF HelperGoesOn
  <2>2. \A q \in Requests \ {r} : own'[q] = own[q]
    BY <1>22, SMT DEF HelperGoesOn, RecordInv, HandOffTypes, RecordsTyped
  <2>3. /\ helper[r] \in Saving /\ helper'[r] \in Saving /\ UNCHANGED <<asker, seen>>
        /\ \A q \in Requests \ {r} : helper'[q] = helper[q]
    BY <1>22, SMT DEF HelperGoesOn, Saving, askVars
  <2>4. QED BY <2>1, <2>2, <2>3, SMT DEF RecordInv, OwnTrue, Saving
<1>23. ASSUME NEW r \in Requests, HelperReleases(r)
      PROVE  OwnTrue'
  BY <1>23, SMT
     DEF HelperReleases, Helps, OwnTrue, Saving, RecordInv, HandOffTypes, PlacesTyped, askVars
<1>24. ASSUME NEW r \in Requests, HelperRemoves(r)
      PROVE  OwnTrue'
  BY <1>24, SMT DEF HelperRemoves, Helps, OwnTrue, Saving, RecordInv, askVars
<1>25. ASSUME NEW r \in Requests, AskerDies(r)
      PROVE  OwnTrue'
  BY <1>25, SMT DEF AskerDies, Asks, OwnTrue, RecordInv, helperVars
<1>26. ASSUME NEW r \in Requests, HelperDies(r)
      PROVE  OwnTrue'
  BY <1>26, SMT DEF HelperDies, Helps, OwnTrue, Saving, RecordInv, askVars
<1>27. QED
  BY HelperWritesAre, <1>6a, <1>1, <1>2, <1>3, <1>4, <1>5, <1>6, <1>7, <1>8, <1>9, <1>10, <1>11,
     <1>12, <1>13, <1>14, <1>15, <1>16, <1>17, <1>18, <1>19, <1>20, <1>21, <1>22, <1>23,
     <1>24, <1>25, <1>26, SMT
     DEF RestartNext, AskerSteps, HelperSteps

\* Every step keeps what a reclaimer has proved of the request it judges.
LEMMA JudgedKeeps ==
  ASSUME RecordInv, RestartNext
  PROVE  Judged'
<1>1. ASSUME UNCHANGED <<asker, seen, age, helper, fencing>>
      PROVE  Judged'
  BY <1>1, Zenon DEF RecordInv, Judged, TooLate, Gone, Unlaunched
<1>2. ASSUME LockAges \/ BridgeEnds \/ BridgeStarts
      PROVE  UNCHANGED <<asker, seen, age, helper, fencing>>
  BY <1>2, Zenon DEF LockAges, BridgeEnds, BridgeStarts, askVars, helperVars
<1>3. ASSUME NEW r \in Requests, MakesLock(r)
      PROVE  Judged'
  BY <1>3, OnwardKeeps, SMT
     DEF MakesLock, Asks, Judged, TooLate, Judging, RecordInv, HandOffTypes, PlacesTyped,
         Onward
<1>4. ASSUME NEW r \in Requests, PutsToken(r)
      PROVE  Judged'
  BY <1>4, OnwardKeeps, SMT
     DEF PutsToken, Asks, Judged, TooLate, Judging, RecordInv, HandOffTypes, PlacesTyped,
         Onward
<1>5. ASSUME NEW r \in Requests, Validates(r)
      PROVE  Judged'
  BY <1>5, OnwardKeeps, SMT
     DEF Validates, SavesFailed, Asks, Judged, TooLate, Judging, RecordInv, HandOffTypes, RecordsTyped,
         PlacesTyped, Onward
<1>5a. ASSUME NEW r \in Requests, Publishes(r)
      PROVE  Judged'
  BY <1>5a, OnwardKeeps, SMT DEF Publishes, Asks, Judged, TooLate, Judging, RecordInv,
     HandOffTypes, PlacesTyped, Onward, helperVars
<1>6. ASSUME NEW r \in Requests, Launches(r)
      PROVE  Judged'
  BY <1>6, OnwardKeeps, SMT DEF Launches, Asks, Judged, TooLate, Judging, RecordInv, Onward
<1>7. ASSUME NEW r \in Requests, LaunchFails(r)
      PROVE  Judged'
  <2>1. LaunchFailsMove(r)
    BY <1>7, LaunchFailsMoves
  <2>2. QED BY <2>1, OnwardKeeps, SMT
       DEF LaunchFailsMove, Judged, TooLate, Judging, RecordInv, HandOffTypes, RecordsTyped,
           PlacesTyped, Onward
<1>8. ASSUME NEW r \in Requests, ClearsToken(r)
      PROVE  Judged'
  BY <1>8, OnwardKeeps, SMT
     DEF ClearsToken, Asks, Judged, TooLate, Judging, RecordInv, HandOffTypes, PlacesTyped,
         Onward
<1>9. ASSUME NEW r \in Requests, ClearsDir(r)
      PROVE  Judged'
  BY <1>9, OnwardKeeps, SMT DEF ClearsDir, Asks, Judged, TooLate, Judging, RecordInv, Onward
<1>10. ASSUME NEW r \in Requests, Finds(r)
      PROVE  Judged'
  <2>1. FindsMove(r)
    BY <1>10, FindsMoves
  <2>2. QED BY <2>1, OnwardKeeps, SMT
       DEF FindsMove, Judged, TooLate, Judging, RecordInv, HandOffTypes, RecordsTyped,
           PlacesTyped, Onward
<1>11. ASSUME NEW r \in Requests, Proves(r)
      PROVE  Judged'
  <2>1. ProvesMove(r)
    BY <1>11, ProvesMoves
  <2>2. QED BY <2>1, OnwardKeeps, SMT
       DEF ProvesMove, Judged, TooLate, Judging, RecordInv, HandOffTypes, PlacesTyped, Onward
<1>12. ASSUME NEW r \in Requests, Fences(r)
      PROVE  Judged'
  BY <1>12, OnwardKeeps, SMT
     DEF Fences, Asks, Judged, TooLate, Judging, RecordInv, HandOffTypes, PlacesTyped, Onward
<1>13. ASSUME NEW r \in Requests, Rechecks(r)
      PROVE  Judged'
  BY <1>13, OnwardKeeps, SMT
     DEF Rechecks, Asks, Judged, TooLate, Judging, RecordInv, HandOffTypes, PlacesTyped,
         Onward
<1>14. ASSUME NEW r \in Requests, Renames(r)
      PROVE  Judged'
  BY <1>14, OnwardKeeps, SMT
     DEF Renames, Asks, Judged, TooLate, Judging, RecordInv, HandOffTypes, PlacesTyped, Onward
<1>15. ASSUME NEW r \in Requests, Unfences(r)
      PROVE  Judged'
  BY <1>15, OnwardKeeps, SMT DEF Unfences, Asks, Judged, TooLate, Judging, RecordInv, Onward
<1>16. ASSUME NEW r \in Requests, HelperReads(r)
      PROVE  Judged'
  BY <1>16, OnwardKeeps, SMT DEF HelperReads, Judged, TooLate, RecordInv, Onward, askVars
<1>17. ASSUME NEW r \in Requests, HelperClaims(r)
      PROVE  Judged'
  BY <1>17, OnwardKeeps, SMT DEF HelperClaims, Judged, TooLate, RecordInv, Onward, askVars
<1>18. ASSUME NEW r \in Requests, HelperRereads(r)
      PROVE  Judged'
  BY <1>18, OnwardKeeps, SMT DEF HelperRereads, Judged, TooLate, RecordInv, Onward, askVars
<1>19. ASSUME NEW r \in Requests, HelperUnclaims(r)
      PROVE  Judged'
  BY <1>19, OnwardKeeps, SMT DEF HelperUnclaims, Judged, TooLate, RecordInv, Onward, askVars
<1>20. ASSUME NEW r \in Requests, HelperWrites(r), BridgesGo
      PROVE  Judged'
  BY <1>20, OnwardKeeps, SMT DEF HelperWrites, Judged, TooLate, RecordInv, Onward, askVars
<1>21. ASSUME NEW r \in Requests, HelperGoesOn(r), BridgesGo
      PROVE  Judged'
  BY <1>21, OnwardKeeps, SMT DEF HelperGoesOn, Judged, TooLate, RecordInv, Onward, askVars
<1>22. ASSUME NEW r \in Requests, HelperReleases(r)
      PROVE  Judged'
  BY <1>22, OnwardKeeps, SMT DEF HelperReleases, Judged, TooLate, RecordInv, Onward, askVars
<1>23. ASSUME NEW r \in Requests, HelperRemoves(r)
      PROVE  Judged'
  BY <1>23, OnwardKeeps, SMT DEF HelperRemoves, Judged, TooLate, RecordInv, Onward, askVars
<1>24. ASSUME NEW r \in Requests, Ages(r)
      PROVE  Judged'
  BY <1>24, OnwardKeeps, SMT DEF Ages, Judged, TooLate, RecordInv, Onward, askVars
<1>25. ASSUME NEW r \in Requests, AskerDies(r)
      PROVE  Judged'
  BY <1>25, OnwardKeeps, SMT DEF AskerDies, Asks, Judged, TooLate, Judging, RecordInv,
     Onward
<1>26. ASSUME NEW r \in Requests, HelperDies(r)
      PROVE  Judged'
  BY <1>26, OnwardKeeps, SMT DEF HelperDies, Judged, TooLate, RecordInv, Onward, askVars
<1>27. QED
  BY HelperWritesAre, <1>5a, <1>1, <1>2, <1>3, <1>4, <1>5, <1>6, <1>7, <1>8, <1>9, <1>10, <1>11,
     <1>12, <1>13, <1>14, <1>15, <1>16, <1>17, <1>18, <1>19, <1>20, <1>21, <1>22, <1>23,
     <1>24, <1>25, <1>26, SMT
     DEF RestartNext, AskerSteps, HelperSteps

\* Every step keeps the token of a request that is expected to act.
LEMMA TokensKeptKeeps ==
  ASSUME RecordInv, TokensKept, KeepsNewerLocks, RestartNext
  PROVE  TokensKept'
<1>1. ASSUME UNCHANGED <<lockDir, asker, helper, quarantine>>
      PROVE  TokensKept'
  BY <1>1, Zenon DEF TokensKept, Expected
<1>2. ASSUME NEW r \in Requests,
             Ages(r)
      PROVE  UNCHANGED <<lockDir, asker, helper, quarantine>>
  BY <1>2, Zenon DEF Ages, lockVars, askVars, helperVars
<1>3. ASSUME BridgeEnds \/ BridgeStarts
      PROVE  UNCHANGED <<lockDir, asker, helper, quarantine>>
  BY <1>3, Zenon DEF BridgeEnds, BridgeStarts, lockVars, askVars, helperVars
<1>4. ASSUME NEW r \in Requests, MakesLock(r)
      PROVE  TokensKept'
  <2>1. MakesLockMove(r)
    BY <1>4, MakesLockMoves, SMT DEF RecordInv, HandOffTypes
  <2>2. QED BY <1>4, RestartConstants, SMT
       DEF MakesLock, Asks, NoLockDir, TokensKept, Expected, RecordInv, HandOffTypes,
           PlacesTyped, helperVars
<1>5. ASSUME NEW r \in Requests, PutsToken(r)
      PROVE  TokensKept'
  <2>1. PutsTokenMove(r)
    BY <1>5, PutsTokenMoves, SMT DEF RecordInv, HandOffTypes
  <2>2. QED BY <1>5, <2>1, RestartConstants, SMT
       DEF PutsTokenMove, PutsToken, TokensKept, Expected, RecordInv, HandOffTypes,
           PlacesTyped, helperVars
<1>6. ASSUME NEW r \in Requests, Validates(r)
      PROVE  TokensKept'
  BY <1>6, SMT
     DEF Validates, SavesFailed, Asks, TokensKept, Expected, RecordInv, HandOffTypes, PlacesTyped,
         helperVars
<1>6a. ASSUME NEW r \in Requests, Publishes(r)
      PROVE  TokensKept'
  BY <1>6a, SMT
     DEF Publishes, Asks, TokensKept, Expected, RecordInv, HandOffTypes, PlacesTyped,
         helperVars
<1>7. ASSUME NEW r \in Requests, Launches(r)
      PROVE  TokensKept'
  BY <1>7, SMT DEF Launches, Asks, Helps, TokensKept, Expected, lockVars
<1>8. ASSUME NEW r \in Requests, LaunchFails(r)
      PROVE  TokensKept'
  BY <1>8, SMT DEF LaunchFails, SavesFailed, Asks, TokensKept, Expected, helperVars
<1>9. ASSUME NEW r \in Requests, ClearsToken(r)
      PROVE  TokensKept'
  <2>1. ClearsTokenMove(r)
    BY <1>9, ClearsTokenMoves, SMT DEF RecordInv, HandOffTypes
  <2>2. QED BY <1>9, SMT
       DEF ClearsToken, Asks, TokensKept, Expected, Working, Claiming, Saving, RecordInv,
           HandOffTypes, PlacesTyped, Launched, helperVars
<1>10. ASSUME NEW r \in Requests, ClearsDir(r)
      PROVE  TokensKept'
  BY <1>10, SMT DEF ClearsDir, Empty, NoLockDir, Asks, TokensKept, Expected, helperVars
<1>11. ASSUME NEW r \in Requests, Finds(r)
      PROVE  TokensKept'
  BY <1>11, SMT
     DEF Finds, Asks, TokensKept, Expected, RecordInv, HandOffTypes, PlacesTyped, lockVars,
         helperVars
<1>12. ASSUME NEW r \in Requests, Proves(r)
      PROVE  TokensKept'
  BY <1>12, SMT
     DEF Proves, Asks, TokensKept, Expected, RecordInv, HandOffTypes, PlacesTyped, lockVars,
         helperVars
<1>13. ASSUME NEW r \in Requests, Fences(r)
      PROVE  TokensKept'
  <2>1. FencesMove(r)
    BY <1>13, FencesMoves, SMT DEF RecordInv, HandOffTypes, Judged, Judging, Fences
  <2>2. QED BY <1>13, <2>1, SMT
       DEF FencesMove, Fences, TokensKept, Expected, RecordInv, HandOffTypes, PlacesTyped,
           helperVars
<1>14. ASSUME NEW r \in Requests, Rechecks(r)
      PROVE  TokensKept'
  BY <1>14, SMT
     DEF Rechecks, Asks, TokensKept, Expected, RecordInv, HandOffTypes, PlacesTyped, lockVars,
         helperVars
<1>15. ASSUME NEW r \in Requests, Renames(r)
      PROVE  TokensKept'
  <2>1. RenamesMove(r)
    BY <1>15, RenamesMoves
  <2>2. QED BY <2>1, NoLockFields, SMT
       DEF RenamesMove, TokensKept, Expected, Unsent, RecordInv, HandOffTypes, PlacesTyped,
           Unpublished, KeepsNewerLocks, RenameHits, LockOf
<1>16. ASSUME NEW r \in Requests, Unfences(r)
      PROVE  TokensKept'
  <2>1. UnfencesMove(r)
    BY <1>16, UnfencesMoves, SMT DEF RecordInv, HandOffTypes, Judged, Judging, Unfences
  <2>2. QED BY <1>16, <2>1, SMT
       DEF UnfencesMove, Unfences, Asks, TokensKept, Expected, helperVars
<1>17. ASSUME NEW r \in Requests, HelperReads(r)
      PROVE  TokensKept'
  BY <1>17, SMT
     DEF HelperReads, Helps, TokensKept, Expected, Working, RecordInv, HandOffTypes,
         PlacesTyped, lockVars, askVars
<1>18. ASSUME NEW r \in Requests, HelperClaims(r)
      PROVE  TokensKept'
  <2>1. HelperClaimsMove(r)
    BY <1>18, HelperClaimsMoves, SMT DEF RecordInv, HandOffTypes
  <2>2. QED BY <1>18, <2>1, SMT
       DEF HelperClaimsMove, HelperClaims, TokensKept, Expected, Working, RecordInv,
           HandOffTypes, PlacesTyped, askVars
<1>19. ASSUME NEW r \in Requests, HelperRereads(r)
      PROVE  TokensKept'
  BY <1>19, SMT
     DEF HelperRereads, Helps, TokensKept, Expected, Working, Claiming, lockVars, askVars
<1>20. ASSUME NEW r \in Requests, HelperUnclaims(r)
      PROVE  TokensKept'
  <2>1. HelperUnclaimsMove(r)
    BY <1>20, HelperUnclaimsMoves, SMT DEF RecordInv, HandOffTypes
  <2>2. QED BY <1>20, <2>1, SMT
       DEF HelperUnclaimsMove, HelperUnclaims, Helps, TokensKept, Expected, Working, Claiming,
           askVars
<1>21. ASSUME NEW r \in Requests, HelperWrites(r), BridgesGo
      PROVE  TokensKept'
  BY <1>21, SMT DEF HelperWrites, TokensKept, Expected, Working, Claiming, askVars
<1>22. ASSUME NEW r \in Requests, HelperGoesOn(r), BridgesGo
      PROVE  TokensKept'
  BY <1>22, SMT DEF HelperGoesOn, TokensKept, Expected, Working, Claiming, Saving, askVars
<1>23. ASSUME NEW r \in Requests, HelperReleases(r)
      PROVE  TokensKept'
  <2>1. HelperReleasesMove(r)
    BY <1>23, HelperReleasesMoves, SMT DEF RecordInv, HandOffTypes
  <2>2. QED BY <1>23, RestartConstants, SMT
       DEF HelperReleases, Helps, LockOf, TokensKept, Expected, Working, Claiming, Saving,
           RecordInv, HandOffTypes, PlacesTyped, Launched, askVars
<1>24. ASSUME NEW r \in Requests, HelperRemoves(r)
      PROVE  TokensKept'
  BY <1>24, SMT
     DEF HelperRemoves, Helps, Empty, NoLockDir, TokensKept, Expected, Working, Claiming,
         Saving, askVars
<1>25. ASSUME NEW r \in Requests, AskerDies(r)
      PROVE  TokensKept'
  BY <1>25, SMT DEF AskerDies, Asks, TokensKept, Expected, lockVars, helperVars
<1>26. ASSUME NEW r \in Requests, HelperDies(r)
      PROVE  TokensKept'
  BY <1>26, SMT
     DEF HelperDies, Helps, TokensKept, Expected, Working, Claiming, Saving, lockVars, askVars
<1>27. ASSUME LockAges
      PROVE  TokensKept'
  <2>1. LockAgesMove
    BY <1>27, LockAgesMoves, SMT DEF RecordInv, HandOffTypes
  <2>2. QED BY <1>27, SMT DEF LockAges, TokensKept, Expected, askVars, helperVars
<1>28. QED
  BY HelperWritesAre, <1>6a, <1>1, <1>2, <1>3, <1>4, <1>5, <1>6, <1>7, <1>8, <1>9, <1>10, <1>11,
     <1>12, <1>13, <1>14, <1>15, <1>16, <1>17, <1>18, <1>19, <1>20, <1>21, <1>22, <1>23,
     <1>24, <1>25, <1>26, <1>27, SMT
     DEF RestartNext, AskerSteps, HelperSteps

\* Every step keeps the claim with the helper or with one reclaimer.
LEMMA ClaimsKeptKeeps ==
  ASSUME RecordInv, TokensKept, ClaimsKept, KeepsNewerLocks, RestartNext
  PROVE  ClaimsKept'
<1>1. ASSUME UNCHANGED <<lockDir, asker, helper, quarantine, fencing, seen>>
      PROVE  ClaimsKept'
  BY <1>1, Zenon DEF ClaimsKept, Expected, Holds
<1>2. ASSUME NEW r \in Requests,
             Ages(r)
      PROVE  UNCHANGED <<lockDir, asker, helper, quarantine, fencing, seen>>
  BY <1>2, Zenon DEF Ages, lockVars, askVars, helperVars
<1>3. ASSUME BridgeEnds \/ BridgeStarts
      PROVE  UNCHANGED <<lockDir, asker, helper, quarantine, fencing, seen>>
  BY <1>3, Zenon DEF BridgeEnds, BridgeStarts, lockVars, askVars, helperVars
<1>4. ASSUME NEW r \in Requests, MakesLock(r)
      PROVE  ClaimsKept'
  <2>1. MakesLockMove(r)
    BY <1>4, MakesLockMoves, SMT DEF RecordInv, HandOffTypes
  <2>2. QED BY <1>4, SMT
       DEF MakesLock, Asks, NoLockDir, ClaimsKept, Expected, Holds, RecordInv, HandOffTypes,
           PlacesTyped, helperVars
<1>5. ASSUME NEW r \in Requests, PutsToken(r)
      PROVE  ClaimsKept'
  <2>1. PutsTokenMove(r)
    BY <1>5, PutsTokenMoves, SMT DEF RecordInv, HandOffTypes
  <2>2. QED BY <1>5, RestartConstants, SMT
       DEF PutsToken, Asks, ClaimsKept, Expected, Holds, RecordInv, HandOffTypes, PlacesTyped,
           TokensKept, helperVars
<1>6. ASSUME NEW r \in Requests, Validates(r)
      PROVE  ClaimsKept'
  <2>1. ValidatesMove(r)
    BY <1>6, ValidatesMoves, Zenon
  <2>2. asker[r] = "owns" /\ UNCHANGED <<lockDir, quarantine, fencing, helper>>
    BY <1>6, Zenon DEF Validates, helperVars
  <2>3. asker[r] = "owns" /\ helper[r] = "none" /\ \A x \in Requests : seen[x].id # r
    BY <2>2, SMT DEF RecordInv, Launched, Unpublished, Unsent
  <2>4. /\ asker'[r] \in {"valid", "clears"} /\ \A q \in Requests \ {r} : asker'[q] = asker[q]
        /\ \A x \in Requests \ {r} : seen'[x] = seen[x]
    BY <2>1, SMT DEF ValidatesMove, RecordInv, HandOffTypes, PlacesTyped, RecordsTyped
  <2>5. \A x, q \in Requests : Holds(x, q)' => Holds(x, q) /\ q # r
    BY <2>2, <2>3, <2>4, SMT DEF Holds
  <2>6. \A q \in Requests \ {r} : Expected(q)' => Expected(q)
    BY <2>2, <2>4, SMT DEF Expected
  <2>7. helper'[r] \notin Claiming
    BY <2>2, <2>3, SMT DEF Claiming, Saving
  <2>8. QED BY <2>2, <2>5, <2>6, <2>7, SMT DEF ClaimsKept
<1>6a. ASSUME NEW r \in Requests, Publishes(r)
      PROVE  ClaimsKept'
  <2>1. PublishesMove(r)
    BY <1>6a, PublishesMoves
  <2>2. /\ UNCHANGED <<lockDir, quarantine, seen, fencing, helper>>
        /\ asker[r] = "valid" /\ asker'[r] = "launches"
        /\ \A q \in Requests \ {r} : asker'[q] = asker[q]
    BY <2>1, SMT DEF PublishesMove, RecordInv, HandOffTypes, PlacesTyped
  <2>3. QED BY <2>2, SMT DEF ClaimsKept, Expected, Holds
<1>7. ASSUME NEW r \in Requests, Launches(r)
      PROVE  ClaimsKept'
  BY <1>7, SMT
     DEF Launches, Asks, Helps, ClaimsKept, Expected, Claiming, Saving, Holds, lockVars
<1>8. ASSUME NEW r \in Requests, LaunchFails(r)
      PROVE  ClaimsKept'
  <2>1. LaunchFailsMove(r)
    BY <1>8, LaunchFailsMoves
  <2>2. UNCHANGED <<lockDir, quarantine, fencing, helper>>
    BY <2>1, Zenon DEF LaunchFailsMove
  <2>3. /\ asker'[r] = "clears" /\ \A q \in Requests \ {r} : asker'[q] = asker[q]
        /\ \A x \in Requests \ {r} : seen'[x] = seen[x]
    BY <2>1, SMT DEF LaunchFailsMove, RecordInv, HandOffTypes, PlacesTyped, RecordsTyped
  <2>4. \A x, q \in Requests : Holds(x, q)' => Holds(x, q)
    BY <2>2, <2>3, SMT DEF Holds
  <2>5. \A q \in Requests : Expected(q)' => Expected(q)
    BY <2>2, <2>3, SMT DEF Expected
  <2>6. QED BY <2>2, <2>4, <2>5, SMT DEF ClaimsKept
<1>9. ASSUME NEW r \in Requests, ClearsToken(r)
      PROVE  ClaimsKept'
  <2>1. ClearsTokenMove(r)
    BY <1>9, ClearsTokenMoves, SMT DEF RecordInv, HandOffTypes
  <2>2. QED BY <1>9, SMT
       DEF ClearsToken, Asks, ClaimsKept, Expected, Claiming, Saving, Holds, Judging, Unsent,
           RecordInv, HandOffTypes, PlacesTyped, Launched, Unpublished, TokensKept, helperVars
<1>10. ASSUME NEW r \in Requests, ClearsDir(r)
      PROVE  ClaimsKept'
  BY <1>10, SMT DEF ClearsDir, Empty, Asks, ClaimsKept, Expected, Holds, helperVars
<1>11. ASSUME NEW r \in Requests, Finds(r)
      PROVE  ClaimsKept'
  <2>1. UNCHANGED <<lockDir, quarantine, fencing, helper>> /\ asker[r] = "finds"
    BY <1>11, Zenon DEF Finds, lockVars, helperVars
  <2>2. /\ asker'[r] \in {"proves", "joined", "refused"}
        /\ \A q \in Requests \ {r} : asker'[q] = asker[q] /\ seen'[q] = seen[q]
    BY <1>11, FindsMoves, SMT
       DEF FindsMove, RecordInv, HandOffTypes, PlacesTyped, RecordsTyped
  <2>3. \A x, q \in Requests : Holds(x, q)' => Holds(x, q)
    BY <2>1, <2>2, SMT DEF Holds
  <2>4. \A q \in Requests : Expected(q)' => Expected(q)
    BY <2>1, <2>2, SMT DEF Expected
  <2>5. QED BY <2>1, <2>3, <2>4, SMT DEF ClaimsKept
<1>12. ASSUME NEW r \in Requests, Proves(r)
      PROVE  ClaimsKept'
  BY <1>12, SMT
     DEF Proves, Asks, ClaimsKept, Expected, Holds, RecordInv, HandOffTypes, PlacesTyped,
         lockVars, helperVars
<1>13. ASSUME NEW r \in Requests, Fences(r)
      PROVE  ClaimsKept'
  <2>1. FencesMove(r)
    BY <1>13, FencesMoves, SMT DEF RecordInv, HandOffTypes, Judged, Judging, Fences
  <2>2. QED BY <1>13, <2>1, SMT
       DEF FencesMove, Fences, ClaimsKept, Expected, Holds, RecordInv, HandOffTypes,
           PlacesTyped, helperVars
<1>14. ASSUME NEW r \in Requests, Rechecks(r)
      PROVE  ClaimsKept'
  BY <1>14, SMT
     DEF Rechecks, Asks, ClaimsKept, Expected, Holds, RecordInv, HandOffTypes, PlacesTyped,
         lockVars, helperVars
<1>15. ASSUME NEW r \in Requests, Renames(r)
      PROVE  ClaimsKept'
  <2>1. RenamesMove(r)
    BY <1>15, RenamesMoves
  <2>2. QED BY <2>1, RestartConstants, SMT
       DEF RenamesMove, ClaimsKept, Expected, Holds, RecordInv, HandOffTypes, PlacesTyped,
           TokensKept, KeepsNewerLocks, RenameHits, LockOf
<1>16. ASSUME NEW r \in Requests, Unfences(r)
      PROVE  ClaimsKept'
  <2>1. UnfencesMove(r)
    BY <1>16, UnfencesMoves, SMT DEF RecordInv, HandOffTypes, Judged, Judging, Unfences
  <2>2. QED BY <1>16, <2>1, SMT
       DEF UnfencesMove, Unfences, Asks, ClaimsKept, Expected, Holds, RecordInv, HandOffTypes,
           PlacesTyped, helperVars
<1>17. ASSUME NEW r \in Requests, HelperReads(r)
      PROVE  ClaimsKept'
  BY <1>17, SMT
     DEF HelperReads, Helps, ClaimsKept, Expected, Working, Claiming, Saving, Holds,
         RecordInv, HandOffTypes, PlacesTyped, lockVars, askVars
<1>18. ASSUME NEW r \in Requests, HelperClaims(r)
      PROVE  ClaimsKept'
  <2>1. HelperClaimsMove(r)
    BY <1>18, HelperClaimsMoves, SMT DEF RecordInv, HandOffTypes
  <2>2. QED BY <1>18, <2>1, SMT
       DEF HelperClaimsMove, HelperClaims, ClaimsKept, Expected, Working, Claiming, Saving,
           Holds, RecordInv, HandOffTypes, PlacesTyped, askVars
<1>19. ASSUME NEW r \in Requests, HelperRereads(r)
      PROVE  ClaimsKept'
  BY <1>19, SMT
     DEF HelperRereads, Helps, ClaimsKept, Expected, Working, Claiming, Holds, lockVars,
         askVars
<1>20. ASSUME NEW r \in Requests, HelperUnclaims(r)
      PROVE  ClaimsKept'
  <2>1. HelperUnclaimsMove(r)
    BY <1>20, HelperUnclaimsMoves, SMT DEF RecordInv, HandOffTypes
  <2>2. QED BY <1>20, <2>1, SMT
       DEF HelperUnclaimsMove, HelperUnclaims, Helps, ClaimsKept, Expected, Working, Claiming,
           Saving, Holds, RecordInv, HandOffTypes, PlacesTyped, askVars
<1>21. ASSUME NEW r \in Requests, HelperWrites(r), BridgesGo
      PROVE  ClaimsKept'
  BY <1>21, SMT DEF HelperWrites, ClaimsKept, Expected, Working, Claiming, Holds, askVars
<1>22. ASSUME NEW r \in Requests, HelperGoesOn(r), BridgesGo
      PROVE  ClaimsKept'
  BY <1>22, SMT
     DEF HelperGoesOn, ClaimsKept, Expected, Working, Claiming, Saving, Holds, askVars
<1>23. ASSUME NEW r \in Requests, HelperReleases(r)
      PROVE  ClaimsKept'
  <2>1. HelperReleasesMove(r)
    BY <1>23, HelperReleasesMoves, SMT DEF RecordInv, HandOffTypes
  <2>2. QED BY <1>23, RestartConstants, SMT
       DEF HelperReleases, Helps, LockOf, ClaimsKept, Expected, Working, Claiming, Saving,
           Holds, RecordInv, HandOffTypes, PlacesTyped, TokensKept, askVars
<1>24. ASSUME NEW r \in Requests, HelperRemoves(r)
      PROVE  ClaimsKept'
  BY <1>24, SMT
     DEF HelperRemoves, Helps, Empty, ClaimsKept, Expected, Working, Claiming, Saving, Holds,
         askVars
<1>25. ASSUME NEW r \in Requests, AskerDies(r)
      PROVE  ClaimsKept'
  BY <1>25, SMT DEF AskerDies, Asks, ClaimsKept, Expected, Holds, lockVars, helperVars
<1>26. ASSUME NEW r \in Requests, HelperDies(r)
      PROVE  ClaimsKept'
  BY <1>26, SMT
     DEF HelperDies, Helps, ClaimsKept, Expected, Working, Claiming, Saving, Holds, lockVars,
         askVars
<1>27. ASSUME LockAges
      PROVE  ClaimsKept'
  <2>1. LockAgesMove
    BY <1>27, LockAgesMoves, SMT DEF RecordInv, HandOffTypes
  <2>2. QED BY <1>27, SMT DEF LockAges, ClaimsKept, Expected, Holds, askVars, helperVars
<1>28. QED
  BY HelperWritesAre, <1>6a, <1>1, <1>2, <1>3, <1>4, <1>5, <1>6, <1>7, <1>8, <1>9, <1>10, <1>11,
     <1>12, <1>13, <1>14, <1>15, <1>16, <1>17, <1>18, <1>19, <1>20, <1>21, <1>22, <1>23,
     <1>24, <1>25, <1>26, <1>27, SMT
     DEF RestartNext, AskerSteps, HelperSteps

\* A helper goes to work only by reading again that it is still asked.
LEMMA BeginsKeeps ==
  ASSUME RecordInv, RestartNext
  PROVE  GoesToWork
<1>1. ASSUME UNCHANGED helper
      PROVE  GoesToWork
  BY <1>1, Zenon DEF GoesToWork
<1>2. ASSUME NEW r \in Requests,
             MakesLock(r) \/ PutsToken(r) \/ Validates(r) \/ Publishes(r) \/ LaunchFails(r)
               \/ ClearsToken(r) \/ ClearsDir(r) \/ Finds(r) \/ Proves(r) \/ Fences(r)
               \/ Rechecks(r) \/ Renames(r) \/ Unfences(r) \/ Ages(r) \/ AskerDies(r)
      PROVE  UNCHANGED helper
  BY <1>2, Zenon
     DEF MakesLock, PutsToken, Validates, Publishes, LaunchFails, ClearsToken, ClearsDir, Finds, Proves,
         Fences, Rechecks, Renames, Unfences, Ages, AskerDies, helperVars
<1>3. ASSUME LockAges \/ BridgeEnds \/ BridgeStarts
      PROVE  UNCHANGED helper
  BY <1>3, Zenon DEF LockAges, BridgeEnds, BridgeStarts, helperVars
<1>4. ASSUME NEW r \in Requests, Launches(r)
      PROVE  GoesToWork
  BY <1>4, SMT DEF Launches, Helps, GoesToWork, ActingPlaces, Saving
<1>5. ASSUME NEW r \in Requests, HelperReads(r)
      PROVE  GoesToWork
  BY <1>5, SMT
     DEF HelperReads, Helps, GoesToWork, ActingPlaces, Saving, RecordInv, HandOffTypes,
         PlacesTyped
<1>6. ASSUME NEW r \in Requests, HelperClaims(r)
      PROVE  GoesToWork
  BY <1>6, SMT
     DEF HelperClaims, Helps, GoesToWork, ActingPlaces, Saving, RecordInv, HandOffTypes,
         PlacesTyped
<1>7. ASSUME NEW r \in Requests, HelperRereads(r)
      PROVE  GoesToWork
  BY <1>7, SMT DEF HelperRereads, Helps, GoesToWork, ActingPlaces, Saving
<1>8. ASSUME NEW r \in Requests, HelperUnclaims(r)
      PROVE  GoesToWork
  BY <1>8, SMT DEF HelperUnclaims, Helps, GoesToWork, ActingPlaces, Saving
<1>9. ASSUME NEW r \in Requests, HelperWrites(r), BridgesGo
      PROVE  GoesToWork
  BY <1>9, SMT DEF HelperWrites, GoesToWork, ActingPlaces
<1>10. ASSUME NEW r \in Requests, HelperGoesOn(r), BridgesGo
      PROVE  GoesToWork
  BY <1>10, SMT DEF HelperGoesOn, GoesToWork, ActingPlaces, Saving
<1>11. ASSUME NEW r \in Requests, HelperReleases(r)
      PROVE  GoesToWork
  BY <1>11, SMT
     DEF HelperReleases, Helps, GoesToWork, ActingPlaces, RecordInv, HandOffTypes, PlacesTyped
<1>12. ASSUME NEW r \in Requests, HelperRemoves(r)
      PROVE  GoesToWork
  BY <1>12, SMT DEF HelperRemoves, Helps, GoesToWork, ActingPlaces, Saving
<1>13. ASSUME NEW r \in Requests, HelperDies(r)
      PROVE  GoesToWork
  BY <1>13, SMT DEF HelperDies, Helps, GoesToWork, ActingPlaces, Saving
<1>14. QED
  BY HelperWritesAre, <1>1, <1>2, <1>3, <1>4, <1>5, <1>6, <1>7, <1>8, <1>9, <1>10, <1>11,
     <1>12, <1>13, SMT
     DEF RestartNext, AskerSteps, HelperSteps

\* Only a rename moves a lock away.
LEMMA QuarantineKeeps ==
  ASSUME RecordInv, (\A x \in Requests : ~Renames(x)), RestartNext
  PROVE  UNCHANGED quarantine
<1>1. ASSUME UNCHANGED quarantine
      PROVE  UNCHANGED quarantine
  BY <1>1, Zenon
<1>2. ASSUME NEW r \in Requests,
             MakesLock(r) \/ PutsToken(r) \/ Validates(r) \/ Publishes(r) \/ Launches(r) \/ LaunchFails(r)
               \/ ClearsToken(r) \/ ClearsDir(r) \/ Finds(r) \/ Proves(r) \/ Fences(r)
               \/ Rechecks(r) \/ Unfences(r) \/ HelperReads(r) \/ HelperClaims(r)
               \/ HelperRereads(r) \/ HelperUnclaims(r) \/ HelperWrites(r)
               \/ HelperGoesOn(r) \/ HelperReleases(r) \/ HelperRemoves(r) \/ Ages(r)
               \/ AskerDies(r) \/ HelperDies(r)
      PROVE  UNCHANGED quarantine
  BY <1>2, Zenon
     DEF MakesLock, PutsToken, Validates, Publishes, Launches, LaunchFails, ClearsToken, ClearsDir,
         Finds, Proves, Fences, Rechecks, Unfences, HelperReads, HelperClaims, HelperRereads,
         HelperUnclaims, HelperWrites, HelperGoesOn, HelperReleases, HelperRemoves, Ages,
         AskerDies, HelperDies, lockVars
<1>3. ASSUME LockAges \/ BridgeEnds \/ BridgeStarts
      PROVE  UNCHANGED quarantine
  BY <1>3, Zenon DEF LockAges, BridgeEnds, BridgeStarts, lockVars
<1>4. ASSUME NEW r \in Requests, Renames(r)
      PROVE  UNCHANGED quarantine
  BY <1>4
<1>5. QED
  BY HelperWritesAre, <1>2, <1>3, SMT DEF RestartNext, AskerSteps, HelperSteps

\* Every step but a launch failure keeps the lock named by its maker.
LEMMA LockNamedKeeps ==
  ASSUME RecordInv, TokensKept, ClaimsKept, ReclaimsSettled, LockInv, NoLaunchFails, RestartNext
  PROVE  LockNamed'
<1>1. ASSUME UNCHANGED lockDir
      PROVE  LockNamed'
  BY <1>1, Zenon DEF LockInv, LockNamed
<1>2. ASSUME NEW r \in Requests,
             Validates(r) \/ Publishes(r) \/ Launches(r) \/ LaunchFails(r) \/ Finds(r) \/ Proves(r)
               \/ Rechecks(r) \/ HelperReads(r) \/ HelperRereads(r) \/ HelperWrites(r)
               \/ HelperGoesOn(r) \/ Ages(r) \/ AskerDies(r) \/ HelperDies(r)
      PROVE  UNCHANGED lockDir
  BY <1>2, Zenon
     DEF Validates, Publishes, Launches, LaunchFails, Finds, Proves, Rechecks, HelperReads,
         HelperRereads, HelperWrites, HelperGoesOn, Ages, AskerDies, HelperDies, lockVars
<1>3. ASSUME BridgeEnds \/ BridgeStarts
      PROVE  UNCHANGED lockDir
  BY <1>3, Zenon DEF BridgeEnds, BridgeStarts, lockVars
<1>4. ASSUME NEW r \in Requests, MakesLock(r)
      PROVE  LockNamed'
  <2>1. MakesLockMove(r)
    BY <1>4, MakesLockMoves, SMT DEF RecordInv, HandOffTypes
  <2>2. QED BY <2>1, SMT DEF MakesLockMove, NoLockDir, LockNamed, LockInv
<1>5. ASSUME NEW r \in Requests, PutsToken(r)
      PROVE  LockNamed'
  <2>1. PutsTokenMove(r)
    BY <1>5, PutsTokenMoves, SMT DEF RecordInv, HandOffTypes
  <2>2. QED BY <1>5, <2>1, SMT DEF PutsTokenMove, PutsToken, LockNamed, LockOwned, LockInv
<1>6. ASSUME NEW r \in Requests, ClearsToken(r)
      PROVE  LockNamed'
  <2>1. ClearsTokenMove(r)
    BY <1>6, ClearsTokenMoves, SMT DEF RecordInv, HandOffTypes
  <2>2. QED BY <2>1, NoLockFields, SMT DEF ClearsTokenMove, LockNamed, LockInv
<1>7. ASSUME NEW r \in Requests, ClearsDir(r)
      PROVE  LockNamed'
  BY <1>7, SMT DEF ClearsDir, NoLockDir, LockNamed, LockOwned, LockInv
<1>8. ASSUME NEW r \in Requests, Fences(r)
      PROVE  LockNamed'
  <2>1. FencesMove(r)
    BY <1>8, FencesMoves, SMT DEF RecordInv, HandOffTypes, Judged, Judging, Fences
  <2>2. QED BY <1>8, <2>1, SMT DEF FencesMove, Fences, LockNamed, LockInv
<1>9. ASSUME NEW r \in Requests, Renames(r)
      PROVE  LockNamed'
  <2>1. RenamesMove(r)
    BY <1>9, RenamesMoves
  <2>2. QED BY <2>1, NoLockFields, SMT DEF RenamesMove, LockNamed, LockInv
<1>10. ASSUME NEW r \in Requests, Unfences(r)
      PROVE  LockNamed'
  <2>1. UnfencesMove(r)
    BY <1>10, UnfencesMoves, SMT DEF RecordInv, HandOffTypes, Judged, Judging, Unfences
  <2>2. QED BY <1>10, <2>1, NoLockFields, SMT DEF UnfencesMove, Unfences, LockNamed, LockInv
<1>11. ASSUME NEW r \in Requests, HelperClaims(r)
      PROVE  LockNamed'
  <2>1. HelperClaimsMove(r)
    BY <1>11, HelperClaimsMoves, SMT DEF RecordInv, HandOffTypes
  <2>2. QED BY <1>11, <2>1, SMT DEF HelperClaimsMove, HelperClaims, LockNamed, LockInv
<1>12. ASSUME NEW r \in Requests, HelperUnclaims(r)
      PROVE  LockNamed'
  <2>1. HelperUnclaimsMove(r)
    BY <1>12, HelperUnclaimsMoves, SMT DEF RecordInv, HandOffTypes
  <2>2. QED BY <1>12, <2>1, NoLockFields, SMT
       DEF HelperUnclaimsMove, HelperUnclaims, LockNamed, LockInv
<1>13. ASSUME NEW r \in Requests, HelperReleases(r)
      PROVE  LockNamed'
  <2>1. HelperReleasesMove(r)
    BY <1>13, HelperReleasesMoves, SMT DEF RecordInv, HandOffTypes
  <2>2. QED BY <1>13, <2>1, SMT
       DEF HelperReleasesMove, HelperReleases, LockOf, LockNamed, LockInv
<1>14. ASSUME NEW r \in Requests, HelperRemoves(r)
      PROVE  LockNamed'
  BY <1>14, SMT DEF HelperRemoves, NoLockDir, LockNamed, LockOwned, LockInv
<1>15. ASSUME LockAges
      PROVE  LockNamed'
  <2>1. LockAgesMove
    BY <1>15, LockAgesMoves, SMT DEF RecordInv, HandOffTypes
  <2>2. QED BY <1>15, NoLockFields, SMT DEF LockAges, LockNamed, LockInv
<1>16. QED
  BY HelperWritesAre, <1>1, <1>2, <1>3, <1>4, <1>5, <1>6, <1>7, <1>8, <1>9, <1>10, <1>11,
     <1>12, <1>13, <1>14, <1>15, SMT
     DEF RestartNext, AskerSteps, HelperSteps

\* Every step but a launch failure keeps the lock of who has not returned.
LEMMA LockOwnedKeeps ==
  ASSUME RecordInv, TokensKept, ClaimsKept, ReclaimsSettled, LockInv, NoLaunchFails, RestartNext
  PROVE  LockOwned'
<1>1. ASSUME UNCHANGED <<asker, lockDir, handoff, seen, helper, quarantine>>
      PROVE  LockOwned'
  BY <1>1, Zenon DEF LockInv, LockOwned
<1>2. ASSUME NEW r \in Requests,
             Ages(r)
      PROVE  UNCHANGED <<asker, lockDir, handoff, seen, helper, quarantine>>
  BY <1>2, Zenon DEF Ages, lockVars, askVars, helperVars
<1>3. ASSUME BridgeEnds \/ BridgeStarts
      PROVE  UNCHANGED <<asker, lockDir, handoff, seen, helper, quarantine>>
  BY <1>3, Zenon DEF BridgeEnds, BridgeStarts, lockVars, askVars, helperVars
<1>4. ASSUME NEW r \in Requests, MakesLock(r)
      PROVE  LockOwned'
  <2>1. MakesLockMove(r)
    BY <1>4, MakesLockMoves, SMT DEF RecordInv, HandOffTypes
  <2>2. QED BY <1>4, <2>1, RestartConstants, SMT
       DEF MakesLockMove, MakesLock, NoLockDir, LockOwned, Owning, Expected, AskerPlaces,
           RecordInv, HandOffTypes, PlacesTyped, Unpublished, ReclaimsSettled, lockVars,
           askVars, helperVars, runVars, LockInv
<1>5. ASSUME NEW r \in Requests, PutsToken(r)
      PROVE  LockOwned'
  <2>1. PutsTokenMove(r)
    BY <1>5, PutsTokenMoves, SMT DEF RecordInv, HandOffTypes
  <2>2. QED BY <1>5, <2>1, SMT
       DEF PutsTokenMove, PutsToken, LockOwned, Owning, RecordInv, HandOffTypes, PlacesTyped,
           Launched, ReclaimsSettled, lockVars, askVars, helperVars, runVars, LockInv
<1>6. ASSUME NEW r \in Requests, Validates(r)
      PROVE  LockOwned'
  <2>1. ValidatesOwn(r)
    BY <1>6, ValidatesOwned
  <2>2. QED BY <2>1, SMT
       DEF ValidatesOwn, LockOwned, Owning, RecordInv, HandOffTypes, PlacesTyped, LockInv
<1>6a. ASSUME NEW r \in Requests, Publishes(r)
      PROVE  LockOwned'
  <2>1. PublishesMove(r)
    BY <1>6a, PublishesMoves
  <2>2. QED BY <2>1, SMT
       DEF PublishesMove, LockOwned, Owning, RecordInv, HandOffTypes, PlacesTyped, LockNamed,
           TokensKept, LockInv
<1>7. ASSUME NEW r \in Requests, Launches(r)
      PROVE  LockOwned'
  BY <1>7, SMT
     DEF Launches, Asks, Helps, LockOwned, Owning, lockVars, helperVars, runVars, LockInv
<1>8. ASSUME NEW r \in Requests, LaunchFails(r)
      PROVE  LockOwned'
  BY <1>8, Zenon DEF NoLaunchFails
<1>9. ASSUME NEW r \in Requests, ClearsToken(r)
      PROVE  LockOwned'
  <2>1. /\ asker[r] = "clears" /\ lockDir.token = r /\ lockDir.by = r
        /\ \A q \in Requests \ {r} : lockDir.by # q /\ asker[q] \notin Owning /\ helper[q] # "rmdir"
    BY <1>9, SMT DEF ClearsToken, LockInv, LockOwned, Owning
  <2>2. helper[r] # "rmdir"
    BY <2>1, SMT DEF RecordInv, Launched
  <2>3. lockDir'.token = NoRequest /\ lockDir'.by = r
    BY <1>9, <2>1, TokenMoves, Zenon DEF RecordInv, HandOffTypes, ClearsToken
  <2>4. asker' = [asker EXCEPT ![r] = "rmdir"] /\ UNCHANGED <<handoff, quarantine, seen, helper>>
    BY <1>9, <2>1, Zenon DEF ClearsToken, Asks, helperVars
  <2>5. \A q \in Requests \ {r} : asker'[q] = asker[q]
    BY <2>4, SMT
  <2>6. asker'[r] = "rmdir"
    BY <2>4, SMT DEF RecordInv, HandOffTypes, PlacesTyped
  <2>7. QED BY <2>1, <2>3, <2>4, <2>6, SMT DEF LockInv, LockOwned, Owning
<1>10. ASSUME NEW r \in Requests, ClearsDir(r)
      PROVE  LockOwned'
  BY <1>10, SMT
     DEF ClearsDir, Asks, LockOwned, Owning, RecordInv, HandOffTypes, PlacesTyped, Launched,
         askVars, helperVars, runVars, LockInv
<1>11. ASSUME NEW r \in Requests, Finds(r)
      PROVE  LockOwned'
  <2>1. FindsMove(r)
    BY <1>11, FindsMoves
  <2>2. QED BY <2>1, SMT
       DEF FindsMove, LockOwned, Owning, RecordInv, HandOffTypes, PlacesTyped, RecordsTyped,
           ReclaimsSettled, LockInv
<1>12. ASSUME NEW r \in Requests, Proves(r)
      PROVE  LockOwned'
  BY <1>12, SMT
     DEF Proves, Asks, LockOwned, Owning, RecordInv, HandOffTypes, PlacesTyped, lockVars,
         helperVars, runVars, LockInv
<1>13. ASSUME NEW r \in Requests, Fences(r)
      PROVE  LockOwned'
  <2>1. FencesMove(r)
    BY <1>13, FencesMoves, SMT DEF RecordInv, HandOffTypes, Judged, Judging, Fences
  <2>2. QED BY <1>13, <2>1, SMT
       DEF FencesMove, Fences, LockOwned, Owning, RecordInv, HandOffTypes, PlacesTyped,
           ReclaimsSettled, lockVars, askVars, helperVars, runVars, LockInv
<1>14. ASSUME NEW r \in Requests, Rechecks(r)
      PROVE  LockOwned'
  BY <1>14, SMT
     DEF Rechecks, Asks, LockOwned, Owning, RecordInv, HandOffTypes, PlacesTyped, lockVars,
         helperVars, runVars, LockInv
<1>15. ASSUME NEW r \in Requests, Renames(r)
      PROVE  LockOwned'
  <2>1. RenamesMove(r)
    BY <1>15, RenamesMoves
  <2>2. QED BY <2>1, SMT
       DEF RenamesMove, LockOwned, Owning, Judging, RecordInv, HandOffTypes, PlacesTyped,
           ReclaimsOwn, LockInv
<1>16. ASSUME NEW r \in Requests, Unfences(r)
      PROVE  LockOwned'
  <2>1. UnfencesMove(r)
    BY <1>16, UnfencesMoves, SMT DEF RecordInv, HandOffTypes, Judged, Judging, Unfences
  <2>2. QED BY <1>16, <2>1, SMT
       DEF UnfencesMove, Unfences, Asks, LockOwned, Owning, lockVars, askVars, helperVars,
           runVars, LockInv
<1>17. ASSUME NEW r \in Requests, HelperReads(r)
      PROVE  LockOwned'
  BY <1>17, SMT
     DEF HelperReads, Helps, LockOwned, RecordInv, HandOffTypes, PlacesTyped, lockVars,
         askVars, runVars, LockInv
<1>18. ASSUME NEW r \in Requests, HelperClaims(r)
      PROVE  LockOwned'
  <2>1. HelperClaimsMove(r)
    BY <1>18, HelperClaimsMoves, SMT DEF RecordInv, HandOffTypes
  <2>2. QED BY <1>18, <2>1, SMT
       DEF HelperClaimsMove, HelperClaims, LockOwned, RecordInv, HandOffTypes, PlacesTyped,
           lockVars, askVars, helperVars, runVars, LockInv
<1>19. ASSUME NEW r \in Requests, HelperRereads(r)
      PROVE  LockOwned'
  BY <1>19, SMT DEF HelperRereads, Helps, LockOwned, lockVars, askVars, runVars, LockInv
<1>20. ASSUME NEW r \in Requests, HelperUnclaims(r)
      PROVE  LockOwned'
  <2>1. HelperUnclaimsMove(r)
    BY <1>20, HelperUnclaimsMoves, SMT DEF RecordInv, HandOffTypes
  <2>2. QED BY <1>20, <2>1, SMT
       DEF HelperUnclaimsMove, HelperUnclaims, Helps, LockOwned, lockVars, askVars,
           helperVars, runVars, LockInv
<1>21. ASSUME NEW r \in Requests, HelperWrites(r), BridgesGo
      PROVE  LockOwned'
  BY <1>21, SMT
     DEF HelperWrites, LockOwned, Owning, Saving, RecordInv, Launched, askVars, LockInv
<1>22. ASSUME NEW r \in Requests, HelperGoesOn(r), BridgesGo
      PROVE  LockOwned'
  BY <1>22, GoesOnKeeps, SMT DEF LockOwned, LockInv, Saving
<1>23. ASSUME NEW r \in Requests, HelperReleases(r)
      PROVE  LockOwned'
  <2>1. HelperReleasesMove(r)
    BY <1>23, HelperReleasesMoves, SMT DEF RecordInv, HandOffTypes
  <2>2. QED BY <1>23, <2>1, RestartConstants, SMT
       DEF HelperReleasesMove, HelperReleases, LockOwned, Expected, Working, Claiming,
           ActingPlaces, RecordInv, HandOffTypes, PlacesTyped, Launched, TokensKept,
           LockNamed, ReclaimsOwn, ReclaimsSettled, lockVars, askVars, helperVars, runVars,
           LockInv
<1>24. ASSUME NEW r \in Requests, HelperRemoves(r)
      PROVE  LockOwned'
  BY <1>24, SMT
     DEF HelperRemoves, Helps, LockOwned, Owning, RecordInv, HandOffTypes, PlacesTyped,
         Launched, askVars, helperVars, runVars, LockInv
<1>25. ASSUME NEW r \in Requests, AskerDies(r)
      PROVE  LockOwned'
  BY <1>25, SMT
     DEF AskerDies, Asks, LockOwned, Owning, lockVars, helperVars, runVars, LockInv
<1>26. ASSUME NEW r \in Requests, HelperDies(r)
      PROVE  LockOwned'
  BY <1>26, SMT DEF HelperDies, Helps, LockOwned, lockVars, askVars, runVars, LockInv
<1>27. ASSUME LockAges
      PROVE  LockOwned'
  <2>1. LockAgesMove
    BY <1>27, LockAgesMoves, SMT DEF RecordInv, HandOffTypes
  <2>2. QED BY <1>27, SMT DEF LockAges, LockOwned, askVars, helperVars, runVars, LockInv
<1>28. QED
  BY HelperWritesAre, <1>6a, <1>1, <1>2, <1>3, <1>4, <1>5, <1>6, <1>7, <1>8, <1>9, <1>10, <1>11,
     <1>12, <1>13, <1>14, <1>15, <1>16, <1>17, <1>18, <1>19, <1>20, <1>21, <1>22, <1>23,
     <1>24, <1>25, <1>26, <1>27, SMT
     DEF RestartNext, AskerSteps, HelperSteps

\* Every step but a launch failure keeps the work of a helper visible in the record.
LEMMA SavesShowKeeps ==
  ASSUME RecordInv, TokensKept, ClaimsKept, ReclaimsSettled, LockInv, NoLaunchFails, RestartNext
  PROVE  SavesShow'
<1>1. ASSUME UNCHANGED <<helper, handoff>>
      PROVE  SavesShow'
  BY <1>1, Zenon DEF LockInv, SavesShow, Overtaken
<1>2. ASSUME NEW r \in Requests,
             MakesLock(r) \/ PutsToken(r) \/ ClearsToken(r) \/ ClearsDir(r) \/ Finds(r)
               \/ Proves(r) \/ Fences(r) \/ Rechecks(r) \/ Renames(r) \/ Unfences(r)
               \/ Ages(r) \/ AskerDies(r)
      PROVE  UNCHANGED <<helper, handoff>>
  BY <1>2, Zenon
     DEF MakesLock, PutsToken, ClearsToken, ClearsDir, Finds, Proves, Fences, Rechecks,
         Renames, Unfences, Ages, AskerDies, lockVars, helperVars
<1>3. ASSUME LockAges \/ BridgeEnds \/ BridgeStarts
      PROVE  UNCHANGED <<helper, handoff>>
  BY <1>3, Zenon DEF LockAges, BridgeEnds, BridgeStarts, lockVars, helperVars
<1>4. ASSUME NEW r \in Requests, Validates(r)
      PROVE  SavesShow'
  <2>1. ValidatesOwn(r)
    BY <1>4, ValidatesOwned
  <2>2. QED BY <2>1, SMT
       DEF ValidatesOwn, SavesShow, Overtaken, Saving, RecordInv, Launched, LockInv
<1>4a. ASSUME NEW r \in Requests, Publishes(r)
      PROVE  SavesShow'
  <2>1. PublishesMove(r)
    BY <1>4a, PublishesMoves
  <2>2. QED BY <2>1, SMT
       DEF PublishesMove, SavesShow, Overtaken, Saving, RecordInv, Launched, LockInv
<1>5. ASSUME NEW r \in Requests, Launches(r)
      PROVE  SavesShow'
  BY <1>5, SMT DEF Launches, Helps, SavesShow, Overtaken, Saving, lockVars, LockInv
<1>6. ASSUME NEW r \in Requests, LaunchFails(r)
      PROVE  SavesShow'
  BY <1>6, Zenon DEF NoLaunchFails
<1>7. ASSUME NEW r \in Requests, HelperReads(r)
      PROVE  SavesShow'
  BY <1>7, SMT
     DEF HelperReads, Helps, SavesShow, Overtaken, Saving, RecordInv, HandOffTypes,
         PlacesTyped, lockVars, LockInv
<1>8. ASSUME NEW r \in Requests, HelperClaims(r)
      PROVE  SavesShow'
  BY <1>8, SMT
     DEF HelperClaims, Helps, SavesShow, Overtaken, Saving, RecordInv, HandOffTypes,
         PlacesTyped, LockInv
<1>9. ASSUME NEW r \in Requests, HelperRereads(r)
      PROVE  SavesShow'
  BY <1>9, SMT DEF HelperRereads, Helps, SavesShow, Overtaken, Saving, lockVars, LockInv
<1>10. ASSUME NEW r \in Requests, HelperUnclaims(r)
      PROVE  SavesShow'
  BY <1>10, SMT DEF HelperUnclaims, Helps, SavesShow, Overtaken, Saving, LockInv
<1>11. ASSUME NEW r \in Requests, HelperWrites(r), BridgesGo
      PROVE  SavesShow'
  BY <1>11, SMT DEF HelperWrites, SavesShow, Overtaken
<1>12. ASSUME NEW r \in Requests, HelperGoesOn(r), BridgesGo
      PROVE  SavesShow'
  BY <1>12, SMT DEF HelperGoesOn, SavesShow, Overtaken, Saving, LockInv
<1>13. ASSUME NEW r \in Requests, HelperReleases(r)
      PROVE  SavesShow'
  BY <1>13, SMT
     DEF HelperReleases, Helps, SavesShow, Overtaken, RecordInv, HandOffTypes, PlacesTyped,
         LockInv
<1>14. ASSUME NEW r \in Requests, HelperRemoves(r)
      PROVE  SavesShow'
  BY <1>14, SMT DEF HelperRemoves, Helps, SavesShow, Overtaken, LockInv
<1>15. ASSUME NEW r \in Requests, HelperDies(r)
      PROVE  SavesShow'
  BY <1>15, SMT DEF HelperDies, Helps, SavesShow, Overtaken, Saving, lockVars, LockInv
<1>16. QED
  BY HelperWritesAre, <1>4a, <1>1, <1>2, <1>3, <1>4, <1>5, <1>6, <1>7, <1>8, <1>9, <1>10, <1>11,
     <1>12, <1>13, <1>14, <1>15, SMT
     DEF RestartNext, AskerSteps, HelperSteps

\* Every step but a launch failure keeps the lock in front of who judges it.
LEMMA ReclaimsOwnKeeps ==
  ASSUME RecordInv, TokensKept, ClaimsKept, ReclaimsSettled, LockInv, NoLaunchFails, RestartNext
  PROVE  ReclaimsOwn'
<1>1. ASSUME UNCHANGED <<asker, seen, quarantine, lockDir, handoff, helper>>
      PROVE  ReclaimsOwn'
  BY <1>1, Zenon DEF LockInv, ReclaimsOwn, Overtaken
<1>2. ASSUME NEW r \in Requests,
             Ages(r)
      PROVE  UNCHANGED <<asker, seen, quarantine, lockDir, handoff, helper>>
  BY <1>2, Zenon DEF Ages, lockVars, askVars, helperVars
<1>3. ASSUME BridgeEnds \/ BridgeStarts
      PROVE  UNCHANGED <<asker, seen, quarantine, lockDir, handoff, helper>>
  BY <1>3, Zenon DEF BridgeEnds, BridgeStarts, lockVars, askVars, helperVars
<1>4. ASSUME NEW r \in Requests, MakesLock(r)
      PROVE  ReclaimsOwn'
  <2>1. MakesLockMove(r)
    BY <1>4, MakesLockMoves, SMT DEF RecordInv, HandOffTypes
  <2>2. QED BY <1>4, <2>1, RestartConstants, SMT
       DEF MakesLockMove, MakesLock, NoLockDir, ReclaimsOwn, Overtaken, Judging, RecordInv,
           HandOffTypes, PlacesTyped, TokensKept, LockNamed, LockOwned, SavesShow, lockVars,
           askVars, helperVars, runVars, LockInv
<1>5. ASSUME NEW r \in Requests, PutsToken(r)
      PROVE  ReclaimsOwn'
  <2>1. PutsTokenMove(r)
    BY <1>5, PutsTokenMoves, SMT DEF RecordInv, HandOffTypes
  <2>2. QED BY <1>5, SMT
       DEF PutsToken, Asks, ReclaimsOwn, Overtaken, Judging, Owning, RecordInv, HandOffTypes,
           PlacesTyped, TokensKept, LockNamed, LockOwned, SavesShow, lockVars, askVars,
           helperVars, runVars, LockInv
<1>6. ASSUME NEW r \in Requests, Validates(r)
      PROVE  ReclaimsOwn'
  <2>1. ValidatesOwn(r)
    BY <1>6, ValidatesOwned
  <2>2. QED BY <2>1, SMT
       DEF ValidatesOwn, ReclaimsOwn, Overtaken, Judging, Owning, RecordInv, HandOffTypes,
           PlacesTyped, RecordsTyped, LockOwned, LockInv
<1>6a. ASSUME NEW r \in Requests, Publishes(r)
      PROVE  ReclaimsOwn'
  <2>1. PublishesMove(r)
    BY <1>6a, PublishesMoves
  <2>2. r \notin quarantine => lockDir.by = r
    BY <2>1, RestartConstants, SMT DEF PublishesMove, TokensKept, Expected, LockInv, LockNamed
  <2>3. /\ UNCHANGED <<lockDir, quarantine, seen, helper>> /\ handoff'.id = r
        /\ asker'[r] = "launches" /\ \A q \in Requests \ {r} : asker'[q] = asker[q]
    BY <2>1, SMT DEF PublishesMove, RecordInv, HandOffTypes, PlacesTyped
  <2>4. QED BY <2>2, <2>3, SMT DEF ReclaimsOwn, Overtaken, Judging, LockInv
<1>7. ASSUME NEW r \in Requests, Launches(r)
      PROVE  ReclaimsOwn'
  BY <1>7, SMT
     DEF Launches, Asks, Helps, ReclaimsOwn, Overtaken, Judging, SavesShow, lockVars, askVars,
         helperVars, runVars, LockInv
<1>8. ASSUME NEW r \in Requests, LaunchFails(r)
      PROVE  ReclaimsOwn'
  BY <1>8, Zenon DEF NoLaunchFails
<1>9. ASSUME NEW r \in Requests, ClearsToken(r)
      PROVE  ReclaimsOwn'
  <2>1. ClearsTokenMove(r)
    BY <1>9, ClearsTokenMoves, SMT DEF RecordInv, HandOffTypes
  <2>2. QED BY <1>9, SMT
       DEF ClearsToken, Asks, ReclaimsOwn, Overtaken, Judging, Owning, RecordInv,
           HandOffTypes, PlacesTyped, LockNamed, LockOwned, SavesShow, lockVars, askVars,
           helperVars, runVars, LockInv
<1>10. ASSUME NEW r \in Requests, ClearsDir(r)
      PROVE  ReclaimsOwn'
  BY <1>10, SMT
     DEF ClearsDir, Asks, ReclaimsOwn, Overtaken, Judging, Owning, LockOwned, SavesShow,
         lockVars, askVars, helperVars, runVars, LockInv
<1>11. ASSUME NEW r \in Requests, Finds(r)
      PROVE  ReclaimsOwn'
  <2>1. FindsMove(r)
    BY <1>11, FindsMoves
  <2>2. QED BY <2>1, SMT
       DEF FindsMove, ReclaimsOwn, Overtaken, Judging, RecordInv, HandOffTypes, PlacesTyped,
           RecordsTyped, LockInv
<1>12. ASSUME NEW r \in Requests, Proves(r)
      PROVE  ReclaimsOwn'
  <2>1. ProvesMove(r)
    BY <1>12, ProvesMoves
  <2>2. QED BY <2>1, SMT
       DEF ProvesMove, ReclaimsOwn, Overtaken, Judging, RecordInv, HandOffTypes, PlacesTyped,
           LockNamed, LockInv, Reclaimable, LockOf
<1>13. ASSUME NEW r \in Requests, Fences(r)
      PROVE  ReclaimsOwn'
  <2>1. FencesMove(r)
    BY <1>13, FencesMoves, SMT DEF RecordInv, HandOffTypes, Judged, Judging, Fences
  <2>2. QED BY <1>13, <2>1, RestartConstants, SMT
       DEF FencesMove, Fences, ReclaimsOwn, Overtaken, Judging, RecordInv, HandOffTypes,
           PlacesTyped, TokensKept, LockNamed, LockOwned, SavesShow, lockVars, askVars,
           helperVars, runVars, LockInv
<1>14. ASSUME NEW r \in Requests, Rechecks(r)
      PROVE  ReclaimsOwn'
  BY <1>14, SMT
     DEF Rechecks, Asks, ReclaimsOwn, Overtaken, Judging, Gone, RecordInv, HandOffTypes,
         PlacesTyped, Judged, SavesShow, lockVars, askVars, helperVars, runVars, LockInv
<1>15. ASSUME NEW r \in Requests, Renames(r)
      PROVE  ReclaimsOwn'
  <2>1. RenamesMove(r)
    BY <1>15, RenamesMoves
  <2>2. QED BY <2>1, SMT
       DEF RenamesMove, ReclaimsOwn, Overtaken, Judging, RecordInv, HandOffTypes, PlacesTyped,
           LockInv
<1>16. ASSUME NEW r \in Requests, Unfences(r)
      PROVE  ReclaimsOwn'
  <2>1. UnfencesMove(r)
    BY <1>16, UnfencesMoves, SMT DEF RecordInv, HandOffTypes, Judged, Judging, Unfences
  <2>2. QED BY <1>16, <2>1, SMT
       DEF UnfencesMove, Unfences, Asks, ReclaimsOwn, Overtaken, Judging, LockNamed,
           LockOwned, SavesShow, lockVars, askVars, helperVars, runVars, LockInv
<1>17. ASSUME NEW r \in Requests, HelperReads(r)
      PROVE  ReclaimsOwn'
  BY <1>17, SMT
     DEF HelperReads, Helps, ReclaimsOwn, Overtaken, RecordInv, HandOffTypes, PlacesTyped,
         lockVars, askVars, helperVars, runVars, LockInv
<1>18. ASSUME NEW r \in Requests, HelperClaims(r)
      PROVE  ReclaimsOwn'
  <2>1. HelperClaimsMove(r)
    BY <1>18, HelperClaimsMoves, SMT DEF RecordInv, HandOffTypes
  <2>2. QED BY <1>18, <2>1, SMT
       DEF HelperClaimsMove, HelperClaims, ReclaimsOwn, Overtaken, Holds, RecordInv,
           HandOffTypes, PlacesTyped, LockNamed, LockOwned, SavesShow, lockVars, askVars,
           helperVars, runVars, LockInv
<1>19. ASSUME NEW r \in Requests, HelperRereads(r)
      PROVE  ReclaimsOwn'
  BY <1>19, SMT
     DEF HelperRereads, Helps, ReclaimsOwn, Overtaken, lockVars, askVars, helperVars, runVars,
         LockInv
<1>20. ASSUME NEW r \in Requests, HelperUnclaims(r)
      PROVE  ReclaimsOwn'
  <2>1. HelperUnclaimsMove(r)
    BY <1>20, HelperUnclaimsMoves, SMT DEF RecordInv, HandOffTypes
  <2>2. QED BY <1>20, <2>1, SMT
       DEF HelperUnclaimsMove, HelperUnclaims, Helps, ReclaimsOwn, Overtaken, LockNamed,
           LockOwned, SavesShow, lockVars, askVars, helperVars, runVars, LockInv
<1>21. ASSUME NEW r \in Requests, HelperWrites(r), BridgesGo
      PROVE  ReclaimsOwn'
  BY <1>21, SMT
     DEF HelperWrites, ReclaimsOwn, Overtaken, Saving, askVars, helperVars, runVars, LockInv
<1>22. ASSUME NEW r \in Requests, HelperGoesOn(r), BridgesGo
      PROVE  ReclaimsOwn'
  BY <1>22, GoesOnKeeps, SMT DEF ReclaimsOwn, Overtaken, LockInv, Saving
<1>23. ASSUME NEW r \in Requests, HelperReleases(r)
      PROVE  ReclaimsOwn'
  <2>1. HelperReleasesMove(r)
    BY <1>23, HelperReleasesMoves, SMT DEF RecordInv, HandOffTypes
  <2>2. QED BY <1>23, <2>1, SMT
       DEF HelperReleasesMove, HelperReleases, ReclaimsOwn, Overtaken, Expected, Working,
           Claiming, Holds, Gone, RecordInv, HandOffTypes, PlacesTyped, Judged, ClaimsKept,
           TokensKept, LockNamed, LockOwned, SavesShow, lockVars, askVars, helperVars,
           runVars, LockInv
<1>24. ASSUME NEW r \in Requests, HelperRemoves(r)
      PROVE  ReclaimsOwn'
  BY <1>24, SMT
     DEF HelperRemoves, ReclaimsOwn, Overtaken, Gone, RecordInv, Judged, LockOwned, SavesShow,
         lockVars, askVars, helperVars, runVars, LockInv
<1>25. ASSUME NEW r \in Requests, AskerDies(r)
      PROVE  ReclaimsOwn'
  BY <1>25, SMT
     DEF AskerDies, Asks, ReclaimsOwn, Overtaken, Judging, SavesShow, lockVars, askVars,
         helperVars, runVars, LockInv
<1>26. ASSUME NEW r \in Requests, HelperDies(r)
      PROVE  ReclaimsOwn'
  BY <1>26, SMT
     DEF HelperDies, Helps, ReclaimsOwn, Overtaken, lockVars, askVars, helperVars, runVars,
         LockInv
<1>27. ASSUME LockAges
      PROVE  ReclaimsOwn'
  <2>1. LockAgesMove
    BY <1>27, LockAgesMoves, SMT DEF RecordInv, HandOffTypes
  <2>2. QED BY <1>27, SMT
       DEF LockAges, ReclaimsOwn, Overtaken, LockOwned, SavesShow, lockVars, askVars,
           helperVars, runVars, LockInv
<1>28. QED
  BY HelperWritesAre, <1>6a, <1>1, <1>2, <1>3, <1>4, <1>5, <1>6, <1>7, <1>8, <1>9, <1>10, <1>11,
     <1>12, <1>13, <1>14, <1>15, <1>16, <1>17, <1>18, <1>19, <1>20, <1>21, <1>22, <1>23,
     <1>24, <1>25, <1>26, <1>27, SMT
     DEF RestartNext, AskerSteps, HelperSteps

\* What is too late stays so.
LEMMA SettledOnward ==
  ASSUME Onward, NEW q \in Requests, TooLate(q)
  PROVE  TooLate(q)'
BY Zenon DEF Onward, TooLate

\* Every step keeps: a request that was moved away is too late and does not act.
LEMMA ReclaimsSettledKeeps ==
  ASSUME HandOffInv, RestartNext
  PROVE  ReclaimsSettled'
<1>1. RecordInv /\ Onward /\ GoesToWork
  BY OnwardKeeps, BeginsKeeps DEF HandOffInv
<1>2. quarantine \subseteq Requests
  BY <1>1 DEF RecordInv, HandOffTypes, LockTyped
<1>3. ASSUME NEW q \in quarantine PROVE TooLate(q)' /\ helper'[q] \notin ActingPlaces
  <2>1. TooLate(q) /\ helper[q] \notin ActingPlaces
    BY Zenon DEF HandOffInv, ReclaimsSettled
  <2>2. StillAsked(q) => age[q] = "new"
    BY SMT DEF StillAsked, Stale
  <2>3. helper[q] = "claimed" /\ StillAsked(q) => FALSE
    BY <2>1, <2>2, SMT DEF TooLate, Unlaunched, Gone
  <2>4. QED BY <1>1, <1>2, <2>1, <2>3, SettledOnward, Zenon DEF GoesToWork
<1>4. CASE \A x \in Requests : ~Renames(x)
  BY <1>1, <1>3, <1>4, QuarantineKeeps, Zenon DEF ReclaimsSettled
<1>5. ASSUME NEW r \in Requests, Renames(r) PROVE ReclaimsSettled'
  <2>1. asker[r] = "renames" /\ UNCHANGED helper
    BY <1>5, Zenon DEF Renames, helperVars
  <2>2. PICK q \in Requests :
          /\ q = seen[r].id /\ TooLate(q) /\ (seen[r].helper => Gone(q))
          /\ seen[r].helper \/ fencing[r]
    BY <1>1, <2>1, SMT DEF RecordInv, Judged, Judging
  <2>3. ASSUME q \notin quarantine PROVE helper[q] \notin ActingPlaces
    <3>1. CASE seen[r].helper
      BY <2>2, <3>1, SMT DEF Gone, ActingPlaces, Saving
    <3>2. CASE fencing[r]
      BY <2>1, <2>2, <2>3, <3>2, SMT
         DEF HandOffInv, ClaimsKept, Holds, Expected, Working, Claiming, ActingPlaces
    <3>3. QED BY <2>2, <3>1, <3>2
  <2>4. quarantine' = quarantine \/ (q \notin quarantine /\ quarantine' = quarantine \cup {q})
    BY <1>1, <1>5, <2>2, RenamesMoves, Zenon DEF RenamesMove
  <2>5. TooLate(q)'
    BY <1>1, <2>2, SettledOnward
  <2>6. ASSUME NEW p \in quarantine' PROVE TooLate(p)' /\ helper'[p] \notin ActingPlaces
    BY <1>3, <2>1, <2>3, <2>4, <2>5, Zenon
  <2>7. QED BY <2>6, Zenon DEF ReclaimsSettled
<1>6. QED BY <1>4, <1>5

\* Every step keeps RecordInv.
LEMMA RecordStep ==
  ASSUME RecordInv, [RestartNext]_restartVars
  PROVE  RecordInv'
<1>1. CASE RestartNext
  <2>1. HandOffTypes'
    BY <1>1, PlacesTypedKeeps, LockTypedKeeps, RecordsTypedKeeps DEF HandOffTypes
  <2>2. QED
    BY <1>1, <2>1, LaunchedKeeps, UnpublishedKeeps, TruthfulHandoffKeeps, OwnTrueKeeps,
       JudgedKeeps, Zenon
       DEF RecordInv
<1>2. CASE UNCHANGED restartVars
  <2>1. UNCHANGED <<handoff, lockDir, quarantine, age, asker, seen, fencing, helper, own,
                    running, bridges>>
    BY <1>2, Zenon DEF restartVars, lockVars, askVars, helperVars, runVars
  <2>2. PlacesTyped' /\ LockTyped' /\ RecordsTyped'
    BY <2>1, Zenon DEF RecordInv, HandOffTypes, PlacesTyped, LockTyped, RecordsTyped
  <2>3. \A q \in Requests :
          /\ Unlaunched(q)' <=> Unlaunched(q)
          /\ TooLate(q)' <=> TooLate(q)
          /\ Gone(q)' <=> Gone(q)
    BY <2>1, Zenon DEF Unlaunched, TooLate, Gone
  <2>4. Launched' /\ Unpublished' /\ OwnTrue'
    BY <2>1, Zenon DEF RecordInv, Launched, Unpublished, OwnTrue
  <2>5. Truthful(handoff)'
    BY <2>1, <2>3, Zenon DEF RecordInv, Truthful
  <2>6. Judged'
    BY <2>1, <2>3, Zenon DEF RecordInv, Judged
  <2>7. QED BY <2>2, <2>4, <2>5, <2>6 DEF RecordInv, HandOffTypes
<1>3. QED BY <1>1, <1>2

\* Every step keeps HandOffInv where renames hit the lock they are meant for.
LEMMA HandOffStep ==
  ASSUME HandOffInv, [RestartNext]_restartVars, KeepsNewerLocks
  PROVE  HandOffInv'
<1>1. RecordInv'
  BY RecordStep DEF HandOffInv
<1>2. CASE RestartNext
  BY <1>1, <1>2, TokensKeptKeeps, ClaimsKeptKeeps, ReclaimsSettledKeeps, Zenon
     DEF HandOffInv
<1>3. CASE UNCHANGED restartVars
  <2>1. UNCHANGED <<lockDir, quarantine, age, asker, seen, fencing, helper>>
    BY <1>3, Zenon DEF restartVars, lockVars, askVars, helperVars
  <2>2. TokensKept' /\ ClaimsKept'
    BY <2>1, Zenon DEF HandOffInv, TokensKept, ClaimsKept, Expected, Holds
  <2>3. ReclaimsSettled'
    BY <2>1, Zenon DEF HandOffInv, ReclaimsSettled, TooLate, Unlaunched, Gone
  <2>4. QED BY <1>1, <2>2, <2>3 DEF HandOffInv
<1>4. QED BY <1>2, <1>3

\* Nobody has asked at first.
LEMMA InitHandOff == RestartInit => HandOffInv
<1> SUFFICES ASSUME RestartInit PROVE HandOffInv
  OBVIOUS
<1>1. /\ \A q \in Requests : age[q] = "new" /\ asker[q] = "asks" /\ helper[q] = "none"
      /\ \A q \in Requests : seen[q] = NoHandoff /\ own[q] = NoHandoff
      /\ handoff = NoHandoff /\ lockDir = NoLockDir /\ quarantine = {}
  BY SMT DEF RestartInit
<1>2. PlacesTyped
  BY SMT DEF RestartInit, PlacesTyped, AskerPlaces, Unsent, HelperPlaces
<1>3. LockTyped
  BY <1>1, NoLockFields, Zenon DEF LockTyped
<1>4. RecordsTyped
  BY NoHandoffTyped, RestartConstants, SMT DEF RestartInit, RecordsTyped
<1>5. Launched /\ Unpublished /\ OwnTrue
  BY <1>1, NoHandoffTyped, RestartConstants, SMT DEF Launched, Unpublished, OwnTrue, Saving
<1>6. Truthful(handoff) /\ Judged /\ TokensKept /\ ClaimsKept /\ ReclaimsSettled
  BY <1>1, SMT
     DEF Truthful, Judged, Judging, TokensKept, ClaimsKept, Expected, Working, Claiming,
         Saving, ReclaimsSettled
<1>7. QED BY <1>2, <1>3, <1>4, <1>5, <1>6 DEF HandOffInv, RecordInv, HandOffTypes

\* What a rename takes is the lock of the request it reclaims.
LEMMA OwnLocksOnly ==
  ASSUME RecordInv, LockInv
  PROVE  KeepsNewerLocks
<1> SUFFICES ASSUME NEW r \in Requests, RenameHits(r) PROVE LockOf(seen[r].id)
  BY DEF KeepsNewerLocks
<1>1. PICK q \in Requests : q = seen[r].id
  BY SMT DEF RenameHits, RecordInv, Judged, Judging
<1>2. lockDir.by = q /\ lockDir # NoLockDir /\ lockDir.token \in {q, NoRequest}
  BY <1>1, SMT DEF RenameHits, LockInv, ReclaimsOwn, LockNamed, Judging
<1>3. QED BY <1>1, <1>2, Zenon DEF LockOf

\* Every step keeps HandOffInv and LockInv when no launch fails.
LEMMA LockStep ==
  ASSUME HandOffInv, LockInv, [RestartNext]_restartVars, [NoLaunchFails]_restartVars
  PROVE  HandOffInv' /\ LockInv'
<1>1. HandOffInv'
  BY OwnLocksOnly, HandOffStep DEF HandOffInv
<1>2. CASE RestartNext /\ NoLaunchFails
  BY <1>1, <1>2, LockNamedKeeps, LockOwnedKeeps, SavesShowKeeps, ReclaimsOwnKeeps, Zenon
     DEF HandOffInv, LockInv
<1>3. CASE UNCHANGED restartVars
  <2>1. UNCHANGED <<handoff, lockDir, quarantine, asker, seen, helper>>
    BY <1>3, Zenon DEF restartVars, lockVars, askVars, helperVars
  <2>2. \A q \in Requests : Overtaken(q)' <=> Overtaken(q)
    BY <2>1, Zenon DEF Overtaken
  <2>3. LockNamed' /\ LockOwned'
    BY <2>1, Zenon DEF LockInv, LockNamed, LockOwned
  <2>4. SavesShow' /\ ReclaimsOwn'
    BY <2>1, <2>2, Zenon DEF LockInv, SavesShow, ReclaimsOwn
  <2>5. QED BY <1>1, <2>3, <2>4 DEF LockInv
<1>4. QED BY <1>2, <1>3

\* There is no lock at first.
LEMMA InitLock == RestartInit => LockInv
<1> SUFFICES ASSUME RestartInit PROVE LockInv
  OBVIOUS
<1>1. /\ \A q \in Requests : asker[q] = "asks" /\ helper[q] = "none" /\ lockDir = NoLockDir
  BY SMT DEF RestartInit
<1>2. LockNamed
  BY NoLockFields, Zenon DEF RestartInit, LockNamed
<1>3. LockOwned /\ SavesShow /\ ReclaimsOwn
  BY <1>1, SMT DEF LockOwned, Owning, SavesShow, Saving, ReclaimsOwn, Judging
<1>4. QED BY <1>2, <1>3 DEF LockInv

\* Who acts, by its place.
LEMMA ActingIs == \A q \in Requests : q \in Acting <=> helper[q] \in ActingPlaces
BY Zenon DEF Acting, ActingPlaces, Saving

\* HandOffInv holds where renames hit the lock they are meant for.
LEMMA HandOffReaches == RestartSpec /\ []KeepsNewerLocks => []HandOffInv
<1>1. HandOffInv /\ KeepsNewerLocks /\ [RestartNext]_restartVars => HandOffInv'
  BY HandOffStep
<1>2. QED BY InitHandOff, <1>1, PTL DEF RestartSpec

\* RecordInv always holds.
LEMMA RecordReaches == RestartSpec => []RecordInv
<1>1. RecordInv /\ [RestartNext]_restartVars => RecordInv'
  BY RecordStep
<1>2. RestartInit => RecordInv
  BY InitHandOff DEF HandOffInv
<1>3. QED BY <1>1, <1>2, PTL DEF RestartSpec

\* The variables of the restart hand-off keep their types.
THEOREM RestartTypes == RestartSpec => []RestartTypeOK
<1>1. ASSUME RecordInv PROVE RestartTypeOK
  <2>1. /\ handoff.id \in Requests \cup {NoRequest} /\ handoff.state \in HandoffStates
        /\ lockDir.claims \subseteq Requests /\ \A r \in Requests : own[r].new \in Nat
    BY <1>1, SMT DEF RecordInv, HandOffTypes, LockTyped, LockDirs, RecordsTyped, Handoffs
  <2>2. QED
    BY <1>1, <2>1, SMT
       DEF RestartTypeOK, RecordInv, HandOffTypes, LockTyped, RecordsTyped, HandoffStates
<1>2. QED BY <1>1, RecordReaches, PTL

\* A helper whose request was reclaimed does not act.
LEMMA SettledDoNotAct == HandOffInv => FencedNeverActs
BY ActingIs, SMT
   DEF HandOffInv, RecordInv, HandOffTypes, LockTyped, ReclaimsSettled, FencedNeverActs

\* Who acts is the one whose token is in the lock.
LEMMA TokenHolderActs == HandOffInv => OneHelperActs
<1>1. ASSUME HandOffInv, NEW q \in Acting PROVE q = lockDir.token
  <2>1. q \in Requests /\ helper[q] \in ActingPlaces
    BY SMT DEF Acting, ActingPlaces, Saving
  <2>2. q \notin quarantine
    BY <1>1, <2>1, Zenon DEF HandOffInv, ReclaimsSettled
  <2>3. QED
    BY <1>1, <2>1, <2>2, SMT
       DEF HandOffInv, TokensKept, Expected, Working, Claiming, ActingPlaces
<1>2. QED BY <1>1, Zenon DEF OneHelperActs

\* A helper whose request was reclaimed never acts (restart.ts:434), as long as every
\* rename hits the lock it is meant for (restart.ts:220).
THEOREM ReclaimedNeverActs == RestartSpec /\ []KeepsNewerLocks => []FencedNeverActs
BY SettledDoNotAct, HandOffReaches, PTL

\* One helper at a time stops and starts bridges, under the same condition.
THEOREM OneHelperAtATime == RestartSpec /\ []KeepsNewerLocks => []OneHelperActs
BY TokenHolderActs, HandOffReaches, PTL
-----------------------------------------------------------------------------
(* Of two requests, with failing launches, the reclaimer has no token in the   *)
(* lock, so whatever it renames is the lock of the other one. Of any number it *)
(* is LockInv that tells, until a launch fails.                                *)
TokenSent == \A x \in Requests : lockDir.token = x => asker[x] = "owns" \/ asker[x] \notin Unsent

\* Only who is about to publish puts its token in the lock, and nobody comes back.
LEMMA TokenSentKeeps ==
  ASSUME RecordInv, TokenSent, RestartNext
  PROVE  TokenSent'
<1>1. Onward
  BY OnwardKeeps
<1>2. LockTyped /\ asker \in [Requests -> AskerPlaces]
  BY DEF RecordInv, HandOffTypes, PlacesTyped
<1> DEFINE Rests == lockDir'.token \in {lockDir.token, NoRequest}
           Stays == \A q \in Requests : asker[q] = "owns" => asker'[q] = "owns"
<1>3. ASSUME Rests, Stays PROVE TokenSent'
  BY <1>1, <1>3, RestartConstants, SMT DEF TokenSent, Onward
<1>4. ASSUME NEW r \in Requests, Validates(r) \/ Publishes(r) \/ AskerDies(r)
      PROVE  TokenSent'
  <2>1. PICK w \in {"valid", "launches", "clears", "dead"} :
          asker' = [asker EXCEPT ![r] = w] /\ UNCHANGED lockDir
    BY <1>4, Zenon DEF Validates, Publishes, SavesFailed, AskerDies, Asks, lockVars
  <2>2. asker'[r] \notin Unsent /\ \A q \in Requests \ {r} : asker'[q] = asker[q]
    BY <1>2, <2>1, SMT DEF Unsent, Judging
  <2>3. QED BY <2>1, <2>2, SMT DEF TokenSent
<1>5. ASSUME NEW r \in Requests, PutsToken(r) PROVE TokenSent'
  <2>1. PutsTokenMove(r) /\ asker[r] = "made"
    BY <1>2, <1>5, PutsTokenMoves DEF PutsToken
  <2>2. CASE lockDir'.token = r /\ asker' = [asker EXCEPT ![r] = "owns"]
    BY <1>2, <2>2, SMT DEF TokenSent
  <2>3. CASE UNCHANGED lockDir /\ \E w \in {"refused", "finds"} : asker' = [asker EXCEPT ![r] = w]
    BY <1>2, <1>3, <2>1, <2>3, SMT
  <2>4. QED BY <2>1, <2>2, <2>3, Zenon DEF PutsTokenMove
<1>6. ASSUME NEW r \in Requests, NEW w, asker[r] # "owns", asker' = [asker EXCEPT ![r] = w]
      PROVE  Stays
  BY <1>2, <1>6, SMT
<1>7. ASSUME NEW r \in Requests, MakesLock(r) PROVE TokenSent'
  <2>1. MakesLockMove(r) /\ asker[r] # "owns"
    BY <1>2, <1>7, MakesLockMoves, SMT DEF MakesLock
  <2>2. QED BY <1>3, <1>6, <2>1, Zenon DEF MakesLockMove
<1>8. ASSUME NEW r \in Requests, ClearsToken(r) \/ ClearsDir(r) PROVE TokenSent'
  <2>1. asker[r] # "owns" /\ \E w \in {"rmdir", "refused"} : asker' = [asker EXCEPT ![r] = w]
    BY <1>8, Zenon DEF ClearsToken, ClearsDir, Asks
  <2>2. Rests
    <3>1. CASE ClearsToken(r)
      BY <1>2, <3>1, ClearsTokenMoves, Zenon DEF ClearsTokenMove
    <3>2. CASE ClearsDir(r)
      BY <3>2, NoLockFields, Zenon DEF ClearsDir
    <3>3. QED BY <1>8, <3>1, <3>2
  <2>3. QED BY <1>3, <1>6, <2>1, <2>2, Zenon
<1>9. ASSUME NEW r \in Requests, Fences(r) \/ Unfences(r) PROVE TokenSent'
  <2>1. asker[r] # "owns" /\ \E w \in {"fenced", "refused"} : asker' = [asker EXCEPT ![r] = w]
    BY <1>9, Zenon DEF Fences, Unfences, Asks
  <2>2. seen[r].id \in Requests
    BY <1>9, SMT DEF Fences, Unfences, RecordInv, Judged, Judging
  <2>3. Rests
    BY <1>2, <1>9, <2>2, FencesMoves, UnfencesMoves, Zenon DEF FencesMove, UnfencesMove
  <2>4. QED BY <1>3, <1>6, <2>1, <2>3, Zenon
<1>10. ASSUME NEW r \in Requests, Renames(r) PROVE TokenSent'
  <2>1. RenamesMove(r)
    BY <1>10, RenamesMoves
  <2>2. Rests /\ asker[r] # "owns"
    BY <2>1, NoLockFields, Zenon DEF RenamesMove
  <2>3. QED BY <1>3, <1>6, <2>1, <2>2, Zenon DEF RenamesMove
<1>11. ASSUME NEW r \in Requests,
              Launches(r) \/ LaunchFails(r) \/ Finds(r) \/ Proves(r) \/ Rechecks(r)
       PROVE  TokenSent'
  <2>1. asker[r] # "owns" /\ UNCHANGED lockDir /\ \E w : asker' = [asker EXCEPT ![r] = w]
    BY <1>11, Zenon DEF Launches, LaunchFails, SavesFailed, Finds, Proves, Rechecks, Asks,
       lockVars
  <2>2. QED BY <1>3, <1>6, <2>1, Zenon
<1>12. ASSUME UNCHANGED asker, Rests PROVE TokenSent'
  BY <1>3, <1>12, Zenon
<1>13. ASSUME NEW r \in Requests,
              \/ HelperReads(r) \/ HelperRereads(r) \/ HelperWrites(r) \/ HelperGoesOn(r)
              \/ Ages(r) \/ HelperDies(r)
       PROVE  TokenSent'
  <2>1. UNCHANGED <<asker, lockDir>>
    BY <1>13, Zenon DEF HelperReads, HelperRereads, HelperWrites, HelperGoesOn, Ages,
       HelperDies, askVars, lockVars
  <2>2. QED BY <1>12, <2>1, Zenon
<1>14. ASSUME NEW r \in Requests,
              HelperClaims(r) \/ HelperUnclaims(r) \/ HelperReleases(r) \/ HelperRemoves(r)
       PROVE  TokenSent'
  <2>1. UNCHANGED asker
    BY <1>14, Zenon DEF HelperClaims, HelperUnclaims, HelperReleases, HelperRemoves, askVars
  <2>2. CASE HelperClaims(r) \/ HelperUnclaims(r) \/ HelperReleases(r)
    <3>1. Rests
      BY <1>2, <2>2, HelperClaimsMoves, HelperUnclaimsMoves, HelperReleasesMoves, Zenon
         DEF HelperClaimsMove, HelperUnclaimsMove, HelperReleasesMove
    <3>2. QED BY <1>12, <2>1, <3>1, Zenon
  <2>3. CASE HelperRemoves(r)
    <3>1. Rests
      BY <2>3, NoLockFields, Zenon DEF HelperRemoves
    <3>2. QED BY <1>12, <2>1, <3>1, Zenon
  <2>4. QED BY <1>14, <2>2, <2>3
<1>15. ASSUME LockAges \/ BridgeEnds \/ BridgeStarts PROVE TokenSent'
  <2>1. UNCHANGED asker
    BY <1>15, Zenon DEF LockAges, BridgeEnds, BridgeStarts, askVars
  <2>2. Rests
    BY <1>2, <1>15, LockAgesMoves, Zenon
       DEF LockAgesMove, BridgeEnds, BridgeStarts, lockVars
  <2>3. QED BY <1>12, <2>1, <2>2, Zenon
<1>16. QED
  BY HelperWritesAre, <1>4, <1>5, <1>7, <1>8, <1>9, <1>10, <1>11, <1>13, <1>14, <1>15, SMT
     DEF RestartNext, AskerSteps, HelperSteps

\* Whose launch failed keeps the record that says so, and its failure is noted there.
LEMMA WithdrawnKeeps ==
  ASSUME RecordInv, [RestartNext]_restartVars,
         LaunchWithdrawn \/ \E r \in Requests : LaunchFails(r)
  PROVE  LaunchWithdrawn'
<1>1. ASSUME NEW r \in Requests, LaunchFails(r) PROVE LaunchWithdrawn'
  <2>1. LaunchFailsMove(r) /\ seen \in [Requests -> Handoffs]
    BY <1>1, LaunchFailsMoves DEF RecordInv, HandOffTypes, RecordsTyped
  <2>2. seen'[r].id = r /\ seen'[r].state = "failed"
    BY <2>1, SMT DEF LaunchFailsMove
  <2>3. QED BY <2>2, Zenon DEF LaunchWithdrawn
<1>2. ASSUME NEW q \in Requests, seen[q].id = q, seen'[q] = seen[q], seen[q].state = "failed"
      PROVE  LaunchWithdrawn'
  BY <1>2, Zenon DEF LaunchWithdrawn
<1>3. ASSUME NEW q \in Requests, seen[q].id = q, seen[q].state = "failed",
             \A x \in Requests : ~LaunchFails(x)
      PROVE  seen'[q] = seen[q]
  <2>1. asker[q] \notin Unsent
    BY <1>3, SMT DEF RecordInv, Unpublished
  <2>2. ASSUME UNCHANGED seen PROVE seen'[q] = seen[q]
    BY <2>2
  <2>3. ASSUME NEW r \in Requests, Validates(r) \/ Finds(r) PROVE seen'[q] = seen[q]
    <3>1. r # q
      BY <2>1, <2>3, SMT DEF Validates, Finds, Unsent
    <3>2. UNCHANGED seen \/ \E h : seen' = [seen EXCEPT ![r] = h]
      BY <2>3, Zenon DEF Validates, SavesFailed, Finds
    <3>3. QED BY <3>1, <3>2, SMT DEF RecordInv, HandOffTypes, RecordsTyped
  <2>4. ASSUME NEW r \in Requests,
               \/ MakesLock(r) \/ PutsToken(r) \/ Publishes(r) \/ Launches(r) \/ ClearsToken(r)
               \/ ClearsDir(r) \/ Proves(r) \/ Fences(r) \/ Rechecks(r) \/ Renames(r)
               \/ Unfences(r) \/ AskerDies(r)
        PROVE  UNCHANGED seen
    BY <2>4, Zenon DEF MakesLock, PutsToken, Publishes, Launches, ClearsToken, ClearsDir,
       Proves, Fences, Rechecks, Renames, Unfences, AskerDies
  <2>5. ASSUME NEW r \in Requests,
               \/ HelperReads(r) \/ HelperClaims(r) \/ HelperRereads(r) \/ HelperUnclaims(r)
               \/ HelperWrites(r) \/ HelperGoesOn(r) \/ HelperReleases(r) \/ HelperRemoves(r)
               \/ Ages(r) \/ HelperDies(r)
        PROVE  UNCHANGED seen
    BY <2>5, Zenon DEF HelperReads, HelperClaims, HelperRereads, HelperUnclaims,
       HelperWrites, HelperGoesOn, HelperReleases, HelperRemoves, Ages, HelperDies, askVars
  <2>6. ASSUME LockAges \/ BridgeEnds \/ BridgeStarts \/ UNCHANGED restartVars
        PROVE  UNCHANGED seen
    BY <2>6, Zenon DEF LockAges, BridgeEnds, BridgeStarts, restartVars, askVars
  <2>7. QED
    BY HelperWritesAre, <1>3, <2>2, <2>3, <2>4, <2>5, <2>6, SMT
       DEF RestartNext, AskerSteps, HelperSteps
<1>4. QED BY <1>1, <1>2, <1>3, Zenon DEF LaunchWithdrawn

\* Nobody who has asked has not asked again: who is past the first step stays there.
LEMMA AskedKeeps ==
  ASSUME RecordInv, [RestartNext]_restartVars, NEW q \in Asked
  PROVE  q \in Asked'
<1>1. ASSUME UNCHANGED asker PROVE q \in Asked'
  BY <1>1, Zenon DEF Asked
<1>2. ASSUME NEW r \in Requests, AskerSteps(r) \/ AskerDies(r) PROVE q \in Asked'
  <2>1. PICK w : w # "asks" /\ asker' = [asker EXCEPT ![r] = w]
    BY <1>2, SMT
       DEF AskerSteps, MakesLock, PutsToken, Validates, SavesFailed, Publishes, Launches,
           LaunchFails, ClearsToken, ClearsDir, Finds, Proves, Fences, Rechecks, Renames,
           Unfences, AskerDies, Asks
  <2>2. QED BY <2>1, SMT DEF Asked, RecordInv, HandOffTypes, PlacesTyped
<1>3. ASSUME NEW r \in Requests, HelperSteps(r) \/ Ages(r) \/ HelperDies(r) PROVE UNCHANGED asker
  BY <1>3, Zenon
     DEF HelperSteps, HelperReads, HelperClaims, HelperRereads, HelperUnclaims, HelperNames,
         HelperChecks, HelperLooks, HelperStops, HelperStarting, HelperEnsures,
         HelperObserves, HelperFinishes, HelperConfirms, HelperReleases, HelperRemoves,
         HelperMoves, HelperFails, HelperSaves, Ages, HelperDies, askVars
<1>4. ASSUME LockAges \/ BridgeEnds \/ BridgeStarts \/ UNCHANGED restartVars
      PROVE  UNCHANGED asker
  BY <1>4, Zenon DEF LockAges, BridgeEnds, BridgeStarts, restartVars, askVars
<1>5. QED BY <1>1, <1>2, <1>3, <1>4, Zenon DEF RestartNext

\* At most two requests were made: what is renamed is not the reclaimer's own lock.
LEMMA OfTwoTheOther ==
  ASSUME RecordInv, TokenSent,
         ~ \E a, b, c \in Asked : a # b /\ a # c /\ b # c
  PROVE  KeepsNewerLocks
<1>1. SUFFICES ASSUME NEW r \in Requests, RenameHits(r) PROVE LockOf(seen[r].id)
  BY DEF KeepsNewerLocks
<1>2. asker[r] = "renames" /\ lockDir # NoLockDir
  BY <1>1 DEF RenameHits
<1>3. seen[r].id \in Requests \ {r} /\ asker[seen[r].id] \notin Unsent
  BY <1>2, SMT DEF RecordInv, Judged, Judging, Unpublished, Unsent
<1>4. /\ lockDir.token \in Requests \cup {NoRequest} /\ lockDir.token # r
      /\ lockDir.token \in Requests => asker[lockDir.token] # "asks"
  BY <1>2, SMT DEF RecordInv, HandOffTypes, LockTyped, LockDirs, TokenSent, Unsent, Judging
<1>5. r \in Asked /\ seen[r].id \in Asked
  BY <1>2, <1>3, SMT DEF Asked, Unsent
<1>6. lockDir.token \in Requests => lockDir.token = seen[r].id
  BY <1>3, <1>4, <1>5, Zenon DEF Asked
<1>7. QED BY <1>2, <1>4, <1>6, Zenon DEF LockOf

(* What holds until a launch has failed among three requests.                 *)
CrossInv ==
  /\ RecordInv /\ TokenSent
  /\ ~LaunchWithdrawn => LockInv
  /\ ~Crossed => HandOffInv

\* Until then every rename hits the lock it is meant for.
LEMMA CrossKeepsLocks ==
  ASSUME CrossInv, ~Crossed
  PROVE  KeepsNewerLocks
<1>1. CASE LaunchWithdrawn
  BY <1>1, OfTwoTheOther, Zenon DEF CrossInv, Crossed
<1>2. CASE ~LaunchWithdrawn
  BY <1>2, OwnLocksOnly DEF CrossInv
<1>3. QED BY <1>1, <1>2

\* Every step keeps CrossInv.
LEMMA CrossStep ==
  ASSUME CrossInv, [RestartNext]_restartVars
  PROVE  CrossInv'
<1>1. RecordInv'
  BY RecordStep DEF CrossInv
<1>2. TokenSent'
  <2>1. CASE UNCHANGED restartVars
    BY <2>1, Zenon DEF CrossInv, restartVars, lockVars, askVars, TokenSent
  <2>2. QED BY <2>1, TokenSentKeeps DEF CrossInv
<1>3. LaunchWithdrawn => LaunchWithdrawn'
  BY WithdrawnKeeps DEF CrossInv
<1>4. Crossed => Crossed'
  BY <1>3, AskedKeeps, Zenon DEF CrossInv, Crossed
<1>5. ASSUME ~LaunchWithdrawn' PROVE LockInv'
  <2>1. NoLaunchFails
    BY <1>5, WithdrawnKeeps, Zenon DEF CrossInv, NoLaunchFails
  <2>2. HandOffInv /\ LockInv
    BY <1>3, <1>5, Zenon DEF CrossInv, Crossed
  <2>3. QED BY <2>1, <2>2, LockStep, Zenon
<1>6. ASSUME ~Crossed' PROVE HandOffInv'
  <2>1. HandOffInv /\ KeepsNewerLocks
    BY <1>4, <1>6, CrossKeepsLocks DEF CrossInv
  <2>2. QED BY <2>1, HandOffStep
<1>7. QED BY <1>1, <1>2, <1>5, <1>6 DEF CrossInv

\* CrossInv always holds.
LEMMA CrossReaches == RestartSpec => []CrossInv
<1>1. RestartInit => CrossInv
  <2>1. RestartInit => TokenSent
    BY NoLockFields, RestartConstants, SMT DEF RestartInit, TokenSent
  <2>2. QED BY <2>1, InitHandOff, InitLock DEF CrossInv, HandOffInv
<1>2. CrossInv /\ [RestartNext]_restartVars => CrossInv'
  BY CrossStep
<1>3. QED BY <1>1, <1>2, PTL DEF RestartSpec

\* However many requests are made, whatever dies and whatever the system refuses: as
\* long as no launch failed among three of them, a reclaim takes no newer lock
\* (restart.ts:220), its helper does not act (restart.ts:434) and no two helpers do.
THEOREM HandOffIsSafe == RestartSpec => []HandOffSafe
<1>1. ASSUME CrossInv PROVE HandOffSafe
  <2>1. CASE Crossed
    BY <2>1 DEF HandOffSafe
  <2>2. CASE ~Crossed
    <3>1. HandOffInv /\ KeepsNewerLocks
      BY <1>1, <2>2, CrossKeepsLocks DEF CrossInv
    <3>2. QED BY <3>1, SettledDoNotAct, TokenHolderActs DEF HandOffSafe
  <2>3. QED BY <2>1, <2>2
<1>2. QED BY <1>1, CrossReaches, PTL
=============================================================================
