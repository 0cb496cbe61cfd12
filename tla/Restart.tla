------------------------------- MODULE Restart -------------------------------
(* The restart hand-off (process/restart.ts): processes that ask for a restart *)
(* compete for one lock directory and one record; a detached helper per        *)
(* request claims it, stops the bridge and starts its replacement.  A request  *)
(* left behind is reclaimed by moving its lock away under proofs.              *)
EXTENDS Naturals

CONSTANTS
  Requests,     \* requests for a restart; each is the id of its hand-off
  NoRequest,
  MaxBridges,   \* bound: bridges are 1..MaxBridges, in the order they start
  MaxDeaths,    \* bound: processes that die
  MaxDenied     \* bound: refusals of the system: start, rename, inspection

ASSUME RestartConstants ==
  /\ NoRequest \notin Requests
  /\ MaxBridges \in Nat \ {0} /\ MaxDeaths \in Nat /\ MaxDenied \in Nat

VARIABLES
  handoff,     \* restart-handoff.json
  lockDir,     \* restart-handoff.lock: who made it, handoff-id, claim-<id>, mtime
  quarantine,  \* ids with a restart-handoff.<id>.stale directory
  age,         \* age of each request: within LAUNCH_GRACE, within TTL, beyond
  asker,       \* the process that asks: where it stands
  seen,        \* the record it judged
  fencing,     \* it made a claim of its own in the lock it reclaims
  helper,      \* the helper of each request: where it stands
  own,         \* its copy of the record
  running,     \* the bridge that runs, 0 for none
  bridges,     \* bridges started so far
  deaths, denied

lockVars == <<handoff, lockDir, quarantine>>
askVars == <<asker, seen, fencing>>
helperVars == <<helper, own>>
runVars == <<running, bridges>>
restartVars == <<lockVars, age, askVars, helperVars, runVars, deaths, denied>>

NoLockDir == [by |-> NoRequest, token |-> NoRequest, claims |-> {}, fresh |-> FALSE]
FreshHandoff(r, o) == [id |-> r, helper |-> FALSE, state |-> "requested", error |-> "none",
                old |-> o, new |-> 0]
NoHandoff == [FreshHandoff(NoRequest, 0) EXCEPT !.state = "complete"]
Ended == {"complete", "failed"}

RestartInit ==
  /\ handoff = NoHandoff /\ lockDir = NoLockDir /\ quarantine = {}
  /\ age = [r \in Requests |-> "new"]
  /\ asker = [r \in Requests |-> "asks"] /\ seen = [r \in Requests |-> NoHandoff]
  /\ fencing = [r \in Requests |-> FALSE]
  /\ helper = [r \in Requests |-> "none"] /\ own = [r \in Requests |-> NoHandoff]
  /\ running = 1 /\ bridges = 1 /\ deaths = 0 /\ denied = 0

Asks(r, w) == asker' = [asker EXCEPT ![r] = w]
Helps(r, w) == helper' = [helper EXCEPT ![r] = w]
Denies == denied < MaxDenied /\ denied' = denied + 1
(* A change of an entry renews the mtime of the directory.                     *)
Enter(l) == lockDir' = [l EXCEPT !.fresh = TRUE]
-----------------------------------------------------------------------------
(* stale(): judged by the clock, so it stays true.                             *)
Stale(h) ==
  \/ age[h.id] = "expired" \/ h.state \in Ended
  \/ h.state = "requested" /\ ~h.helper /\ age[h.id] # "new"
(* validateLock(): every entry names the generation; claims name themselves.   *)
LockOf(id) == lockDir # NoLockDir /\ lockDir.token \in {id, NoRequest}
(* Without handoff-id the lock has to be old and to be born before the record, *)
(* that is, not made by a later request that has still to publish its id.      *)
Reclaimable(id) ==
  LockOf(id) /\ (lockDir.token = NoRequest => ~lockDir.fresh /\ lockDir.by = id)
(* The prove() of reclaimLock(): the helper is provably gone.                  *)
HelperGone(h) == h.helper => helper[h.id] \in {"dead", "done"}
Proved(h) == Stale(h) /\ HelperGone(h)
-----------------------------------------------------------------------------
(* requestRestart(): mkdir, then the exclusive creation of handoff-id.         *)
MakesLock(r) ==
  /\ asker[r] \in {"asks", "reclaimed"}
  /\ \/ lockDir = NoLockDir /\ Enter([NoLockDir EXCEPT !.by = r]) /\ Asks(r, "made")
     \/ /\ lockDir # NoLockDir /\ UNCHANGED lockDir
        /\ Asks(r, IF asker[r] = "asks" THEN "finds" ELSE "refused")
  /\ UNCHANGED <<handoff, quarantine, age, seen, fencing, helperVars, runVars, deaths,
                 denied>>
PutsToken(r) ==
  /\ asker[r] = "made"
  /\ \/ /\ lockDir # NoLockDir /\ lockDir.token = NoRequest
        /\ Enter([lockDir EXCEPT !.token = r]) /\ Asks(r, "owns")
     \/ lockDir = NoLockDir /\ Asks(r, "refused") /\ UNCHANGED lockDir
     \/ /\ lockDir.token # NoRequest /\ UNCHANGED lockDir
        /\ Asks(r, IF seen[r] = NoHandoff THEN "finds" ELSE "refused")
  /\ UNCHANGED <<handoff, quarantine, age, seen, fencing, helperVars, runVars, deaths,
                 denied>>
(* The bridge is observed healthy, or cannot be; the lock is validated. From    *)
(* here on the asker has a record of its own: it is saved, as failed if the     *)
(* lock is not this one's any more.                                            *)
LaunchFailed(h) == [h EXCEPT !.state = "failed", !.error = "LAUNCH_FAILED"]
SavesFailed(r, h) ==
  /\ handoff' = LaunchFailed(h) /\ seen' = [seen EXCEPT ![r] = LaunchFailed(h)]
  /\ Asks(r, "clears")
Validates(r) ==
  LET h == FreshHandoff(r, running) IN
  /\ asker[r] = "owns"
  /\ \/ /\ running # 0 /\ LockOf(r)
        /\ seen' = [seen EXCEPT ![r] = h] /\ Asks(r, "valid")
        /\ UNCHANGED <<handoff, denied>>
     \/ running # 0 /\ ~LockOf(r) /\ SavesFailed(r, h) /\ UNCHANGED denied
     \/ running = 0 /\ Asks(r, "clears") /\ UNCHANGED <<handoff, seen, denied>>
     \/ Denies /\ Asks(r, "clears") /\ UNCHANGED <<handoff, seen>>
  /\ UNCHANGED <<lockDir, quarantine, age, fencing, helperVars, runVars, deaths>>
Publishes(r) ==
  /\ asker[r] = "valid"
  /\ handoff' = seen[r] /\ Asks(r, "launches")
  /\ UNCHANGED <<lockDir, quarantine, age, seen, fencing, helperVars, runVars, deaths,
                 denied>>
Launches(r) ==
  /\ asker[r] = "launches"
  /\ Asks(r, "returned") /\ Helps(r, "starts")
  /\ UNCHANGED <<lockVars, age, seen, fencing, own, runVars, deaths, denied>>
(* The launch fails, at once or after the request was reclaimed: the record is *)
(* replaced whatever it says, the lock is removed if it is still this one.     *)
LaunchFails(r) ==
  /\ asker[r] = "launches"
  /\ Denies /\ SavesFailed(r, seen[r])
  /\ UNCHANGED <<lockDir, quarantine, age, fencing, helperVars, runVars, deaths>>
ClearsToken(r) ==
  /\ asker[r] = "clears"
  /\ \/ lockDir.token = r /\ Enter([lockDir EXCEPT !.token = NoRequest]) /\ Asks(r, "rmdir")
     \/ lockDir.token # r /\ Asks(r, "refused") /\ UNCHANGED lockDir
  /\ UNCHANGED <<handoff, quarantine, age, seen, fencing, helperVars, runVars, deaths,
                 denied>>
Empty(l) == l # NoLockDir /\ l.token = NoRequest /\ l.claims = {}
ClearsDir(r) ==
  /\ asker[r] = "rmdir"
  /\ lockDir' = IF Empty(lockDir) THEN NoLockDir ELSE lockDir
  /\ Asks(r, "refused")
  /\ UNCHANGED <<handoff, quarantine, age, seen, fencing, helperVars, runVars, deaths,
                 denied>>
-----------------------------------------------------------------------------
(* The lock exists: its record is read and judged; a live one is joined.       *)
Finds(r) ==
  /\ asker[r] = "finds"
  /\ \/ /\ handoff # NoHandoff /\ LockOf(handoff.id) /\ Stale(handoff)
        /\ Reclaimable(handoff.id) /\ Proved(handoff)
        /\ (~handoff.helper /\ handoff.state = "failed") => handoff.error = "LAUNCH_FAILED"
        /\ seen' = [seen EXCEPT ![r] = handoff] /\ Asks(r, "proves")
     \/ /\ handoff # NoHandoff /\ LockOf(handoff.id) /\ ~Stale(handoff)
        /\ Asks(r, "joined") /\ UNCHANGED seen
     \/ Asks(r, "refused") /\ UNCHANGED seen
  /\ UNCHANGED <<lockVars, age, fencing, helperVars, runVars, deaths, denied>>
(* reclaimLock() after it observed the bridge: a healthy one, and the old one  *)
(* if that still runs.                                                         *)
Proves(r) ==
  LET h == seen[r] IN
  /\ asker[r] = "proves"
  /\ \/ /\ running # 0 /\ Proved(h) /\ Reclaimable(h.id) /\ handoff = h
        /\ fencing' = [fencing EXCEPT ![r] =
                         ~h.helper \/ (lockDir.token = NoRequest /\ h.id \notin lockDir.claims)]
        /\ Asks(r, IF fencing'[r] THEN "fences" ELSE "fenced")
     \/ Asks(r, "refused") /\ UNCHANGED fencing
  /\ UNCHANGED <<lockVars, age, seen, helperVars, runVars, deaths, denied>>
(* The exclusive creation of claim-<id>, which the helper of id makes as well. *)
Fences(r) ==
  /\ asker[r] = "fences"
  /\ \/ /\ lockDir # NoLockDir /\ seen[r].id \notin lockDir.claims
        /\ Enter([lockDir EXCEPT !.claims = @ \cup {seen[r].id}]) /\ Asks(r, "fenced")
     \/ /\ lockDir = NoLockDir \/ seen[r].id \in lockDir.claims
        /\ Asks(r, "refused") /\ UNCHANGED lockDir
  /\ UNCHANGED <<handoff, quarantine, age, seen, fencing, helperVars, runVars, deaths,
                 denied>>
(* One round of the rename loop: the proofs once more.                         *)
Rechecks(r) ==
  LET h == seen[r] IN
  /\ asker[r] = "fenced"
  /\ \/ /\ h.id \notin quarantine /\ LockOf(h.id) /\ handoff = h /\ Proved(h)
        /\ Asks(r, "renames") /\ UNCHANGED denied
     \/ /\ h.id \in quarantine \/ ~LockOf(h.id) \/ handoff # h \/ ~Proved(h)
        /\ Asks(r, "unfences") /\ UNCHANGED denied
     \/ Denies /\ Asks(r, "unfences")
  /\ UNCHANGED <<lockVars, age, seen, fencing, helperVars, runVars, deaths>>
(* The rename takes whatever directory has the name now; it fails onto a       *)
(* directory that exists, and it may be denied for a while.                    *)
Renames(r) ==
  LET h == seen[r] IN
  /\ asker[r] = "renames"
  /\ \/ /\ lockDir # NoLockDir /\ h.id \notin quarantine
        /\ quarantine' = quarantine \cup {h.id} /\ lockDir' = NoLockDir
        /\ Asks(r, "reclaimed") /\ UNCHANGED denied
     \/ /\ lockDir = NoLockDir \/ h.id \in quarantine
        /\ Asks(r, "unfences") /\ UNCHANGED <<quarantine, lockDir, denied>>
     \/ Denies /\ Asks(r, "fenced") /\ UNCHANGED <<quarantine, lockDir>>
  /\ UNCHANGED <<handoff, age, seen, fencing, helperVars, runVars, deaths>>
(* The finally of a reclaim that came to nothing takes its claim back.         *)
Unfences(r) ==
  /\ asker[r] = "unfences"
  /\ IF fencing[r] /\ seen[r].id \in lockDir.claims
     THEN Enter([lockDir EXCEPT !.claims = @ \ {seen[r].id}]) ELSE UNCHANGED lockDir
  /\ Asks(r, "refused")
  /\ UNCHANGED <<handoff, quarantine, age, seen, fencing, helperVars, runVars, deaths,
                 denied>>
-----------------------------------------------------------------------------
(* runRestartHelper(): the record is checked, claimed and read again.          *)
HelperReads(r) ==
  /\ helper[r] = "starts"
  /\ \/ /\ handoff.id = r /\ handoff.state = "requested" /\ ~handoff.helper
        /\ age[r] # "expired" /\ LockOf(r)
        /\ own' = [own EXCEPT ![r] = handoff] /\ Helps(r, "claims")
     \/ /\ \/ handoff.id # r \/ handoff.state # "requested" \/ handoff.helper
           \/ age[r] = "expired" \/ ~LockOf(r)
        /\ Helps(r, "done") /\ UNCHANGED own
  /\ UNCHANGED <<lockVars, age, askVars, runVars, deaths, denied>>
HelperClaims(r) ==
  /\ helper[r] = "claims"
  /\ \/ /\ lockDir # NoLockDir /\ r \notin lockDir.claims
        /\ Enter([lockDir EXCEPT !.claims = @ \cup {r}]) /\ Helps(r, "claimed")
     \/ /\ lockDir = NoLockDir \/ r \in lockDir.claims
        /\ Helps(r, "done") /\ UNCHANGED lockDir
  /\ UNCHANGED <<handoff, quarantine, age, askVars, own, runVars, deaths, denied>>
\* Mutant: the age of the request is not looked at again.
StillAskedEver(r) ==
  handoff.id = r /\ ~handoff.helper /\ handoff.state = "requested"
StillAsked(r) ==
  handoff.id = r /\ ~handoff.helper /\ handoff.state = "requested" /\ ~Stale(handoff)
HelperRereads(r) ==
  /\ helper[r] = "claimed"
  /\ Helps(r, IF StillAsked(r) THEN "names" ELSE "unclaims")
  /\ UNCHANGED <<lockVars, age, askVars, own, runVars, deaths, denied>>
HelperUnclaims(r) ==
  /\ helper[r] = "unclaims"
  /\ IF r \in lockDir.claims
     THEN Enter([lockDir EXCEPT !.claims = @ \ {r}]) ELSE UNCHANGED lockDir
  /\ Helps(r, "done")
  /\ UNCHANGED <<handoff, quarantine, age, askVars, own, runVars, deaths, denied>>

(* save(): the helper's copy replaces the record.                              *)
Saves(r, h) == own' = [own EXCEPT ![r] = h] /\ handoff' = h
HelperSaves(r, h, w) ==
  /\ Saves(r, h) /\ Helps(r, w)
  /\ UNCHANGED <<lockDir, quarantine, age, askVars, bridges, deaths>>
Failed(r) == [own[r] EXCEPT !.state = "failed", !.error = "OTHER"]
(* assertFresh()                                                               *)
StillOwn(r) == handoff.id = r /\ age[r] # "expired"
HelperFails(r) == HelperSaves(r, Failed(r), "releases")

HelperNames(r) ==
  /\ helper[r] = "names"
  /\ \/ HelperSaves(r, [own[r] EXCEPT !.helper = TRUE], "checks") /\ UNCHANGED denied
     \/ Denies /\ HelperFails(r)
  /\ UNCHANGED running
HelperMoves(r, w) ==
  /\ Helps(r, w)
  /\ UNCHANGED <<lockVars, age, askVars, own, bridges, deaths>>
HelperChecks(r) ==
  /\ helper[r] = "checks"
  /\ IF StillOwn(r) THEN HelperMoves(r, "looks") ELSE HelperFails(r)
  /\ UNCHANGED <<running, denied>>
(* The awaited observation that follows: the record is saved, not read again.  *)
HelperLooks(r) ==
  /\ helper[r] = "looks"
  /\ \/ /\ running = own[r].old
        /\ HelperSaves(r, [own[r] EXCEPT !.state = "stopping"], "stops") /\ UNCHANGED denied
     \/ running # own[r].old /\ HelperFails(r) /\ UNCHANGED denied
     \/ Denies /\ HelperFails(r)
  /\ UNCHANGED running
(* stopBridge() with the recorded identity, then assertFresh().                *)
HelperStops(r) ==
  /\ helper[r] = "stops"
  /\ \/ running = own[r].old /\ running' = 0 /\ HelperMoves(r, "stopped") /\ UNCHANGED denied
     \/ Denies /\ running = own[r].old /\ running' \in {running, 0} /\ HelperFails(r)
     \/ running # own[r].old /\ HelperFails(r) /\ UNCHANGED <<running, denied>>
HelperStarting(r) ==
  /\ helper[r] = "stopped"
  /\ IF StillOwn(r) THEN HelperSaves(r, [own[r] EXCEPT !.state = "starting"], "ensures")
                    ELSE HelperFails(r)
  /\ UNCHANGED <<running, denied>>
(* ensureBridge(): a bridge that runs is used, else one is started; a start    *)
(* that fails or is late ends the restart unless a new bridge is observed.     *)
Spawn == bridges < MaxBridges /\ running = 0 /\ bridges' = bridges + 1 /\ running' = bridges'
HelperEnsures(r) ==
  /\ helper[r] = "ensures"
  /\ \/ /\ Spawn \/ (running # 0 /\ UNCHANGED runVars)
        /\ own' = [own EXCEPT ![r].new = running']
        /\ Helps(r, "observes") /\ UNCHANGED <<handoff, denied>>
     \/ /\ Denies /\ (Spawn \/ UNCHANGED runVars)
        /\ Saves(r, Failed(r)) /\ Helps(r, "releases")
  /\ UNCHANGED <<lockDir, quarantine, age, askVars, deaths>>
HelperObserves(r) ==
  /\ helper[r] = "observes"
  /\ IF running = own[r].new /\ own[r].new # own[r].old
     THEN HelperSaves(r, own[r], "finishes") ELSE HelperFails(r)
  /\ UNCHANGED <<running, denied>>
HelperFinishes(r) ==
  /\ helper[r] = "finishes"
  /\ IF StillOwn(r) THEN HelperMoves(r, "confirms") ELSE HelperFails(r)
  /\ UNCHANGED <<running, denied>>
HelperConfirms(r) ==
  /\ helper[r] = "confirms"
  /\ \/ /\ running = own[r].new
        /\ HelperSaves(r, [own[r] EXCEPT !.state = "complete"], "releases") /\ UNCHANGED denied
     \/ running # own[r].new /\ HelperFails(r) /\ UNCHANGED denied
     \/ Denies /\ HelperFails(r)
  /\ UNCHANGED running
(* releaseLock(): the entries of a lock that is this one's, then the directory.*)
HelperReleases(r) ==
  /\ helper[r] = "releases"
  /\ \/ /\ LockOf(r)
        /\ Enter([lockDir EXCEPT !.token = NoRequest, !.claims = {}]) /\ Helps(r, "rmdir")
     \/ ~LockOf(r) /\ Helps(r, "done") /\ UNCHANGED lockDir
  /\ UNCHANGED <<handoff, quarantine, age, askVars, own, runVars, deaths, denied>>
HelperRemoves(r) ==
  /\ helper[r] = "rmdir"
  /\ lockDir' = IF Empty(lockDir) THEN NoLockDir ELSE lockDir
  /\ Helps(r, "done")
  /\ UNCHANGED <<handoff, quarantine, age, askVars, own, runVars, deaths, denied>>
-----------------------------------------------------------------------------
(* Time and accidents: LAUNCH_GRACE and TTL pass, the mtime grows old, a       *)
(* process dies, the bridge ends or another command starts one.                *)
Ages(r) ==
  /\ seen[r].id = r /\ age[r] # "expired"
  /\ age' = [age EXCEPT ![r] = IF @ = "new" THEN "graced" ELSE "expired"]
  /\ UNCHANGED <<lockVars, askVars, helperVars, runVars, deaths, denied>>
LockAges ==
  /\ lockDir.fresh /\ lockDir' = [lockDir EXCEPT !.fresh = FALSE]
  /\ UNCHANGED <<handoff, quarantine, age, askVars, helperVars, runVars, deaths, denied>>
Over == {"returned", "joined", "refused", "dead"}
AskerDies(r) ==
  /\ asker[r] \notin Over \cup {"asks"} /\ deaths < MaxDeaths
  /\ deaths' = deaths + 1 /\ Asks(r, "dead")
  /\ UNCHANGED <<lockVars, age, seen, fencing, helperVars, runVars, denied>>
HelperDies(r) ==
  /\ helper[r] \notin {"none", "done", "dead"} /\ deaths < MaxDeaths
  /\ deaths' = deaths + 1 /\ Helps(r, "dead")
  /\ UNCHANGED <<lockVars, age, askVars, own, runVars, denied>>
BridgeEnds ==
  /\ running # 0 /\ deaths < MaxDeaths
  /\ deaths' = deaths + 1 /\ running' = 0
  /\ UNCHANGED <<lockVars, age, askVars, helperVars, bridges, denied>>
BridgeStarts == Spawn /\ UNCHANGED <<lockVars, age, askVars, helperVars, deaths, denied>>

AskerSteps(r) ==
  \/ MakesLock(r) \/ PutsToken(r) \/ Validates(r) \/ Publishes(r) \/ Launches(r)
  \/ LaunchFails(r) \/ ClearsToken(r) \/ ClearsDir(r) \/ Finds(r) \/ Proves(r)
  \/ Fences(r) \/ Rechecks(r) \/ Renames(r) \/ Unfences(r)
HelperSteps(r) ==
  \/ HelperReads(r) \/ HelperClaims(r) \/ HelperRereads(r) \/ HelperUnclaims(r)
  \/ HelperNames(r) \/ HelperChecks(r) \/ HelperLooks(r) \/ HelperStops(r)
  \/ HelperStarting(r) \/ HelperEnsures(r) \/ HelperObserves(r) \/ HelperFinishes(r)
  \/ HelperConfirms(r) \/ HelperReleases(r) \/ HelperRemoves(r)
RestartNext ==
  \/ \E r \in Requests :
       AskerSteps(r) \/ HelperSteps(r) \/ Ages(r) \/ AskerDies(r) \/ HelperDies(r)
  \/ LockAges \/ BridgeEnds \/ BridgeStarts
RestartSpec == RestartInit /\ [][RestartNext]_restartVars
-----------------------------------------------------------------------------
(* The helpers that were told to go on and have not begun to give up the lock. *)
Acting == {r \in Requests : helper[r] \in
             {"names", "checks", "looks", "stops", "stopped", "ensures", "observes",
              "finishes", "confirms", "releases"}}

RestartTypeOK ==
  /\ handoff.id \in Requests \cup {NoRequest} /\ handoff.state \in Ended \cup
       {"requested", "stopping", "starting"}
  /\ lockDir.claims \subseteq Requests /\ quarantine \subseteq Requests
  /\ running \in 0..bridges /\ bridges \in 1..MaxBridges
  /\ \A r \in Requests : own[r].id \in {r, NoRequest} /\ own[r].new \in 0..bridges

(* A helper whose request was reclaimed never acts on the bridge, although it  *)
(* was launched and may have read its record before: it claims, and reads      *)
(* again (restart.ts:434).                                                     *)
FencedNeverActs == quarantine \cap Acting = {}

(* However requests overtake and reclaim one another, one helper at a time     *)
(* stops and starts bridges: the others lose the lock or the record before     *)
(* they act.                                                                   *)
OneHelperActs == \A q, r \in Acting : q = r

(* The rename of a reclaim succeeds only on the lock of the request it         *)
(* reclaims, although its checks were made some steps before (restart.ts:220). *)
RenameHits(r) == asker[r] = "renames" /\ lockDir # NoLockDir /\ seen[r].id \notin quarantine
KeepsNewerLocks == \A r \in Requests : RenameHits(r) => LockOf(seen[r].id)

(* A reclaim takes the lock of the request it reclaims, after which the helper *)
(* of that one does nothing, so that one helper at a time acts. It takes a     *)
(* launch that failed (restart.ts:409), whose asker removes its own lock while *)
(* a reclaimer judges it, and a third request, whose lock it then is, to go    *)
(* wrong.                                                                      *)
Asked == {r \in Requests : asker[r] # "asks"}
LaunchWithdrawn == \E r \in Requests : seen[r].id = r /\ seen[r].state = "failed"
Crossed ==
  LaunchWithdrawn /\ \E a, b, c \in Asked : a # b /\ a # c /\ b # c
HandOffSafe == Crossed \/ (FencedNeverActs /\ OneHelperActs /\ KeepsNewerLocks)
=============================================================================
