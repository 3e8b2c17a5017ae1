--------------------------- MODULE LeaseAuthority ---------------------------
(***************************************************************************)
(* RuntimeLeaseAuthority in its OwnedManager mode: how the requests of one *)
(* process are admitted to the lease generation its AccountPoolManager     *)
(* holds.  A request locks the manager, previews the generation the next   *)
(* turn would use, waits while requests of another generation are in       *)
(* flight, prepares the turn, unlocks and then enters the admission set,   *)
(* which has a lock of its own.  In-flight requests run a heartbeat and    *)
(* report rate limits and failures against the snapshot they were given.   *)
(*                                                                         *)
(* The manager's view of the shared store is `row`, the lease its holder   *)
(* id has there.  Other processes and the clock may take it away at any    *)
(* time, and decide whether a selection finds a candidate, so these are    *)
(* nondeterministic here; LeaseStore and PoolManager model them.           *)
(***************************************************************************)
EXTENDS Integers, FiniteSets

CONSTANTS Requests,  \* calls of acquire_request_lease
          Trees,     \* collaboration tree ids
          Tree,      \* Tree[r]: the collaboration tree of request r
          Free,      \* nobody holds the manager's mutex
          MaxLeases  \* bound on the leases the store grants this process

ASSUME AuthorityAssumption ==
    /\ Tree \in [Requests -> Trees]
    /\ Free \notin Requests
    /\ MaxLeases \in Nat

None == 0  \* no lease, no generation

VARIABLES
    row,       \* the store's lease of this holder id
    drawn,     \* leases the store has granted so far
    active,    \* manager.active_lease
    identity,  \* manager.active_lease_identity
    gen,       \* manager.active_lease_generation
    pending,   \* manager.pending_rotation
    mutex,     \* who holds the manager's mutex across an await
    activeGen, \* AdmissionTrackerState.active_generation
    admitted,  \* AdmissionTrackerState.admissions
    members,   \* requests registered with their collaboration tree
    cancelled, \* requests whose cancellation token a tree cancellation fired
    pc,        \* where each request is in acquire_from_manager
    preview,   \* the previewed generation, None for no candidate
    sel,       \* the generation and lease of the prepared snapshot
    woken      \* the request's Notified future has been notified

managerVars   == <<row, drawn, active, identity, gen, pending>>
admissionVars == <<activeGen, admitted>>
requestVars   == <<preview, sel, woken>>
vars == <<managerVars, mutex, admissionVars, members, cancelled, pc,
          requestVars>>

Waiting   == {"lock", "preview", "check", "park", "prepare", "admit", "wait"}
Steps     == {"new", "insert", "inflight", "done", "ended"} \cup Waiting
Snapshot  == [gen: Nat, lease: Nat]
Rotations == {"none", "soft", "hard"}

TypeOK ==
    /\ row \in Nat /\ drawn \in Nat /\ active \in Nat /\ identity \in Nat
    /\ gen \in Nat /\ pending \in Rotations
    /\ mutex \in Requests \cup {Free}
    /\ activeGen \in Nat /\ admitted \in SUBSET Requests
    /\ members \in SUBSET Requests /\ cancelled \in SUBSET Requests
    /\ pc \in [Requests -> Steps]
    /\ preview \in [Requests -> Nat]
    /\ sel \in [Requests -> Snapshot]
    /\ woken \in [Requests -> BOOLEAN]

Init ==
    /\ row = None /\ drawn = 0 /\ active = None /\ identity = None
    /\ gen = 0 /\ pending = "none"
    /\ mutex = Free
    /\ activeGen = None /\ admitted = {}
    /\ members = {} /\ cancelled = {}
    /\ pc = [r \in Requests |-> "new"]
    /\ preview = [r \in Requests |-> None]
    /\ sel = [r \in Requests |-> [gen |-> None, lease |-> None]]
    /\ woken = [r \in Requests |-> FALSE]

Goto(r, step) == pc' = [pc EXCEPT ![r] = step]

Unlock(r) == mutex' = IF mutex = r THEN Free ELSE mutex

-----------------------------------------------------------------------------
(* The manager, whose methods run with its mutex held.                     *)

(* Mutant: a report is matched by the pool and account it names alone.     *)
GenerationMatchesAnyGeneration(r) == active # None

(* generation_matches; a generation fixes the account and the pool.        *)
GenerationMatches(r) == active # None /\ gen = sel[r].gen

(* renew_active_lease found no row: the local copy is dropped.             *)
DropLease ==
    /\ active' = None
    /\ identity' = None
    /\ pending' = "none"
    /\ UNCHANGED <<row, drawn, gen>>

(* The lease an acquire may return: the one the holder id already has,     *)
(* else a new one.                                                         *)
Grantable(held) ==
    IF held # None THEN {held} ELSE {n \in {drawn + 1} : n <= MaxLeases}

(* What the store holds for this process after release_active_lease.       *)
RowAfterRelease == IF row = active THEN None ELSE row

(* Mutant: the generation is advanced only when the account was lost.      *)
ObserveKeepsGeneration(lease) ==
    /\ active' = lease
    /\ identity' = lease
    /\ gen' = IF identity = None THEN gen + 1 ELSE gen

(* adopt_active_lease, then observe_active_lease_generation.               *)
Observe(lease) ==
    /\ active' = lease
    /\ identity' = lease
    /\ gen' = IF identity = lease THEN gen ELSE gen + 1

(* prepare_turn returned a selection: the mutex is dropped with it.        *)
Prepared(r, lease) ==
    /\ sel' = [sel EXCEPT ![r] = [gen |-> gen', lease |-> lease]]
    /\ members' = members \cup {r}
    /\ Goto(r, "admit")

Unprepared(r) ==
    /\ Goto(r, "ended")
    /\ UNCHANGED <<sel, members>>

(* A pending rotation is taken.  A soft one may keep the current lease; a  *)
(* replacement is acquired after the current lease was released; without   *)
(* one the current lease stays released.                                   *)
PrepareRotation(r) ==
    /\ active # None /\ pending # "none"
    /\ pending' = "none"
    /\ \/ /\ pending = "soft"
          /\ UNCHANGED <<row, drawn>>
          /\ Observe(active)
          /\ Prepared(r, active)
       \/ \E lease \in Grantable(RowAfterRelease) :
             /\ row' = lease
             /\ drawn' = IF lease > drawn THEN lease ELSE drawn
             /\ Observe(lease)
             /\ Prepared(r, lease)
       \/ /\ row' = RowAfterRelease
          /\ active' = None /\ identity' = None
          /\ UNCHANGED <<drawn, gen>>
          /\ Unprepared(r)

(* The storage failed, or the request was dropped, inside the rotation: it *)
(* is forgotten, before the release, after it or after the acquisition.    *)
RotationFails(r) ==
    /\ active # None /\ pending # "none"
    /\ pending' = "none"
    /\ UNCHANGED gen
    /\ Unprepared(r)
    /\ \/ UNCHANGED <<row, drawn, active, identity>>
       \/ /\ active' = None /\ identity' = None
          /\ \/ row' = RowAfterRelease /\ UNCHANGED drawn
             \/ \E lease \in Grantable(RowAfterRelease) :
                   /\ row' = lease
                   /\ drawn' = IF lease > drawn THEN lease ELSE drawn

PrepareRenewal(r) ==
    /\ active # None /\ pending = "none" /\ row = active
    /\ UNCHANGED <<row, drawn, pending>>
    /\ Observe(active)
    /\ Prepared(r, active)

(* No lease, or the renewal finds none: startup selection.  A failure may  *)
(* come after the store granted the lease.                                 *)
PrepareStartup(r) ==
    /\ active = None \/ (pending = "none" /\ row # active)
    /\ pending' = IF active = None THEN pending ELSE "none"
    /\ \/ \E lease \in Grantable(row) :
             /\ row' = lease
             /\ drawn' = IF lease > drawn THEN lease ELSE drawn
             /\ \/ Observe(lease) /\ Prepared(r, lease)
                \/ /\ active' = None /\ identity' = None
                   /\ UNCHANGED gen
                   /\ Unprepared(r)
       \/ /\ active' = None /\ identity' = None
          /\ UNCHANGED <<row, drawn, gen>>
          /\ Unprepared(r)

(* The generations preview_next_bridged_turn may name.                     *)
Previews ==
    IF pending = "none" /\ active # None /\ row = active
    THEN {IF identity = active THEN gen ELSE gen + 1}
    ELSE {gen + 1} \cup (IF pending = "soft" THEN {gen} ELSE {None})

-----------------------------------------------------------------------------
(* A request in acquire_from_manager.                                      *)

(* The top of the loop creates the Notified future.                        *)
Begin(r) ==
    /\ pc[r] = "new" \/ (pc[r] = "wait" /\ woken[r])
    /\ woken' = [woken EXCEPT ![r] = FALSE]
    /\ Goto(r, "lock")
    /\ UNCHANGED <<managerVars, mutex, admissionVars, members, cancelled,
                   preview, sel>>

Lock(r) ==
    /\ pc[r] = "lock" /\ mutex = Free
    /\ mutex' = r
    /\ Goto(r, "preview")
    /\ UNCHANGED <<managerVars, admissionVars, members, cancelled, requestVars>>

Preview(r) ==
    /\ pc[r] = "preview"
    /\ \E g \in Previews : preview' = [preview EXCEPT ![r] = g]
    /\ Goto(r, "check")
    /\ UNCHANGED <<managerVars, mutex, admissionVars, members, cancelled, sel,
                   woken>>

(* AuthorityInner::preview_admission answers Draining.                     *)
Draining(g) == activeGen # None /\ activeGen # g

(* No candidate, or another generation: wait while requests are in flight. *)
(* No candidate and none in flight: NoEligibleAccount.                     *)
CheckPreview(r) ==
    /\ pc[r] = "check"
    /\ LET drain == IF preview[r] = None THEN admitted # {}
                    ELSE Draining(preview[r])
       IN  /\ Goto(r, IF drain THEN "park"
                      ELSE IF preview[r] = None THEN "ended" ELSE "prepare")
           /\ IF ~drain /\ preview[r] = None THEN Unlock(r) ELSE UNCHANGED mutex
    /\ UNCHANGED <<managerVars, admissionVars, members, cancelled, requestVars>>

(* Mutant: the Notified future is created only when the request waits.     *)
ParkLateNotified(r) ==
    /\ pc[r] = "park"
    /\ Unlock(r)
    /\ woken' = [woken EXCEPT ![r] = FALSE]
    /\ Goto(r, "wait")
    /\ UNCHANGED <<managerVars, admissionVars, members, cancelled, preview, sel>>

(* The guard is dropped and the future of the top of the loop awaited;     *)
(* requests may have finished since the check.                             *)
Park(r) ==
    /\ pc[r] = "park"
    /\ Unlock(r)
    /\ Goto(r, "wait")
    /\ UNCHANGED <<managerVars, admissionVars, members, cancelled, requestVars>>

Prepare(r) ==
    /\ pc[r] = "prepare"
    /\ \/ PrepareRotation(r)
       \/ RotationFails(r)
       \/ PrepareRenewal(r)
       \/ PrepareStartup(r)
    /\ Unlock(r)
    /\ UNCHANGED <<admissionVars, cancelled, preview, woken>>

(* try_admit takes the admissions lock twice: to look, then to enter.      *)
TryAdmit(r) ==
    /\ pc[r] = "admit"
    /\ IF Draining(sel[r].gen)
       THEN Goto(r, "wait") /\ members' = members \ {r}
       ELSE Goto(r, "insert") /\ UNCHANGED members
    /\ UNCHANGED <<managerVars, mutex, admissionVars, cancelled, requestVars>>

InsertAdmission(r) ==
    /\ pc[r] = "insert"
    /\ activeGen' = IF activeGen = None THEN sel[r].gen ELSE activeGen
    /\ admitted' = admitted \cup {r}
    /\ Goto(r, "inflight")
    /\ UNCHANGED <<managerVars, mutex, members, cancelled, requestVars>>

(* Mutant: the last release leaves the tracker closed.                     *)
FinishKeepsGeneration(r) ==
    /\ pc[r] = "inflight"
    /\ members' = members \ {r}
    /\ admitted' = admitted \ {r}
    /\ woken' = IF admitted' = {} THEN [q \in Requests |-> TRUE] ELSE woken
    /\ Goto(r, "done")
    /\ UNCHANGED <<managerVars, mutex, activeGen, cancelled, preview, sel>>

(* The guard is dropped: the membership first, then the admission; the     *)
(* last one reopens the tracker and wakes every waiter.                    *)
Finish(r) ==
    /\ pc[r] = "inflight"
    /\ members' = members \ {r}
    /\ admitted' = admitted \ {r}
    /\ activeGen' = IF admitted' = {} THEN None ELSE activeGen
    /\ woken' = IF admitted' = {} THEN [q \in Requests |-> TRUE] ELSE woken
    /\ Goto(r, "done")
    /\ UNCHANGED <<managerVars, mutex, cancelled, preview, sel>>

(* The caller cancels, or the store fails in the preview, before admission.*)
Abandon(r) ==
    /\ pc[r] \in Waiting
    /\ Unlock(r)
    /\ members' = members \ {r}
    /\ Goto(r, "ended")
    /\ UNCHANGED <<managerVars, admissionVars, cancelled, requestVars>>

-----------------------------------------------------------------------------
(* In-flight work, the host and the rest of the world.                     *)

(* The heartbeat of a prepared request finds its lease gone.               *)
Heartbeat(r) ==
    /\ pc[r] \in {"admit", "insert", "inflight"} /\ mutex = Free
    /\ active # None /\ row # active
    /\ DropLease
    /\ UNCHANGED <<mutex, admissionVars, members, cancelled, pc, requestVars>>

Report(r) ==
    /\ pc[r] \in {"inflight", "done"} /\ mutex = Free
    /\ GenerationMatches(r)
    /\ UNCHANGED <<row, drawn, active, identity, gen, mutex, admissionVars,
                   members, pc, requestVars>>

(* observe_rate_limits_for_rotation: below the threshold, or above it and  *)
(* past the minimum switch interval.                                       *)
ReportRateLimits(r) ==
    /\ Report(r)
    /\ pending' \in {IF pending = "soft" THEN "none" ELSE pending,
                     IF pending = "hard" THEN "hard" ELSE "soft"}
    /\ UNCHANGED cancelled

ReportUsageLimit(r) ==
    /\ Report(r)
    /\ pending' = "hard"
    /\ UNCHANGED cancelled

(* cancel_tree_for_terminal_unauthorized spares the reporting request.     *)
CancelTree(r) == {q \in members : Tree[q] = Tree[r]} \ {r}

(* When the health event cannot be stored no rotation is marked, but the   *)
(* tree is cancelled all the same.                                         *)
ReportUnauthorized(r) ==
    /\ Report(r)
    /\ pending' \in {"hard", pending}
    /\ cancelled' = cancelled \cup CancelTree(r)

(* The host calls it when its last session has aborted its tasks.          *)
ReleaseForShutdown ==
    /\ mutex = Free
    /\ row' = RowAfterRelease
    /\ active' = None /\ identity' = None /\ pending' = "none"
    /\ UNCHANGED <<drawn, gen, mutex, admissionVars, members, cancelled, pc,
                   requestVars>>

(* The lease expires, or an operator or another process takes it away.     *)
LoseRow ==
    /\ row # None
    /\ row' = None
    /\ UNCHANGED <<drawn, active, identity, gen, pending, mutex, admissionVars,
                   members, cancelled, pc, requestVars>>

RequestStep(r) ==
    \/ Begin(r) \/ Lock(r) \/ Preview(r) \/ CheckPreview(r) \/ Park(r)
    \/ Prepare(r)
    \/ TryAdmit(r) \/ InsertAdmission(r) \/ Finish(r)

Next ==
    \/ \E r \in Requests :
          \/ RequestStep(r)
          \/ Abandon(r)
          \/ Heartbeat(r)
          \/ ReportRateLimits(r)
          \/ ReportUsageLimit(r)
          \/ ReportUnauthorized(r)
    \/ ReleaseForShutdown
    \/ LoseRow

(* Every task keeps running and every provider request ends: streams have  *)
(* idle timeouts and cancellation.                                         *)
Spec     == Init /\ [][Next]_vars
FairSpec == Spec /\ \A r \in Requests : WF_vars(RequestStep(r))

-----------------------------------------------------------------------------
(* What the authority promises.                                            *)

(* The admission tracker is open exactly when nothing is in flight, what   *)
(* is in flight can be cancelled through its tree, and the manager's mutex *)
(* is held by the request that is between the lock and the end of          *)
(* prepare_turn and by no other (try_admit, release_admission, Drop for    *)
(* LeaseAdmissionGuard, acquire_from_manager).                             *)
AdmissionsOK ==
    /\ TypeOK
    /\ activeGen = None <=> admitted = {}
    /\ admitted \subseteq members
    /\ \A r \in Requests :
          mutex = r <=> pc[r] \in {"preview", "check", "park", "prepare"}

(* A generation number names one lease: two snapshots of one generation    *)
(* were prepared on the same lease, and a snapshot of the manager's        *)
(* current generation on the manager's current lease                       *)
(* (observe_active_lease_generation).                                      *)
GenerationNamesLease ==
    \A r \in Requests :
        sel[r].gen # None =>
          /\ \A q \in Requests :
                sel[q].gen = sel[r].gen => sel[q].lease = sel[r].lease
          /\ active # None /\ sel[r].gen = gen => sel[r].lease = active

(* A report never marks another lease than the one it is about, and a tree *)
(* cancellation only hits registered members of the reporter's tree        *)
(* (generation_matches, report_terminal_unauthorized).                     *)
ReportsHitTheirLease ==
    [][\A r \in Requests :
          /\ ReportUsageLimit(r) => sel[r].lease = active
          /\ ReportUnauthorized(r) =>
                /\ sel[r].lease = active
                /\ \A q \in cancelled' \ cancelled : Tree[q] = Tree[r]]_vars

(* No lost wake-up and no waiting in a circle: a request that starts to    *)
(* acquire is admitted and finishes, or gets an error                      *)
(* (acquire_from_manager, release_admission).                              *)
EveryRequestEnds ==
    \A r \in Requests : (pc[r] = "lock") ~> (pc[r] \in {"done", "ended"})
=============================================================================
