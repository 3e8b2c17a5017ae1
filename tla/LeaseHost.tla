----------------------------- MODULE LeaseHost ------------------------------
(***************************************************************************)
(* RuntimeLeaseHost: the sessions of one agent tree share the lease        *)
(* authority their root published.  A child reserves its startup, starts,  *)
(* attaches itself and then trades the reservation for the attachment.     *)
(* The last session to detach, or the last reservation to be rolled back,  *)
(* releases the authority with the lifecycle lock held; a failed release   *)
(* leaves everything in place and is retried.                              *)
(*                                                                         *)
(* A startup is a future that its caller may drop at any await: the        *)
(* reservation's Drop then rolls it back in a task of its own.             *)
(***************************************************************************)
EXTENDS Naturals

CONSTANTS Sessions,     \* conversation ids
          Root,         \* the session that built the host
          Cancellable,  \* sessions whose startup future may be dropped
          Free,         \* nobody holds the lifecycle lock
          Attempts,     \* SHUTDOWN_RELEASE_MAX_ATTEMPTS
          MaxFailures   \* bound on the releases the storage fails

ASSUME HostAssumption ==
    /\ Root \in Sessions
    /\ Cancellable \subseteq Sessions
    /\ Attempts \in Nat \ {0}
    /\ MaxFailures \in Nat
    /\ Free \notin [op: {"detach", "rollback"}, session: Sessions]

VARIABLES
    authority,   \* the host has a published authority
    attached,    \* lifecycle.attached_sessions
    pending,     \* lifecycle.pending_startups, by the session they are for
    lock,        \* the lifecycle lock while a release is awaited
    ses,         \* where each session is in its life
    res,         \* the startup reservation of each session
    tries,       \* failed releases of a closing session
    failures     \* failed releases in all

vars == <<authority, attached, pending, lock, ses, res, tries, failures>>

Holder == [op: {"detach", "rollback"}, session: Sessions]

TypeOK ==
    /\ authority \in BOOLEAN
    /\ attached \in SUBSET Sessions
    /\ pending \in SUBSET Sessions
    /\ lock \in Holder \cup {Free}
    /\ ses \in [Sessions -> {"new", "starting", "ready", "attached", "running",
                             "closing", "stopped", "lost"}]
    /\ res \in [Sessions -> {"none", "held", "cleanup"}]
    /\ tries \in [Sessions -> Nat]
    /\ failures \in Nat

Init ==
    /\ authority = FALSE
    /\ attached = {} /\ pending = {}
    /\ lock = Free
    /\ ses = [s \in Sessions |-> "new"]
    /\ res = [s \in Sessions |-> "none"]
    /\ tries = [s \in Sessions |-> 0]
    /\ failures = 0

Become(s, state) == ses' = [ses EXCEPT ![s] = state]

-----------------------------------------------------------------------------
(* Startup.                                                                *)

(* The root builds its authority and publishes it, once.                   *)
InstallAuthority ==
    /\ ses[Root] = "new" /\ ~authority
    /\ authority' = TRUE
    /\ Become(Root, "ready")
    /\ UNCHANGED <<attached, pending, lock, res, tries, failures>>

(* A session that has started may go on spawning after it detached; the    *)
(* host then has no authority and refuses the child.                       *)
TryReserveStartup(s) ==
    /\ s # Root /\ ses[s] = "new" /\ lock = Free
    /\ \E p \in Sessions : ses[p] \in {"running", "closing", "stopped"}
    /\ IF authority
       THEN /\ pending' = pending \cup {s}
            /\ res' = [res EXCEPT ![s] = "held"]
            /\ Become(s, "starting")
       ELSE Become(s, "stopped") /\ UNCHANGED <<pending, res>>
    /\ UNCHANGED <<authority, attached, lock, tries, failures>>

EnsureChildStartupReady(s) ==
    /\ ses[s] = "starting" /\ authority
    /\ Become(s, "ready")
    /\ UNCHANGED <<authority, attached, pending, lock, res, tries, failures>>

(* Session::new attaches the session it built.                             *)
AttachSession(s) ==
    /\ ses[s] = "ready" /\ lock = Free
    /\ attached' = attached \cup {s}
    /\ Become(s, "attached")
    /\ UNCHANGED <<authority, pending, lock, res, tries, failures>>

(* Codex::spawn starts the submission loop and returns.                    *)
Spawned(s) ==
    /\ ses[s] = "attached"
    /\ Become(s, "running")
    /\ UNCHANGED <<authority, attached, pending, lock, res, tries, failures>>

(* Mutant: the reservation stays pending beside the attached session.      *)
PromoteStartupKeepsPending(s) ==
    /\ ses[s] = "running" /\ res[s] = "held" /\ lock = Free
    /\ s \in pending
    /\ attached' = attached \cup {s}
    /\ res' = [res EXCEPT ![s] = "none"]
    /\ UNCHANGED <<authority, pending, lock, ses, tries, failures>>

PromoteStartup(s) ==
    /\ ses[s] = "running" /\ res[s] = "held" /\ lock = Free
    /\ s \in pending
    /\ pending' = pending \ {s}
    /\ attached' = attached \cup {s}
    /\ res' = [res EXCEPT ![s] = "none"]
    /\ UNCHANGED <<authority, lock, ses, tries, failures>>

(* The startup fails before the session is attached.                       *)
SpawnFails(s) ==
    /\ s # Root /\ ses[s] \in {"starting", "ready"}
    /\ Become(s, "stopped")
    /\ res' = [res EXCEPT ![s] = "cleanup"]
    /\ UNCHANGED <<authority, attached, pending, lock, tries, failures>>

(* The caller drops the startup.  A session without a loop is just gone;   *)
(* one with a loop sees its submission channel close.                      *)
DropStartup(s) ==
    /\ s \in Cancellable /\ res[s] = "held"
    /\ res' = [res EXCEPT ![s] = "cleanup"]
    /\ Become(s, CASE ses[s] \in {"starting", "ready"} -> "stopped"
                   [] ses[s] = "attached" -> "lost"
                   [] OTHER -> "closing")
    /\ tries' = [tries EXCEPT ![s] = Attempts]
    /\ UNCHANGED <<authority, attached, pending, lock, failures>>

-----------------------------------------------------------------------------
(* Shutdown.                                                               *)

(* Op::Shutdown detaches in its handler and again after the loop, a closed *)
(* channel only after the loop; each makes Attempts attempts.              *)
Close(s) ==
    /\ ses[s] = "running" /\ res[s] # "held"
    /\ Become(s, "closing")
    /\ \E t \in {0, Attempts} : tries' = [tries EXCEPT ![s] = t]
    /\ UNCHANGED <<authority, attached, pending, lock, res, failures>>

(* Mutant: startups in progress do not keep the authority.                 *)
DetachSessionIgnoresStartups(s) ==
    /\ ses[s] = "closing" /\ lock = Free
    /\ IF attached = {s}
       THEN /\ lock' = [op |-> "detach", session |-> s]
            /\ UNCHANGED <<attached, ses>>
       ELSE /\ attached' = attached \ {s}
            /\ Become(s, "stopped")
            /\ UNCHANGED lock
    /\ UNCHANGED <<authority, pending, res, tries, failures>>

(* Only the last user of the host goes on to release its authority.        *)
DetachSession(s) ==
    /\ ses[s] = "closing" /\ lock = Free
    /\ IF attached = {s} /\ pending = {}
       THEN /\ lock' = [op |-> "detach", session |-> s]
            /\ UNCHANGED <<attached, ses>>
       ELSE /\ attached' = attached \ {s}
            /\ Become(s, "stopped")
            /\ UNCHANGED lock
    /\ UNCHANGED <<authority, pending, res, tries, failures>>

DetachReleased(s) ==
    /\ lock = [op |-> "detach", session |-> s]
    /\ authority' = FALSE
    /\ attached' = attached \ {s}
    /\ lock' = Free
    /\ Become(s, "stopped")
    /\ UNCHANGED <<pending, res, tries, failures>>

(* Mutant: the release is attempted once.                                  *)
DetachFailsOnce(s) ==
    /\ lock = [op |-> "detach", session |-> s] /\ failures < MaxFailures
    /\ failures' = failures + 1
    /\ lock' = Free
    /\ Become(s, "stopped")
    /\ UNCHANGED <<authority, attached, pending, res, tries>>

(* The session stays attached; after the last attempt it is gone.          *)
DetachFails(s) ==
    /\ lock = [op |-> "detach", session |-> s] /\ failures < MaxFailures
    /\ failures' = failures + 1
    /\ tries' = [tries EXCEPT ![s] = @ + 1]
    /\ lock' = Free
    /\ IF tries'[s] >= 2 * Attempts THEN Become(s, "stopped") ELSE UNCHANGED ses
    /\ UNCHANGED <<authority, attached, pending, res>>

RollbackStartup(s) ==
    /\ res[s] = "cleanup" /\ lock = Free
    /\ IF s \notin pending \/ attached # {} \/ pending # {s}
       THEN /\ pending' = pending \ {s}
            /\ res' = [res EXCEPT ![s] = "none"]
            /\ UNCHANGED lock
       ELSE /\ lock' = [op |-> "rollback", session |-> s]
            /\ UNCHANGED <<pending, res>>
    /\ UNCHANGED <<authority, attached, ses, tries, failures>>

RollbackReleased(s) ==
    /\ lock = [op |-> "rollback", session |-> s]
    /\ authority' = FALSE
    /\ pending' = pending \ {s}
    /\ res' = [res EXCEPT ![s] = "none"]
    /\ lock' = Free
    /\ UNCHANGED <<attached, ses, tries, failures>>

(* Mutant: a failed cleanup is not tried again.                            *)
RollbackFailsForGood(s) ==
    /\ lock = [op |-> "rollback", session |-> s] /\ failures < MaxFailures
    /\ failures' = failures + 1
    /\ lock' = Free
    /\ res' = [res EXCEPT ![s] = "none"]
    /\ UNCHANGED <<authority, attached, pending, ses, tries>>

(* cleanup_startup_reservation_until_done tries for ever.                  *)
RollbackFails(s) ==
    /\ lock = [op |-> "rollback", session |-> s] /\ failures < MaxFailures
    /\ failures' = failures + 1
    /\ lock' = Free
    /\ UNCHANGED <<authority, attached, pending, ses, res, tries>>

-----------------------------------------------------------------------------
StartupStep(s) ==
    \/ EnsureChildStartupReady(s) \/ AttachSession(s) \/ Spawned(s)
    \/ PromoteStartup(s)

ShutdownStep(s) ==
    \/ DetachSession(s) \/ DetachReleased(s) \/ DetachFails(s)
    \/ RollbackStartup(s) \/ RollbackReleased(s) \/ RollbackFails(s)

Next ==
    \/ InstallAuthority
    \/ \E s \in Sessions :
          \/ StartupStep(s) \/ ShutdownStep(s)
          \/ TryReserveStartup(s) \/ SpawnFails(s) \/ DropStartup(s) \/ Close(s)

(* Tasks keep running; the lifecycle lock is a fair tokio mutex.           *)
Spec     == Init /\ [][Next]_vars
FairSpec == /\ Spec
            /\ \A s \in Sessions : /\ SF_vars(StartupStep(s))
                                   /\ SF_vars(ShutdownStep(s))

-----------------------------------------------------------------------------
(* The host's books agree with its sessions: a startup is pending exactly  *)
(* while somebody answers for its reservation, a started session is        *)
(* attached, and a release in progress is that of the only user left       *)
(* (promote_startup_reservation_to_session, detach_session).               *)
LifecycleOK ==
    /\ TypeOK
    /\ \A s \in Sessions :
          /\ s \in pending <=> res[s] # "none"
          /\ ses[s] \in {"attached", "running"} => s \in attached
    /\ lock # Free => attached \cup pending = {lock.session}

(* The authority is never taken from under a session: from the moment a    *)
(* child is found ready to start until it closes, the host has one         *)
(* (detach_session, rollback_startup_reservation).                         *)
AuthorityWhileInUse ==
    \A s \in Sessions :
        ses[s] \in {"ready", "attached", "running"} => authority

(* A startup reservation is traded for a session or rolled back, whatever  *)
(* happens to its startup and however often the release fails              *)
(* (Drop for RuntimeLeaseStartupReservation).                              *)
ReservationsEnd == \A s \in Sessions : (s \in pending) ~> (s \notin pending)

AllStopped ==
    /\ ses[Root] # "new"
    /\ \A s \in Sessions : /\ ses[s] \in {"new", "stopped", "lost"}
                           /\ res[s] = "none"

(* A tree that stopped without a startup dropped half way and with fewer   *)
(* failed releases than one detach attempts has released the authority     *)
(* (detach_session, retry_shutdown_release, rollback_startup_reservation). *)
CleanStopReleases ==
    /\ AllStopped /\ failures < Attempts
    /\ \A s \in Sessions : ses[s] # "lost"
    => ~authority
=============================================================================
