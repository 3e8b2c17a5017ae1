-------------------------- MODULE LeaseHostProofs ---------------------------
(***************************************************************************)
(* The authority is never taken from under a session, for any number of    *)
(* sessions, cancellations and failed releases.  The inductive invariant   *)
(* adds to the host's bookkeeping that a host with a user has an authority *)
(* and that nobody but the root is started before the root has attached.   *)
(***************************************************************************)
EXTENDS LeaseHost, TLAPS

Started == {"running", "closing", "stopped"}

Books(s) ==
    /\ s \in pending <=> res[s] # "none"
    /\ ses[s] \in {"attached", "running"} => s \in attached
    /\ ses[s] = "starting" \/ (ses[s] = "ready" /\ s # Root)
          => s \in pending /\ res[s] = "held"
    /\ res[s] = "held" => ses[s] \in {"starting", "ready", "attached", "running"}

RootFirst ==
    /\ ses[Root] # "starting" /\ res[Root] = "none"
    /\ ses[Root] \in {"new", "ready"} =>
          /\ \A s \in Sessions \ {Root} : ses[s] = "new"
          /\ ses[Root] = "ready" => authority
          /\ pending = {} /\ attached = {} /\ lock = Free

Releasing ==
    lock # Free =>
        /\ attached \cup pending = {lock.session}
        /\ lock.op = "detach" => ses[lock.session] = "closing" /\ pending = {}
        /\ lock.op = "rollback" => res[lock.session] = "cleanup" /\ attached = {}

HostInv ==
    /\ TypeOK
    /\ \A s \in Sessions : Books(s)
    /\ RootFirst
    /\ Releasing
    /\ attached \cup pending # {} => authority

(* What the properties need of the invariant.                              *)
LEMMA HostInvImplies == HostInv => LifecycleOK /\ AuthorityWhileInUse
<1> SUFFICES ASSUME HostInv PROVE LifecycleOK /\ AuthorityWhileInUse
    OBVIOUS
<1>1. LifecycleOK
    BY DEF HostInv, Books, Releasing, LifecycleOK
<1>2. ASSUME NEW s \in Sessions, ses[s] \in {"ready", "attached", "running"}
      PROVE  authority
    BY <1>2 DEF HostInv, Books, RootFirst
<1> QED
    BY <1>1, <1>2 DEF AuthorityWhileInUse

LEMMA HostInvInit == Init => HostInv
<1> SUFFICES ASSUME Init PROVE HostInv
    OBVIOUS
<1>1. TypeOK
    BY DEF Init, TypeOK
<1>2. RootFirst /\ Releasing /\ (attached \cup pending # {} => authority)
    BY HostAssumption DEF Init, RootFirst, Releasing
<1>3. \A s \in Sessions : Books(s)
    BY DEF Init, Books
<1> QED
    BY <1>1, <1>2, <1>3 DEF HostInv

LEMMA StartupPreserves ==
    ASSUME HostInv, NEW s \in Sessions,
           \/ InstallAuthority \/ StartupStep(s) \/ TryReserveStartup(s)
           \/ SpawnFails(s) \/ DropStartup(s) \/ Close(s)
    PROVE  HostInv'
<1> USE HostAssumption
    DEF HostInv, TypeOK, Books, RootFirst, Releasing, Become, Holder
<1>1. CASE InstallAuthority
    <2>1. TypeOK'
        BY <1>1 DEF InstallAuthority
    <2>2. /\ pending' = {} /\ attached' = {} /\ lock' = Free /\ authority'
          /\ \A q \in Sessions : res[q] = "none"
        BY <1>1 DEF InstallAuthority
    <2>3. \A q \in Sessions \ {Root} : ses'[q] = "new"
        BY <1>1 DEF InstallAuthority
    <2> QED
        BY <1>1, <2>1, <2>2, <2>3 DEF InstallAuthority
<1>2. CASE EnsureChildStartupReady(s)
    BY <1>2 DEF EnsureChildStartupReady
<1>3. CASE AttachSession(s)
    BY <1>3 DEF AttachSession
<1>4. CASE Spawned(s)
    BY <1>4 DEF Spawned
<1>5. CASE PromoteStartup(s)
    BY <1>5 DEF PromoteStartup
<1>6. CASE TryReserveStartup(s)
    BY <1>6 DEF TryReserveStartup
<1>7. CASE SpawnFails(s)
    BY <1>7 DEF SpawnFails
<1>8. CASE DropStartup(s)
    BY <1>8 DEF DropStartup
<1>9. CASE Close(s)
    BY <1>9 DEF Close
<1> QED
    BY <1>1, <1>2, <1>3, <1>4, <1>5, <1>6, <1>7, <1>8, <1>9 DEF StartupStep

LEMMA ShutdownPreserves ==
    ASSUME HostInv, NEW s \in Sessions, ShutdownStep(s)
    PROVE  HostInv'
<1> USE HostAssumption
    DEF HostInv, TypeOK, Books, RootFirst, Releasing, Become, Holder
<1>1. CASE DetachSession(s)
    BY <1>1 DEF DetachSession
<1>2. CASE DetachReleased(s)
    <2>1. /\ attached = {s} /\ pending = {} /\ lock # Free
          /\ ses[s] = "closing"
        BY <1>2 DEF DetachReleased
    <2>2. attached' = {} /\ pending' = {} /\ lock' = Free
        BY <1>2, <2>1 DEF DetachReleased
    <2>3. \A q \in Sessions : res'[q] = "none"
        BY <1>2, <2>1 DEF DetachReleased
    <2>4. \A q \in Sessions : Books(q)'
        BY <1>2, <2>1, <2>2, <2>3 DEF DetachReleased
    <2>5. TypeOK' /\ RootFirst'
        BY <1>2, <2>1, <2>2, <2>3 DEF DetachReleased
    <2> QED
        BY <2>2, <2>4, <2>5
<1>3. CASE DetachFails(s)
    BY <1>3 DEF DetachFails
<1>4. CASE RollbackStartup(s)
    BY <1>4 DEF RollbackStartup
<1>5. CASE RollbackReleased(s)
    <2>1. /\ attached = {} /\ pending = {s} /\ lock # Free
          /\ res[s] = "cleanup"
        BY <1>5 DEF RollbackReleased
    <2>2. attached' = {} /\ pending' = {} /\ lock' = Free
        BY <1>5, <2>1 DEF RollbackReleased
    <2>3. \A q \in Sessions : res'[q] = "none"
        BY <1>5, <2>1 DEF RollbackReleased
    <2>4. \A q \in Sessions : Books(q)'
        BY <1>5, <2>1, <2>2, <2>3 DEF RollbackReleased
    <2>5. TypeOK' /\ RootFirst'
        BY <1>5, <2>1, <2>2, <2>3 DEF RollbackReleased
    <2> QED
        BY <2>2, <2>4, <2>5
<1>6. CASE RollbackFails(s)
    BY <1>6 DEF RollbackFails
<1> QED
    BY <1>1, <1>2, <1>3, <1>4, <1>5, <1>6 DEF ShutdownStep

(* Every reachable state of the host satisfies the invariant.              *)
THEOREM HostInvariant == Spec => []HostInv
<1>1. HostInv /\ [Next]_vars => HostInv'
    <2>1. HostInv /\ UNCHANGED vars => HostInv'
        BY DEF vars, HostInv, TypeOK, Books, RootFirst, Releasing
    <2> QED
        BY <2>1, StartupPreserves, ShutdownPreserves, HostAssumption DEF Next
<1> QED
    BY <1>1, HostInvInit, PTL DEF Spec

(* The host's books agree with the sessions that use it.                   *)
THEOREM HostLifecycle == Spec => []LifecycleOK
    BY HostInvariant, HostInvImplies, PTL

(* No session loses its authority before it closes.                        *)
THEOREM HostAuthority == Spec => []AuthorityWhileInUse
    BY HostInvariant, HostInvImplies, PTL

(* Who answers for a published authority while few releases have failed.   *)
Answered ==
    /\ \A s \in Sessions : ses[s] = "closing" =>
          s \in attached /\ tries[s] <= Attempts + failures
    /\ failures < Attempts =>
          /\ authority => attached \cup pending # {} \/ ses[Root] = "ready"
          /\ \A s \in attached : ses[s] \in {"attached", "running", "closing",
                                             "lost"}

LEMMA AnsweredStartup ==
    ASSUME HostInv, Answered, NEW s \in Sessions,
           \/ InstallAuthority \/ StartupStep(s) \/ TryReserveStartup(s)
           \/ SpawnFails(s) \/ DropStartup(s) \/ Close(s)
    PROVE  Answered'
<1> USE HostAssumption DEF HostInv, TypeOK, Books, RootFirst, Become, Answered
<1>1. CASE InstallAuthority
    BY <1>1 DEF InstallAuthority
<1>2. CASE EnsureChildStartupReady(s)
    BY <1>2 DEF EnsureChildStartupReady
<1>3. CASE AttachSession(s)
    BY <1>3 DEF AttachSession
<1>4. CASE Spawned(s)
    BY <1>4 DEF Spawned
<1>5. CASE PromoteStartup(s)
    BY <1>5 DEF PromoteStartup
<1>6. CASE TryReserveStartup(s)
    BY <1>6 DEF TryReserveStartup
<1>7. CASE SpawnFails(s)
    BY <1>7 DEF SpawnFails
<1>8. CASE DropStartup(s)
    BY <1>8 DEF DropStartup
<1>9. CASE Close(s)
    BY <1>9 DEF Close
<1> QED
    BY <1>1, <1>2, <1>3, <1>4, <1>5, <1>6, <1>7, <1>8, <1>9 DEF StartupStep

LEMMA AnsweredShutdown ==
    ASSUME HostInv, Answered, NEW s \in Sessions, ShutdownStep(s)
    PROVE  Answered'
<1> USE HostAssumption
    DEF HostInv, TypeOK, Books, RootFirst, Releasing, Become, Answered, Holder
<1>1. CASE DetachSession(s)
    BY <1>1 DEF DetachSession
<1>2. CASE DetachReleased(s)
    BY <1>2 DEF DetachReleased
<1>3. CASE DetachFails(s)
    BY <1>3 DEF DetachFails
<1>4. CASE RollbackStartup(s)
    BY <1>4 DEF RollbackStartup
<1>5. CASE RollbackReleased(s)
    BY <1>5 DEF RollbackReleased
<1>6. CASE RollbackFails(s)
    BY <1>6 DEF RollbackFails
<1> QED
    BY <1>1, <1>2, <1>3, <1>4, <1>5, <1>6 DEF ShutdownStep

(* A tree that stopped cleanly has released its authority.                 *)
THEOREM HostCleanStop == Spec => []CleanStopReleases
<1>1. Init => Answered
    BY HostAssumption DEF Init, Answered
<1>2. HostInv /\ Answered /\ [Next]_vars => Answered'
    <2>1. Answered /\ UNCHANGED vars => Answered'
        BY DEF vars, Answered
    <2> QED
        BY <2>1, AnsweredStartup, AnsweredShutdown, HostAssumption DEF Next
<1>3. HostInv /\ Answered => CleanStopReleases
    BY HostAssumption
       DEF HostInv, TypeOK, Books, Answered, CleanStopReleases, AllStopped
<1> QED
    BY <1>1, <1>2, <1>3, HostInvariant, PTL DEF Spec
=============================================================================
