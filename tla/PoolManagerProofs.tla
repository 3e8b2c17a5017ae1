------------------------- MODULE PoolManagerProofs --------------------------
(***************************************************************************)
(* Fencing of auth sessions, for any number of processes, accounts,        *)
(* leases, failures and operators' commands.  The inductive invariant says *)
(* whose each lease is, that an epoch names one lease among those handed   *)
(* out since the account's row was last deleted, and that a process which  *)
(* dropped a lease from active_lease has lost it in the store and, as far  *)
(* as epochs fence, at the marker for good.                                *)
(***************************************************************************)
EXTENDS PoolManager, TLAPS

Known(t) ==
    \/ t \in held
    \/ \E p \in Processes : t \in sessions[p] \/ t = active[p] \/ t = got[p]

TokensOK ==
    /\ \A a \in Accounts : since[a] <= last
    /\ \A t \in Lease : Known(t) => t.token <= last /\ t.epoch > 0
    /\ \A t \in Lease : Known(t) /\ ~Outdated(t) => t.epoch <= epochs[t.account]
    /\ \A t, u \in Lease :
          /\ Known(t) /\ Known(u) /\ ~Outdated(t) /\ ~Outdated(u)
          /\ t.account = u.account /\ t.epoch = u.epoch
          => t = u

Own(p) ==
    /\ active[p] # None => active[p].holder = TurnHolder(p)
    /\ got[p] # None => got[p].holder.process = p
    /\ \A s \in sessions[p] : s.holder = TurnHolder(p)

Position(p) ==
    /\ pc[p] = "giveUp" => active[p] # None /\ active[p] \notin held
    /\ pc[p] \in {"idle", "giveUp"} <=> got[p] = None
    /\ pc[p] \in {"write", "adopt"} =>
          active[p] = None /\ got[p].holder = TurnHolder(p)

Dropped(p) ==
    \A s \in sessions[p] : s # active[p] =>
        s \notin held /\ s # got[p] /\ ~(Fenced(s) /\ Current(s))

ManagerInv ==
    /\ TypeOK
    /\ TokensOK
    /\ \A p \in Processes : Own(p) /\ Position(p) /\ Dropped(p)

LEMMA TokensKept ==
    ASSUME TokensOK, last' = last, epochs' = epochs, since' = since,
           \A t \in Lease : Known(t)' => Known(t)
    PROVE  TokensOK'
BY DEF TokensOK, Outdated

LEMMA TokensDrawn ==
    ASSUME TypeOK, TokensOK, NEW n \in Lease,
           n.token = last + 1, last' = last + 1, since' = since,
           n.epoch = epochs[n.account] + 1,
           epochs' = [epochs EXCEPT ![n.account] = n.epoch],
           \A t \in Lease : Known(t)' => Known(t) \/ t = n
    PROVE  TokensOK'
<1> USE DEF TypeOK, TokensOK, Lease, Outdated
<1>1. \A a \in Accounts : since'[a] <= last'
    OBVIOUS
<1>2. ASSUME NEW t \in Lease, Known(t)'
      PROVE  t.token <= last' /\ t.epoch > 0
    BY <1>2
<1>3. ASSUME NEW t \in Lease, Known(t)', ~Outdated(t)'
      PROVE  t.epoch <= epochs'[t.account]
    <2>1. t = n \/ t.epoch <= epochs[t.account]
        BY <1>3
    <2> QED
        BY <2>1
<1>4. ASSUME NEW t \in Lease, NEW u \in Lease, Known(t)', Known(u)',
             ~Outdated(t)', ~Outdated(u)',
             t.account = u.account, t.epoch = u.epoch
      PROVE  t = u
    BY <1>4
<1> QED
    BY <1>1, <1>2, <1>3, <1>4

(* Deleting an account's row, or putting an old directory back, leaves no  *)
(* lease of the account for which the epochs fence.                        *)
LEMMA TokensForgotten ==
    ASSUME TypeOK, TokensOK, NEW a \in Accounts,
           last' = last, since' = [since EXCEPT ![a] = last],
           \A b \in Accounts \ {a} : epochs'[b] = epochs[b],
           \A t \in Lease : Known(t)' => Known(t)
    PROVE  TokensOK'
<1> USE DEF TypeOK, TokensOK, Lease, Outdated
<1>1. \A b \in Accounts : since'[b] <= last'
    OBVIOUS
<1>2. ASSUME NEW t \in Lease, Known(t)', ~Outdated(t)'
      PROVE  Known(t) /\ ~Outdated(t) /\ t.account # a
    BY <1>2
<1> QED
    BY <1>1, <1>2

(* The steps that draw no token and leave the directories alone.           *)
LEMMA QuietPreserves ==
    ASSUME ManagerInv, NEW p \in Processes,
           \/ StartTurn(p) \/ EndTurn(p) \/ RenewMissing(p)
           \/ ReleaseActive(p) \/ AccountMissing(p) \/ Adopt(p)
           \/ ProbeRelease(p) \/ Abandon(p)
    PROVE  ManagerInv'
<1> USE ManagerAssumption DEF ManagerInv, TypeOK, Goto, store, accounts, Steps
<1>1. TypeOK'
    BY DEF StartTurn, EndTurn, RenewMissing, ReleaseActive, AccountMissing,
           Adopt, ProbeRelease, Abandon, Own, Position
<1>2. /\ last' = last /\ epochs' = epochs
      /\ since' = since /\ dir' = dir
    BY DEF StartTurn, EndTurn, RenewMissing, ReleaseActive, AccountMissing,
           Adopt, ProbeRelease, Abandon
<1>3. \A t \in Lease : Known(t)' => Known(t)
    BY DEF StartTurn, EndTurn, RenewMissing, ReleaseActive, AccountMissing,
           Adopt, ProbeRelease, Abandon, Known
<1>4. ASSUME NEW q \in Processes
      PROVE  Own(q)' /\ Position(q)' /\ Dropped(q)'
    <2> USE DEF Own, Position, Dropped, Current, Fenced, Outdated, TurnHolder
    <2>1. CASE StartTurn(p)
        BY <1>2, <2>1 DEF StartTurn
    <2>2. CASE EndTurn(p)
        BY <1>2, <2>2 DEF EndTurn
    <2>3. CASE RenewMissing(p)
        BY <1>2, <2>3 DEF RenewMissing
    <2>4. CASE ReleaseActive(p)
        BY <1>2, <2>4 DEF ReleaseActive
    <2>5. CASE AccountMissing(p)
        BY <1>2, <2>5 DEF AccountMissing
    <2>6. CASE Adopt(p)
        BY <1>2, <2>6 DEF Adopt
    <2>7. CASE ProbeRelease(p)
        BY <1>2, <2>7 DEF ProbeRelease
    <2>8. CASE Abandon(p)
        BY <1>2, <2>8 DEF Abandon
    <2> QED
        BY <2>1, <2>2, <2>3, <2>4, <2>5, <2>6, <2>7, <2>8
<1> QED
    BY <1>1, <1>2, <1>3, <1>4, TokensKept

(* The steps of a process that write or remove a marker file.              *)
LEMMA MarkPreserves ==
    ASSUME ManagerInv, NEW p \in Processes,
           \/ GiveUp(p) \/ WriteMarker(p) \/ ProbeRefresh(p) \/ ProbeClear(p)
    PROVE  ManagerInv'
<1> USE ManagerAssumption
    DEF ManagerInv, TypeOK, Goto, store, operators, Steps, Directory
<1>1. TypeOK'
    <2>1. PICK t \in Lease : Mark(t) \/ Unmark(t) \/ dir' = dir
        BY DEF GiveUp, WriteMarker, ProbeRefresh, ProbeClear, Position
    <2>2. dir' \in [Accounts -> Directory]
        <3>1. /\ t.account \in Accounts /\ t.epoch \in Nat /\ t.token \in Nat
              /\ dir[t.account] \in Directory
            BY DEF Lease
        <3>2. \A e, n \in Nat :
                 [stored |-> dir[t.account].stored, epoch |-> e, token |-> n]
                    \in Directory
            BY <3>1
        <3>3. PICK d \in Directory :
                 dir' = [dir EXCEPT ![t.account] = d] \/ dir' = dir
            BY <2>1, <3>1, <3>2 DEF Mark, Unmark
        <3> QED
            BY <3>1, <3>3
    <2>3. UNCHANGED <<store, operators, sessions, faults>>
        BY DEF GiveUp, WriteMarker, ProbeRefresh, ProbeClear
    <2>4. /\ active' \in [Processes -> Lease \cup {None}]
          /\ got' \in [Processes -> Lease \cup {None}]
          /\ pc' \in [Processes -> Steps]
        BY DEF GiveUp, WriteMarker, ProbeRefresh, ProbeClear
    <2> QED
        BY <2>2, <2>3, <2>4
<1>2. /\ last' = last /\ epochs' = epochs /\ since' = since
      /\ held' = held /\ sessions' = sessions
    BY DEF GiveUp, WriteMarker, ProbeRefresh, ProbeClear
<1>3. \A t \in Lease : Known(t)' => Known(t)
    BY DEF GiveUp, WriteMarker, ProbeRefresh, ProbeClear, Known
<1>4. ASSUME NEW q \in Processes PROVE Own(q)' /\ Position(q)'
    BY DEF GiveUp, WriteMarker, ProbeRefresh, ProbeClear, Own, Position,
           TurnHolder
<1>5. ASSUME NEW s \in Lease, Known(s), NEW t \in Lease, Unmark(t),
             Fenced(s)', Current(s)'
      PROVE  /\ Fenced(s) /\ Current(s)
             /\ s.account = t.account => Outdated(t)
    BY <1>2, <1>5 DEF Unmark, Current, Fenced, Outdated, TokensOK, Lease
<1>6. ASSUME NEW q \in Processes, NEW s \in sessions[q], s # active[q],
             Fenced(s)', Current(s)'
      PROVE  FALSE
    <2>1. s \in Lease /\ Known(s) /\ s # got[q]
          /\ ~(Fenced(s) /\ Current(s)) /\ s.holder = TurnHolder(q)
        BY <1>6 DEF Known, Dropped, Own
    <2>2. CASE dir' = dir
        BY <1>2, <1>6, <2>1, <2>2 DEF Current, Fenced, Outdated
    <2>3. CASE GiveUp(p) \/ ProbeClear(p)
        <3>1. PICK t \in Lease : Unmark(t)
            BY <2>3 DEF GiveUp, ProbeClear, Position
        <3> QED
            BY <1>5, <1>6, <2>1, <3>1
    <2>4. CASE /\ WriteMarker(p) \/ ProbeRefresh(p)
               /\ Mark(got[p])
        <3> DEFINE t == got[p]
        <3>1. t \in Lease /\ Known(t) /\ t.holder.process = p
            BY <2>4 DEF WriteMarker, ProbeRefresh, Position, Own, Known
        <3>2. s # t
            BY <2>1, <3>1 DEF TurnHolder
        <3>3. Mark(t)
            BY <2>4
        <3> HIDE DEF t
        <3>4. s.account = t.account
            BY <1>2, <1>6, <2>1, <3>1, <3>3
               DEF Mark, Current, Fenced, Outdated, Lease
        <3>5. s.epoch = t.epoch /\ ~Outdated(s) /\ ~Outdated(t)
            BY <1>2, <1>6, <2>1, <3>1, <3>3, <3>4
               DEF Mark, Current, Fenced, Outdated, Lease
        <3> QED
            BY <2>1, <3>1, <3>2, <3>4, <3>5 DEF TokensOK
    <2> QED
        BY <2>2, <2>3, <2>4 DEF WriteMarker, ProbeRefresh
<1>7. ASSUME NEW q \in Processes PROVE Dropped(q)'
    <2> SUFFICES ASSUME NEW s \in sessions[q], s # active'[q]
                 PROVE  s \notin held /\ s # got'[q]
                        /\ ~(Fenced(s)' /\ Current(s)')
        BY <1>2 DEF Dropped
    <2>1. CASE s # active[q]
        BY <1>6, <2>1
           DEF Dropped, GiveUp, WriteMarker, ProbeRefresh, ProbeClear
    <2>2. CASE s = active[q]
        <3>1. GiveUp(p) /\ q = p /\ s \in Lease /\ Known(s) /\ Unmark(s)
            BY <2>2 DEF GiveUp, WriteMarker, ProbeRefresh, ProbeClear, Known
        <3>2. s \notin held /\ s # got'[q]
            BY <2>2, <3>1 DEF GiveUp, Position
        <3>3. ~(Fenced(s)' /\ Current(s)')
            BY <1>2, <1>5, <3>1 DEF Fenced, Outdated
        <3> QED
            BY <3>2, <3>3
    <2> QED
        BY <2>1, <2>2
<1> QED
    BY <1>1, <1>2, <1>3, <1>4, <1>7, TokensKept

(* The steps of the operators leave the processes alone; each leaves a     *)
(* directory whose marker accepts no lease that was not accepted before.   *)
LEMMA OperatorPreserves ==
    ASSUME ManagerInv, NEW a \in Accounts, Operator(a)
    PROVE  ManagerInv'
<1> USE ManagerAssumption
    DEF ManagerInv, TypeOK, store, managers, BeginCommand, Continue, Commands,
        Directory, Missing, Fresh
<1>1. TypeOK'
    <2>1. CASE DeleteAuth(a)
        BY <2>1 DEF DeleteAuth
    <2>2. CASE DeleteRow(a)
        BY <2>2 DEF DeleteRow, Service!Forget
    <2>3. CASE Backup(a)
        BY <2>3 DEF Backup
    <2>4. CASE Install(a)
        BY <2>4 DEF Install
    <2>5. CASE Register(a)
        BY <2>5 DEF Register
    <2>6. CASE Restore(a)
        BY <2>6 DEF Restore
    <2> QED
        BY <2>1, <2>2, <2>3, <2>4, <2>5, <2>6 DEF Operator
<1>2. /\ UNCHANGED <<active, sessions, pc, got, last>>
      /\ held' \subseteq held
    BY DEF Operator, DeleteAuth, DeleteRow, Backup, Install, Register, Restore,
           Service!Forget
<1>3. \A t \in Lease : Known(t)' => Known(t)
    BY <1>2 DEF Known
<1>4. TokensOK'
    <2>1. CASE DeleteRow(a) \/ Restore(a)
        BY <1>2, <1>3, <2>1, TokensForgotten
           DEF DeleteRow, Restore, Service!Forget
    <2>2. CASE DeleteAuth(a) \/ Backup(a) \/ Install(a) \/ Register(a)
        BY <1>3, <2>2, TokensKept DEF DeleteAuth, Backup, Install, Register
    <2> QED
        BY <2>1, <2>2 DEF Operator
<1>5. ASSUME NEW q \in Processes PROVE Own(q)' /\ Position(q)'
    BY <1>2 DEF Own, Position, TurnHolder
<1>6. ASSUME NEW s \in Lease, Known(s), Fenced(s)', Current(s)'
      PROVE  Fenced(s) /\ Current(s)
    <2> USE DEF Fenced, Current, Outdated
    <2>1. CASE DeleteRow(a) \/ Restore(a)
        <3>1. s.account # a
            BY <1>2, <1>6, <2>1 DEF DeleteRow, Restore, TokensOK, Lease
        <3> QED
            BY <1>6, <2>1, <3>1 DEF DeleteRow, Restore, Lease
    <2>2. CASE DeleteAuth(a) \/ Backup(a) \/ Install(a)
        <3>1. s.account # a
            BY <1>6, <2>2 DEF DeleteAuth, Backup, Install, TokensOK, Lease
        <3> QED
            BY <1>6, <2>2, <3>1 DEF DeleteAuth, Backup, Install, Lease
    <2>3. CASE Register(a)
        BY <1>6, <2>3 DEF Register
    <2> QED
        BY <2>1, <2>2, <2>3 DEF Operator
<1>7. ASSUME NEW q \in Processes PROVE Dropped(q)'
    <2> SUFFICES ASSUME NEW s \in sessions[q], s # active[q]
                 PROVE  s \notin held' /\ s # got[q]
                        /\ ~(Fenced(s)' /\ Current(s)')
        BY <1>2 DEF Dropped
    <2>1. s \in Lease /\ Known(s)
        BY DEF Known
    <2> QED
        BY <1>2, <1>6, <2>1 DEF Dropped
<1> QED
    BY <1>1, <1>4, <1>5, <1>7

(* A lease handed out to one of a process's holders.                       *)
LEMMA DrawPreserves ==
    ASSUME ManagerInv, NEW p \in Processes, NEW a \in Accounts,
           NEW h \in HolderIds, h.process = p, pc[p] = "idle",
           HandOutTo(p, a, h),
           UNCHANGED <<accounts, active, sessions, faults>>,
           \/ h = ProbeHolder(p) /\ Goto(p, "probe")
           \/ h = TurnHolder(p) /\ active[p] = None /\ Goto(p, "write")
    PROVE  ManagerInv'
<1> DEFINE n == [account |-> a, holder |-> h, token |-> last + 1,
                 epoch |-> epochs[a] + 1]
<1> USE ManagerAssumption DEF ManagerInv, TypeOK, Goto, Steps, accounts
<1>1. /\ n \in Lease /\ n.token = last + 1 /\ n.holder = h /\ n # None
      /\ n.account = a /\ n.epoch = epochs[a] + 1
    BY DEF Lease
<1>2. /\ last' = last + 1
      /\ epochs' = [epochs EXCEPT ![a] = epochs[a] + 1]
      /\ got' = [got EXCEPT ![p] = n]
    BY DEF HandOutTo, Service!HandOut
<1>3. PICK kept \in SUBSET held : held' = kept \cup {n}
    BY <1>2 DEF HandOutTo, Service!HandOut
<1> HIDE DEF n
<1>4. TypeOK'
    BY <1>1, <1>2, <1>3
<1>5. \A t \in Lease : Known(t)' => Known(t) \/ t = n
    BY <1>1, <1>2, <1>3 DEF Known
<1>6. TokensOK'
    BY <1>1, <1>2, <1>5, TokensDrawn
<1>7. \A t \in Lease : Known(t) => t # n
    BY <1>1 DEF TokensOK, Lease
<1>8. ASSUME NEW q \in Processes PROVE Own(q)' /\ Position(q)'
    BY <1>1, <1>2, <1>3, <1>7
       DEF Own, Position, TurnHolder, ProbeHolder, Known
<1>9. ASSUME NEW q \in Processes PROVE Dropped(q)'
    <2> SUFFICES ASSUME NEW s \in sessions[q], s # active[q]
                 PROVE  s \notin held' /\ s # got'[q]
                        /\ ~(Fenced(s)' /\ Current(s)')
        BY DEF Dropped
    <2>1. s \in Lease /\ Known(s)
        BY DEF Known
    <2> QED
        BY <1>2, <1>3, <1>7, <2>1 DEF Dropped, Current, Fenced, Outdated
<1> QED
    BY <1>4, <1>6, <1>8, <1>9

LEMMA AcquirePreserves ==
    ASSUME ManagerInv, NEW p \in Processes, Acquire(p)
    PROVE  ManagerInv'
<1>1. CASE LeasesOf(TurnHolder(p)) # {}
    <2>1. PICK t \in LeasesOf(TurnHolder(p)) : got' = [got EXCEPT ![p] = t]
        BY <1>1 DEF Acquire
    <2> USE ManagerAssumption DEF ManagerInv, TypeOK, Goto, Steps, store,
            accounts
    <2>2. /\ t \in held /\ t \in Lease /\ t # None
          /\ t.holder = TurnHolder(p) /\ t.holder.process = p
        BY <2>1 DEF LeasesOf, TurnHolder
    <2>3. UNCHANGED <<store, accounts, active, sessions, faults>>
        BY <1>1 DEF Acquire
    <2>4. pc[p] = "idle" /\ active[p] = None /\ Goto(p, "write")
        BY DEF Acquire
    <2>5. TypeOK'
        BY <2>1, <2>2, <2>3, <2>4
    <2>6. \A u \in Lease : Known(u)' => Known(u)
        BY <2>1, <2>2, <2>3 DEF Known
    <2>7. ASSUME NEW q \in Processes
          PROVE  Own(q)' /\ Position(q)' /\ Dropped(q)'
        BY <2>1, <2>2, <2>3, <2>4
           DEF Own, Position, Dropped, Current, Fenced, Outdated
    <2> QED
        BY <2>3, <2>5, <2>6, <2>7, TokensKept
<1>2. CASE LeasesOf(TurnHolder(p)) = {}
    <2>1. PICK a \in registered : HandOutTo(p, a, TurnHolder(p))
        BY <1>2 DEF Acquire
    <2>2. TurnHolder(p) \in HolderIds /\ TurnHolder(p).process = p
        BY DEF TurnHolder, HolderIds
    <2>3. a \in Accounts
        BY DEF ManagerInv, TypeOK
    <2> QED
        BY <2>1, <2>2, <2>3, DrawPreserves DEF Acquire
<1> QED
    BY <1>1, <1>2

LEMMA ProbeAcquirePreserves ==
    ASSUME ManagerInv, NEW p \in Processes, ProbeAcquire(p)
    PROVE  ManagerInv'
<1>1. PICK a \in registered : HandOutTo(p, a, ProbeHolder(p))
    BY DEF ProbeAcquire
<1>2. ProbeHolder(p) \in HolderIds /\ ProbeHolder(p).process = p
    BY DEF ProbeHolder, HolderIds
<1>3. a \in Accounts
    BY DEF ManagerInv, TypeOK
<1> QED
    BY <1>1, <1>2, <1>3, DrawPreserves DEF ProbeAcquire

LEMMA LosePreserves == ManagerInv /\ LoseLease => ManagerInv'
<1> SUFFICES ASSUME ManagerInv, LoseLease PROVE ManagerInv'
    OBVIOUS
<1> USE DEF ManagerInv, TypeOK, LoseLease, accounts, managers
<1>1. held' \subseteq held /\ last' = last /\ epochs' = epochs
    OBVIOUS
<1>2. \A t \in Lease : Known(t)' => Known(t)
    BY <1>1 DEF Known
<1>3. ASSUME NEW p \in Processes
      PROVE  Own(p)' /\ Position(p)' /\ Dropped(p)'
    BY <1>1 DEF Own, Position, Dropped, Current, Fenced, Outdated
<1> QED
    BY <1>1, <1>2, <1>3, TokensKept

(* Every reachable state satisfies the invariant: among others, an epoch   *)
(* names one lease of the account's present registration, and a lease that *)
(* a process no longer has in active_lease is ended in the store and not   *)
(* accepted at the marker (create_auth_session, release_active_lease).     *)
THEOREM ManagerInvariant == Spec => []ManagerInv
<1>1. Init => ManagerInv
    <2> SUFFICES ASSUME Init PROVE ManagerInv
        OBVIOUS
    <2> USE DEF Init, Service!Init
    <2>1. TypeOK
        BY DEF TypeOK, Steps, Commands, Directory, Missing, Fresh
    <2>2. \A t \in Lease : ~Known(t)
        BY ManagerAssumption DEF Known
    <2>3. TokensOK
        BY <2>2 DEF TokensOK
    <2> QED
        BY <2>1, <2>3 DEF ManagerInv, Own, Position, Dropped
<1>2. ManagerInv /\ [Next]_vars => ManagerInv'
    <2>1. ManagerInv /\ UNCHANGED vars => ManagerInv'
        BY DEF vars, store, accounts, managers, ManagerInv, TypeOK, TokensOK,
               Known, Own, Position, Dropped, Current, Fenced, Outdated
    <2>2. ManagerInv /\ Next => ManagerInv'
        BY QuietPreserves, MarkPreserves, AcquirePreserves, OperatorPreserves,
           ProbeAcquirePreserves, LosePreserves DEF Next, Work
    <2> QED
        BY <2>1, <2>2
<1> QED
    BY <1>1, <1>2, PTL DEF Spec

(* No session of a lease that its process gave up yields credentials, if   *)
(* the lease and the marker are of the account's present registration      *)
(* (renew_active_lease, release_active_lease, load_bound_auth).            *)
THEOREM ManagerFencing == Spec => []GivenUpIsFenced
<1>1. ManagerInv => GivenUpIsFenced
    BY DEF ManagerInv, Dropped, GivenUpIsFenced
<1> QED
    BY <1>1, ManagerInvariant, PTL

(* At most one process gets credentials for an account with leases of its  *)
(* present registration (write_lease_epoch_marker, load_bound_auth).       *)
THEOREM ManagerExclusion == Spec => []OneProcessAuthenticates
<1>1. ManagerInv => OneProcessAuthenticates
    <2> SUFFICES ASSUME ManagerInv,
                        NEW p \in Processes, NEW q \in Processes, p # q,
                        NEW s \in sessions[p], NEW r \in sessions[q],
                        Current(s), Current(r), s.account = r.account,
                        ~Outdated(s), ~Outdated(r)
                 PROVE  FALSE
        BY DEF OneProcessAuthenticates
    <2>1. s \in Lease /\ r \in Lease /\ Known(s) /\ Known(r)
        BY DEF ManagerInv, TypeOK, Known
    <2>2. s = r
        BY <2>1 DEF ManagerInv, TokensOK, Current
    <2>3. s.holder = TurnHolder(p) /\ r.holder = TurnHolder(q)
        BY DEF ManagerInv, Own
    <2>4. TurnHolder(p) # TurnHolder(q)
        BY DEF TurnHolder
    <2> QED
        BY <2>2, <2>3, <2>4
<1> QED
    BY <1>1, ManagerInvariant, PTL

(* Seen from the store, every step of the managers, the probes, the        *)
(* operators and their failures is one the lease service allows, so what   *)
(* the store is proved to be (StoreImplementsService) is all that fencing  *)
(* rests on (local_backend.rs, manager.rs).                                *)
THEOREM ManagerUsesService == Spec => Service!Spec
<1>1. Init => Service!Init
    BY DEF Init
<1>2. TypeOK /\ [Next]_vars => [Service!Next]_<<held, last, epochs>>
    <2> SUFFICES ASSUME TypeOK, [Next]_vars
                 PROVE  [Service!Next]_<<held, last, epochs>>
        OBVIOUS
    <2>1. (held' \subseteq held /\ last' = last /\ epochs' = epochs) => Service!Next
        BY DEF Service!Next, Service!End
    <2>2. ASSUME NEW p \in Processes,
                 \/ Work(p) \/ StartTurn(p) \/ EndTurn(p) \/ RenewMissing(p)
                 \/ ReleaseActive(p) \/ Abandon(p)
          PROVE  held' \subseteq held /\ last' = last /\ epochs' = epochs
        BY <2>2 DEF Work, GiveUp, WriteMarker, AccountMissing, Adopt,
             ProbeRefresh, ProbeRelease, ProbeClear, StartTurn, EndTurn,
             RenewMissing, ReleaseActive, Abandon, store
    <2>3. ASSUME NEW p \in Processes
          PROVE  TurnHolder(p) \in HolderIds /\ ProbeHolder(p) \in HolderIds
        BY DEF TurnHolder, ProbeHolder, HolderIds
    <2>4. ASSUME NEW p \in Processes, Acquire(p) \/ ProbeAcquire(p)
          PROVE  Service!Next \/ UNCHANGED <<held, last, epochs>>
        <3>1. CASE UNCHANGED store
            BY <3>1 DEF store
        <3>2. CASE \E a \in registered, h \in HolderIds : HandOutTo(p, a, h)
            BY <3>2 DEF TypeOK, HandOutTo, Service!Next
        <3> QED
            BY <2>3, <2>4, <3>1, <3>2 DEF Acquire, ProbeAcquire
    <2>5. LoseLease => held' \subseteq held /\ last' = last /\ epochs' = epochs
        BY DEF LoseLease
    <2>6. ASSUME NEW a \in Accounts, Operator(a)
          PROVE  Service!Next \/ UNCHANGED <<held, last, epochs>>
        BY <2>6 DEF Operator, DeleteAuth, DeleteRow, Backup, Install, Register,
             Restore, Service!Next, store
    <2>7. UNCHANGED vars => UNCHANGED <<held, last, epochs>>
        BY DEF vars, store
    <2> QED
        BY <2>1, <2>2, <2>4, <2>5, <2>6, <2>7 DEF Next
<1>3. ManagerInv => TypeOK
    BY DEF ManagerInv
<1> QED
    BY <1>1, <1>2, <1>3, ManagerInvariant, PTL DEF Spec, Service!Spec
=============================================================================
