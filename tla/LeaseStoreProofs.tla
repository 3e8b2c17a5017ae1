-------------------------- MODULE LeaseStoreProofs --------------------------
(***************************************************************************)
(* What LeaseStore promises, for any number of accounts, pools, holders    *)
(* and limit families, any lease length and any clock lag.                 *)
(*                                                                         *)
(* The invariant is the conjunction of what it says of one row: which      *)
(* columns it has (TypeOK), that no other row shares its account or        *)
(* holder (Exclusive), that its account is usable (LeasedAccountIsUsable), *)
(* and, as strengthening, where pools can come from (RuntimeKnown,         *)
(* KeysOrdered) and that lease ids are drawn in order (IdsDrawn).          *)
(***************************************************************************)
EXTENDS LeaseStore, TLAPS

(* The two partial unique indexes are never relied on by a commit: no two  *)
(* unreleased rows share an account or a holder.                           *)
Exclusive ==
    \A r, s \in leases :
        (r.account = s.account \/ r.holder = s.holder) => r = s

(* Every lease id in use was drawn.                                        *)
IdsDrawn ==
    /\ \A r \in leases : r.id <= lastId
    /\ \A key \in issued : key.id <= lastId

(* The unreleased lease of an account is its latest one.                   *)
KeysOrdered ==
    \A r \in leases, key \in issued :
        key.account = r.account => /\ key.id <= r.id
                                   /\ key.id = r.id => key.pool = r.pool

(* Some lease of account a was one of pool p.                              *)
Named(a, p) == \E key \in issued : key.account = a /\ key.pool = p

(* A runtime row that names another pool than the membership was written   *)
(* for a lease.                                                            *)
PoolKnown(a) ==
    runtime[a] # NoRuntime => \/ runtime[a].pool = membership[a]
                             \/ Named(a, runtime[a].pool)

RuntimeKnown == \A a \in Accounts : PoolKnown(a)

StoreInv ==
    /\ TypeOK
    /\ Exclusive
    /\ LeasedAccountIsUsable
    /\ RuntimeKnown
    /\ KeysOrdered
    /\ IdsDrawn

(* What LeasedAccountIsUsable says of one row.                             *)
Usable(r) ==
    /\ r.account \in registered
    /\ r.account \in enabled
    /\ \/ membership[r.account] = r.pool
       \/ \E key \in issued : /\ key.account = r.account
                              /\ key.id < r.id
                              /\ key.pool = membership[r.account]

(* The ways a transaction changes the lease tables: it keeps a subset of   *)
(* the rows, possibly with other expiry times, or it also adds a new one.  *)
Trimmed ==
    /\ leases' \in SUBSET leases
    /\ UNCHANGED <<lastEpoch, lastId, issued>>

Granted ==
    \E now \in Stamps, h \in Holders, p \in Pools, a \in Accounts :
        /\ a \in registered /\ a \in enabled /\ membership[a] = p
        /\ Grant(Unexpired(now), h, p, a, now)

Renewed ==
    \E now \in Stamps, key \in issued : Renew(key, now)

-----------------------------------------------------------------------------
(* Every lease transaction of LeaseStore is one of the three.              *)
LEMMA LeaseNextCases ==
    LeaseNext => /\ UNCHANGED <<clock, quota, registryVars>>
                 /\ Trimmed \/ Granted \/ Renewed
<1> SUFFICES ASSUME LeaseNext
             PROVE  Trimmed \/ Granted \/ Renewed
    BY DEF LeaseNext
<1>1. PICK now \in Stamps :
        \/ \E h \in Holders, p \in Pools, a \in Accounts,
              f \in Limits \cup {Compat} :
             \/ AcquirePreferred(h, p, a, f, now)
             \/ AcquireExcluding(h, p, {}, f, now)
             \/ AcquireExcluding(h, p, {a}, f, now)
        \/ \E h \in Holders, p \in Pools, a \in Accounts, l \in Limits,
              until \in 0 .. clock + ProbeHold :
             AcquireProbe(h, p, a, l, until, now)
        \/ \E key \in issued : Renew(key, now) \/ Release(key)
    BY DEF LeaseNext
<1>2. ASSUME NEW h \in Holders, NEW p \in Pools, NEW a \in Accounts,
             NEW f \in Limits \cup {Compat}, AcquirePreferred(h, p, a, f, now)
      PROVE  Trimmed \/ Granted
    BY <1>2 DEF AcquirePreferred, ReturnHeldLease, Refuse, leaseVars, Trimmed,
                Granted, Eligible, Unexpired
<1>3. ASSUME NEW h \in Holders, NEW p \in Pools, NEW x \in SUBSET Accounts,
             NEW f \in Limits \cup {Compat}, AcquireExcluding(h, p, x, f, now)
      PROVE  Trimmed \/ Granted
    BY <1>3 DEF AcquireExcluding, ReturnHeldLease, Refuse, leaseVars, Trimmed,
                Granted, Eligible, Unexpired
<1>4. ASSUME NEW h \in Holders, NEW p \in Pools, NEW a \in Accounts,
             NEW l \in Limits, NEW until \in 0 .. clock + ProbeHold,
             AcquireProbe(h, p, a, l, until, now)
      PROVE  Trimmed \/ Granted
    BY <1>4 DEF AcquireProbe, Refuse, leaseVars, Trimmed, Granted, Eligible
<1>5. ASSUME NEW key \in issued, Release(key)
      PROVE  Trimmed
    BY <1>5 DEF Release, Trimmed
<1> QED
    BY <1>1, <1>2, <1>3, <1>4, <1>5 DEF Renewed

-----------------------------------------------------------------------------
(* A fresh database satisfies the invariant.                               *)
LEMMA StoreInvInit == StoreInit => StoreInv
BY QuotaAssumption, StoreAssumption
   DEF StoreInit, StoreInv, TypeOK, QuotaTypeOK, NoQuota, Exclusive,
       LeasedAccountIsUsable, RuntimeKnown, PoolKnown, KeysOrdered, IdsDrawn

(* A row of the invariant is on an account that is in some pool.           *)
LEMMA UsableHasPool ==
    ASSUME StoreInv, NEW r \in leases
    PROVE  /\ Usable(r) /\ r.account \in Accounts
           /\ membership[r.account] \in Pools
<1>1. /\ r \in Lease
      /\ \A key \in issued : key \in LeaseKey
      /\ Usable(r)
    BY DEF StoreInv, TypeOK, LeasedAccountIsUsable, Usable
<1> QED
    BY <1>1 DEF Usable, Lease, LeaseKey

(* Releasing rows disturbs nothing, as long as the rows that stay are on   *)
(* accounts that stay usable.                                              *)
LEMMA TrimmedPreserves ==
    ASSUME StoreInv, TypeOK', leases' \in SUBSET leases,
           lastId' = lastId, issued' = issued, RuntimeKnown',
           \A r \in leases' : Usable(r)'
    PROVE  StoreInv'
<1>1. LeasedAccountIsUsable'
    BY DEF LeasedAccountIsUsable, Usable
<1> QED
    BY <1>1 DEF StoreInv, Exclusive, KeysOrdered, IdsDrawn

(* The tables a row's usability depends on are left alone.                 *)
LEMMA SameTables ==
    ASSUME StoreInv, TypeOK', leases' \in SUBSET leases,
           lastId' = lastId, issued' = issued, UNCHANGED registryVars
    PROVE  StoreInv'
<1>1. RuntimeKnown'
    BY DEF StoreInv, RuntimeKnown, PoolKnown, Named, registryVars
<1>2. \A r \in leases' : Usable(r)'
    BY UsableHasPool DEF Usable, registryVars
<1> QED
    BY <1>1, <1>2, TrimmedPreserves

(* The new row of a grant is well typed and on a usable account; its epoch *)
(* and id are the next ones, and no row that is left has its account or    *)
(* holder.                                                                 *)
LEMMA GrantedPreserves ==
    ASSUME StoreInv, Granted, UNCHANGED <<clock, quota, registryVars>>
    PROVE  StoreInv'
<1>1. PICK now \in Stamps, h \in Holders, p \in Pools, a \in Accounts :
        /\ a \in registered /\ a \in enabled /\ membership[a] = p
        /\ Grant(Unexpired(now), h, p, a, now)
    BY DEF Granted
<1> DEFINE n == NewLease(h, p, a, now)
<1>2. /\ now \in Nat /\ LeaseTtl \in Nat /\ lastId \in Nat
      /\ lastEpoch \in [Accounts -> Nat] /\ NoPool \notin Pools
    BY StoreAssumption DEF StoreInv, TypeOK, QuotaTypeOK, Stamps
<1>3. n \in Lease /\ KeyOf(n) \in LeaseKey
    BY <1>2 DEF NewLease, Lease, KeyOf, LeaseKey
<1>4. /\ n.id = lastId + 1 /\ n.account = a /\ n.holder = h
      /\ n.pool = p
    BY DEF NewLease
<1>5. /\ leases' = Unexpired(now) \cup {n}
      /\ lastEpoch' = [lastEpoch EXCEPT ![a] = @ + 1]
      /\ lastId' = lastId + 1
      /\ issued' = issued \cup {KeyOf(n)}
      /\ \A r \in Unexpired(now) : r.account # a /\ r.holder # h
    BY <1>1 DEF Grant, IndexAllows
<1>6. /\ Unexpired(now) \in SUBSET leases
      /\ \A r \in leases : r \in Lease /\ r.account \in Accounts /\ r.id \in Nat
    BY DEF Unexpired, StoreInv, TypeOK, Lease
<1> HIDE DEF n
<1>7. TypeOK'
    BY <1>2, <1>3, <1>5, <1>6
       DEF StoreInv, TypeOK, QuotaTypeOK, registryVars
<1>8. Exclusive'
    BY <1>4, <1>5, <1>6 DEF StoreInv, Exclusive
<1>9. LeasedAccountIsUsable'
    <2>1. ASSUME NEW r \in Unexpired(now)
          PROVE  Usable(r)'
        BY <1>5, <1>6, UsableHasPool DEF Usable, registryVars
    <2>2. ASSUME NEW r \in leases', r = n
          PROVE  Usable(r)'
        BY <1>1, <1>4, <2>2 DEF Usable, registryVars
    <2> QED
        BY <1>5, <1>7, <2>1, <2>2 DEF LeasedAccountIsUsable, Usable
<1>10. RuntimeKnown'
    BY <1>5 DEF StoreInv, RuntimeKnown, PoolKnown, Named, registryVars
<1>11. KeyOf(n).id = n.id /\ KeyOf(n).account = a /\ KeyOf(n).pool = n.pool
    BY <1>4 DEF KeyOf
<1>12. \A key \in issued : key.id \in Nat
    BY DEF StoreInv, TypeOK, LeaseKey
<1> HIDE DEF n
<1>13. KeysOrdered'
    <2>1. ASSUME NEW r \in leases', NEW key \in issued', key.account = r.account
          PROVE  key.id <= r.id /\ (key.id = r.id => key.pool = r.pool)
        <3>1. CASE r \in Unexpired(now)
            BY <1>5, <1>6, <1>11, <2>1, <3>1 DEF StoreInv, KeysOrdered
        <3>2. CASE r = n /\ key \in issued
            BY <1>2, <1>4, <1>12, <3>2 DEF StoreInv, IdsDrawn
        <3>3. CASE r = n /\ key = KeyOf(n)
            BY <1>2, <1>4, <1>11, <3>3
        <3> QED
            BY <1>5, <3>1, <3>2, <3>3
    <2> QED
        BY <2>1 DEF KeysOrdered
<1>14. IdsDrawn'
    BY <1>2, <1>4, <1>5, <1>6, <1>11, <1>12 DEF StoreInv, IdsDrawn
<1> QED
    BY <1>7, <1>8, <1>9, <1>10, <1>13, <1>14 DEF StoreInv

(* A renewal moves one expiry time and keeps every other column.           *)
LEMMA RenewedPreserves ==
    ASSUME StoreInv, Renewed, UNCHANGED <<clock, quota, registryVars>>
    PROVE  StoreInv'
<1>1. PICK now \in Stamps, key \in issued : Renew(key, now)
    BY DEF Renewed
<1> DEFINE hit == {r \in leases : SameKey(r, key) /\ r.expires > now}
           Moved(r) == [r EXCEPT !.expires = now + LeaseTtl]
<1>2. /\ leases' = (leases \ hit) \cup {Moved(r) : r \in hit}
      /\ UNCHANGED <<lastEpoch, lastId, issued>>
    BY <1>1 DEF Renew
<1>3. now + LeaseTtl \in Nat
    BY StoreAssumption DEF StoreInv, TypeOK, QuotaTypeOK, Stamps
<1>4. \A r \in leases :
        /\ Moved(r) \in Lease /\ r \in Lease
        /\ Moved(r).id = r.id /\ Moved(r).account = r.account
        /\ Moved(r).holder = r.holder /\ Moved(r).pool = r.pool
    BY <1>3 DEF StoreInv, TypeOK, Lease
<1>5. hit \in SUBSET leases
    OBVIOUS
<1> HIDE DEF hit, Moved
<1>6. ASSUME NEW s \in leases'
      PROVE  \E r \in leases :
                /\ s \in Lease
                /\ s.id = r.id /\ s.account = r.account
                /\ s.holder = r.holder /\ s.pool = r.pool
                /\ s = IF r \in hit THEN Moved(r) ELSE r
    BY <1>2, <1>4, <1>5
<1>7. TypeOK'
    BY <1>2, <1>6 DEF StoreInv, TypeOK, QuotaTypeOK, registryVars
<1>8. Exclusive'
    BY <1>6 DEF StoreInv, Exclusive
<1>9. LeasedAccountIsUsable'
    <2>1. ASSUME NEW s \in leases'
          PROVE  Usable(s)'
        <3>1. PICK r \in leases : /\ s.id = r.id /\ s.account = r.account
                                  /\ s.pool = r.pool
            BY <1>6
        <3> QED
            BY <1>2, <3>1, UsableHasPool DEF Usable, registryVars
    <2> QED
        BY <1>7, <2>1 DEF LeasedAccountIsUsable, Usable
<1>10. RuntimeKnown'
    BY <1>2 DEF StoreInv, RuntimeKnown, PoolKnown, Named, registryVars
<1>11. KeysOrdered' /\ IdsDrawn'
    BY <1>2, <1>6 DEF StoreInv, KeysOrdered, IdsDrawn
<1> QED
    BY <1>7, <1>8, <1>9, <1>10, <1>11 DEF StoreInv

-----------------------------------------------------------------------------
(* The registry keeps the tables well typed and takes no usable account    *)
(* away from a lease it leaves.                                            *)
LEMMA RegistryPreserves ==
    ASSUME StoreInv, RegistryNext
    PROVE  StoreInv'
<1> USE DEF StoreInv, TypeOK, QuotaTypeOK, ReleaseAccountIf
<1>1. PICK a \in Accounts :
        \/ \E p \in Pools, on, healthy \in BOOLEAN :
             UpsertRegistryEntry(a, p, on, healthy)
        \/ \E p \in Pools \cup {NoPool}, on, healthy \in BOOLEAN :
             UpsertRegisteredAccount(a, p, on, healthy)
        \/ \E on \in BOOLEAN : SetEnabled(a, on)
        \/ \E p \in Pools : AssignPool(a, p)
        \/ ImportLegacy(a)
    BY DEF RegistryNext
<1>2. UNCHANGED <<clock, quota>>
    BY DEF RegistryNext
<1>3. LegacyPool \in Pools /\ NoPool \notin Pools /\ NoRuntime \notin RuntimeRow
    BY StoreAssumption
<1>4. ASSUME NEW p \in Pools \cup {NoPool}, NEW on \in BOOLEAN,
             NEW healthy \in BOOLEAN
      PROVE  RuntimeAfterUpsert(a, p, healthy) \in RuntimeRow \cup {NoRuntime}
    BY <1>3 DEF RuntimeAfterUpsert, RuntimeRow
<1>5. ASSUME NEW p \in Pools \cup {NoPool}, NEW on \in BOOLEAN,
             NEW healthy \in BOOLEAN
      PROVE  RuntimeAfterUpsert(a, p, healthy) # NoRuntime
                => RuntimeAfterUpsert(a, p, healthy).pool = p
    <2>1. runtime[a] # NoRuntime => runtime[a] \in RuntimeRow
        OBVIOUS
    <2> QED
        BY <2>1 DEF RuntimeAfterUpsert, RuntimeRow
<1>6. ASSUME NEW p \in Pools \cup {NoPool}, NEW on \in BOOLEAN,
             NEW healthy \in BOOLEAN, WriteRegistry(a, p, on, healthy),
             leases' \in SUBSET leases,
             UNCHANGED <<lastEpoch, lastId, issued>>,
             \A r \in leases' : r.account = a => on /\ p = membership[a]
      PROVE  StoreInv'
    <2>1. TypeOK'
        BY <1>2, <1>4, <1>6 DEF WriteRegistry
    <2>2. \A r \in leases' : Usable(r)'
        BY <1>6, UsableHasPool DEF WriteRegistry, Usable
    <2>3. RuntimeKnown'
        <3>1. ASSUME NEW b \in Accounts
              PROVE  PoolKnown(b)'
            <4>1. CASE b = a
                BY <1>5, <1>6, <4>1 DEF WriteRegistry, PoolKnown
            <4>2. CASE b # a
                <5>1. runtime'[b] = runtime[b] /\ membership'[b] = membership[b]
                    BY <1>6, <4>2 DEF WriteRegistry
                <5> QED
                    BY <1>6, <5>1 DEF RuntimeKnown, PoolKnown, Named
            <4> QED
                BY <4>1, <4>2
        <3> QED
            BY <3>1 DEF RuntimeKnown
    <2> QED
        BY <1>6, <2>1, <2>2, <2>3, TrimmedPreserves
<1>7. ASSUME NEW p \in Pools, NEW on \in BOOLEAN, NEW healthy \in BOOLEAN,
             UpsertRegistryEntry(a, p, on, healthy)
      PROVE  StoreInv'
    BY <1>3, <1>6, <1>7, UsableHasPool DEF UpsertRegistryEntry
<1>8. ASSUME NEW p \in Pools \cup {NoPool}, NEW on \in BOOLEAN,
             NEW healthy \in BOOLEAN,
             UpsertRegisteredAccount(a, p, on, healthy)
      PROVE  StoreInv'
    BY <1>6, <1>8 DEF UpsertRegisteredAccount
<1>9. ASSUME NEW on \in BOOLEAN, SetEnabled(a, on)
      PROVE  StoreInv'
    <2>1. TypeOK'
        BY <1>2, <1>9 DEF SetEnabled
    <2>2. \A r \in leases' : Usable(r)'
        BY <1>9, UsableHasPool DEF SetEnabled, Usable
    <2>3. RuntimeKnown'
        BY <1>9 DEF SetEnabled, RuntimeKnown, PoolKnown, Named
    <2> QED
        BY <1>9, <2>1, <2>2, <2>3, TrimmedPreserves DEF SetEnabled
<1>10. ASSUME NEW p \in Pools, AssignPool(a, p)
       PROVE  StoreInv'
    <2>1. runtime' \in [Accounts -> RuntimeRow \cup {NoRuntime}]
        BY <1>10 DEF AssignPool, RuntimeRow
    <2>2. TypeOK'
        BY <1>2, <1>10, <2>1 DEF AssignPool
    <2>3. \A r \in leases' : Usable(r)'
        BY <1>10, UsableHasPool DEF AssignPool, Usable
    <2>4. RuntimeKnown'
        <3>1. ASSUME NEW b \in Accounts
              PROVE  PoolKnown(b)'
            <4>1. CASE b = a
                BY <1>10, <4>1 DEF AssignPool, RuntimeRow, PoolKnown
            <4>2. CASE b # a
                <5>1. runtime'[b] = runtime[b] /\ membership'[b] = membership[b]
                    BY <1>10, <4>2 DEF AssignPool
                <5> QED
                    BY <1>10, <5>1 DEF RuntimeKnown, PoolKnown, Named, AssignPool
            <4> QED
                BY <4>1, <4>2
        <3> QED
            BY <3>1 DEF RuntimeKnown
    <2> QED
        BY <1>10, <2>2, <2>3, <2>4, TrimmedPreserves DEF AssignPool
<1>11. ASSUME ImportLegacy(a)
       PROVE  StoreInv'
    <2>1. TypeOK'
        BY <1>2, <1>3, <1>11 DEF ImportLegacy, leaseVars
    <2>2. \A r \in leases' : Usable(r)'
        BY <1>3, <1>11, UsableHasPool DEF ImportLegacy, leaseVars, Usable
    <2>3. RuntimeKnown'
        <3>1. \A b \in Accounts : membership[b] = NoPool \/ membership'[b] = membership[b]
            BY <1>11 DEF ImportLegacy
        <3>2. \A b \in Accounts : runtime[b] # NoRuntime => runtime[b].pool # NoPool
            BY <1>3 DEF RuntimeRow
        <3> QED
            BY <1>11, <3>1, <3>2 DEF ImportLegacy, leaseVars, RuntimeKnown, PoolKnown,
                                      Named
    <2> QED
        BY <1>11, <2>1, <2>2, <2>3, TrimmedPreserves DEF ImportLegacy, leaseVars
<1> QED
    BY <1>1, <1>7, <1>8, <1>9, <1>10, <1>11

(* Removal takes the account's lease and runtime row with it.              *)
LEMMA RemovePreserves ==
    ASSUME StoreInv, NEW a \in Accounts, RemoveAccount(a)
    PROVE  StoreInv'
<1> USE DEF StoreInv, TypeOK, QuotaTypeOK, RemoveAccount
<1>1. TypeOK'
    BY DEF NoQuota
<1>2. \A r \in leases' : Usable(r)'
    BY UsableHasPool DEF Usable
<1>3. RuntimeKnown'
    BY DEF RuntimeKnown, PoolKnown, Named
<1> QED
    BY <1>1, <1>2, <1>3, TrimmedPreserves

(* A health event moves its account to the pool of some lease the account  *)
(* had, never out of every pool.                                           *)
LEMMA HealthPreserves ==
    ASSUME StoreInv, HealthNext
    PROVE  StoreInv'
<1> USE DEF StoreInv, TypeOK, QuotaTypeOK
<1>1. PICK key \in issued, health \in HealthStates, seq \in 1 .. MaxSeq :
        RecordHealth(key.account, key.pool, health, seq)
    BY DEF HealthNext
<1> DEFINE a == key.account
           row == RuntimeAfterEvent(a, key.pool, health, seq)
<1>2. a \in Accounts /\ row \in RuntimeRow /\ row.pool \in Pools
    BY StoreAssumption DEF LeaseKey, RuntimeAfterEvent, RuntimeRow
<1>3. /\ UNCHANGED <<clock, quota, registered, enabled, leases, lastEpoch,
                     lastId, issued>>
      /\ runtime' = [runtime EXCEPT ![a] = row]
      /\ membership' = [membership EXCEPT ![a] = IF @ = NoPool THEN @ ELSE row.pool]
    BY <1>1 DEF HealthNext, RecordHealth, leaseVars
<1>4. row.pool = membership[a] \/ Named(a, row.pool)
    <2>1. CASE row = runtime[a] /\ runtime[a] # NoRuntime
        BY <1>2, <2>1 DEF RuntimeKnown, PoolKnown
    <2>2. CASE row = [pool |-> key.pool, health |-> health, seq |-> seq]
        BY <2>2 DEF Named
    <2> QED
        BY <2>1, <2>2 DEF RuntimeAfterEvent
<1> HIDE DEF row
<1>5. TypeOK'
    BY <1>2, <1>3
<1>6. ASSUME NEW r \in leases'
      PROVE  Usable(r)'
    <2>1. Usable(r) /\ r \in leases /\ membership[r.account] # NoPool
        BY <1>3, UsableHasPool, StoreAssumption
    <2>2. CASE r.account # a
        BY <1>3, <2>1, <2>2 DEF Usable
    <2>3. CASE r.account = a /\ row.pool = membership[a]
        BY <1>3, <2>1, <2>3 DEF Usable
    <2>4. CASE r.account = a /\ Named(a, row.pool)
        <3>1. PICK k \in issued : k.account = a /\ k.pool = row.pool
            BY <2>4 DEF Named
        <3>2. /\ k.id <= r.id /\ (k.id = r.id => k.pool = r.pool)
              /\ k.id \in Nat /\ r.id \in Nat
            BY <2>1, <2>4, <3>1 DEF KeysOrdered, LeaseKey, Lease
        <3>3. membership'[a] = row.pool
            BY <1>2, <1>3, <2>1, <2>4
        <3>4. k.id < r.id \/ k.pool = r.pool
            <4>1. CASE k.id = r.id
                BY <3>2, <4>1
            <4>2. CASE k.id # r.id
                <5>1. k.id < r.id
                    BY <3>2, <4>2, SMT
                <5> QED
                    BY <5>1
            <4> QED
                BY <4>1, <4>2
        <3> QED
            BY <1>3, <2>1, <2>4, <3>1, <3>3, <3>4 DEF Usable
    <2> QED
        BY <1>4, <2>2, <2>3, <2>4
<1>7. RuntimeKnown'
    <2>1. ASSUME NEW b \in Accounts
          PROVE  PoolKnown(b)'
        <3>1. CASE b = a
            <4>1. runtime'[b] = row
                BY <1>2, <1>3, <3>1
            <4>2. CASE Named(a, row.pool)
                BY <1>3, <3>1, <4>1, <4>2 DEF Named, PoolKnown
            <4>3. CASE row.pool = membership[a]
                BY <1>2, <1>3, <3>1, <4>1, <4>3, StoreAssumption DEF PoolKnown
            <4> QED
                BY <1>4, <4>2, <4>3
        <3>2. CASE b # a
            <4>1. runtime'[b] = runtime[b] /\ membership'[b] = membership[b]
                BY <1>3, <3>2
            <4> QED
                BY <1>3, <4>1 DEF RuntimeKnown, PoolKnown, Named
        <3> QED
            BY <3>1, <3>2
    <2> QED
        BY <2>1 DEF RuntimeKnown
<1> QED
    BY <1>3, <1>5, <1>6, <1>7, TrimmedPreserves

(* A write to a quota row leaves a well-typed row.                         *)
LEMMA QuotaPreserves ==
    ASSUME StoreInv, QuotaNext
    PROVE  StoreInv'
<1> USE DEF StoreInv, TypeOK, QuotaTypeOK
<1>1. PICK a \in registered, l \in Limits :
        \/ \E ex \in BOOLEAN, obs \in 0 .. clock :
             UpsertQuota(a, l, ex, obs, obs + ProbeHold)
        \/ ReserveProbe(a, l, clock)
        \/ /\ HasRow(a, l)
           /\ \E obs \in 0 .. clock, until \in 0 .. clock + ProbeHold :
                ProbeSuccess(a, l, obs, until) \/ ProbeBlocked(a, l, obs, until)
    BY DEF QuotaNext
<1>2. UNCHANGED <<clock, registryVars, leaseVars>>
    BY DEF QuotaNext
<1>3. a \in Accounts /\ ProbeHold \in Nat /\ clock \in Nat
    BY QuotaAssumption
<1>4. ASSUME NEW ex \in BOOLEAN, NEW obs \in Nat,
             NEW probe \in Nat \cup {NoProbe},
             SetRow(a, l, [exhausted |-> ex, observed |-> obs,
                           probeAfter |-> probe])
      PROVE  quota' \in [Accounts -> [Limits -> QuotaRow \cup {NoRow}]]
    BY <1>3, <1>4 DEF SetRow, QuotaRow
<1>5. ASSUME NEW ex \in BOOLEAN, NEW obs \in 0 .. clock,
             UpsertQuota(a, l, ex, obs, obs + ProbeHold)
      PROVE  quota' \in [Accounts -> [Limits -> QuotaRow \cup {NoRow}]]
    <2>1. /\ obs \in Nat
          /\ (IF ex THEN obs + ProbeHold ELSE NoProbe) \in Nat \cup {NoProbe}
        BY <1>3
    <2> QED
        BY <1>4, <1>5, <2>1 DEF UpsertQuota
<1>6. ASSUME ReserveProbe(a, l, clock)
      PROVE  quota' \in [Accounts -> [Limits -> QuotaRow \cup {NoRow}]]
    <2>1. CASE ~CanReserve(a, l, clock)
        BY <1>6, <2>1 DEF ReserveProbe
    <2>2. CASE CanReserve(a, l, clock)
        <3> DEFINE row == [quota[a][l] EXCEPT !.probeAfter = clock + ProbeHold]
        <3>1. quota[a][l] \in QuotaRow
            BY <1>3, <2>2 DEF CanReserve, HasRow
        <3>2. row \in QuotaRow
            BY <1>3, <3>1 DEF QuotaRow
        <3>3. quota' = [quota EXCEPT ![a][l] = row]
            BY <1>6, <2>2 DEF ReserveProbe
        <3> HIDE DEF row
        <3> QED
            BY <1>3, <3>2, <3>3
    <2> QED
        BY <2>1, <2>2
<1>7. ASSUME NEW obs \in 0 .. clock, NEW until \in 0 .. clock + ProbeHold,
             ProbeSuccess(a, l, obs, until) \/ ProbeBlocked(a, l, obs, until)
      PROVE  quota' \in [Accounts -> [Limits -> QuotaRow \cup {NoRow}]]
    <2>1. obs \in Nat /\ obs + ProbeHold \in Nat /\ FALSE \in BOOLEAN /\ TRUE \in BOOLEAN
        BY <1>3
    <2>2. CASE ProbeSuccess(a, l, obs, until)
        BY <1>4, <2>1, <2>2 DEF ProbeSuccess
    <2>3. CASE ProbeBlocked(a, l, obs, until)
        BY <1>4, <2>1, <2>3 DEF ProbeBlocked
    <2> QED
        BY <1>7, <2>2, <2>3
<1>8. quota' \in [Accounts -> [Limits -> QuotaRow \cup {NoRow}]]
    BY <1>1, <1>5, <1>6, <1>7
<1>9. TypeOK'
    BY <1>2, <1>8 DEF registryVars, leaseVars
<1> QED
    BY <1>2, <1>9, SameTables DEF leaseVars

-----------------------------------------------------------------------------
(* StoreInv is inductive.                                                  *)
LEMMA StoreInvStep == StoreInv /\ [Next]_storeVars => StoreInv'
<1> SUFFICES ASSUME StoreInv, [Next]_storeVars
             PROVE  StoreInv'
    OBVIOUS
<1> USE DEF StoreInv
<1>1. CASE Tick
    <2>1. TypeOK'
        BY <1>1 DEF Tick, TypeOK, QuotaTypeOK, registryVars, leaseVars
    <2> QED
        BY <1>1, <2>1, SameTables DEF Tick, leaseVars
<1>2. CASE LeaseNext
    <2>1. UNCHANGED <<clock, quota, registryVars>>
        BY <1>2, LeaseNextCases
    <2>2. CASE Trimmed
        <3>1. TypeOK'
            BY <2>1, <2>2 DEF Trimmed, TypeOK, QuotaTypeOK, registryVars
        <3> QED
            BY <2>1, <2>2, <3>1, SameTables DEF Trimmed
    <2> QED
        BY <1>2, <2>1, <2>2, LeaseNextCases, GrantedPreserves, RenewedPreserves
<1>3. CASE RegistryNext
    BY <1>3, RegistryPreserves
<1>4. CASE \E a \in Accounts : RemoveAccount(a)
    BY <1>4, RemovePreserves
<1>5. CASE HealthNext
    BY <1>5, HealthPreserves
<1>6. CASE QuotaNext
    BY <1>6, QuotaPreserves
<1>7. CASE UNCHANGED storeVars
    <2>1. TypeOK'
        BY <1>7 DEF storeVars, TypeOK, QuotaTypeOK
    <2> QED
        BY <1>7, <2>1, SameTables DEF storeVars, registryVars
<1> QED
    BY <1>1, <1>2, <1>3, <1>4, <1>5, <1>6, <1>7 DEF Next

(* Every reachable state of the store satisfies the inductive invariant.   *)
THEOREM StoreInvariant == Spec => []StoreInv
<1>1. StoreInit => StoreInv
    BY StoreInvInit
<1>2. StoreInv /\ [Next]_storeVars => StoreInv'
    BY StoreInvStep
<1> QED
    BY <1>1, <1>2, PTL DEF Spec

(* An unreleased lease is on a registered, enabled account, and only a     *)
(* health report of an earlier lease moves that account to another pool.   *)
THEOREM StoreUsable == Spec => []LeasedAccountIsUsable
<1>1. StoreInv => LeasedAccountIsUsable
    BY DEF StoreInv
<1> QED
    BY <1>1, StoreInvariant, PTL

-----------------------------------------------------------------------------
(* What one transaction does to the rows that were and that are unreleased:*)
(* a row it leaves has the id and account of one that was there, unless it *)
(* is the one it grants, and granting one leaves only rows that had not    *)
(* expired at the transaction's own time.                                  *)
LEMMA LeasesAfterStep ==
    ASSUME StoreInv, [Next]_storeVars, NEW s \in leases'
    PROVE  \/ \E r \in leases : r.id = s.id /\ r.account = s.account
           \/ /\ s.id > lastId
              /\ \A r \in leases : r.account = s.account => r.expires <= clock
<1>1. CASE leases' \in SUBSET leases
    BY <1>1
<1>2. CASE LeaseNext
    <2>1. CASE Trimmed
        BY <2>1 DEF Trimmed
    <2>2. CASE Renewed
        <3>1. PICK now \in Stamps, key \in issued : Renew(key, now)
            BY <2>2 DEF Renewed
        <3> DEFINE Moved(r) == [r EXCEPT !.expires = now + LeaseTtl]
        <3>2. \/ s \in leases
              \/ \E r \in leases : s = Moved(r)
            BY <3>1 DEF Renew
        <3>3. \A r \in leases :
                Moved(r).id = r.id /\ Moved(r).account = r.account
            BY DEF StoreInv, TypeOK, Lease
        <3> HIDE DEF Moved
        <3> QED
            BY <3>2, <3>3
    <2>3. CASE Granted
        <3>1. PICK now \in Stamps, h \in Holders, p \in Pools, a \in Accounts :
                Grant(Unexpired(now), h, p, a, now)
            BY <2>3 DEF Granted
        <3> DEFINE n == NewLease(h, p, a, now)
        <3>2. /\ leases' = Unexpired(now) \cup {n}
              /\ \A r \in Unexpired(now) : r.account # a
            BY <3>1 DEF Grant, IndexAllows
        <3>3. n.id = lastId + 1 /\ n.account = a /\ lastId \in Nat
            BY DEF NewLease, StoreInv, TypeOK
        <3>4. \A r \in leases : r.account = a => r.expires <= clock
            BY <3>2 DEF Unexpired, Stamps, StoreInv, TypeOK, QuotaTypeOK, Lease
        <3> HIDE DEF n
        <3> QED
            BY <3>2, <3>3, <3>4 DEF Unexpired
    <2> QED
        BY <1>2, <2>1, <2>2, <2>3, LeaseNextCases
<1>3. CASE Tick \/ HealthNext \/ QuotaNext \/ UNCHANGED storeVars
    BY <1>1, <1>3 DEF Tick, HealthNext, RecordHealth, QuotaNext, leaseVars, storeVars
<1>4. CASE RegistryNext
    BY <1>1, <1>4
       DEF RegistryNext, UpsertRegistryEntry, UpsertRegisteredAccount,
           SetEnabled, AssignPool, ImportLegacy, ReleaseAccountIf, leaseVars
<1>5. CASE \E a \in Accounts : RemoveAccount(a)
    BY <1>1, <1>5 DEF RemoveAccount
<1> QED
    BY <1>2, <1>3, <1>4, <1>5 DEF Next

(* An account's lease is replaced only once it has expired, whatever clock *)
(* reading the replacing transaction works with.                           *)
THEOREM StoreNoTakeover == Spec => NoTakeover
<1>1. ASSUME StoreInv, StoreInv', [Next]_storeVars, NEW r \in leases,
             NEW s \in leases', r.account = s.account, r.id # s.id
      PROVE  r.expires <= clock
    <2>1. \A q \in leases : q.account = s.account => q.id = r.id
        BY <1>1 DEF StoreInv, Exclusive
    <2> QED
        BY <1>1, <2>1, LeasesAfterStep
<1>2. StoreInv /\ StoreInv' /\ [Next]_storeVars
        => [\A r \in leases, s \in leases' :
              (r.account = s.account /\ r.id # s.id) => r.expires <= clock]_storeVars
    BY <1>1
<1> QED
    BY <1>2, StoreInvariant, PTL DEF Spec, NoTakeover

(* A row that a transaction leaves was there before, is a grant, or was    *)
(* renewed by a transaction that read the clock before the row expired.    *)
LEMMA RowsAfterStep ==
    ASSUME StoreInv, [Next]_storeVars, NEW s \in leases'
    PROVE  \/ s \in leases
           \/ \E r \in leases : r.account = s.account /\ r.expires + MaxLag > clock
           \/ s.id > lastId
<1>1. CASE Renewed
    <2>1. PICK now \in Stamps, key \in issued : Renew(key, now)
        BY <1>1 DEF Renewed
    <2> DEFINE Moved(r) == [r EXCEPT !.expires = now + LeaseTtl]
    <2>2. \/ s \in leases
          \/ \E r \in leases : r.expires > now /\ s = Moved(r)
        BY <2>1 DEF Renew
    <2>3. \A r \in leases : Moved(r).account = r.account /\ r.expires \in Nat
        BY DEF StoreInv, TypeOK, Lease
    <2>4. now \in Nat /\ clock \in Nat /\ clock <= now + MaxLag /\ MaxLag \in Nat
        BY StoreAssumption DEF Stamps, StoreInv, TypeOK, QuotaTypeOK
    <2> HIDE DEF Moved
    <2> QED
        BY <2>2, <2>3, <2>4
<1>2. CASE Granted
    <2>1. PICK now \in Stamps, h \in Holders, p \in Pools, a \in Accounts :
            Grant(Unexpired(now), h, p, a, now)
        BY <1>2 DEF Granted
    <2>2. s \in leases \/ s = NewLease(h, p, a, now)
        BY <2>1 DEF Grant, Unexpired
    <2>3. NewLease(h, p, a, now).id > lastId
        BY DEF NewLease, StoreInv, TypeOK
    <2> QED
        BY <2>2, <2>3
<1>3. CASE leases' \in SUBSET leases
    BY <1>3
<1>4. CASE LeaseNext
    BY <1>1, <1>2, <1>3, <1>4, LeaseNextCases DEF Trimmed
<1>5. CASE Tick \/ HealthNext \/ QuotaNext \/ UNCHANGED storeVars
    BY <1>3, <1>5 DEF Tick, HealthNext, RecordHealth, QuotaNext, leaseVars, storeVars
<1>6. CASE RegistryNext
    BY <1>3, <1>6
       DEF RegistryNext, UpsertRegistryEntry, UpsertRegisteredAccount,
           SetEnabled, AssignPool, ImportLegacy, ReleaseAccountIf, leaseVars
<1>7. CASE \E a \in Accounts : RemoveAccount(a)
    BY <1>3, <1>7 DEF RemoveAccount
<1> QED
    BY <1>4, <1>5, <1>6, <1>7 DEF Next

(* A lease that expired longer ago than the lag is never extended.         *)
THEOREM StoreRevival == Spec => RevivalIsBounded
<1>1. ASSUME StoreInv, [Next]_storeVars, NEW r \in leases, NEW s \in leases',
             r.account = s.account, r.id = s.id, s.expires > r.expires
      PROVE  r.expires + MaxLag > clock
    <2>1. \A q \in leases : q.account = s.account => q = r
        BY <1>1 DEF StoreInv, Exclusive
    <2>2. r.id \in Nat /\ lastId \in Nat /\ r.expires \in Nat /\ r.id <= lastId
        BY <1>1 DEF StoreInv, TypeOK, Lease, IdsDrawn
    <2>3. CASE s \in leases
        BY <1>1, <2>1, <2>2, <2>3
    <2>4. CASE s.id > lastId
        BY <1>1, <2>2, <2>4
    <2> QED
        BY <1>1, <2>1, <2>3, <2>4, RowsAfterStep
<1>2. StoreInv /\ [Next]_storeVars
        => [\A r \in leases, s \in leases' :
              (r.account = s.account /\ r.id = s.id /\ s.expires > r.expires)
                => r.expires + MaxLag > clock]_storeVars
    BY <1>1
<1> QED
    BY <1>2, StoreInvariant, PTL DEF Spec, RevivalIsBounded

-----------------------------------------------------------------------------
(* Quota rows.                                                             *)
Advances(a, l) ==
    HasRow(a, l) => /\ HasRow(a, l)'
                    /\ quota'[a][l].observed >= quota[a][l].observed

(* A write to one quota row leaves every other row as it was, and is not   *)
(* older than the row it replaces.                                         *)
LEMMA SetRowAdvances ==
    ASSUME StoreInv, NEW a \in Accounts, NEW l \in Limits, NEW row \in QuotaRow,
           SetRow(a, l, row),
           HasRow(a, l) => row.observed >= quota[a][l].observed,
           NEW b \in Accounts, NEW m \in Limits
    PROVE  Advances(b, m)
<1>1. quota \in [Accounts -> [Limits -> QuotaRow \cup {NoRow}]]
    BY DEF StoreInv, TypeOK, QuotaTypeOK
<1>2. row # NoRow
    BY QuotaAssumption
<1>3. CASE b = a /\ m = l
    <2>1. quota'[b][m] = row
        BY <1>1, <1>3 DEF SetRow
    <2> QED
        BY <1>2, <1>3, <2>1 DEF Advances, HasRow
<1>4. CASE ~(b = a /\ m = l)
    <2>1. quota'[b][m] = quota[b][m]
        BY <1>1, <1>4 DEF SetRow
    <2>2. HasRow(b, m) => quota[b][m].observed \in Int
        BY <1>1 DEF HasRow, QuotaRow
    <2> QED
        BY <2>1, <2>2 DEF Advances, HasRow
<1> QED
    BY <1>3, <1>4

(* A step that leaves the quota row of an account alone.                   *)
LEMMA SameRowAdvances ==
    ASSUME StoreInv, NEW a \in Accounts, NEW l \in Limits,
           quota'[a][l] = quota[a][l]
    PROVE  Advances(a, l)
<1>1. HasRow(a, l) => quota[a][l].observed \in Int
    BY DEF StoreInv, TypeOK, QuotaTypeOK, HasRow, QuotaRow
<1> QED
    BY <1>1 DEF Advances, HasRow

(* Observations, reservations and probe results only move rows forward.    *)
LEMMA QuotaNextAdvances ==
    ASSUME StoreInv, QuotaNext, NEW b \in Accounts, NEW m \in Limits
    PROVE  Advances(b, m)
<1>1. PICK a \in registered, l \in Limits :
        \/ \E ex \in BOOLEAN, obs \in 0 .. clock :
             UpsertQuota(a, l, ex, obs, obs + ProbeHold)
        \/ ReserveProbe(a, l, clock)
        \/ /\ HasRow(a, l)
           /\ \E obs \in 0 .. clock, until \in 0 .. clock + ProbeHold :
                ProbeSuccess(a, l, obs, until) \/ ProbeBlocked(a, l, obs, until)
    BY DEF QuotaNext
<1>2. /\ a \in Accounts
      /\ clock \in Nat
      /\ ProbeHold \in Nat
      /\ quota \in [Accounts -> [Limits -> QuotaRow \cup {NoRow}]]
    BY QuotaAssumption DEF StoreInv, TypeOK, QuotaTypeOK
<1>3. HasRow(a, l) => quota[a][l] \in QuotaRow
    BY <1>2 DEF HasRow
<1>4. CASE UNCHANGED quota
    BY <1>4, SameRowAdvances
<1>5. ASSUME NEW ex \in BOOLEAN, NEW obs \in 0 .. clock,
             UpsertQuota(a, l, ex, obs, obs + ProbeHold)
      PROVE  Advances(b, m)
    <2> DEFINE row == [exhausted |-> ex, observed |-> obs,
                       probeAfter |-> IF ex THEN obs + ProbeHold ELSE NoProbe]
    <2>1. row \in QuotaRow /\ row.observed = obs
        BY <1>2 DEF QuotaRow
    <2>2. CASE ~(HasRow(a, l) /\ obs < quota[a][l].observed)
        <3>1. HasRow(a, l) => row.observed >= quota[a][l].observed
            BY <1>2, <1>3, <2>1, <2>2 DEF QuotaRow
        <3>2. SetRow(a, l, row)
            BY <1>5, <2>2 DEF UpsertQuota
        <3> HIDE DEF row
        <3> QED
            BY <1>2, <2>1, <3>1, <3>2, SetRowAdvances
    <2> QED
        BY <1>4, <1>5, <2>2 DEF UpsertQuota
<1>6. ASSUME ReserveProbe(a, l, clock)
      PROVE  Advances(b, m)
    <2> DEFINE row == [quota[a][l] EXCEPT !.probeAfter = clock + ProbeHold]
    <2>1. CASE CanReserve(a, l, clock)
        <3>1. quota[a][l] \in QuotaRow
            BY <1>3, <2>1 DEF CanReserve
        <3>2. row \in QuotaRow /\ row.observed >= quota[a][l].observed
            BY <1>2, <3>1 DEF QuotaRow
        <3>3. SetRow(a, l, row)
            BY <1>6, <2>1 DEF ReserveProbe, SetRow
        <3> HIDE DEF row
        <3> QED
            BY <1>2, <3>2, <3>3, SetRowAdvances
    <2> QED
        BY <1>4, <1>6, <2>1 DEF ReserveProbe
<1>7. ASSUME NEW obs \in 0 .. clock, NEW until \in 0 .. clock + ProbeHold,
             ProbeSuccess(a, l, obs, until) \/ ProbeBlocked(a, l, obs, until)
      PROVE  Advances(b, m)
    <2>1. ASSUME NEW row \in QuotaRow, row.observed = obs,
                 ProbeApplies(a, l, obs, until), SetRow(a, l, row)
          PROVE  Advances(b, m)
        <3>1. HasRow(a, l) => row.observed >= quota[a][l].observed
            BY <1>2, <1>3, <2>1 DEF ProbeApplies, QuotaRow
        <3> QED
            BY <1>2, <2>1, <3>1, SetRowAdvances
    <2> DEFINE open == [exhausted |-> FALSE, observed |-> obs,
                        probeAfter |-> NoProbe]
               blocked == [exhausted |-> TRUE, observed |-> obs,
                           probeAfter |-> obs + ProbeHold]
    <2>2. /\ open \in QuotaRow /\ open.observed = obs
          /\ blocked \in QuotaRow /\ blocked.observed = obs
        BY <1>2 DEF QuotaRow
    <2>3. CASE ProbeApplies(a, l, obs, until)
        <3>1. SetRow(a, l, open) \/ SetRow(a, l, blocked)
            BY <1>7, <2>3 DEF ProbeSuccess, ProbeBlocked
        <3> HIDE DEF open, blocked
        <3> QED
            BY <2>1, <2>2, <2>3, <3>1
    <2> QED
        BY <1>4, <1>7, <2>3 DEF ProbeSuccess, ProbeBlocked
<1> QED
    BY <1>1, <1>5, <1>6, <1>7

(* Whichever order live observations, reservations and probe results       *)
(* commit in, a quota row never goes back to an older observation while    *)
(* its account is registered.                                              *)
THEOREM StoreObservations == Spec => ObservationsAdvance
<1>1. ASSUME StoreInv, StoreInv', [Next]_storeVars,
             NEW b \in registered', NEW m \in Limits
      PROVE  Advances(b, m)
    <2>1. b \in Accounts
        BY <1>1 DEF StoreInv, TypeOK
    <2>2. CASE Tick \/ RegistryNext \/ HealthNext \/ UNCHANGED storeVars
        BY <1>1, <2>1, <2>2, SameRowAdvances
           DEF Tick, RegistryNext, HealthNext, storeVars
    <2>3. CASE LeaseNext
        BY <1>1, <2>1, <2>3, SameRowAdvances DEF LeaseNext
    <2>4. CASE \E a \in Accounts : RemoveAccount(a)
        <3>1. PICK a \in Accounts : RemoveAccount(a)
            BY <2>4
        <3>2. quota'[b] = quota[b]
            BY <1>1, <2>1, <3>1 DEF RemoveAccount, StoreInv, TypeOK, QuotaTypeOK
        <3> QED
            BY <1>1, <2>1, <3>2, SameRowAdvances
    <2>5. CASE QuotaNext
        BY <1>1, <2>1, <2>5, QuotaNextAdvances
    <2> QED
        BY <1>1, <2>2, <2>3, <2>4, <2>5 DEF Next
<1>2. StoreInv /\ StoreInv' /\ [Next]_storeVars
        => [\A a \in registered', l \in Limits :
              HasRow(a, l) => /\ HasRow(a, l)'
                              /\ quota'[a][l].observed >= quota[a][l].observed]_storeVars
    BY <1>1 DEF Advances
<1> QED
    BY <1>2, StoreInvariant, PTL DEF Spec, ObservationsAdvance

-----------------------------------------------------------------------------
(* The store implements LeaseService.                                      *)
Tenancies(L) == {TenancyOf(r) : r \in L}

(* A renewal keeps account, holder, id and epoch of every row.             *)
LEMMA RenewalIsSilent ==
    ASSUME StoreInv, Renewed
    PROVE  /\ Tenancies(leases') = Tenancies(leases)
           /\ lastId' = lastId /\ lastEpoch' = lastEpoch
<1>1. PICK now \in Stamps, key \in issued : Renew(key, now)
    BY DEF Renewed
<1> DEFINE Moved(r) == [r EXCEPT !.expires = now + LeaseTtl]
           hit == {r \in leases : SameKey(r, key) /\ r.expires > now}
<1>2. leases' = (leases \ hit) \cup {Moved(r) : r \in hit}
      /\ lastId' = lastId /\ lastEpoch' = lastEpoch
    BY <1>1 DEF Renew
<1>3. \A r \in leases : TenancyOf(Moved(r)) = TenancyOf(r)
    BY DEF StoreInv, TypeOK, Lease, TenancyOf
<1>4. hit \subseteq leases
    OBVIOUS
<1> HIDE DEF Moved, hit
<1> QED
    BY <1>2, <1>3, <1>4 DEF Tenancies

LEMMA StoreStepIsServiceStep ==
    ASSUME StoreInv, [Next]_storeVars
    PROVE  [Service!Next]_<<Tenancies(leases), lastId, lastEpoch>>
<1>1. CASE leases' \in SUBSET leases /\ UNCHANGED <<lastId, lastEpoch>>
    BY <1>1 DEF Service!Next, Service!End, Tenancies
<1>2. CASE LeaseNext
    <2>1. CASE Trimmed
        BY <1>1, <2>1 DEF Trimmed
    <2>2. CASE Renewed
        BY <2>2, RenewalIsSilent
    <2>3. CASE Granted
        <3>1. PICK now \in Stamps, h \in Holders, p \in Pools, a \in Accounts :
                Grant(Unexpired(now), h, p, a, now)
            BY <2>3 DEF Granted
        <3> DEFINE n == NewLease(h, p, a, now)
                   kept == Tenancies(Unexpired(now))
        <3>2. /\ leases' = Unexpired(now) \cup {n} /\ lastId' = lastId + 1
              /\ lastEpoch' = [lastEpoch EXCEPT ![a] = @ + 1]
              /\ lastEpoch \in [Accounts -> Nat]
              /\ \A r \in Unexpired(now) : r.account # a /\ r.holder # h
            BY <3>1 DEF Grant, IndexAllows, StoreInv, TypeOK
        <3>3. TenancyOf(n) = [account |-> a, holder |-> h, token |-> lastId',
                              epoch |-> lastEpoch'[a]]
            BY <3>2 DEF NewLease, TenancyOf
        <3>4. \A t \in kept : t.account # a /\ t.holder # h
            BY <3>2 DEF Tenancies, TenancyOf
        <3>5. kept \in SUBSET Tenancies(leases)
            BY DEF Tenancies, Unexpired
        <3> HIDE DEF n
        <3>6. Tenancies(leases') = kept \cup {TenancyOf(n)}
            BY <3>2 DEF Tenancies
        <3> HIDE DEF kept
        <3>7. Service!HandOut(a, h)
            BY <3>2, <3>3, <3>4, <3>5, <3>6 DEF Service!HandOut, Tenancies
        <3> QED
            BY <3>7 DEF Service!Next
    <2> QED
        BY <1>2, <2>1, <2>2, <2>3, LeaseNextCases
<1>3. CASE Tick \/ HealthNext \/ QuotaNext \/ UNCHANGED storeVars
    BY <1>1, <1>3 DEF Tick, HealthNext, RecordHealth, QuotaNext, leaseVars, storeVars
<1>4. CASE RegistryNext
    BY <1>1, <1>4
       DEF RegistryNext, UpsertRegistryEntry, UpsertRegisteredAccount,
           SetEnabled, AssignPool, ImportLegacy, ReleaseAccountIf, leaseVars
<1>5. CASE \E a \in Accounts : RemoveAccount(a)
    <2>1. PICK a \in Accounts : RemoveAccount(a)
        BY <1>5
    <2>2. Tenancies(leases') = {t \in Tenancies(leases) : t.account # a}
        BY <2>1 DEF RemoveAccount, Tenancies, TenancyOf
    <2>3. Service!Forget(a)
        BY <2>1, <2>2 DEF RemoveAccount, Service!Forget, Tenancies
    <2> QED
        BY <2>3 DEF Service!Next
<1> QED
    BY <1>2, <1>3, <1>4, <1>5 DEF Next

(* Seen through account, holder, lease id and epoch, the store is a fenced *)
(* lock service.                                                           *)
THEOREM StoreImplementsService == Spec => ImplementsService
<1>1. StoreInit => Service!Init
    BY DEF StoreInit, Service!Init
<1>2. StoreInv /\ [Next]_storeVars
        => [Service!Next]_<<{TenancyOf(r) : r \in leases}, lastId, lastEpoch>>
    BY StoreStepIsServiceStep DEF Tenancies
<1> QED
    BY <1>1, <1>2, StoreInvariant, PTL DEF Spec, ImplementsService, Service!Spec
=============================================================================
