----------------------------- MODULE LeaseStore -----------------------------
(***************************************************************************)
(* The tables of the account pool that every local process shares: the     *)
(* registry, pool membership, runtime health, leases and (AccountQuota)    *)
(* quota rows.  Every action is one SQLite transaction: the store's write  *)
(* transactions are serialised by the database lock, so a transaction is   *)
(* atomic, but the `now` it works with was read before it waited for that  *)
(* lock and may lag behind the clock by up to MaxLag seconds.              *)
(*                                                                         *)
(* `leases` holds the rows with released_at IS NULL.  No statement changes *)
(* a released row again, and only MAX(lease_epoch) still reads it, so the  *)
(* released rows of an account are represented by lastEpoch.               *)
(***************************************************************************)
EXTENDS AccountQuota, FiniteSets

CONSTANTS Pools,        \* pool ids
          LegacyPool,   \* LEGACY_DEFAULT_POOL_ID
          NoPool,       \* the account is in no pool
          Holders,      \* holder_instance_ids, probe holders included
          HealthStates, \* health states the processes report
          NoRuntime,    \* the account has no account_runtime_state row
          LeaseTtl,     \* lease_ttl
          MaxLag,       \* bound: how far a transaction's `now` may lag
          MaxClock,     \* bound on the clock
          MaxLeases,    \* bound on the leases granted
          MaxSeq        \* bound on health event sequence numbers

RuntimeRow == [pool: Pools, health: HealthStates, seq: Nat]

ASSUME StoreAssumption ==
    /\ LegacyPool \in Pools
    /\ NoPool \notin Pools
    /\ NoRuntime \notin RuntimeRow
    /\ {"healthy", "unauthorized"} \subseteq HealthStates
    /\ LeaseTtl \in Nat \ {0}
    /\ MaxLag \in Nat /\ MaxClock \in Nat /\ MaxLeases \in Nat /\ MaxSeq \in Nat

VARIABLES registered, \* accounts with an account_registry row
          enabled,    \* of those, the ones with enabled = 1
          membership, \* account_pool_membership.pool_id, or NoPool
          runtime,    \* account_runtime_state
          leases,     \* account_leases with released_at IS NULL
          lastEpoch,  \* MAX(lease_epoch) over the account's rows, 0 if none
          lastId,     \* lease ids are fresh UUIDs; here, a counter
          issued      \* key and pool of every lease ever returned: the copies
                      \* processes keep, and may act on at any later time

storeVars == <<clock, quota, registered, enabled, membership, runtime,
               leases, lastEpoch, lastId, issued>>

registryVars == <<registered, enabled, membership, runtime>>
leaseVars    == <<leases, lastEpoch, lastId, issued>>

Lease == [id: Nat, account: Accounts, pool: Pools, holder: Holders,
          epoch: Nat, expires: Nat]

LeaseKey == [id: Nat, account: Accounts, pool: Pools, epoch: Nat]

TypeOK ==
    /\ QuotaTypeOK
    /\ registered \in SUBSET Accounts
    /\ enabled \in SUBSET registered
    /\ membership \in [Accounts -> Pools \cup {NoPool}]
    /\ runtime \in [Accounts -> RuntimeRow \cup {NoRuntime}]
    /\ leases \in SUBSET Lease
    /\ lastEpoch \in [Accounts -> Nat]
    /\ lastId \in Nat
    /\ issued \in SUBSET LeaseKey

(* A fresh database: init ran the migrations and nothing is registered.    *)
StoreInit ==
    /\ clock = 0
    /\ quota = [a \in Accounts |-> NoQuota]
    /\ registered = {}
    /\ enabled = {}
    /\ membership = [a \in Accounts |-> NoPool]
    /\ runtime = [a \in Accounts |-> NoRuntime]
    /\ leases = {}
    /\ lastEpoch = [a \in Accounts |-> 0]
    /\ lastId = 0
    /\ issued = {}

-----------------------------------------------------------------------------
(* Leases.                                                                 *)

(* The values of Utc::now() a transaction that commits now may have read.  *)
Stamps == {t \in 0 .. clock : clock <= t + MaxLag}

(* Mutant: the sweep releases a lease one second early.                    *)
UnexpiredEarly(now) == {r \in leases : r.expires > now + 1}

(* release_expired_account_leases: what is left unreleased.                *)
Unexpired(now) == {r \in leases : r.expires > now}

(* load_active_holder_lease, on the table L.                               *)
HolderLeases(L, h, now) == {r \in L : r.holder = h /\ r.expires > now}

(* The WHERE clause of insert_requested_lease and of                       *)
(* insert_next_eligible_lease, but for the quota filter.                   *)
Eligible(L, p, a) ==
    /\ a \in registered
    /\ membership[a] = p
    /\ a \in enabled
    /\ runtime[a] # NoRuntime => runtime[a].health # "unauthorized"
    /\ \A r \in L : r.account # a

(* Mutant: the holder index of migration 0026 is missing.                  *)
IndexAllowsAnyHolder(L, a, h) == \A r \in L : r.account # a

(* account_leases_active_account_idx and account_leases_active_holder_idx: *)
(* a violation is the contention error of the INSERT.                      *)
IndexAllows(L, a, h) == \A r \in L : r.account # a /\ r.holder # h

(* Mutant: the epoch is that of the account's latest row.                  *)
NewLeaseSameEpoch(h, p, a, now) ==
    [id |-> lastId + 1, account |-> a, pool |-> p, holder |-> h,
     epoch |-> IF lastEpoch[a] = 0 THEN 1 ELSE lastEpoch[a],
     expires |-> now + LeaseTtl]

NewLease(h, p, a, now) ==
    [id |-> lastId + 1, account |-> a, pool |-> p, holder |-> h,
     epoch |-> lastEpoch[a] + 1, expires |-> now + LeaseTtl]

KeyOf(r) == [id |-> r.id, account |-> r.account, pool |-> r.pool,
             epoch |-> r.epoch]

(* The INSERT ... SELECT, committed together with the expiry sweep.        *)
Grant(L, h, p, a, now) ==
    /\ lastId < MaxLeases
    /\ IndexAllows(L, a, h)
    /\ leases' = L \cup {NewLease(h, p, a, now)}
    /\ lastEpoch' = [lastEpoch EXCEPT ![a] = @ + 1]
    /\ lastId' = lastId + 1
    /\ issued' = issued \cup {KeyOf(NewLease(h, p, a, now))}

(* A holder that still has an unexpired lease gets that one, whatever      *)
(* account it asked for; only the expiry sweep is committed.               *)
ReturnHeldLease(h, now) ==
    /\ HolderLeases(Unexpired(now), h, now) # {}
    /\ leases' = Unexpired(now)
    /\ UNCHANGED <<lastEpoch, lastId, issued>>

(* NoEligibleAccount drops the transaction: the sweep is rolled back too.  *)
Refuse == UNCHANGED leaseVars

AcquireExcluding(h, p, excluded, f, now) ==
    LET live == Unexpired(now)
        open == {a \in Accounts \ excluded :
                    Eligible(live, p, a) /\ ~QuotaExhausted(a, f)}
    IN  \/ /\ \A r \in HolderLeases(live, h, now) : r.account \notin excluded
           /\ ReturnHeldLease(h, now)
        \/ /\ \E r \in HolderLeases(live, h, now) : r.account \in excluded
           /\ leases' = live
           /\ UNCHANGED <<lastEpoch, lastId, issued>>
        \/ /\ HolderLeases(live, h, now) = {}
           /\ \E a \in open : Grant(live, h, p, a, now)
        \/ /\ HolderLeases(live, h, now) = {}
           /\ open = {}
           /\ Refuse

AcquirePreferred(h, p, a, f, now) ==
    LET live == Unexpired(now)
        open == Eligible(live, p, a) /\ ~QuotaExhausted(a, f)
    IN  \/ ReturnHeldLease(h, now)
        \/ /\ HolderLeases(live, h, now) = {}
           /\ open
           /\ Grant(live, h, p, a, now)
        \/ /\ HolderLeases(live, h, now) = {}
           /\ ~open
           /\ Refuse

(* A probe lease asks for the reserved quota row instead; the lease the    *)
(* holder may already have is not returned, it makes the INSERT fail.      *)
AcquireProbe(h, p, a, l, until, now) ==
    LET live == Unexpired(now)
        open == /\ Eligible(live, p, a)
                /\ HasRow(a, l)
                /\ quota[a][l].exhausted
                /\ quota[a][l].probeAfter = until
    IN  \/ /\ open
           /\ Grant(live, h, p, a, now)
        \/ /\ ~open \/ ~IndexAllows(live, a, h)
           /\ Refuse

(* lease_id, account_id and lease_epoch.                                   *)
SameKey(r, key) ==
    r.id = key.id /\ r.account = key.account /\ r.epoch = key.epoch

(* Mutant: the row is found by its key alone.                              *)
RenewAnyAge(key, now) ==
    LET hit == {r \in leases : SameKey(r, key)}
    IN  /\ leases' = (leases \ hit)
                         \cup {[r EXCEPT !.expires = now + LeaseTtl] : r \in hit}
        /\ UNCHANGED <<lastEpoch, lastId, issued>>

Renew(key, now) ==
    LET hit == {r \in leases : SameKey(r, key) /\ r.expires > now}
    IN  /\ leases' = (leases \ hit)
                         \cup {[r EXCEPT !.expires = now + LeaseTtl] : r \in hit}
        /\ UNCHANGED <<lastEpoch, lastId, issued>>

Release(key) ==
    /\ leases' = {r \in leases : ~SameKey(r, key)}
    /\ UNCHANGED <<lastEpoch, lastId, issued>>

-----------------------------------------------------------------------------
(* The registry.                                                           *)

(* release_unreleased_account_leases, under the caller's condition.        *)
ReleaseAccountIf(cond, a) ==
    /\ leases' = {r \in leases : ~(cond /\ r.account = a)}
    /\ UNCHANGED <<lastEpoch, lastId, issued>>

(* What an upsert leaves of the runtime row: a health state that           *)
(* contradicts the new `healthy` flag, or no pool, deletes it.             *)
RuntimeAfterUpsert(a, p, healthy) ==
    IF \/ runtime[a] = NoRuntime
       \/ p = NoPool
       \/ healthy # (runtime[a].health = "healthy")
    THEN NoRuntime
    ELSE [runtime[a] EXCEPT !.pool = p]

WriteRegistry(a, p, on, healthy) ==
    /\ registered' = registered \cup {a}
    /\ enabled' = IF on THEN enabled \cup {a} ELSE enabled \ {a}
    /\ membership' = [membership EXCEPT ![a] = p]
    /\ runtime' = [runtime EXCEPT ![a] = RuntimeAfterUpsert(a, p, healthy)]

UpsertRegistryEntry(a, p, on, healthy) ==
    /\ WriteRegistry(a, p, on, healthy)
    /\ ReleaseAccountIf(\/ membership[a] \notin {NoPool, p}
                        \/ ~on \/ ~healthy, a)

UpsertRegisteredAccount(a, p, on, healthy) ==
    /\ WriteRegistry(a, p, on, healthy)
    /\ ReleaseAccountIf(\/ membership[a] # p \/ p = NoPool
                        \/ ~on \/ ~healthy, a)

SetEnabled(a, on) ==
    /\ a \in registered
    /\ enabled' = IF on THEN enabled \cup {a} ELSE enabled \ {a}
    /\ ReleaseAccountIf(~on, a)
    /\ UNCHANGED <<registered, membership, runtime>>

(* Mutant: moving an account leaves its lease running.                     *)
AssignPoolKeepsLease(a, p) ==
    /\ a \in registered
    /\ membership' = [membership EXCEPT ![a] = p]
    /\ runtime' = [runtime EXCEPT ![a] =
                      IF @ = NoRuntime THEN @ ELSE [@ EXCEPT !.pool = p]]
    /\ UNCHANGED <<registered, enabled, leaseVars>>

(* Moving an account keeps its runtime row in step and drops its lease.    *)
AssignPool(a, p) ==
    /\ a \in registered
    /\ membership' = [membership EXCEPT ![a] = p]
    /\ runtime' = [runtime EXCEPT ![a] =
                      IF @ = NoRuntime THEN @ ELSE [@ EXCEPT !.pool = p]]
    /\ ReleaseAccountIf(TRUE, a)
    /\ UNCHANGED <<registered, enabled>>

(* ON DELETE CASCADE: the account's rows go in every table, the released   *)
(* leases that carried its epoch included.                                 *)
RemoveAccount(a) ==
    /\ a \in registered
    /\ registered' = registered \ {a}
    /\ enabled' = enabled \ {a}
    /\ membership' = [membership EXCEPT ![a] = NoPool]
    /\ runtime' = [runtime EXCEPT ![a] = NoRuntime]
    /\ quota' = [quota EXCEPT ![a] = NoQuota]
    /\ leases' = {r \in leases : r.account # a}
    /\ lastEpoch' = [lastEpoch EXCEPT ![a] = 0]
    /\ UNCHANGED <<clock, lastId, issued>>

(* The legacy login becomes a registered account of its present pool, or   *)
(* of the legacy pool.  An existing registry row is left as it is.         *)
ImportLegacy(a) ==
    /\ registered' = registered \cup {a}
    /\ enabled' = IF a \in registered THEN enabled ELSE enabled \cup {a}
    /\ membership' = [membership EXCEPT ![a] =
                         IF @ = NoPool THEN LegacyPool ELSE @]
    /\ UNCHANGED <<runtime, leaseVars>>

(* The upsert of the runtime row: only a strictly greater sequence wins.   *)
RuntimeAfterEvent(a, p, health, seq) ==
    IF runtime[a] # NoRuntime /\ seq <= runtime[a].seq
    THEN runtime[a]
    ELSE [pool |-> p, health |-> health, seq |-> seq]

(* An account in a pool is then moved to the runtime row's pool, applied   *)
(* or not, and its leases are left alone.                                  *)
RecordHealth(a, p, health, seq) ==
    /\ a \in registered
    /\ runtime' = [runtime EXCEPT ![a] = RuntimeAfterEvent(a, p, health, seq)]
    /\ membership' = [membership EXCEPT ![a] =
                         IF @ = NoPool THEN @
                         ELSE RuntimeAfterEvent(a, p, health, seq).pool]
    /\ UNCHANGED <<registered, enabled, leaseVars>>

-----------------------------------------------------------------------------
Tick ==
    /\ clock < MaxClock
    /\ clock' = clock + 1
    /\ UNCHANGED <<quota, registryVars, leaseVars>>

LeaseNext ==
    /\ UNCHANGED <<clock, quota, registryVars>>
    /\ \E now \in Stamps :
        \/ \E h \in Holders, p \in Pools, a \in Accounts,
              f \in Limits \cup {Compat} :
             \/ AcquirePreferred(h, p, a, f, now)
             \/ AcquireExcluding(h, p, {}, f, now)
             \/ AcquireExcluding(h, p, {a}, f, now)
        \/ \E h \in Holders, p \in Pools, a \in Accounts, l \in Limits,
              until \in 0 .. clock + ProbeHold :
             AcquireProbe(h, p, a, l, until, now)
        \/ \E key \in issued : Renew(key, now) \/ Release(key)

RegistryNext ==
    /\ UNCHANGED <<clock, quota>>
    /\ \E a \in Accounts :
        \/ \E p \in Pools, on, healthy \in BOOLEAN :
             UpsertRegistryEntry(a, p, on, healthy)
        \/ \E p \in Pools \cup {NoPool}, on, healthy \in BOOLEAN :
             UpsertRegisteredAccount(a, p, on, healthy)
        \/ \E on \in BOOLEAN : SetEnabled(a, on)
        \/ \E p \in Pools : AssignPool(a, p)
        \/ ImportLegacy(a)

HealthNext ==
    /\ UNCHANGED <<clock, quota>>
    /\ \E key \in issued, health \in HealthStates, seq \in 1 .. MaxSeq :
          RecordHealth(key.account, key.pool, health, seq)

QuotaNext ==
    /\ UNCHANGED <<clock, registryVars, leaseVars>>
    /\ \E a \in registered, l \in Limits :
        \/ \E ex \in BOOLEAN, obs \in 0 .. clock :
             UpsertQuota(a, l, ex, obs, obs + ProbeHold)
        \/ ReserveProbe(a, l, clock)
        \/ /\ HasRow(a, l)
           /\ \E obs \in 0 .. clock, until \in 0 .. clock + ProbeHold :
                ProbeSuccess(a, l, obs, until) \/ ProbeBlocked(a, l, obs, until)

Next ==
    \/ Tick
    \/ LeaseNext
    \/ RegistryNext
    \/ \E a \in Accounts : RemoveAccount(a)
    \/ HealthNext
    \/ QuotaNext

Spec == StoreInit /\ [][Next]_storeVars

-----------------------------------------------------------------------------
(* What the store promises.                                                *)

(* Whatever order operators disable, remove, move and health-report in, an *)
(* unreleased lease is one on a registered, enabled account of the lease's *)
(* own pool.  Only a health report of an earlier lease of the account can  *)
(* have moved the account away under it, and then to the pool of that      *)
(* earlier lease (record_account_health_event): no operator's change does. *)
LeasedAccountIsUsable ==
    /\ TypeOK
    /\ \A r \in leases :
        /\ r.account \in registered
        /\ r.account \in enabled
        /\ \/ membership[r.account] = r.pool
           \/ \E key \in issued : /\ key.account = r.account
                                  /\ key.id < r.id
                                  /\ key.pool = membership[r.account]

(* No takeover: a step that leaves an account with another lease than it   *)
(* had replaces only one that had expired by the wall clock, even though   *)
(* the transaction's own `now` lags behind it.                             *)
NoTakeover ==
    [][\A r \in leases, s \in leases' :
          (r.account = s.account /\ r.id # s.id) => r.expires <= clock]_storeVars

(* The row of a limit family never goes back to an older observation,      *)
(* whichever order live observations and probe results arrive in; only     *)
(* deleting the account forgets it.                                        *)
ObservationsAdvance ==
    [][\A a \in registered', l \in Limits :
          HasRow(a, l) => /\ HasRow(a, l)'
                          /\ quota'[a][l].observed >= quota[a][l].observed]_storeVars

(* A lease that has been expired for longer than a transaction waits for   *)
(* the database lock is dead: no late renewal or heartbeat extends it      *)
(* (renew_account_lease).                                                  *)
RevivalIsBounded ==
    [][\A r \in leases, s \in leases' :
          (r.account = s.account /\ r.id = s.id /\ s.expires > r.expires)
            => r.expires + MaxLag > clock]_storeVars

-----------------------------------------------------------------------------
(* The tenancies the unreleased rows stand for.                            *)
TenancyOf(r) == [account |-> r.account, holder |-> r.holder, token |-> r.id,
                 epoch |-> r.epoch]

Service == INSTANCE LeaseService WITH held <- {TenancyOf(r) : r \in leases},
                                      last <- lastId,
                                      epochs <- lastEpoch

(* The store is a fenced lock service: seen through account, holder, lease *)
(* id and epoch, every transaction ends tenancies, hands out one with the  *)
(* next id and the next epoch of its account, or forgets an account that   *)
(* is deleted; renewals, health events, registry changes and quota updates *)
(* show nothing else, and no late call brings a tenancy back               *)
(* (account_leases).                                                       *)
ImplementsService == Service!Spec
=============================================================================
