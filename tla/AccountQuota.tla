---------------------------- MODULE AccountQuota ----------------------------
(***************************************************************************)
(* The table account_quota_state of the shared SQLite database: what the   *)
(* last observation said about an account's usage windows, one row per     *)
(* account and limit family.  Several processes write it: live rate-limit  *)
(* observations (upsert_account_quota_state) and quota probes, which first *)
(* reserve the right to probe by moving next_probe_after forward and then  *)
(* report their result against that reservation.                           *)
(*                                                                         *)
(* A row keeps the three columns the writers' WHERE clauses and the        *)
(* selector read: whether some window is exhausted, when the observation   *)
(* was made and next_probe_after.  The used-percentage, reset and backoff  *)
(* columns only rank candidates and are left out.                          *)
(***************************************************************************)
EXTENDS Integers

CONSTANTS Accounts,  \* account ids
          Limits,    \* limit families (limit_id)
          Compat,    \* the family every other one falls back to, "codex"
          NoRow,     \* there is no row for this account and family
          ProbeHold  \* length of a probe reservation and of its backoff

NoProbe == -1  \* next_probe_after IS NULL

QuotaRow == [exhausted: BOOLEAN, observed: Nat, probeAfter: Nat \cup {NoProbe}]

ASSUME QuotaAssumption ==
    /\ NoRow \notin QuotaRow
    /\ ProbeHold \in Nat \ {0}
    /\ Limits = {} \/ Compat \in Limits

VARIABLES clock,  \* the wall clock, in the seconds the columns store
          quota   \* quota[a][l]: the row of account a and family l

QuotaTypeOK ==
    /\ clock \in Nat
    /\ quota \in [Accounts -> [Limits -> QuotaRow \cup {NoRow}]]

NoQuota == [l \in Limits |-> NoRow]

HasRow(a, l) == quota[a][l] # NoRow

(* The row a selection for family f reads: its own, else the fallback's.   *)
SelectionRow(a, f) ==
    IF HasRow(a, f) \/ f = Compat THEN quota[a][f] ELSE quota[a][Compat]

(* With no family there is no row, and nothing is exhausted.               *)
QuotaExhausted(a, f) ==
    /\ f \in Limits
    /\ SelectionRow(a, f) # NoRow
    /\ SelectionRow(a, f).exhausted

SetRow(a, l, row) == quota' = [quota EXCEPT ![a][l] = row]

-----------------------------------------------------------------------------
(* A live observation made at obs.  An older one than the row's is dropped *)
(* by the upsert's WHERE clause; an equal one is applied.                  *)
UpsertQuota(a, l, ex, obs, probe) ==
    IF HasRow(a, l) /\ obs < quota[a][l].observed
    THEN UNCHANGED quota
    ELSE SetRow(a, l, [exhausted  |-> ex, observed |-> obs,
                       probeAfter |-> IF ex THEN probe ELSE NoProbe])

(* reserve_account_quota_probe: the compare-and-set on next_probe_after.   *)
CanReserve(a, l, now) ==
    /\ HasRow(a, l)
    /\ quota[a][l].exhausted
    /\ quota[a][l].probeAfter <= now

ReserveProbe(a, l, now) ==
    IF CanReserve(a, l, now)
    THEN quota' = [quota EXCEPT ![a][l].probeAfter = now + ProbeHold]
    ELSE UNCHANGED quota

(* Mutant: a probe result is matched by its reservation alone.             *)
ProbeAppliesAnyAge(a, l, obs, until) ==
    /\ HasRow(a, l)
    /\ quota[a][l].probeAfter = until

(* The WHERE clause every probe result shares: no newer observation, and   *)
(* the reservation it was made under is still the row's.                   *)
ProbeApplies(a, l, obs, until) ==
    /\ HasRow(a, l)
    /\ quota[a][l].observed <= obs
    /\ quota[a][l].probeAfter = until

ProbeSuccess(a, l, obs, until) ==
    IF ProbeApplies(a, l, obs, until)
    THEN SetRow(a, l, [exhausted |-> FALSE, observed |-> obs,
                       probeAfter |-> NoProbe])
    ELSE UNCHANGED quota

(* Still blocked and ambiguous differ in the backoff columns only: both    *)
(* leave the row exhausted and move next_probe_after on.                   *)
ProbeBlocked(a, l, obs, until) ==
    IF ProbeApplies(a, l, obs, until)
    THEN SetRow(a, l, [exhausted |-> TRUE, observed |-> obs,
                       probeAfter |-> obs + ProbeHold])
    ELSE UNCHANGED quota
=============================================================================
