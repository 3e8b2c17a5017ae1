---------------------------- MODULE PoolManager -----------------------------
(***************************************************************************)
(* The account pool managers of several processes against the lease        *)
(* service they share, and the directory that holds the credentials and    *)
(* the lease_epoch marker file of each account.  A turn is given an auth   *)
(* session bound to the epoch of its lease; the session hands out          *)
(* credentials only while the marker holds that epoch.  Transactions of    *)
(* the store and changes of the directory are separate steps, so other     *)
(* processes act in between, and operators who delete an account, register *)
(* it again or fail to.                                                    *)
(*                                                                         *)
(* The store is LeaseService, which LeaseStore implements: a lease may end *)
(* at any moment, and what a selection finds is left open.  The token of a *)
(* tenancy stands for lease_id.  The marker holds only the epoch, and the  *)
(* epochs of an account start over once its row was deleted.               *)
(***************************************************************************)
EXTENDS Naturals

CONSTANTS Accounts,
          Processes,  \* holder_instance_id of each process
          None,       \* no lease
          MaxLeases,  \* bound on the leases handed out
          MaxFaults   \* bound on storage failures, dropped futures and
                      \* operators' commands together

HolderIds == [process: Processes, kind: {"turns", "probe"}]
Lease     == [account: Accounts, holder: HolderIds, token: Nat, epoch: Nat]

(* The credentials directory: whether it has credentials, the epoch in the *)
(* marker file (0 without a file) and, as bookkeeping, the token of the    *)
(* lease the marker was written for.                                       *)
Directory == [stored: BOOLEAN, epoch: Nat, token: Nat]
Missing   == [stored |-> FALSE, epoch |-> 0, token |-> 0]
Fresh     == [stored |-> TRUE, epoch |-> 0, token |-> 0]

ASSUME ManagerAssumption ==
    /\ None \notin Lease
    /\ MaxLeases \in Nat /\ MaxFaults \in Nat

VARIABLES
    held,       \* account_leases rows that are not released
    last,       \* the last token the store handed out
    epochs,     \* per account, MAX(lease_epoch) over its rows
    registered, \* accounts with an account_registry row
    dir,        \* the credentials directories
    backup,     \* what a registration under way has moved out of the way
    command,    \* where the operator's command about an account is
    since,      \* bookkeeping: `last` when the account's row was deleted, or
                \* an old directory of it was put back, for the last time
    active,     \* manager.active_lease
    sessions,   \* auth sessions of the turns in flight
    pc,         \* what a process is doing with its manager's mutex held
    got,        \* the lease a process acquired and has not adopted yet
    faults      \* failures and operators' commands so far

store     == <<held, last, epochs>>
accounts  == <<registered, dir, backup, command, since>>
operators == <<registered, backup, command, since>>
managers  == <<active, sessions, pc, got>>
vars      == <<store, accounts, managers, faults>>

Service == INSTANCE LeaseService WITH Holders <- HolderIds

Steps    == {"idle", "giveUp", "write", "adopt", "probe", "probeRelease",
             "probeClear"}
Commands == {"none", "delete", "add", "installed"}

TypeOK ==
    /\ held \in SUBSET Lease /\ last \in Nat /\ epochs \in [Accounts -> Nat]
    /\ registered \in SUBSET Accounts
    /\ dir \in [Accounts -> Directory] /\ backup \in [Accounts -> Directory]
    /\ command \in [Accounts -> Commands]
    /\ since \in [Accounts -> Nat]
    /\ active \in [Processes -> Lease \cup {None}]
    /\ sessions \in [Processes -> SUBSET Lease]
    /\ pc \in [Processes -> Steps]
    /\ got \in [Processes -> Lease \cup {None}]
    /\ faults \in Nat

(* The processes start on accounts that were registered before.            *)
Init ==
    /\ Service!Init
    /\ registered = Accounts
    /\ dir = [a \in Accounts |-> Fresh]
    /\ backup = [a \in Accounts |-> Missing]
    /\ command = [a \in Accounts |-> "none"]
    /\ since = [a \in Accounts |-> 0]
    /\ active = [p \in Processes |-> None]
    /\ sessions = [p \in Processes |-> {}]
    /\ pc = [p \in Processes |-> "idle"]
    /\ got = [p \in Processes |-> None]
    /\ faults = 0

Goto(p, step) == pc' = [pc EXCEPT ![p] = step]

(* write_lease_epoch_marker makes the directory if it is not there.        *)
Mark(t) ==
    dir' = [dir EXCEPT ![t.account] = [stored |-> @.stored, epoch |-> t.epoch,
                                       token |-> t.token]]

(* The lease t is older than what is known of its account by now.          *)
Outdated(t) == t.token <= since[t.account]

(* clear_auth_marker looks the account up and then removes the file        *)
(* whatever it holds.  An account that was deleted since may have been     *)
(* missing when it looked; the file is then left.                          *)
Unmark(t) ==
    \/ dir' = [dir EXCEPT ![t.account] = [stored |-> @.stored, epoch |-> 0,
                                          token |-> 0]]
    \/ /\ Outdated(t)
       /\ UNCHANGED dir

(* load_bound_auth accepts the session.                                    *)
Current(s) == dir[s.account].stored /\ dir[s.account].epoch = s.epoch

TurnHolder(p)  == [process |-> p, kind |-> "turns"]
ProbeHolder(p) == [process |-> p, kind |-> "probe"]

(* Mutant: the store looks the existing lease up by the holder's kind.     *)
LeasesOfAnyProcess(h) == {t \in held : t.holder.kind = h.kind}

(* load_active_holder_lease.                                               *)
LeasesOf(h) == {t \in held : t.holder = h}

-----------------------------------------------------------------------------
(* The lease of the turns.                                                 *)

(* prepare_turn with an active lease that was renewed, or that a soft      *)
(* rotation without a better candidate keeps: that one is not renewed.     *)
StartTurn(p) ==
    /\ pc[p] = "idle" /\ active[p] # None
    /\ sessions' = [sessions EXCEPT ![p] = @ \cup {active[p]}]
    /\ UNCHANGED <<store, accounts, active, pc, got, faults>>

EndTurn(p) ==
    /\ \E s \in sessions[p] : sessions' = [sessions EXCEPT ![p] = @ \ {s}]
    /\ UNCHANGED <<store, accounts, active, pc, got, faults>>

(* Mutant: a renewal that finds no row passes for a success.               *)
RenewIgnoresMissing(p) ==
    /\ pc[p] = "idle" /\ active[p] # None /\ active[p] \notin held
    /\ UNCHANGED vars

(* A heartbeat, or the renewal of prepare_turn, finds the lease missing.   *)
RenewMissing(p) ==
    /\ pc[p] = "idle" /\ active[p] # None /\ active[p] \notin held
    /\ Goto(p, "giveUp")
    /\ UNCHANGED <<store, accounts, active, sessions, got, faults>>

(* release_active_lease, for a rotation or at shutdown: first the row, if  *)
(* it is still there, then the marker.                                     *)
ReleaseActive(p) ==
    /\ pc[p] = "idle" /\ active[p] # None
    /\ held' = held \ {active[p]}
    /\ Goto(p, "giveUp")
    /\ UNCHANGED <<last, epochs, accounts, active, sessions, got, faults>>

(* Mutant: the lease is dropped and its marker left behind.                *)
GiveUpKeepsMarker(p) ==
    /\ pc[p] = "giveUp"
    /\ active' = [active EXCEPT ![p] = None]
    /\ Goto(p, "idle")
    /\ UNCHANGED <<store, accounts, sessions, got, faults>>

GiveUp(p) ==
    /\ pc[p] = "giveUp"
    /\ Unmark(active[p])
    /\ active' = [active EXCEPT ![p] = None]
    /\ Goto(p, "idle")
    /\ UNCHANGED <<store, operators, sessions, got, faults>>

(* The INSERT, whose row is what the process works with.                   *)
HandOutTo(p, a, h) ==
    /\ Service!HandOut(a, h)
    /\ got' = [got EXCEPT ![p] = [account |-> a, holder |-> h, token |-> last',
                                  epoch |-> epochs'[a]]]

(* acquire_selected_lease and acquire_selected_rotation_lease ask for a    *)
(* preferred account: the store returns the lease the holder already has,  *)
(* or a new one.                                                           *)
Acquire(p) ==
    /\ pc[p] = "idle" /\ active[p] = None
    /\ IF LeasesOf(TurnHolder(p)) # {}
       THEN /\ \E t \in LeasesOf(TurnHolder(p)) : got' = [got EXCEPT ![p] = t]
            /\ UNCHANGED store
       ELSE /\ last < MaxLeases
            /\ \E a \in registered : HandOutTo(p, a, TurnHolder(p))
    /\ Goto(p, "write")
    /\ UNCHANGED <<accounts, active, sessions, faults>>

(* create_auth_session looks the account up and then writes the marker,    *)
(* without looking at the marker or at the account again.                  *)
WriteMarker(p) ==
    /\ pc[p] = "write"
    /\ Mark(got[p])
    /\ Goto(p, "adopt")
    /\ UNCHANGED <<store, operators, active, sessions, got, faults>>

(* The account was deleted since it was acquired, and is not found.        *)
AccountMissing(p) ==
    /\ pc[p] = "write" /\ Outdated(got[p])
    /\ got' = [got EXCEPT ![p] = None]
    /\ Goto(p, "idle")
    /\ UNCHANGED <<store, accounts, active, sessions, faults>>

(* adopt_active_lease; the turn gets its selection.                        *)
Adopt(p) ==
    /\ pc[p] = "adopt"
    /\ active' = [active EXCEPT ![p] = got[p]]
    /\ sessions' = [sessions EXCEPT ![p] = @ \cup {got[p]}]
    /\ got' = [got EXCEPT ![p] = None]
    /\ Goto(p, "idle")
    /\ UNCHANGED <<store, accounts, faults>>

-----------------------------------------------------------------------------
(* The verification lease of a quota probe, under a holder id of its own.  *)

(* A holder that still has a verification lease gets no other.             *)
ProbeAcquire(p) ==
    /\ pc[p] = "idle" /\ last < MaxLeases
    /\ LeasesOf(ProbeHolder(p)) = {}
    /\ \E a \in registered : HandOutTo(p, a, ProbeHolder(p))
    /\ Goto(p, "probe")
    /\ UNCHANGED <<accounts, active, sessions, faults>>

(* refresh_quota_probe writes the marker and checks it, or fails before;   *)
(* either way the lease is released next.                                  *)
ProbeRefresh(p) ==
    /\ pc[p] = "probe"
    /\ Mark(got[p]) \/ UNCHANGED dir
    /\ Goto(p, "probeRelease")
    /\ UNCHANGED <<store, operators, active, sessions, got, faults>>

(* release_lease_record.                                                   *)
ProbeRelease(p) ==
    /\ pc[p] = "probeRelease"
    /\ held' = held \ {got[p]}
    /\ Goto(p, "probeClear")
    /\ UNCHANGED <<last, epochs, accounts, active, sessions, got, faults>>

ProbeClear(p) ==
    /\ pc[p] = "probeClear"
    /\ Unmark(got[p])
    /\ got' = [got EXCEPT ![p] = None]
    /\ Goto(p, "idle")
    /\ UNCHANGED <<store, operators, active, sessions, faults>>

-----------------------------------------------------------------------------
(* The storage fails or the caller drops the future at an await.           *)
Abandon(p) ==
    /\ pc[p] # "idle" /\ faults < MaxFaults
    /\ faults' = faults + 1
    /\ got' = [got EXCEPT ![p] = None]
    /\ Goto(p, "idle")
    /\ UNCHANGED <<store, accounts, active, sessions>>

(* Expiry, an operator, or the account's new state ends a lease.           *)
LoseLease ==
    /\ \E t \in held : held' = held \ {t}
    /\ UNCHANGED <<last, epochs, accounts, managers, faults>>

-----------------------------------------------------------------------------
(* The operators' commands, one at a time for each account; one that ends  *)
(* halfway is followed by any other.                                       *)
BeginCommand(a, step) ==
    /\ faults < MaxFaults
    /\ faults' = faults + 1
    /\ command' = [command EXCEPT ![a] = step]

Continue(a, from, to) ==
    /\ command[a] = from
    /\ command' = [command EXCEPT ![a] = to]
    /\ UNCHANGED <<faults, managers>>

(* delete_registered_account removes the directory, then the row, whose    *)
(* deletion takes the account's leases and its highest epoch with it.      *)
DeleteAuth(a) ==
    /\ a \in registered
    /\ BeginCommand(a, "delete")
    /\ dir' = [dir EXCEPT ![a] = Missing]
    /\ UNCHANGED <<store, registered, backup, since, managers>>

DeleteRow(a) ==
    /\ Continue(a, "delete", "none")
    /\ Service!Forget(a)
    /\ registered' = registered \ {a}
    /\ since' = [since EXCEPT ![a] = last]
    /\ UNCHANGED <<dir, backup>>

(* register_account moves the directory that is there out of the way, and  *)
(* the one with the new credentials into its place.                        *)
Backup(a) ==
    /\ BeginCommand(a, "add")
    /\ backup' = [backup EXCEPT ![a] = dir[a]]
    /\ dir' = [dir EXCEPT ![a] = Missing]
    /\ UNCHANGED <<store, registered, since, managers>>

(* A directory that a late write_lease_epoch_marker made is in the way.    *)
Install(a) ==
    /\ Continue(a, "add", "installed")
    /\ dir[a] = Missing
    /\ dir' = [dir EXCEPT ![a] = Fresh]
    /\ UNCHANGED <<store, registered, backup, since>>

(* The backup is deleted once the row is there.                            *)
Register(a) ==
    /\ Continue(a, "installed", "none")
    /\ registered' = registered \cup {a}
    /\ backup' = [backup EXCEPT ![a] = Missing]
    /\ UNCHANGED <<store, dir, since>>

(* restore_pooled_registration_auth_namespace: the old directory is put    *)
(* back with the marker it had, because the installation, the row, or      *)
(* reading the row back failed.                                            *)
Restore(a) ==
    /\ \/ Continue(a, "add", "none") /\ UNCHANGED registered
       \/ /\ Continue(a, "installed", "none")
          /\ registered' \in {registered, registered \cup {a}}
    /\ dir' = [dir EXCEPT ![a] = backup[a]]
    /\ backup' = [backup EXCEPT ![a] = Missing]
    /\ since' = [since EXCEPT ![a] = last]
    /\ UNCHANGED store

Operator(a) ==
    \/ DeleteAuth(a) \/ DeleteRow(a)
    \/ Backup(a) \/ Install(a) \/ Register(a) \/ Restore(a)

-----------------------------------------------------------------------------
Work(p) ==
    \/ GiveUp(p) \/ WriteMarker(p) \/ AccountMissing(p) \/ Adopt(p)
    \/ ProbeRefresh(p) \/ ProbeRelease(p) \/ ProbeClear(p)

Next ==
    \/ \E p \in Processes :
          \/ Work(p)
          \/ StartTurn(p) \/ EndTurn(p)
          \/ RenewMissing(p) \/ ReleaseActive(p)
          \/ Acquire(p) \/ ProbeAcquire(p)
          \/ Abandon(p)
    \/ LoseLease
    \/ \E a \in Accounts : Operator(a)

(* A task that holds the mutex goes on, and the heartbeat of a turn in     *)
(* flight comes by again and again.                                        *)
Spec     == Init /\ [][Next]_vars
FairSpec == /\ Spec
            /\ \A p \in Processes :
                  /\ WF_vars(Work(p))
                  /\ SF_vars(sessions[p] # {} /\ RenewMissing(p))

-----------------------------------------------------------------------------
(* Fencing by epoch is for the leases handed out since the account's row   *)
(* was deleted, or an old directory put back, for the last time: for       *)
(* sessions of such leases, and while the marker is not that of a lease    *)
(* from before.  In the other cases the code does not fence: an old        *)
(* session's epoch may be the one a later lease was given.                 *)
Fenced(s) == ~Outdated(s) /\ dir[s.account].token > since[s.account]

(* Once a process has given a lease up, no auth session it handed out for  *)
(* it yields credentials again, whatever other processes, probes,          *)
(* operators and failures did to the directory (release_active_lease,      *)
(* renew_active_lease, create_auth_session).                               *)
GivenUpIsFenced ==
    \A p \in Processes : \A s \in sessions[p] :
        (Current(s) /\ Fenced(s)) => s = active[p]

(* Two processes never get credentials for one account at the same time,   *)
(* with leases of the account's present registration, though the marker is *)
(* overwritten without looking at it (write_lease_epoch_marker,            *)
(* load_bound_auth).                                                       *)
OneProcessAuthenticates ==
    \A p, q \in Processes : p # q =>
        \A s \in sessions[p], r \in sessions[q] :
            (Current(s) /\ Current(r) /\ s.account = r.account)
                => Outdated(s) \/ Outdated(r)

(* A turn whose lease has ended cannot get credentials for ever: the       *)
(* heartbeat finds out and the marker is cleared (renew_active_lease).     *)
Exposed(p, n) ==
    \E s \in sessions[p] \ held : s.token = n /\ Current(s) /\ Fenced(s)

FenceTakesHold ==
    \A p \in Processes : \A n \in 1 .. MaxLeases :
        Exposed(p, n) ~> ~Exposed(p, n)
=============================================================================
