------------------------------ MODULE Rotation ------------------------------
(***************************************************************************)
(* How one account pool manager chooses the account of the next turn: the  *)
(* selection plan over the pool's candidates, the loop that plans, acquires *)
(* and plans again when the store refuses, quota probes of exhausted       *)
(* accounts, proactive switches when a window runs low and failover after a *)
(* usage limit or an authorization failure.  Every transaction is a step   *)
(* of its own; other processes take, release and report accounts between   *)
(* them.                                                                   *)
(*                                                                         *)
(* A quota row keeps its level against the switch threshold and how long   *)
(* next_probe_after lies ahead.  prepare_turn reads the clock once, so no  *)
(* time passes while it runs.  The remaining criteria of the ranking       *)
(* (margins, resets, confidence, position) leave the choice open within    *)
(* the best level.  There is one pool; LeaseStore has several.             *)
(*                                                                         *)
(* Quota rows belong to limit families.  A rotation looks at the family of *)
(* the current account, and at the codex row where that family has none; a *)
(* startup looks at the codex row.  What a request's limits report goes to *)
(* the account's own family, a remote compaction's usage limit to codex.   *)
(***************************************************************************)
EXTENDS Naturals, FiniteSets

CONSTANTS Accounts,
          Family,       \* backend_family of each account
          None,
          Preferred,    \* the operator's preferred account, or None
          MinInterval,  \* min_switch_interval_secs
          ProbeHold,    \* probe reservation and backoff, 30 seconds
          MaxOther,     \* bound on the steps of others
          MaxFaults     \* bound on storage failures

ASSUME RotationAssumption ==
    /\ None \notin Accounts
    /\ Preferred \in Accounts \cup {None}
    /\ MinInterval \in Nat /\ ProbeHold \in Nat \ {0}
    /\ MaxOther \in Nat /\ MaxFaults \in Nat

VARIABLES
    holder,    \* who has the unreleased lease of an account
    quota,     \* account_quota_state
    unauth,    \* accounts whose health_state is unauthorized
    refilled,  \* accounts that the provider has reset since the last report
    active,    \* the account of manager.active_lease
    age,       \* how long the manager's lease has been held, up to MinInterval
    pending,   \* manager.pending_rotation
    replaced,  \* manager.last_proactively_replaced_account_id
    ahead,     \* health events in the store that active's holder has not counted
    pc,        \* where prepare_turn is, with the manager's mutex held
    req,       \* its SelectionRequest and local variables
    serving,   \* whether a turn has the account and no report came since
    failed,    \* the account of the last recorded failure, and whether a
               \* startup sees it, until a turn is served or it is excused
    others, faults

store   == <<holder, quota, unauth, refilled>>
manager == <<active, age, pending, replaced, ahead>>
vars    == <<store, manager, pc, req, serving, failed, others, faults>>

Families == {"codex"} \cup {Family[a] : a \in Accounts}

Levels  == {"low", "high", "full"}  \* below the threshold, above it, exhausted
Row     == [level: Levels \cup {"none"}, wait: 0..ProbeHold]
NoRow   == [level |-> "none", wait |-> 0]
Owners  == {"free", "me", "probe", "other"}
Intents == {"startup", "soft", "hard"}

Failure == [account: Accounts, seen: BOOLEAN]

Request == [intent: Intents, current: Accounts \cup {None},
            preferred: BOOLEAN, released: BOOLEAN, reacquired: BOOLEAN,
            target: Accounts \cup {None}, limit: Families]

NoRequest == [intent |-> "startup", current |-> None, preferred |-> FALSE,
              released |-> FALSE, reacquired |-> FALSE, target |-> None,
              limit |-> "codex"]

TypeOK ==
    /\ holder \in [Accounts -> Owners]
    /\ quota \in [Accounts \X Families -> Row]
    /\ unauth \in SUBSET Accounts /\ refilled \in SUBSET Accounts
    /\ active \in Accounts \cup {None} /\ age \in 0..MinInterval
    /\ pending \in {"none", "soft", "hard"}
    /\ replaced \in Accounts \cup {None} /\ ahead \in 0..MaxOther
    /\ pc \in {"idle", "plan", "release", "acquire", "reacquire", "giveUp",
               "reserve", "verify", "refresh", "endProbe", "adopt"}
    /\ req \in Request
    /\ serving \in BOOLEAN
    /\ failed \in Failure \cup {None}
    /\ others \in 0..MaxOther /\ faults \in 0..MaxFaults

Init ==
    /\ holder = [a \in Accounts |-> "free"]
    /\ quota = [r \in Accounts \X Families |-> NoRow]
    /\ unauth = {} /\ refilled = {}
    /\ active = None /\ age = 0 /\ pending = "none" /\ replaced = None
    /\ ahead = 0 /\ pc = "idle" /\ req = NoRequest
    /\ serving = FALSE /\ failed = None /\ others = 0 /\ faults = 0

(* upsert_account_quota_state.                                             *)
SetRow(a, limit, level, wait) ==
    quota' = [quota EXCEPT ![<<a, limit>>] = [level |-> level, wait |-> wait]]

(* read_selection_quota_state: which row a selection on a family looks at. *)
LimitOf(a, family) ==
    IF quota[<<a, family>>].level = "none" THEN "codex" ELSE family

RowOf(a, family) == quota[<<a, LimitOf(a, family)>>]

-----------------------------------------------------------------------------
(* The selection plan.                                                     *)

(* The account the request names as the current one.                       *)
Current == IF req.reacquired THEN None ELSE req.current

(* resolve_selection_family.                                               *)
SelectionFamily ==
    IF req.intent = "startup" THEN "codex" ELSE Family[req.current]

(* The just replaced account is part of the requests of a rotation only.   *)
JustReplaced == IF req.intent = "startup" THEN None ELSE replaced

(* The candidates that hard_reject_reason lets through.                    *)
Candidates ==
    {a \in Accounts \ unauth :
        /\ holder[a] \in {"free", "me"}
        /\ a # Current
        /\ a = JustReplaced => req.intent = "hard"}

ReqRow(a) == RowOf(a, SelectionFamily)

Ordinary == {a \in Candidates : ReqRow(a).level # "full"}

Probeable == {a \in Candidates : ReqRow(a).level = "full" /\ ReqRow(a).wait = 0}

(* Mutant: an account above the threshold is not selectable.               *)
BestBelowThreshold == {a \in Ordinary : ReqRow(a).level = "low"}

(* The ones that compare_ordinary may rank first; an account without a row *)
(* counts as above the threshold.                                          *)
Best ==
    LET low == {a \in Ordinary : ReqRow(a).level = "low"}
    IN  IF low # {} THEN low ELSE Ordinary

(* The operator's preferred account goes first if it is a candidate.       *)
Choices ==
    IF req.preferred /\ Preferred \in Ordinary THEN {Preferred} ELSE Best

-----------------------------------------------------------------------------
(* prepare_turn.                                                           *)

Goto(step) == pc' = step

(* A turn gets the account.                                                *)
Serve == serving' = TRUE /\ failed' = None

(* preview_account_startup_selection: PreferredAccountSelected.  It looks  *)
(* at the row of the account's own family.                                 *)
PreferredSelectable ==
    /\ Preferred # None /\ Preferred \notin unauth
    /\ holder[Preferred] = "free"
    /\ RowOf(Preferred, Family[Preferred]).level # "full"

StartRequest(intent, current) ==
    /\ req' = [NoRequest EXCEPT
                  !.intent = intent, !.current = current,
                  !.preferred = intent = "startup" /\ PreferredSelectable]
    /\ Goto("plan")
    /\ serving' = FALSE

(* pending_rotation.take(): the rotation is attempted once.                *)
PrepareRotation ==
    /\ pc = "idle" /\ active # None /\ pending # "none"
    /\ StartRequest(pending, active)
    /\ pending' = "none"
    /\ UNCHANGED <<store, active, age, replaced, ahead, failed, others, faults>>

PrepareRenewed ==
    /\ pc = "idle" /\ active # None /\ pending = "none"
    /\ holder[active] = "me"
    /\ Serve
    /\ UNCHANGED <<store, manager, pc, req, others, faults>>

(* Mutant: a renewal that finds no lease leaves the rotation pending.      *)
ForgetLeaseKeepsPending ==
    /\ active # None /\ holder[active] # "me"
    /\ active' = None /\ replaced' = None /\ ahead' = 0
    /\ UNCHANGED <<age, pending>>

(* renew_active_lease: LeaseRenewal::Missing.                              *)
ForgetLease ==
    /\ active # None /\ holder[active] # "me"
    /\ active' = None /\ pending' = "none" /\ replaced' = None /\ ahead' = 0
    /\ UNCHANGED age

PrepareMissing ==
    /\ pc = "idle" /\ pending = "none"
    /\ ForgetLease
    /\ StartRequest("startup", None)
    /\ UNCHANGED <<store, failed, others, faults>>

PrepareStartup ==
    /\ pc = "idle" /\ active = None
    /\ StartRequest("startup", None)
    /\ UNCHANGED <<store, manager, failed, others, faults>>

PrepareTurn == PrepareRotation \/ PrepareRenewed \/ PrepareMissing \/ PrepareStartup

(* The attempt ends with AccountLeaseError::NoEligibleAccount.             *)
NoEligible ==
    /\ Goto("idle") /\ req' = NoRequest
    /\ replaced' = IF req.intent = "hard" THEN None ELSE replaced
    /\ UNCHANGED <<active, age, pending, ahead>>

Follow(step, a) ==
    /\ Goto(step)
    /\ req' = [req EXCEPT !.target = a]
    /\ UNCHANGED manager

(* One turn of the selection loop, up to its first transaction.            *)
Plan ==
    /\ pc = "plan"
    /\ \/ \E a \in Choices :
             Follow(IF req.intent # "startup" /\ ~req.released
                    THEN "release" ELSE "acquire", a)
       \/ Choices = {} /\ \E a \in Probeable : Follow("reserve", a)
       \/ /\ Choices = {} /\ Probeable = {}
          /\ CASE req.intent = "soft" /\ ~req.released -> Follow("adopt", req.current)
               [] req.intent = "soft" /\ req.released /\ ~req.reacquired ->
                    Follow("reacquire", req.current)
               [] req.intent = "hard" /\ ~req.released -> Follow("giveUp", None)
               [] OTHER -> NoEligible
    /\ UNCHANGED <<store, serving, failed, others, faults>>

(* release_active_lease, before the first acquisition or when a hard       *)
(* failover found nothing.                                                 *)
ReleaseCurrent ==
    /\ pc \in {"release", "giveUp"}
    /\ holder' = [holder EXCEPT ![active] = IF @ = "me" THEN "free" ELSE @]
    /\ active' = None /\ ahead' = 0
    /\ IF pc = "release"
       THEN /\ Goto("acquire") /\ req' = [req EXCEPT !.released = TRUE]
            /\ UNCHANGED replaced
       ELSE /\ Goto("idle") /\ req' = NoRequest
            /\ replaced' = None
    /\ UNCHANGED <<quota, unauth, refilled, age, pending, serving, failed,
                   others, faults>>

(* acquire_preferred_account_lease: the lease the holder already has, a    *)
(* new one, or a refusal.                                                  *)
Mine == {a \in Accounts : holder[a] = "me"}

Grantable(a, family) ==
    holder[a] = "free" /\ a \notin unauth /\ RowOf(a, family).level # "full"

Acquire ==
    /\ pc \in {"acquire", "reacquire"}
    /\ CASE Mine # {} ->
              \E a \in Mine : /\ req' = [req EXCEPT !.target = a] /\ Goto("adopt")
                              /\ UNCHANGED <<holder, age>>
         [] Mine = {} /\ Grantable(req.target, SelectionFamily) ->
              /\ holder' = [holder EXCEPT ![req.target] = "me"]
              /\ age' = 0 /\ Goto("adopt")
              /\ UNCHANGED req
         [] OTHER ->
              /\ req' = [req EXCEPT !.reacquired = @ \/ pc = "reacquire"]
              /\ Goto("plan")
              /\ UNCHANGED <<holder, age>>
    /\ UNCHANGED <<quota, unauth, refilled, active, pending, replaced, ahead,
                   serving, failed, others, faults>>

(* What a rotation that got a lease makes of the just replaced account.    *)
ReplacedBy(target) ==
    CASE req.intent = "hard" -> None
      [] req.intent = "soft" /\ target # req.current -> req.current
      [] OTHER -> replaced

(* The bookkeeping of prepare_turn and adopt_active_lease.                 *)
Adopt ==
    /\ pc = "adopt"
    /\ active' = req.target /\ ahead' = 0
    /\ replaced' = ReplacedBy(req.target)
    /\ Serve
    /\ req' = NoRequest /\ Goto("idle")
    /\ UNCHANGED <<store, age, pending, others, faults>>

-----------------------------------------------------------------------------
(* Quota probes.                                                           *)

(* reserve_quota_probe reads the row the selection looked at; without the  *)
(* reservation the loop plans again.                                       *)
Reserve ==
    /\ pc = "reserve"
    /\ LET limit == LimitOf(req.target, SelectionFamily)
           row   == quota[<<req.target, limit>>]
       IN  IF row.level = "full" /\ row.wait = 0
           THEN /\ SetRow(req.target, limit, "full", ProbeHold)
                /\ req' = [req EXCEPT !.limit = limit]
                /\ Goto("verify")
           ELSE UNCHANGED <<quota, req>> /\ Goto("plan")
    /\ UNCHANGED <<holder, unauth, refilled, manager, serving, failed, others,
                   faults>>

Exhausted == quota[<<req.target, req.limit>>].level = "full"

(* acquire_quota_probe_account_lease, under the probe's own holder id: the *)
(* row is still exhausted and next_probe_after is the reservation's.       *)
Verify ==
    /\ pc = "verify"
    /\ IF /\ holder[req.target] = "free" /\ req.target \notin unauth
          /\ Exhausted
          /\ \A a \in Accounts : holder[a] # "probe"
       THEN /\ holder' = [holder EXCEPT ![req.target] = "probe"]
            /\ Goto("refresh")
       ELSE UNCHANGED holder /\ Goto("plan")
    /\ UNCHANGED <<quota, unauth, refilled, manager, req, serving, failed,
                   others, faults>>

(* Mutant: a probe that finds the account blocked ends its reservation.    *)
RefreshReopens ==
    /\ pc = "refresh"
    /\ IF Exhausted
       THEN SetRow(req.target, req.limit, "full", 0)
       ELSE UNCHANGED quota
    /\ Goto("endProbe")
    /\ UNCHANGED <<holder, unauth, refilled, manager, req, serving, failed,
                   others, faults>>

(* refresh_quota_probe looks at the stored row.  An exhausted one is still *)
(* blocked, or ambiguous when the credentials fail; one that has meanwhile *)
(* been observed open lost the reservation, so nothing is written.         *)
Refresh ==
    /\ pc = "refresh"
    /\ IF Exhausted
       THEN SetRow(req.target, req.limit, "full", ProbeHold)
       ELSE UNCHANGED quota
    /\ Goto("endProbe")
    /\ UNCHANGED <<holder, unauth, refilled, manager, req, serving, failed,
                   others, faults>>

(* Mutant: the loop goes on without releasing the verification lease.      *)
EndProbeKeepsLease ==
    /\ pc = "endProbe"
    /\ Goto("plan")
    /\ UNCHANGED <<store, manager, req, serving, failed, others, faults>>

EndProbe ==
    /\ pc = "endProbe"
    /\ holder' = [holder EXCEPT ![req.target] = IF @ = "probe" THEN "free" ELSE @]
    /\ Goto("plan")
    /\ UNCHANGED <<quota, unauth, refilled, manager, req, serving, failed,
                   others, faults>>

Step ==
    \/ Plan \/ ReleaseCurrent \/ Acquire \/ Adopt
    \/ Reserve \/ Verify \/ Refresh \/ EndProbe

-----------------------------------------------------------------------------
(* What the turns and the heartbeat report to the idle manager.            *)

Heartbeat ==
    /\ pc = "idle"
    /\ ForgetLease
    /\ serving' = FALSE
    /\ UNCHANGED <<store, pc, req, failed, others, faults>>

(* The account was observed usable, or reported on by someone else.        *)
Excuse(a) ==
    failed' = IF failed # None /\ failed.account = a THEN None ELSE failed

(* observe_soft_pressure: the lease was held for the minimum interval.     *)
RotateOnNextTurn == age = MinInterval

(* report_rate_limits: the row of the lease's family, then                 *)
(* observe_rate_limits_for_rotation.                                       *)
ReportRateLimits(level) ==
    /\ pc = "idle" /\ active # None
    /\ SetRow(active, Family[active], level,
              IF level = "full" THEN ProbeHold ELSE 0)
    /\ refilled' = refilled \ {active}
    /\ pending' = CASE level = "low" -> IF pending = "soft" THEN "none" ELSE pending
                    [] level # "low" /\ ~RotateOnNextTurn -> pending
                    [] OTHER -> IF pending = "hard" THEN "hard" ELSE "soft"
    /\ serving' = FALSE
    /\ IF level = "full" THEN UNCHANGED failed ELSE Excuse(active)
    /\ UNCHANGED <<holder, unauth, active, age, replaced, ahead, pc, req,
                   others, faults>>

(* record_account_health_event: a number the store has seen is dropped.    *)
HealthEvent(isUnauth) ==
    IF ahead > 0
    THEN ahead' = ahead - 1 /\ UNCHANGED unauth
    ELSE /\ unauth' = IF isUnauth THEN unauth \cup {active} ELSE unauth \ {active}
         /\ UNCHANGED ahead

(* mark_non_replayable_turn_rotation.                                      *)
MarkHardFailure ==
    /\ pending' = "hard" /\ serving' = FALSE
    /\ UNCHANGED <<active, age, replaced>>

Fail(isSeen) == failed' = [account |-> active, seen |-> isSeen]

(* Mutant: a usage limit leads to a failover and leaves no trace.          *)
ReportUsageLimitKeepsRow ==
    /\ pc = "idle" /\ active # None
    /\ refilled' = refilled \ {active}
    /\ MarkHardFailure
    /\ Fail(Family[active] = "codex")
    /\ UNCHANGED <<holder, quota, unauth, ahead, pc, req, others, faults>>

(* report_usage_limit_reached_for_generation: the row of the lease's       *)
(* family, unless it is exhausted already.                                 *)
ReportUsageLimit ==
    /\ pc = "idle" /\ active # None
    /\ IF quota[<<active, Family[active]>>].level = "full"
       THEN UNCHANGED quota
       ELSE SetRow(active, Family[active], "full", ProbeHold)
    /\ refilled' = refilled \ {active}
    /\ MarkHardFailure
    /\ Fail(Family[active] = "codex")
    /\ UNCHANGED <<holder, unauth, ahead, pc, req, others, faults>>

(* report_usage_limit_reached, from a remote compaction: a health event    *)
(* and the row that the provider's answer names, codex if it names none,   *)
(* which is not a family's row otherwise.                                  *)
ReportCompactionLimit(isCodex, wait) ==
    /\ pc = "idle" /\ active # None
    /\ IF isCodex THEN SetRow(active, "codex", "full", wait) ELSE UNCHANGED quota
    /\ HealthEvent(FALSE)
    /\ refilled' = refilled \ {active}
    /\ MarkHardFailure
    /\ Fail(isCodex)
    /\ UNCHANGED <<holder, pc, req, others, faults>>

(* report_unauthorized.  A report the store drops is not on record.        *)
ReportUnauthorized ==
    /\ pc = "idle" /\ active # None
    /\ HealthEvent(TRUE)
    /\ MarkHardFailure
    /\ IF ahead > 0 THEN UNCHANGED failed ELSE Fail(TRUE)
    /\ UNCHANGED <<holder, quota, refilled, pc, req, others, faults>>

ReleaseForShutdown ==
    /\ pc = "idle" /\ active # None
    /\ holder' = [holder EXCEPT ![active] = IF @ = "me" THEN "free" ELSE @]
    /\ active' = None /\ ahead' = 0 /\ pending' = "none" /\ replaced' = None
    /\ serving' = FALSE
    /\ UNCHANGED <<quota, unauth, refilled, age, pc, req, failed, others, faults>>

Tick ==
    /\ pc = "idle"
    /\ age' = IF age < MinInterval THEN age + 1 ELSE age
    /\ quota' = [r \in Accounts \X Families |->
                    [level |-> quota[r].level,
                     wait  |-> IF quota[r].wait > 0 THEN quota[r].wait - 1 ELSE 0]]
    /\ UNCHANGED <<holder, unauth, refilled, active, pending, replaced, ahead,
                   pc, req, serving, failed, others, faults>>

-----------------------------------------------------------------------------
(* Other processes, the provider and the storage.                          *)

(* Another process selects on codex at its startup, or on any family.      *)
OtherTakes(a) ==
    /\ \E family \in Families : Grantable(a, family)
    /\ holder' = [holder EXCEPT ![a] = "other"]
    /\ UNCHANGED <<quota, unauth, refilled, ahead, failed>>

(* Another holder releases, or a lease of any holder runs out.             *)
LeaseEnds(a) ==
    /\ holder[a] # "free"
    /\ holder' = [holder EXCEPT ![a] = "free"]
    /\ UNCHANGED <<quota, unauth, refilled, ahead, failed>>

OtherObserves(a, limit, level) ==
    /\ holder[a] = "other"
    /\ limit = Family[a] \/ level = "full"
    /\ SetRow(a, limit, level, IF level = "full" THEN ProbeHold ELSE 0)
    /\ refilled' = refilled \ {a}
    /\ Excuse(a)
    /\ UNCHANGED <<holder, unauth, ahead>>

(* A holder, or one that has lost its lease and does not know it yet,      *)
(* reports health.                                                         *)
OtherReports(a, isUnauth) ==
    /\ unauth' = IF isUnauth THEN unauth \cup {a} ELSE unauth \ {a}
    /\ ahead' = IF a = active THEN ahead + 1 ELSE ahead
    /\ Excuse(a)
    /\ UNCHANGED <<holder, quota, refilled>>

(* The provider resets the windows of an account.                          *)
Refill(a) ==
    /\ \E family \in Families : quota[<<a, family>>].level = "full"
    /\ refilled' = refilled \cup {a}
    /\ UNCHANGED <<holder, quota, unauth, ahead, failed>>

Other ==
    /\ others < MaxOther /\ others' = others + 1
    /\ \E a \in Accounts :
          \/ OtherTakes(a) \/ LeaseEnds(a) \/ Refill(a)
          \/ \E limit \in {"codex", Family[a]}, level \in Levels :
                OtherObserves(a, limit, level)
          \/ \E isUnauth \in BOOLEAN : OtherReports(a, isUnauth)
    /\ UNCHANGED <<active, age, pending, replaced, pc, req, serving, faults>>

(* prepare_turn returns the storage's error from where it stands: the      *)
(* rotation it took is lost, what it released or acquired stays so.  The   *)
(* release of a row may have gone through before its marker's failed, and  *)
(* the just replaced account may have been changed before the adoption     *)
(* failed.                                                                 *)
Fault ==
    /\ pc # "idle" /\ faults < MaxFaults
    /\ faults' = faults + 1
    /\ \/ UNCHANGED holder
       \/ /\ pc \in {"release", "giveUp"}
          /\ holder' = [holder EXCEPT ![active] = IF @ = "me" THEN "free" ELSE @]
       \/ /\ pc \in {"refresh", "endProbe"}
          /\ holder' = [holder EXCEPT ![req.target] = IF @ = "probe" THEN "free" ELSE @]
    /\ \/ UNCHANGED replaced
       \/ pc = "adopt" /\ replaced' = ReplacedBy(req.target)
    /\ Goto("idle") /\ req' = NoRequest
    /\ failed' = None
    /\ UNCHANGED <<quota, unauth, refilled, active, age, pending, ahead, serving,
                   others>>

Next ==
    \/ PrepareTurn \/ Step
    \/ Heartbeat \/ ReportUsageLimit \/ ReportUnauthorized
    \/ ReleaseForShutdown \/ Tick
    \/ \E level \in Levels : ReportRateLimits(level)
    \/ \E isCodex \in BOOLEAN, wait \in {0, ProbeHold} :
          ReportCompactionLimit(isCodex, wait)
    \/ Other \/ Fault

(* A prepare_turn goes on while the storage answers, turns keep coming and *)
(* time passes.                                                            *)
Spec     == Init /\ [][Next]_vars
FairSpec == Spec /\ WF_vars(Step) /\ WF_vars(PrepareTurn) /\ WF_vars(Tick)

-----------------------------------------------------------------------------
(* An account whose usage limit or authorization failure is on record is   *)
(* not given to the next turn of this process, unless it was observed      *)
(* usable or reported on by someone else meanwhile, or a storage error cut *)
(* the failover short: not by the failover, not by a lease the store hands *)
(* back, and not by a start after a failover that found nothing, unless    *)
(* the failure is in a row that no startup looks at (prepare_turn,         *)
(* acquire_selected_rotation_lease, resolve_selection_family).             *)
FailedAccountAvoided ==
    [][(~serving /\ serving' /\ failed # None /\ active' = failed.account)
          => pc = "adopt" /\ req.intent = "startup" /\ ~failed.seen]_vars

(* A finished attempt leaves no lease behind: no verification lease, and   *)
(* no lease of the turns that the manager does not know (acquire_selected_ *)
(* lease, acquire_selected_rotation_lease), storage failures apart.        *)
NothingLeftBehind ==
    pc = "idle" /\ faults = 0 =>
        \A a \in Accounts : /\ holder[a] # "probe"
                            /\ holder[a] = "me" => a = active

(* A proactive switch only leaves a lease that was held for the minimum    *)
(* switch interval, and never goes back to the account that the proactive  *)
(* switch before it left (observe_soft_pressure, renew_active_lease).      *)
SwitchesAreDamped ==
    [][/\ (pc = "release" /\ req.intent = "soft" /\ pc' = "acquire")
             => age = MinInterval
       /\ (pc = "adopt" /\ req.intent = "soft" /\ req.target # req.current
             /\ serving') => active' # replaced]_vars

(* Every attempt comes to an end once other processes leave the pool       *)
(* alone: refusals and probes do not keep the selection loop going         *)
(* (acquire_selected_lease, refresh_quota_probe).                          *)
AttemptsEnd == pc # "idle" ~> pc = "idle"

(* While an account stays selectable for a startup, the manager gets a     *)
(* lease again and again: no exclusion of an earlier rotation outlives it  *)
(* (prepare_turn).                                                         *)
SelectableIsServed ==
    <>[](\E a \in Accounts : Grantable(a, "codex")) => []<>(active # None)

(* Early resets by the provider are discoverable through reprobe: a row    *)
(* does not say exhausted for ever while the provider says otherwise and   *)
(* the row is probed again and again (refresh_quota_probe).                *)
Unnoticed(a, family) == a \in refilled /\ quota[<<a, family>>].level = "full"

Probed(a, family) == pc = "refresh" /\ req.target = a /\ req.limit = family

RecoveryIsFound ==
    \A a \in Accounts, family \in Families :
        []<>Probed(a, family) => []<>~Unnoticed(a, family)
=============================================================================
