-------------------------- MODULE RotationProofs ----------------------------
(***************************************************************************)
(* What the selection loop guarantees for any number of accounts, steps of *)
(* other processes and storage failures: the account that failed is        *)
(* avoided, switches are damped and no lease is left behind.  The          *)
(* inductive invariant says what the manager may still hold at each step   *)
(* of an attempt, so that the lease the store hands back is never one that *)
(* the loop meant to leave.                                                *)
(***************************************************************************)
EXTENDS Rotation, TLAPS

FailedOn(a) == failed # None /\ failed.account = a

(* A failure that startups see is on record in what startups look at.      *)
Recorded ==
    failed # None /\ failed.seen =>
        quota[<<failed.account, "codex">>].level = "full" \/ failed.account \in unauth

(* The manager has at most one lease, and knows it or has no other.        *)
MineOK ==
    /\ \A a \in Accounts : holder[a] = "me" =>
          active \in {a, None} /\ (FailedOn(a) => active = a \/ pc = "adopt")
    /\ \A a, b \in Accounts : holder[a] = "me" /\ holder[b] = "me" => a = b

(* Between attempts a failure is one of the active account, and pending.   *)
Between ==
    /\ pending # "none" => active # None
    /\ pending = "soft" => age = MinInterval
    /\ serving => active # None
    /\ pc = "idle" /\ active # None /\ failed # None =>
          failed.account = active /\ pending = "hard" /\ ~serving
    /\ pc # "idle" => pending = "none" /\ ~serving

(* What an attempt is about, and what it has given up already.             *)
Attempt ==
    pc # "idle" =>
        /\ req.intent = "startup" => active = None /\ ~req.released
        /\ req.intent # "startup" =>
              /\ req.current \in Accounts
              /\ active = IF req.released THEN None ELSE req.current
              /\ failed # None => failed.account = req.current
        /\ req.intent = "soft" =>
              failed = None /\ (~req.released => age = MinInterval)
        /\ req.reacquired => req.intent = "soft"
        /\ pc \notin {"plan", "giveUp"} => req.target \in Accounts
        /\ pc \in {"release", "giveUp"} => req.intent # "startup" /\ ~req.released
        /\ pc \in {"acquire", "reacquire"} => active = None
        /\ pc = "reacquire" => req.intent = "soft" /\ req.target = req.current

(* Where the target of an attempt comes from.                              *)
Target ==
    /\ pc \in {"release", "acquire"} =>
          /\ req.intent = "soft" => req.target # replaced
          /\ req.intent = "hard" => req.target # req.current
    /\ pc = "adopt" =>
          /\ FailedOn(req.target) => req.intent = "startup" /\ ~failed.seen
          /\ \A a \in Accounts : holder[a] = "me" => a = req.target
          /\ req.intent = "soft" /\ req.target # req.current => req.target # replaced
    /\ pc \notin {"idle", "adopt"} /\ req.released =>
          \A a \in Accounts : holder[a] # "me"

(* Without a storage failure every lease is accounted for.                 *)
Leases ==
    faults = 0 =>
        \A a \in Accounts :
            /\ holder[a] = "probe" => pc \in {"refresh", "endProbe"} /\ a = req.target
            /\ holder[a] = "me" => a = active \/ pc = "adopt"

RotInv ==
    /\ TypeOK /\ ahead <= others
    /\ Recorded /\ MineOK /\ Between /\ Attempt /\ Target /\ Leases

LEMMA FamiliesKnown ==
    /\ "codex" \in Families
    /\ \A a \in Accounts : Family[a] \in Families
BY DEF Families

LEMMA FailureKnown ==
    ASSUME NEW a \in Accounts, NEW seen \in BOOLEAN
    PROVE  [account |-> a, seen |-> seen] \in Failure
BY DEF Failure

LEMMA RowWritten ==
    ASSUME quota \in [Accounts \X Families -> Row],
           NEW a \in Accounts, NEW limit \in Families,
           NEW level \in Levels, NEW wait \in 0..ProbeHold,
           SetRow(a, limit, level, wait)
    PROVE  /\ quota' \in [Accounts \X Families -> Row]
           /\ quota'[<<a, limit>>].level = level
           /\ \A b \in Accounts, family \in Families :
                 b # a \/ family # limit =>
                     quota'[<<b, family>>] = quota[<<b, family>>]
<1> DEFINE row == [level |-> level, wait |-> wait]
<1>1. row \in Row /\ row.level = level
    BY DEF Row
<1>2. <<a, limit>> \in Accounts \X Families
    OBVIOUS
<1>3. quota' = [quota EXCEPT ![<<a, limit>>] = row]
    BY DEF SetRow
<1> HIDE DEF row
<1> QED
    BY <1>1, <1>2, <1>3

(* A reservation or a usage limit leaves exhausted rows exhausted.         *)
LEMMA FullWritten ==
    ASSUME quota \in [Accounts \X Families -> Row],
           NEW a \in Accounts, NEW limit \in Families, NEW wait \in {0, ProbeHold},
           SetRow(a, limit, "full", wait)
    PROVE  /\ quota' \in [Accounts \X Families -> Row]
           /\ quota'[<<a, limit>>].level = "full"
           /\ \A b \in Accounts, family \in Families :
                 quota[<<b, family>>].level = "full" =>
                     quota'[<<b, family>>].level = "full"
<1>1. "full" \in Levels /\ wait \in 0..ProbeHold
    BY RotationAssumption DEF Levels
<1> QED
    BY <1>1, RowWritten

LEMMA FamilyKnown ==
    ASSUME RotInv, pc # "idle"
    PROVE  SelectionFamily \in Families
BY FamiliesKnown DEF RotInv, Attempt, SelectionFamily

-----------------------------------------------------------------------------
(* One lemma per action of the manager, with a step for each part of the   *)
(* invariant.                                                              *)

LEMMA PrepareRotationStep ==
    ASSUME RotInv, PrepareRotation
    PROVE  RotInv'
<1> USE FamiliesKnown DEF RotInv, TypeOK, PrepareRotation, StartRequest, store, NoRequest,
        Request, Intents, Goto
<1>1. TypeOK' /\ ahead' <= others'
    OBVIOUS
<1>2. Recorded'
    BY DEF Recorded
<1>3. MineOK'
    BY DEF MineOK, FailedOn
<1>4. Between'
    BY DEF Between
<1>5. Attempt'
    BY DEF Attempt, Between
<1>6. Target'
    BY DEF Target, FailedOn
<1>7. Leases'
    BY DEF Leases
<1> QED
    BY <1>1, <1>2, <1>3, <1>4, <1>5, <1>6, <1>7

LEMMA PrepareRenewedStep ==
    ASSUME RotInv, PrepareRenewed
    PROVE  RotInv'
<1> USE FamiliesKnown DEF RotInv, TypeOK, PrepareRenewed, store, manager, Serve
<1>1. TypeOK' /\ ahead' <= others'
    OBVIOUS
<1>2. Recorded'
    BY DEF Recorded
<1>3. MineOK'
    BY DEF MineOK, FailedOn
<1>4. Between'
    BY DEF Between
<1>5. Attempt'
    BY DEF Attempt
<1>6. Target'
    BY DEF Target, FailedOn
<1>7. Leases'
    BY DEF Leases
<1> QED
    BY <1>1, <1>2, <1>3, <1>4, <1>5, <1>6, <1>7

LEMMA PrepareMissingStep ==
    ASSUME RotInv, PrepareMissing
    PROVE  RotInv'
<1> USE RotationAssumption, FamiliesKnown
    DEF RotInv, TypeOK, PrepareMissing, ForgetLease, StartRequest, store,
        NoRequest, Request, Intents, Goto
<1>1. TypeOK' /\ ahead' <= others'
  <2>1. req' \in Request
      BY DEF Attempt
  <2>2. ahead' \in 0..MaxOther /\ ahead' <= others'
      OBVIOUS
  <2> HIDE DEF StartRequest
  <2>3. pc' = "plan" /\ serving' = FALSE
      BY DEF StartRequest
  <2> QED
      BY <2>1, <2>2, <2>3
<1>2. Recorded'
    BY DEF Recorded
<1>3. MineOK'
    BY DEF MineOK, FailedOn
<1>4. Between'
    BY DEF Between
<1>5. Attempt'
    BY DEF Attempt
<1>6. Target'
    BY DEF Target, FailedOn
<1>7. Leases'
    BY DEF Leases
<1> QED
    BY <1>1, <1>2, <1>3, <1>4, <1>5, <1>6, <1>7

LEMMA PrepareStartupStep ==
    ASSUME RotInv, PrepareStartup
    PROVE  RotInv'
<1> USE FamiliesKnown DEF RotInv, TypeOK, PrepareStartup, StartRequest, store, manager,
        NoRequest, Request, Intents, Goto
<1>1. TypeOK' /\ ahead' <= others'
    OBVIOUS
<1>2. Recorded'
    BY DEF Recorded
<1>3. MineOK'
    BY DEF MineOK, FailedOn
<1>4. Between'
    BY DEF Between
<1>5. Attempt'
    BY DEF Attempt
<1>6. Target'
    BY DEF Target, FailedOn
<1>7. Leases'
    BY DEF Leases
<1> QED
    BY <1>1, <1>2, <1>3, <1>4, <1>5, <1>6, <1>7

LEMMA ReleaseCurrentStep ==
    ASSUME RotInv, ReleaseCurrent
    PROVE  RotInv'
<1> USE RotationAssumption, FamiliesKnown
    DEF RotInv, TypeOK, ReleaseCurrent, NoRequest, Request, Owners,
        Intents, Goto
<1>1. TypeOK' /\ ahead' <= others'
  <2>1. req' \in Request
    <3>1. req \in Request /\ NoRequest \in Request
        OBVIOUS
    <3>2. req' \in {NoRequest, [req EXCEPT !.released = TRUE]}
        OBVIOUS
    <3> HIDE DEF RotInv, TypeOK, ReleaseCurrent, NoRequest
    <3> QED
        BY <3>1, <3>2
  <2>2. holder' \in [Accounts -> Owners]
      OBVIOUS
  <2> QED
      BY <2>1, <2>2
<1>2. Recorded'
    BY DEF Recorded
<1>3. MineOK'
    BY DEF MineOK, FailedOn
<1>4. Between'
    BY DEF Between
<1>5. Attempt'
    BY DEF Attempt
<1>6. Target'
    BY DEF Target, FailedOn, MineOK, Attempt, Between
<1>7. Leases'
    BY DEF Leases
<1> QED
    BY <1>1, <1>2, <1>3, <1>4, <1>5, <1>6, <1>7

LEMMA AcquireStep ==
    ASSUME RotInv, Acquire
    PROVE  RotInv'
<1> USE RotationAssumption, FamiliesKnown
    DEF RotInv, TypeOK, Acquire, Request, Owners, Goto, Mine, Grantable
<1>1. TypeOK' /\ ahead' <= others'
  <2>1. req' \in Request
      BY DEF Attempt
  <2>2. holder' \in [Accounts -> Owners]
      OBVIOUS
  <2> QED
      BY <2>1, <2>2
<1>2. Recorded'
    BY DEF Recorded
<1>3. MineOK'
    BY DEF MineOK, FailedOn, Recorded, Attempt
<1>4. Between'
    BY DEF Between
<1>5. Attempt'
    BY DEF Attempt
<1>6. Target'
  <2>1. CASE Mine # {}
      BY <2>1 DEF Target, FailedOn, MineOK, Attempt
  <2>2. CASE Mine = {} /\ Grantable(req.target, SelectionFamily)
    <3>1. FailedOn(req.target) => req.intent = "startup" /\ ~failed.seen
      <4>1. CASE req.intent = "startup"
          BY <2>2, <4>1 DEF FailedOn, Recorded, SelectionFamily, RowOf, LimitOf, Attempt
      <4>2. CASE req.intent # "startup"
          BY <2>2, <4>2 DEF FailedOn, Attempt, Target, Intents
      <4> QED
          BY <4>1, <4>2
    <3>2. /\ req' = req /\ pc' = "adopt" /\ UNCHANGED <<failed, replaced>>
          /\ \A a \in Accounts : holder'[a] = "me" => a = req.target
        BY <2>2
    <3> QED
        BY <3>1, <3>2 DEF Target, FailedOn, Attempt
  <2>3. CASE Mine = {} /\ ~Grantable(req.target, SelectionFamily)
      BY <2>3 DEF Target, FailedOn, Attempt
  <2> QED
      BY <2>1, <2>2, <2>3
<1>7. Leases'
    BY DEF Leases
<1> QED
    BY <1>1, <1>2, <1>3, <1>4, <1>5, <1>6, <1>7

LEMMA AdoptStep ==
    ASSUME RotInv, Adopt
    PROVE  RotInv'
<1> USE RotationAssumption, FamiliesKnown
    DEF RotInv, TypeOK, Adopt, store, NoRequest, Request, Intents, Goto,
        Serve
<1>1. TypeOK' /\ ahead' <= others'
  <2>1. ahead' \in 0..MaxOther /\ ahead' <= others'
      OBVIOUS
  <2>2. replaced' \in Accounts \cup {None} /\ active' \in Accounts \cup {None}
      BY DEF ReplacedBy
  <2> QED
      BY <2>1, <2>2
<1>2. Recorded'
    BY DEF Recorded
<1>3. MineOK'
    BY DEF MineOK, FailedOn, Target
<1>4. Between'
    BY DEF Between, Attempt, Target
<1>5. Attempt'
    BY DEF Attempt
<1>6. Target'
    BY DEF Target, FailedOn
<1>7. Leases'
    BY DEF Leases, Target
<1> QED
    BY <1>1, <1>2, <1>3, <1>4, <1>5, <1>6, <1>7

LEMMA ReserveStep ==
    ASSUME RotInv, Reserve
    PROVE  RotInv'
<1> DEFINE limit == LimitOf(req.target, SelectionFamily)
<1>f. limit \in Families /\ req.target \in Accounts
    BY FamiliesKnown, FamilyKnown DEF Reserve, LimitOf, RotInv, Attempt
<1>s. \/ /\ SetRow(req.target, limit, "full", ProbeHold)
         /\ req' = [req EXCEPT !.limit = limit] /\ pc' = "verify"
      \/ quota' = quota /\ req' = req /\ pc' = "plan"
    BY DEF Reserve, Goto
<1> HIDE DEF limit
<1> USE RotationAssumption, FamiliesKnown DEF RotInv, TypeOK, Reserve, manager
<1>r. /\ req' \in Request
      /\ req'.intent = req.intent /\ req'.current = req.current
      /\ req'.released = req.released /\ req'.reacquired = req.reacquired
      /\ req'.target = req.target
    BY <1>f, <1>s DEF Request
<1>q. /\ quota' \in [Accounts \X Families -> Row]
      /\ \A a \in Accounts, family \in Families :
            quota[<<a, family>>].level = "full" => quota'[<<a, family>>].level = "full"
    BY <1>f, <1>s, FullWritten
<1>1. TypeOK' /\ ahead' <= others'
    BY <1>q, <1>r, <1>s
<1>2. Recorded'
    BY <1>q DEF Recorded, Failure
<1>3. MineOK'
    BY <1>s DEF MineOK, FailedOn
<1>4. Between'
    BY <1>s DEF Between
<1>5. Attempt'
    BY <1>r, <1>s DEF Attempt
<1>6. Target'
    BY <1>r, <1>s DEF Target, FailedOn
<1>7. Leases'
    BY <1>r, <1>s DEF Leases
<1> QED
    BY <1>1, <1>2, <1>3, <1>4, <1>5, <1>6, <1>7

LEMMA VerifyStep ==
    ASSUME RotInv, Verify
    PROVE  RotInv'
<1> USE FamiliesKnown DEF RotInv, TypeOK, Verify, manager, Owners, Goto
<1>1. TypeOK' /\ ahead' <= others'
    OBVIOUS
<1>2. Recorded'
    BY DEF Recorded
<1>3. MineOK'
    BY DEF MineOK, FailedOn
<1>4. Between'
    BY DEF Between
<1>5. Attempt'
    BY DEF Attempt
<1>6. Target'
    BY DEF Target, FailedOn
<1>7. Leases'
    BY DEF Leases
<1> QED
    BY <1>1, <1>2, <1>3, <1>4, <1>5, <1>6, <1>7

LEMMA RefreshStep ==
    ASSUME RotInv, Refresh
    PROVE  RotInv'
<1> USE RotationAssumption, FamiliesKnown
    DEF RotInv, TypeOK, Refresh, manager, Goto, Request
<1>r. req.target \in Accounts /\ req.limit \in Families
    BY DEF Attempt
<1>q. /\ quota' \in [Accounts \X Families -> Row]
      /\ \A a \in Accounts, family \in Families :
            quota[<<a, family>>].level = "full" => quota'[<<a, family>>].level = "full"
  <2>1. CASE Exhausted
      BY <1>r, <2>1, FullWritten
  <2>2. CASE ~Exhausted
      BY <2>2
  <2> QED
      BY <2>1, <2>2
<1>1. TypeOK' /\ ahead' <= others'
    BY <1>q
<1>2. Recorded'
    BY <1>q DEF Recorded, Failure
<1>3. MineOK'
    BY DEF MineOK, FailedOn
<1>4. Between'
    BY DEF Between
<1>5. Attempt'
    BY <1>r DEF Attempt
<1>6. Target'
    BY <1>r DEF Target, FailedOn
<1>7. Leases'
    BY <1>r DEF Leases
<1> QED
    BY <1>1, <1>2, <1>3, <1>4, <1>5, <1>6, <1>7

LEMMA EndProbeStep ==
    ASSUME RotInv, EndProbe
    PROVE  RotInv'
<1> USE FamiliesKnown DEF RotInv, TypeOK, EndProbe, manager, Owners, Goto
<1>1. TypeOK' /\ ahead' <= others'
  <2>2. holder' \in [Accounts -> Owners]
      OBVIOUS
  <2> QED
      BY <2>2
<1>2. Recorded'
    BY DEF Recorded
<1>3. MineOK'
    BY DEF MineOK, FailedOn
<1>4. Between'
    BY DEF Between
<1>5. Attempt'
    BY DEF Attempt
<1>6. Target'
    BY DEF Target, FailedOn
<1>7. Leases'
    BY DEF Leases
<1> QED
    BY <1>1, <1>2, <1>3, <1>4, <1>5, <1>6, <1>7

LEMMA HeartbeatStep ==
    ASSUME RotInv, Heartbeat
    PROVE  RotInv'
<1> USE RotationAssumption, FamiliesKnown DEF RotInv, TypeOK, Heartbeat, ForgetLease, store
<1>1. TypeOK' /\ ahead' <= others'
  <2>1. ahead' \in 0..MaxOther /\ ahead' <= others'
      OBVIOUS
  <2> QED
      BY <2>1
<1>2. Recorded'
    BY DEF Recorded
<1>3. MineOK'
    BY DEF MineOK, FailedOn
<1>4. Between'
    BY DEF Between
<1>5. Attempt'
    BY DEF Attempt
<1>6. Target'
    BY DEF Target, FailedOn
<1>7. Leases'
    BY DEF Leases
<1> QED
    BY <1>1, <1>2, <1>3, <1>4, <1>5, <1>6, <1>7

LEMMA ReportUnauthorizedStep ==
    ASSUME RotInv, ReportUnauthorized
    PROVE  RotInv'
<1> USE RotationAssumption, FamiliesKnown
    DEF RotInv, TypeOK, ReportUnauthorized, HealthEvent, MarkHardFailure, Fail
<1>1. TypeOK' /\ ahead' <= others'
  <2>1. ahead' \in 0..MaxOther /\ ahead' <= others'
      OBVIOUS
  <2>2. failed' \in Failure \cup {None}
    <3>1. CASE ahead > 0
        BY <3>1
    <3>2. CASE ~(ahead > 0)
      <4>1. active \in Accounts /\ failed' = [account |-> active, seen |-> TRUE]
          BY <3>2
      <4> QED
          BY <4>1, FailureKnown
    <3> QED
        BY <3>1, <3>2
  <2>3. unauth' \in SUBSET Accounts /\ pending' = "hard" /\ serving' = FALSE
      OBVIOUS
  <2>4. UNCHANGED <<holder, quota, refilled, active, age, replaced, pc, req, others, faults>>
      OBVIOUS
  <2> HIDE DEF Fail, MarkHardFailure, HealthEvent, ReportUnauthorized
  <2> QED
      BY <2>1, <2>2, <2>3, <2>4
<1>2. Recorded'
    BY DEF Recorded
<1>3. MineOK'
    BY DEF MineOK, FailedOn
<1>4. Between'
    BY DEF Between, MineOK
<1>5. Attempt'
    BY DEF Attempt
<1>6. Target'
    BY DEF Target, FailedOn
<1>7. Leases'
    BY DEF Leases
<1> QED
    BY <1>1, <1>2, <1>3, <1>4, <1>5, <1>6, <1>7

LEMMA ReleaseForShutdownStep ==
    ASSUME RotInv, ReleaseForShutdown
    PROVE  RotInv'
<1> USE RotationAssumption, FamiliesKnown DEF RotInv, TypeOK, ReleaseForShutdown, Owners
<1>1. TypeOK' /\ ahead' <= others'
  <2>1. ahead' \in 0..MaxOther /\ ahead' <= others'
      OBVIOUS
  <2> QED
      BY <2>1
<1>2. Recorded'
    BY DEF Recorded
<1>3. MineOK'
    BY DEF MineOK, FailedOn
<1>4. Between'
    BY DEF Between
<1>5. Attempt'
    BY DEF Attempt
<1>6. Target'
    BY DEF Target, FailedOn
<1>7. Leases'
    BY DEF Leases
<1> QED
    BY <1>1, <1>2, <1>3, <1>4, <1>5, <1>6, <1>7

LEMMA TickStep ==
    ASSUME RotInv, Tick
    PROVE  RotInv'
<1> USE RotationAssumption, FamiliesKnown DEF RotInv, TypeOK, Tick
<1>1. TypeOK' /\ ahead' <= others'
  <2>3. quota' \in [Accounts \X Families -> Row]
    <3>1. ASSUME NEW r \in Accounts \X Families
          PROVE  quota'[r] \in Row
      <4> DEFINE x == IF quota[r].wait > 0 THEN quota[r].wait - 1 ELSE 0
      <4>1. quota[r] \in Row
          OBVIOUS
      <4>2. quota[r].level \in Levels \cup {"none"} /\ x \in 0..ProbeHold
          BY <4>1 DEF Row
      <4>3. quota'[r] = [level |-> quota[r].level, wait |-> x]
          OBVIOUS
      <4> HIDE DEF x
      <4> QED
          BY <4>2, <4>3 DEF Row
    <3> QED
        BY <3>1
  <2> QED
      BY <2>3
<1>2. Recorded'
    BY DEF Recorded, Failure
<1>3. MineOK'
    BY DEF MineOK, FailedOn
<1>4. Between'
    BY DEF Between
<1>5. Attempt'
    BY DEF Attempt
<1>6. Target'
    BY DEF Target, FailedOn
<1>7. Leases'
    BY DEF Leases
<1> QED
    BY <1>1, <1>2, <1>3, <1>4, <1>5, <1>6, <1>7

LEMMA ReportRateLimitsStep ==
    ASSUME RotInv, NEW level \in Levels, ReportRateLimits(level)
    PROVE  RotInv'
<1> USE RotationAssumption, FamiliesKnown
    DEF RotInv, TypeOK, ReportRateLimits, RotateOnNextTurn
<1>0. /\ quota' \in [Accounts \X Families -> Row]
      /\ quota'[<<active, Family[active]>>].level = level
      /\ \A b \in Accounts, family \in Families :
            b # active \/ family # Family[active] =>
                quota'[<<b, family>>] = quota[<<b, family>>]
    BY RowWritten
<1>f. failed' = failed \/ failed' = None
    BY DEF Excuse
<1>1. TypeOK' /\ ahead' <= others'
    BY <1>0, <1>f
<1>2. Recorded'
  <2>1. CASE level = "full"
      BY <1>0, <2>1 DEF Recorded, Failure
  <2>2. CASE level # "full"
      BY <1>0, <2>2 DEF Recorded, Excuse, Failure
  <2> QED
      BY <2>1, <2>2
<1>3. MineOK'
    BY <1>f DEF MineOK, FailedOn
<1>4. Between'
    BY <1>f DEF Between
<1>5. Attempt'
    BY <1>f DEF Attempt
<1>6. Target'
    BY <1>f DEF Target
<1>7. Leases'
    BY DEF Leases
<1> QED
    BY <1>1, <1>2, <1>3, <1>4, <1>5, <1>6, <1>7

LEMMA ReportUsageLimitStep ==
    ASSUME RotInv, ReportUsageLimit
    PROVE  RotInv'
<1> USE RotationAssumption, FamiliesKnown
    DEF RotInv, TypeOK, ReportUsageLimit, MarkHardFailure, Fail
<1>0. /\ quota' \in [Accounts \X Families -> Row]
      /\ quota'[<<active, Family[active]>>].level = "full"
  <2>1. active \in Accounts /\ Family[active] \in Families
      OBVIOUS
  <2>2. CASE SetRow(active, Family[active], "full", ProbeHold)
      BY <2>1, <2>2, FullWritten
  <2> QED
      BY <2>2
<1>1. TypeOK' /\ ahead' <= others'
    BY <1>0, FailureKnown
<1>2. Recorded'
    BY <1>0 DEF Recorded
<1>3. MineOK'
    BY DEF MineOK, FailedOn
<1>4. Between'
    BY DEF Between
<1>5. Attempt'
    BY DEF Attempt
<1>6. Target'
    BY DEF Target
<1>7. Leases'
    BY DEF Leases
<1> QED
    BY <1>1, <1>2, <1>3, <1>4, <1>5, <1>6, <1>7

LEMMA ReportCompactionLimitStep ==
    ASSUME RotInv, NEW isCodex \in BOOLEAN, NEW wait \in {0, ProbeHold},
           ReportCompactionLimit(isCodex, wait)
    PROVE  RotInv'
<1> USE RotationAssumption, FamiliesKnown
    DEF RotInv, TypeOK, ReportCompactionLimit, MarkHardFailure, Fail
<1>0. /\ quota' \in [Accounts \X Families -> Row]
      /\ isCodex => quota'[<<active, "codex">>].level = "full"
  <2>1. active \in Accounts
      OBVIOUS
  <2>2. CASE isCodex
    <3>1. SetRow(active, "codex", "full", wait)
        BY <2>2
    <3>2. quota \in [Accounts \X Families -> Row] /\ "codex" \in Families
        OBVIOUS
    <3> HIDE DEF RotInv, TypeOK, ReportCompactionLimit
    <3> QED
        BY <2>1, <3>1, <3>2, FullWritten
  <2>3. CASE ~isCodex
      BY <2>3
  <2> QED
      BY <2>2, <2>3
<1>1. TypeOK' /\ ahead' <= others'
  <2>1. unauth' \in SUBSET Accounts /\ ahead' \in 0..MaxOther /\ ahead' <= ahead
      BY DEF HealthEvent
  <2>2. failed' \in Failure
      BY FailureKnown
  <2>3. refilled' \in SUBSET Accounts /\ pending' = "hard" /\ serving' = FALSE
      OBVIOUS
  <2>4. UNCHANGED <<holder, active, age, replaced, pc, req, others, faults>>
      OBVIOUS
  <2>5. ahead' <= others'
      BY <2>1, <2>4
  <2> HIDE DEF Fail, MarkHardFailure, ReportCompactionLimit
  <2> QED
      BY <1>0, <2>1, <2>2, <2>3, <2>4, <2>5
<1>2. Recorded'
    BY <1>0 DEF Recorded
<1>3. MineOK'
    BY DEF MineOK, FailedOn
<1>4. Between'
    BY DEF Between
<1>5. Attempt'
    BY DEF Attempt
<1>6. Target'
    BY DEF Target
<1>7. Leases'
    BY DEF Leases
<1> QED
    BY <1>1, <1>2, <1>3, <1>4, <1>5, <1>6, <1>7

LEMMA FaultStep ==
    ASSUME RotInv, Fault
    PROVE  RotInv'
<1> USE RotationAssumption, FamiliesKnown
    DEF RotInv, TypeOK, Fault, manager, NoRequest, Request, Owners,
        Intents, Goto
<1>1. TypeOK' /\ ahead' <= others'
  <2>1. ahead' \in 0..MaxOther /\ ahead' <= others'
      OBVIOUS
  <2>2. replaced' \in Accounts \cup {None}
      BY DEF ReplacedBy
  <2>3. holder' \in [Accounts -> Owners]
      OBVIOUS
  <2> QED
      BY <2>1, <2>2, <2>3
<1>2. Recorded'
    BY DEF Recorded
<1>3. MineOK'
    BY DEF MineOK, FailedOn
<1>4. Between'
    BY DEF Between
<1>5. Attempt'
    BY DEF Attempt
<1>6. Target'
    BY DEF Target, FailedOn
<1>7. Leases'
    BY DEF Leases
<1> QED
    BY <1>1, <1>2, <1>3, <1>4, <1>5, <1>6, <1>7

(* The loop follows its plan: it keeps what the attempt is about.          *)
LEMMA FollowStep ==
    ASSUME RotInv, NEW step, NEW a \in Accounts \cup {None}, Follow(step, a), pc = "plan",
           UNCHANGED <<store, serving, failed, others, faults>>,
           \/ step \in {"release", "acquire"} /\ a \in Choices
              /\ step = IF req.intent # "startup" /\ ~req.released
                        THEN "release" ELSE "acquire"
           \/ step = "reserve" /\ a \in Accounts
           \/ step = "adopt" /\ a = req.current /\ req.intent = "soft" /\ ~req.released
           \/ step = "reacquire" /\ a = req.current /\ req.intent = "soft" /\ req.released
           \/ step = "giveUp" /\ req.intent = "hard" /\ ~req.released
    PROVE  RotInv'
<1> USE RotationAssumption, FamiliesKnown DEF RotInv, TypeOK, store, manager, Follow, Goto
<1>1. /\ a \in Choices => a \in Accounts /\ (req.intent = "soft" => a # replaced)
                        /\ (req.intent = "hard" => a # req.current)
      /\ req.intent = "soft" => req.current \in Accounts
    BY DEF Choices, Best, Ordinary, Candidates, Current, JustReplaced, Attempt
<1>2. req' \in Request /\ req' = [req EXCEPT !.target = a]
    BY DEF Request
<1>3. /\ req'.target = a /\ req'.intent = req.intent /\ req'.current = req.current
      /\ req'.released = req.released
    BY <1>2 DEF Request
<1>4. TypeOK' /\ ahead' <= others'
    BY <1>2
<1>5. Recorded' /\ MineOK'
    BY DEF Recorded, MineOK, FailedOn
<1>6. Between' /\ Attempt'
    BY <1>1, <1>3 DEF Between, Attempt
<1>7. Target'
    BY <1>1, <1>3 DEF Target, Attempt, MineOK, FailedOn
<1>8. Leases'
    BY DEF Leases
<1> QED
    BY <1>4, <1>5, <1>6, <1>7, <1>8

LEMMA NoEligibleStep ==
    ASSUME RotInv, NoEligible, pc = "plan", UNCHANGED <<store, serving, failed, others, faults>>,
           req.intent = "startup" \/ req.released
    PROVE  RotInv'
<1> USE RotationAssumption, FamiliesKnown DEF RotInv, TypeOK, store, NoEligible, Goto
<1>1. TypeOK' /\ ahead' <= others'
    BY DEF NoRequest, Request, Intents
<1>2. Recorded' /\ MineOK'
    BY DEF Recorded, MineOK, FailedOn
<1>3. Between' /\ Attempt' /\ Target' /\ Leases'
    BY DEF Between, Attempt, Target, Leases, FailedOn
<1> QED
    BY <1>1, <1>2, <1>3

LEMMA PlanStep ==
    ASSUME RotInv, Plan
    PROVE  RotInv'
<1>1. pc = "plan" /\ UNCHANGED <<store, serving, failed, others, faults>> /\ req.intent \in Intents
    BY DEF Plan, RotInv, TypeOK, Request
<1>2. \A a \in Choices : a \in Accounts
    BY RotationAssumption DEF Choices, Best, Ordinary, Candidates
<1>3. \A a \in Probeable : a \in Accounts
    BY DEF Probeable, Candidates
<1>4. req.intent = "soft" => req.current \in Accounts
    BY <1>1 DEF RotInv, Attempt
<1>5. ASSUME NEW a \in Choices,
             Follow(IF req.intent # "startup" /\ ~req.released
                    THEN "release" ELSE "acquire", a)
      PROVE  RotInv'
    BY <1>1, <1>2, <1>5, FollowStep
<1>6. ASSUME NEW a \in Probeable, Follow("reserve", a)
      PROVE  RotInv'
    BY <1>1, <1>3, <1>6, FollowStep
<1>7. ASSUME CASE req.intent = "soft" /\ ~req.released -> Follow("adopt", req.current)
               [] req.intent = "soft" /\ req.released /\ ~req.reacquired ->
                    Follow("reacquire", req.current)
               [] req.intent = "hard" /\ ~req.released -> Follow("giveUp", None)
               [] OTHER -> NoEligible
      PROVE  RotInv'
  <2>1. CASE req.intent = "soft" /\ ~req.released
      BY <1>1, <1>4, <1>7, <2>1, FollowStep
  <2>2. CASE req.intent = "soft" /\ req.released /\ ~req.reacquired
      BY <1>1, <1>4, <1>7, <2>2, FollowStep
  <2>3. CASE req.intent = "hard" /\ ~req.released
      BY <1>1, <1>7, <2>3, FollowStep
  <2>4. CASE /\ ~(req.intent = "soft" /\ ~req.released)
             /\ ~(req.intent = "soft" /\ req.released /\ ~req.reacquired)
             /\ ~(req.intent = "hard" /\ ~req.released)
      BY <1>1, <1>7, <2>4, NoEligibleStep DEF Intents
  <2> QED
      BY <2>1, <2>2, <2>3, <2>4
<1> QED
    BY <1>5, <1>6, <1>7 DEF Plan

LEMMA OtherStep ==
    ASSUME RotInv, Other
    PROVE  RotInv'
<1> USE RotationAssumption, FamiliesKnown DEF RotInv, TypeOK, Other
<1>1. PICK a \in Accounts :
          \/ OtherTakes(a) \/ LeaseEnds(a) \/ Refill(a)
          \/ \E limit \in {"codex", Family[a]}, level \in Levels :
                OtherObserves(a, limit, level)
          \/ \E isUnauth \in BOOLEAN : OtherReports(a, isUnauth)
    OBVIOUS
<1> USE DEF OtherTakes, LeaseEnds, Refill, OtherObserves, OtherReports
<1>2. /\ holder' \in [Accounts -> Owners]
      /\ \A b \in Accounts : holder'[b] \in {"me", "probe"} => holder'[b] = holder[b]
    BY <1>1 DEF Owners
<1>3. /\ quota' \in [Accounts \X Families -> Row]
      /\ \A b \in Accounts, family \in Families :
            b # a => quota'[<<b, family>>] = quota[<<b, family>>]
      /\ \A b \in Accounts : b # a => (b \in unauth' <=> b \in unauth)
  <2>1. CASE quota' = quota
      BY <1>1, <2>1
  <2>2. CASE \E limit \in {"codex", Family[a]}, level \in Levels :
                OtherObserves(a, limit, level)
    <3>1. PICK limit \in {"codex", Family[a]}, level \in Levels :
              OtherObserves(a, limit, level)
        BY <2>2
    <3>2. limit \in Families /\ (IF level = "full" THEN ProbeHold ELSE 0) \in 0..ProbeHold
        OBVIOUS
    <3>3. SetRow(a, limit, level, IF level = "full" THEN ProbeHold ELSE 0)
          /\ unauth' = unauth
        BY <3>1
    <3>4. quota \in [Accounts \X Families -> Row]
        OBVIOUS
    <3> QED
      <4> HIDE DEF RotInv, TypeOK, Other, OtherObserves
      <4> DEFINE wait == IF level = "full" THEN ProbeHold ELSE 0
      <4> HIDE DEF wait
      <4>1. wait \in 0..ProbeHold /\ SetRow(a, limit, level, wait)
          BY <3>2, <3>3 DEF wait
      <4>2. /\ quota' \in [Accounts \X Families -> Row]
            /\ \A b \in Accounts, family \in Families :
                  b # a => quota'[<<b, family>>] = quota[<<b, family>>]
        <5>1. /\ quota' \in [Accounts \X Families -> Row]
              /\ \A b \in Accounts, family \in Families :
                    b # a \/ family # limit =>
                        quota'[<<b, family>>] = quota[<<b, family>>]
            BY <3>2, <3>4, <4>1, RowWritten, Zenon
        <5> QED
            BY <5>1
      <4> QED
          BY <3>3, <4>2
  <2> QED
      BY <1>1, <2>1, <2>2
<1>4. /\ unauth' \in SUBSET Accounts /\ refilled' \in SUBSET Accounts
      /\ others' \in 0..MaxOther /\ ahead' \in Nat /\ ahead' <= others'
    BY <1>1
<1>5. \/ failed' = None
      \/ failed' = failed /\ ~FailedOn(a)
      \/ failed' = failed /\ quota' = quota /\ unauth' = unauth
    BY <1>1 DEF Excuse, FailedOn
<1>6. TypeOK' /\ ahead' <= others'
    BY <1>2, <1>3, <1>4, <1>5
<1>7. Recorded'
    BY <1>3, <1>5 DEF Recorded, FailedOn, Failure
<1>8. MineOK'
    BY <1>2, <1>5 DEF MineOK, FailedOn
<1>9. Between' /\ Attempt' /\ Target' /\ Leases'
    BY <1>2, <1>5 DEF Between, Attempt, Target, Leases, FailedOn
<1> QED
    BY <1>6, <1>7, <1>8, <1>9

-----------------------------------------------------------------------------
(* The theorems.                                                           *)

(* The inductive invariant of the selection loop.                          *)
THEOREM RotationInvariant == Spec => []RotInv
<1>1. Init => RotInv
  <2> SUFFICES ASSUME Init PROVE RotInv
      OBVIOUS
  <2>1. NoRow \in Row /\ NoRequest \in Request
      BY RotationAssumption DEF NoRow, Row, Levels, NoRequest, Request, Intents, Families
  <2>2. quota \in [Accounts \X Families -> Row]
      BY <2>1, Zenon DEF Init
  <2>3. holder \in [Accounts -> Owners]
      BY DEF Init, Owners
  <2>4. TypeOK
    <3>1. /\ age \in 0..MinInterval /\ ahead \in 0..MaxOther
          /\ others \in 0..MaxOther /\ faults \in 0..MaxFaults
        BY RotationAssumption DEF Init
    <3> QED
        BY <2>1, <2>2, <2>3, <3>1 DEF Init, TypeOK
  <2> QED
    BY <2>4 DEF Init, RotInv, Recorded, MineOK, Between, Attempt,
       Target, Leases, FailedOn
<1>2. RotInv /\ [Next]_vars => RotInv'
  <2> SUFFICES ASSUME RotInv, [Next]_vars PROVE RotInv'
      OBVIOUS
  <2>1. CASE UNCHANGED vars
      BY <2>1 DEF vars, store, manager, RotInv, TypeOK, Recorded, MineOK, Between,
         Attempt, Target, Leases, FailedOn
  <2>2. CASE PrepareTurn
      BY <2>2, PrepareRotationStep, PrepareRenewedStep, PrepareMissingStep,
         PrepareStartupStep DEF PrepareTurn
  <2>3. CASE Step
      BY <2>3, PlanStep, ReleaseCurrentStep, AcquireStep, AdoptStep, ReserveStep,
         VerifyStep, RefreshStep, EndProbeStep DEF Step
  <2> QED
      BY <2>1, <2>2, <2>3, HeartbeatStep, ReportUnauthorizedStep,
         ReleaseForShutdownStep, TickStep, ReportRateLimitsStep, ReportUsageLimitStep,
         OtherStep, FaultStep,
         ReportCompactionLimitStep DEF Next
<1> QED
    BY <1>1, <1>2, PTL DEF Spec

(* The account whose failure is on record is not given to the next turn,   *)
(* but by a startup that looks at another row, for any number of accounts  *)
(* and limit families (prepare_turn, acquire_selected_rotation_lease,      *)
(* resolve_selection_family).                                              *)
THEOREM RotationAvoidsFailed == Spec => FailedAccountAvoided
<1> DEFINE Avoided ==
        (~serving /\ serving' /\ failed # None /\ active' = failed.account)
            => pc = "adopt" /\ req.intent = "startup" /\ ~failed.seen
<1>1. RotInv /\ [Next]_vars => [Avoided]_vars
  <2> SUFFICES ASSUME RotInv, Next, ~serving, serving', failed # None,
                      active' = failed.account
               PROVE  pc = "adopt" /\ req.intent = "startup" /\ ~failed.seen
      BY DEF vars
  <2>1. PrepareRenewed \/ Adopt
      BY DEF Next, PrepareTurn, PrepareRotation, PrepareMissing, PrepareStartup,
         StartRequest, Step, Plan, ReleaseCurrent, Acquire, Reserve, Verify,
         Refresh, EndProbe, Heartbeat, ReportUnauthorized, ReleaseForShutdown,
         Tick, ReportRateLimits, ReportUsageLimit, ReportCompactionLimit,
         MarkHardFailure, Other, Fault
  <2>2. ~PrepareRenewed
      BY DEF PrepareRenewed, RotInv, Between
  <2> QED
      BY <2>1, <2>2 DEF Adopt, RotInv, Target, FailedOn
<1> QED
    BY <1>1, RotationInvariant, PTL DEF Spec, FailedAccountAvoided

(* Without storage failures a finished attempt leaves no lease behind      *)
(* (acquire_selected_lease, release_lease_record).                         *)
THEOREM RotationLeavesNothing == Spec => []NothingLeftBehind
<1>1. RotInv => NothingLeftBehind
    BY DEF RotInv, Leases, NothingLeftBehind
<1> QED
    BY <1>1, RotationInvariant, PTL

(* Proactive switches wait for the minimum interval and do not go back     *)
(* (observe_soft_pressure, evaluate_selection).                            *)
THEOREM RotationDamped == Spec => SwitchesAreDamped
<1> DEFINE Damped ==
        /\ (pc = "release" /\ req.intent = "soft" /\ pc' = "acquire") => age = MinInterval
        /\ (pc = "adopt" /\ req.intent = "soft" /\ req.target # req.current
              /\ serving') => active' # replaced
<1>1. RotInv /\ [Next]_vars => [Damped]_vars
  <2> SUFFICES ASSUME RotInv, Next PROVE Damped
      BY DEF vars
  <2>1. (pc = "release" /\ req.intent = "soft") => age = MinInterval
      BY DEF RotInv, Attempt
  <2>2. ASSUME pc = "adopt", req.intent = "soft", req.target # req.current,
               serving'
        PROVE  active' # replaced
    <3>1. req.target # replaced /\ ~serving
        BY <2>2 DEF RotInv, Target, Between
    <3>2. Adopt
        BY <2>2, <3>1 DEF Next, PrepareTurn, PrepareRotation, PrepareRenewed,
           PrepareMissing, PrepareStartup, Step, Plan, ReleaseCurrent, Acquire,
           Reserve, Verify, Refresh, EndProbe, Heartbeat, ReportUnauthorized,
           ReleaseForShutdown, Tick, ReportRateLimits, ReportUsageLimit,
           ReportCompactionLimit, Other,
           Fault
    <3> QED
        BY <3>1, <3>2 DEF Adopt
  <2> QED
      BY <2>1, <2>2
<1> QED
    BY <1>1, RotationInvariant, PTL DEF Spec, SwitchesAreDamped
=============================================================================
