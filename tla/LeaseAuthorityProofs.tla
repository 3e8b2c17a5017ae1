------------------------ MODULE LeaseAuthorityProofs ------------------------
(***************************************************************************)
(* A report acts on the lease it is about, for any number of requests and  *)
(* leases.  generation_matches compares numbers, so the proof is that a    *)
(* generation number never names two leases.  The inductive invariant adds *)
(* what that rests on: the identity the manager last observed is the lease *)
(* it holds, ids and generations in use are not larger than the last ones  *)
(* handed out, and a manager with a lease has counted a generation.        *)
(***************************************************************************)
EXTENDS LeaseAuthority, TLAPS

Bounded ==
    /\ identity = active
    /\ active <= drawn /\ row <= drawn
    /\ active # None => gen # None
    /\ \A r \in Requests : sel[r].gen <= gen

AuthInv == TypeOK /\ Bounded /\ GenerationNamesLease

-----------------------------------------------------------------------------
(* A lease the store grants is a new one for the manager.                  *)
LEMMA GrantIsNew ==
    ASSUME AuthInv, NEW held \in {row, RowAfterRelease},
           held = None \/ held # active, NEW lease \in Grantable(held)
    PROVE  /\ lease \in Nat /\ lease # None /\ lease # active
           /\ lease <= IF lease > drawn THEN lease ELSE drawn
BY AuthorityAssumption
   DEF AuthInv, TypeOK, Bounded, Grantable, RowAfterRelease, None

(* Preparing a request on the lease the manager observes keeps generations *)
(* and leases one to one.                                                  *)
LEMMA ObservePreserves ==
    ASSUME AuthInv, NEW r \in Requests, NEW lease \in Nat, lease # None,
           Observe(lease), sel' = [sel EXCEPT ![r] = [gen |-> gen', lease |-> lease]]
    PROVE  /\ GenerationNamesLease'
           /\ gen' \in Nat /\ gen' # None
           /\ sel' \in [Requests -> Snapshot]
           /\ \A q \in Requests : sel'[q].gen <= gen'
<1> USE DEF AuthInv, TypeOK, Bounded, Snapshot, None
<1>1. gen' \in Nat /\ gen' # None /\ gen' >= gen
    BY DEF Observe
<1>2. sel' \in [Requests -> Snapshot]
    BY <1>1
<1>3. \A q \in Requests : sel'[q].gen <= gen'
    BY <1>1
<1>4. ASSUME NEW q \in Requests, sel'[q].gen = gen'
      PROVE  sel'[q].lease = lease
    <2>1. CASE q = r
        BY <2>1
    <2>2. CASE q # r
        <3>1. sel[q].gen = gen' /\ sel[q].lease = sel'[q].lease
            BY <1>4, <2>2
        <3>2. gen' = gen /\ identity = lease
            BY <3>1 DEF Observe
        <3> QED
            BY <1>1, <3>1, <3>2 DEF GenerationNamesLease
    <2> QED
        BY <2>1, <2>2
<1>5. ASSUME NEW p \in Requests, NEW q \in Requests,
             sel'[p].gen # None, sel'[q].gen = sel'[p].gen
      PROVE  sel'[q].lease = sel'[p].lease
    <2>1. CASE p = r \/ q = r
        BY <1>4, <1>5, <2>1
    <2>2. CASE p # r /\ q # r
        BY <1>5, <2>2 DEF GenerationNamesLease
    <2> QED
        BY <2>1, <2>2
<1>6. active' = lease
    BY DEF Observe
<1> QED
    BY <1>1, <1>2, <1>3, <1>4, <1>5, <1>6 DEF GenerationNamesLease

(* A step that drops the lease, or keeps it, and prepares nothing.         *)
LEMMA NoSnapshotPreserves ==
    ASSUME AuthInv, TypeOK', UNCHANGED <<gen, sel>>, drawn <= drawn',
           row' <= drawn', identity' = active',
           active' = active \/ active' = None
    PROVE  AuthInv'
<1> USE DEF AuthInv, TypeOK, None
<1>1. Bounded'
    BY DEF Bounded
<1>2. GenerationNamesLease'
    BY DEF GenerationNamesLease
<1> QED
    BY <1>1, <1>2

-----------------------------------------------------------------------------
(* prepare_turn keeps the invariant on each of its paths.                  *)
LEMMA PreparePreserves ==
    ASSUME AuthInv, NEW r \in Requests, Prepare(r)
    PROVE  AuthInv'
<1> USE DEF AuthInv
<1>1. /\ mutex' \in Requests \cup {Free}
      /\ UNCHANGED <<activeGen, admitted, cancelled, preview, woken>>
    BY DEF Prepare, Unlock, TypeOK, admissionVars
<1>2. RowAfterRelease \in Nat /\ RowAfterRelease <= drawn
    BY DEF TypeOK, Bounded, RowAfterRelease, None
<1>3. ASSUME NEW lease \in Nat, lease # None, Observe(lease),
             Prepared(r, lease), row' \in Nat, drawn' \in Nat,
             row' <= drawn', lease <= drawn', pending' \in Rotations
      PROVE  AuthInv'
    <2>1. sel' = [sel EXCEPT ![r] = [gen |-> gen', lease |-> lease]]
        BY <1>3 DEF Prepared
    <2>2. /\ GenerationNamesLease' /\ gen' \in Nat /\ gen' # None
          /\ sel' \in [Requests -> Snapshot]
          /\ \A q \in Requests : sel'[q].gen <= gen'
        BY <1>3, <2>1, ObservePreserves
    <2>3. active' = lease /\ identity' = lease
        BY <1>3 DEF Observe
    <2>4. members' \in SUBSET Requests /\ pc' \in [Requests -> Steps]
        BY <1>3 DEF Prepared, Goto, Steps, Waiting, TypeOK
    <2>5. TypeOK'
        BY <1>1, <1>3, <2>2, <2>3, <2>4 DEF TypeOK
    <2> QED
        BY <1>3, <2>2, <2>3, <2>5 DEF Bounded
<1>4. ASSUME Unprepared(r), row' \in Nat, drawn' \in Nat, drawn <= drawn',
             row' <= drawn', identity' = active', gen' = gen,
             active' = active \/ active' = None, pending' \in Rotations
      PROVE  AuthInv'
    <2>1. UNCHANGED <<sel, members>> /\ pc' \in [Requests -> Steps]
        BY <1>4 DEF Unprepared, Goto, Steps, TypeOK
    <2>2. TypeOK'
        BY <1>1, <1>4, <2>1 DEF TypeOK, None
    <2> QED
        BY <1>4, <2>1, <2>2, NoSnapshotPreserves
<1>5. drawn \in Nat /\ row \in Nat /\ active \in Nat /\ row <= drawn
      /\ active <= drawn /\ identity = active /\ pending \in Rotations
      /\ "none" \in Rotations
    BY DEF TypeOK, Bounded, Rotations
<1>6. ASSUME NEW held \in {row, RowAfterRelease}, held = None \/ held # active,
             NEW lease \in Grantable(held), row' = lease,
             drawn' = IF lease > drawn THEN lease ELSE drawn
      PROVE  /\ lease \in Nat /\ lease # None
             /\ row' \in Nat /\ drawn' \in Nat /\ row' <= drawn'
             /\ lease <= drawn' /\ drawn <= drawn'
    BY <1>5, <1>6, GrantIsNew
<1>7. RowAfterRelease = None \/ RowAfterRelease # active
    BY DEF RowAfterRelease
<1>8. CASE PrepareRotation(r)
    <2>1. active # None /\ pending' = "none"
        BY <1>8 DEF PrepareRotation
    <2>2. CASE UNCHANGED <<row, drawn>> /\ Observe(active) /\ Prepared(r, active)
        BY <1>3, <1>5, <2>1, <2>2
    <2>3. ASSUME NEW lease \in Grantable(RowAfterRelease), row' = lease,
                 drawn' = IF lease > drawn THEN lease ELSE drawn,
                 Observe(lease), Prepared(r, lease)
          PROVE  AuthInv'
        BY <1>3, <1>5, <1>6, <1>7, <2>1, <2>3
    <2>4. CASE /\ row' = RowAfterRelease /\ active' = None /\ identity' = None
               /\ UNCHANGED <<drawn, gen>> /\ Unprepared(r)
        BY <1>2, <1>4, <1>5, <2>1, <2>4
    <2> QED
        BY <1>8, <2>2, <2>3, <2>4 DEF PrepareRotation
<1>9. CASE RotationFails(r)
    <2>1. pending' = "none" /\ gen' = gen /\ Unprepared(r)
        BY <1>9 DEF RotationFails
    <2>2. CASE UNCHANGED <<row, drawn, active, identity>>
        BY <1>4, <1>5, <2>1, <2>2
    <2>3. CASE /\ active' = None /\ identity' = None
               /\ row' = RowAfterRelease /\ UNCHANGED drawn
        BY <1>2, <1>4, <1>5, <2>1, <2>3
    <2>4. ASSUME active' = None, identity' = None,
                 NEW lease \in Grantable(RowAfterRelease), row' = lease,
                 drawn' = IF lease > drawn THEN lease ELSE drawn
          PROVE  AuthInv'
        BY <1>4, <1>5, <1>6, <1>7, <2>1, <2>4
    <2> QED
        BY <1>9, <2>2, <2>3, <2>4 DEF RotationFails
<1>10. CASE PrepareRenewal(r)
    BY <1>3, <1>5, <1>10 DEF PrepareRenewal
<1>11. CASE PrepareStartup(r)
    <2>1. (row = None \/ row # active) /\ pending' \in Rotations
        BY <1>5, <1>11 DEF PrepareStartup
    <2>2. ASSUME NEW lease \in Grantable(row), row' = lease,
                 drawn' = IF lease > drawn THEN lease ELSE drawn,
                 \/ Observe(lease) /\ Prepared(r, lease)
                 \/ /\ active' = None /\ identity' = None
                    /\ UNCHANGED gen /\ Unprepared(r)
          PROVE  AuthInv'
        BY <1>3, <1>4, <1>5, <1>6, <2>1, <2>2
    <2>3. CASE /\ active' = None /\ identity' = None
               /\ UNCHANGED <<row, drawn, gen>> /\ Unprepared(r)
        BY <1>4, <1>5, <2>1, <2>3
    <2> QED
        BY <1>11, <2>2, <2>3 DEF PrepareStartup
<1> QED
    BY <1>8, <1>9, <1>10, <1>11 DEF Prepare

-----------------------------------------------------------------------------
LEMMA AuthInvInit == Init => AuthInv
BY DEF Init, AuthInv, TypeOK, Bounded, GenerationNamesLease, Steps, Snapshot,
       Rotations, None

(* The other steps of a request leave the manager alone.                   *)
LEMMA RequestPreserves ==
    ASSUME AuthInv, NEW r \in Requests,
           \/ Begin(r) \/ Lock(r) \/ Preview(r) \/ CheckPreview(r) \/ Park(r)
           \/ TryAdmit(r) \/ InsertAdmission(r) \/ Finish(r) \/ Abandon(r)
    PROVE  AuthInv'
<1> USE DEF AuthInv, Goto, Unlock, managerVars, admissionVars, requestVars
<1>1. UNCHANGED <<row, drawn, active, identity, gen, pending, sel>>
    BY DEF Begin, Lock, Preview, CheckPreview, Park, TryAdmit,
           InsertAdmission, Finish, Abandon
<1>2. pc' \in [Requests -> Steps]
    BY DEF Begin, Lock, Preview, CheckPreview, Park, TryAdmit,
           InsertAdmission, Finish, Abandon, TypeOK, Steps, Waiting
<1>3. mutex' \in Requests \cup {Free}
    BY DEF Begin, Lock, Preview, CheckPreview, Park, TryAdmit,
           InsertAdmission, Finish, Abandon, TypeOK
<1>4. Previews \in SUBSET Nat
    BY DEF Previews, TypeOK, None
<1>5. preview' \in [Requests -> Nat] /\ woken' \in [Requests -> BOOLEAN]
    <2>1. CASE Preview(r)
        <3>1. PICK g \in Previews : preview' = [preview EXCEPT ![r] = g]
            BY <2>1 DEF Preview
        <3> QED
            BY <1>4, <2>1, <3>1 DEF Preview, TypeOK
    <2>2. CASE Begin(r)
        BY <2>2 DEF Begin, TypeOK
    <2>3. CASE Finish(r)
        BY <2>3 DEF Finish, TypeOK
    <2>4. CASE \/ Lock(r) \/ CheckPreview(r) \/ Park(r) \/ TryAdmit(r)
               \/ InsertAdmission(r) \/ Abandon(r)
        BY <2>4 DEF Lock, CheckPreview, Park, TryAdmit, InsertAdmission,
                    Abandon, TypeOK
    <2> QED
        BY <2>1, <2>2, <2>3, <2>4
<1>6. /\ activeGen' \in Nat /\ admitted' \in SUBSET Requests
      /\ members' \in SUBSET Requests /\ cancelled' \in SUBSET Requests
    BY DEF Begin, Lock, Preview, CheckPreview, Park, TryAdmit,
           InsertAdmission, Finish, Abandon, TypeOK, Snapshot, None
<1> QED
    BY <1>1, <1>2, <1>3, <1>5, <1>6
       DEF TypeOK, Bounded, GenerationNamesLease

(* Heartbeats, reports, shutdown and the loss of the row only drop leases. *)
LEMMA WorldPreserves ==
    ASSUME AuthInv,
           \/ \E r \in Requests :
                 \/ Heartbeat(r) \/ ReportRateLimits(r)
                 \/ ReportUsageLimit(r) \/ ReportUnauthorized(r)
           \/ ReleaseForShutdown
           \/ LoseRow
    PROVE  AuthInv'
<1> USE DEF AuthInv, admissionVars, requestVars
<1> DEFINE Drops ==
        /\ UNCHANGED <<drawn, gen, sel, mutex, activeGen, admitted, members, pc,
                       preview, woken>>
        /\ row' \in {row, None} /\ active' \in {active, None}
        /\ active' = active => identity' = identity
        /\ active' # active => identity' = None
        /\ pending' \in Rotations
        /\ cancelled' \in SUBSET Requests
<1>1. Drops
    <2>1. ASSUME NEW r \in Requests, Heartbeat(r)
          PROVE  Drops
        BY <2>1 DEF Heartbeat, DropLease, TypeOK, Rotations
    <2>2. ASSUME NEW r \in Requests, ReportRateLimits(r)
          PROVE  Drops
        BY <2>2 DEF ReportRateLimits, Report, TypeOK, Rotations
    <2>3. ASSUME NEW r \in Requests, ReportUsageLimit(r)
          PROVE  Drops
        BY <2>3 DEF ReportUsageLimit, Report, TypeOK, Rotations
    <2>4. ASSUME NEW r \in Requests, ReportUnauthorized(r)
          PROVE  Drops
        BY <2>4 DEF ReportUnauthorized, Report, CancelTree, TypeOK, Rotations
    <2>5. CASE ReleaseForShutdown
        BY <2>5 DEF ReleaseForShutdown, RowAfterRelease, TypeOK, Rotations,
                    Bounded, None
    <2>6. CASE LoseRow
        BY <2>6 DEF LoseRow, TypeOK
    <2> QED
        BY <2>1, <2>2, <2>3, <2>4, <2>5, <2>6
<1>2. TypeOK'
    BY <1>1 DEF TypeOK, Bounded, None
<1>3. drawn' = drawn /\ row' <= drawn' /\ identity' = active'
    BY <1>1 DEF TypeOK, Bounded, None
<1> QED
    BY <1>1, <1>2, <1>3, NoSnapshotPreserves DEF TypeOK

LEMMA AuthInvStep == AuthInv /\ [Next]_vars => AuthInv'
<1> SUFFICES ASSUME AuthInv, [Next]_vars
             PROVE  AuthInv'
    OBVIOUS
<1>1. CASE UNCHANGED vars
    BY <1>1 DEF vars, managerVars, admissionVars, requestVars, AuthInv, TypeOK,
                Bounded, GenerationNamesLease
<1>2. CASE Next
    BY <1>2, PreparePreserves, RequestPreserves, WorldPreserves
       DEF Next, RequestStep
<1> QED
    BY <1>1, <1>2

(* Every reachable state of the authority satisfies the invariant.         *)
THEOREM AuthorityInvariant == Spec => []AuthInv
<1>1. Init => AuthInv
    BY AuthInvInit
<1>2. AuthInv /\ [Next]_vars => AuthInv'
    BY AuthInvStep
<1> QED
    BY <1>1, <1>2, PTL DEF Spec

(* A generation number never names two leases.                             *)
THEOREM AuthorityGenerations == Spec => []GenerationNamesLease
<1>1. AuthInv => GenerationNamesLease
    BY DEF AuthInv
<1> QED
    BY <1>1, AuthorityInvariant, PTL

(* A report marks the lease it is about and cancels its own tree only.     *)
THEOREM AuthorityReports == Spec => ReportsHitTheirLease
<1>1. ASSUME AuthInv, NEW r \in Requests, Report(r)
      PROVE  sel[r].lease = active
    <2>1. active # None /\ gen = sel[r].gen
        BY <1>1 DEF Report, GenerationMatches
    <2>2. sel[r].gen # None
        BY <1>1, <2>1 DEF AuthInv, Bounded
    <2> QED
        BY <1>1, <2>1, <2>2 DEF AuthInv, GenerationNamesLease
<1>2. ASSUME AuthInv, NEW r \in Requests, ReportUnauthorized(r)
      PROVE  \A q \in cancelled' \ cancelled : Tree[q] = Tree[r]
    BY <1>2 DEF ReportUnauthorized, CancelTree
<1>3. AuthInv /\ [Next]_vars
        => [\A r \in Requests :
              /\ ReportUsageLimit(r) => sel[r].lease = active
              /\ ReportUnauthorized(r) =>
                    /\ sel[r].lease = active
                    /\ \A q \in cancelled' \ cancelled : Tree[q] = Tree[r]]_vars
    BY <1>1, <1>2 DEF ReportUsageLimit, ReportUnauthorized
<1> QED
    BY <1>3, AuthorityInvariant, PTL DEF Spec, ReportsHitTheirLease

-----------------------------------------------------------------------------
(* Where a request stands fixes whether it is admitted, a member of its    *)
(* tree and the owner of the mutex; a prepared request has a generation.   *)
Held(r) ==
    /\ r \in admitted <=> pc[r] = "inflight"
    /\ r \in members <=> pc[r] \in {"admit", "insert", "inflight"}
    /\ mutex = r <=> pc[r] \in {"preview", "check", "park", "prepare"}
    /\ r \in members => sel[r].gen # None

Tracker == activeGen = None <=> admitted = {}

AdmissionInv == Tracker /\ \A r \in Requests : Held(r)

(* prepare_turn returns a snapshot of a counted generation, or an error.   *)
LEMMA PrepareOutcome ==
    ASSUME AuthInv, AuthInv', NEW r \in Requests, Prepare(r)
    PROVE  \/ \E lease \in Nat : Prepared(r, lease) /\ gen' # None
           \/ Unprepared(r)
<1>1. \A n \in Nat : Grantable(n) \subseteq Nat \ {None}
    BY DEF Grantable, AuthInv, TypeOK, None
<1>2. row \in Nat /\ RowAfterRelease \in Nat /\ active \in Nat
    BY DEF RowAfterRelease, AuthInv, TypeOK, None
<1>3. ASSUME NEW lease \in Nat \ {None}, Observe(lease)
      PROVE  gen' # None
    BY <1>3 DEF Observe, AuthInv, Bounded
<1>4. CASE PrepareRotation(r)
    BY <1>1, <1>2, <1>3, <1>4 DEF PrepareRotation
<1>5. CASE RotationFails(r)
    BY <1>5 DEF RotationFails
<1>6. CASE PrepareRenewal(r)
    BY <1>2, <1>3, <1>6 DEF PrepareRenewal
<1>7. CASE PrepareStartup(r)
    BY <1>1, <1>2, <1>3, <1>7 DEF PrepareStartup
<1> QED
    BY <1>4, <1>5, <1>6, <1>7 DEF Prepare

LEMMA PrepareKeepsAdmissions ==
    ASSUME AuthInv, AuthInv', AdmissionInv, NEW r \in Requests, Prepare(r)
    PROVE  AdmissionInv'
<1>1. /\ UNCHANGED <<activeGen, admitted>> /\ Unlock(r) /\ mutex = r
      /\ pc[r] = "prepare" /\ r \notin admitted /\ r \notin members
    BY DEF Prepare, admissionVars, AdmissionInv, Held
<1>2. CASE Unprepared(r)
    BY <1>1, <1>2, AuthorityAssumption
       DEF Unprepared, AdmissionInv, Tracker, Held, Goto, Unlock, AuthInv, TypeOK
<1>3. ASSUME NEW lease \in Nat, Prepared(r, lease), gen' # None
      PROVE  AdmissionInv'
    <2>1. \A q \in Requests \ {r} : /\ sel'[q] = sel[q] /\ pc'[q] = pc[q]
                                    /\ q \in members' <=> q \in members
        BY <1>3 DEF Prepared, Goto, AuthInv, TypeOK
    <2>2. sel'[r].gen = gen' /\ pc'[r] = "admit" /\ r \in members'
        BY <1>3 DEF Prepared, Goto, AuthInv, TypeOK
    <2> QED
        BY <1>1, <1>3, <2>1, <2>2, AuthorityAssumption
           DEF AdmissionInv, Tracker, Held, Unlock
<1> QED
    BY <1>2, <1>3, PrepareOutcome

LEMMA RequestKeepsAdmissions ==
    ASSUME AuthInv, AdmissionInv, NEW r \in Requests,
           \/ Begin(r) \/ Lock(r) \/ Preview(r) \/ CheckPreview(r) \/ Park(r)
           \/ TryAdmit(r) \/ InsertAdmission(r) \/ Finish(r) \/ Abandon(r)
    PROVE  AdmissionInv'
<1> USE AuthorityAssumption
    DEF AuthInv, TypeOK, AdmissionInv, Tracker, Held, Goto, Unlock,
        managerVars, admissionVars, requestVars
<1>1. CASE Begin(r)
    BY <1>1 DEF Begin
<1>2. CASE Lock(r)
    BY <1>2 DEF Lock
<1>3. CASE Preview(r)
    BY <1>3 DEF Preview
<1>4. CASE CheckPreview(r)
    BY <1>4 DEF CheckPreview
<1>5. CASE TryAdmit(r)
    BY <1>5 DEF TryAdmit
<1>6. CASE InsertAdmission(r)
    BY <1>6 DEF InsertAdmission
<1>7. CASE Finish(r)
    BY <1>7 DEF Finish
<1>8. CASE Abandon(r)
    BY <1>8 DEF Abandon, Waiting
<1>9. CASE Park(r)
    BY <1>9 DEF Park
<1> QED
    BY <1>1, <1>2, <1>3, <1>4, <1>5, <1>6, <1>7, <1>8, <1>9

(* The tracker is open exactly when nothing is in flight, everything in    *)
(* flight is a member of its tree, and the mutex has the owner its         *)
(* request's position says: no guard outlives or outruns its request.      *)
THEOREM AuthorityAdmissions == Spec => []AdmissionsOK
<1>1. Init => AdmissionInv
    BY AuthorityAssumption DEF Init, AdmissionInv, Tracker, Held
<1>2. ASSUME AuthInv, AuthInv', AdmissionInv, [Next]_vars
      PROVE  AdmissionInv'
    <2>1. CASE /\ UNCHANGED <<mutex, admissionVars, members, pc>>
               /\ UNCHANGED sel
        BY <1>2, <2>1 DEF AdmissionInv, Tracker, Held, admissionVars
    <2>2. ASSUME \/ \E r \in Requests :
                       \/ Heartbeat(r) \/ ReportRateLimits(r)
                       \/ ReportUsageLimit(r) \/ ReportUnauthorized(r)
                 \/ ReleaseForShutdown \/ LoseRow \/ UNCHANGED vars
          PROVE  AdmissionInv'
        BY <2>1, <2>2
           DEF Heartbeat, ReportRateLimits, ReportUsageLimit, requestVars,
               ReportUnauthorized, Report, ReleaseForShutdown, LoseRow, vars
    <2> QED
        BY <1>2, <2>2, PrepareKeepsAdmissions, RequestKeepsAdmissions
           DEF Next, RequestStep
<1>3. AuthInv /\ AdmissionInv => AdmissionsOK
    BY DEF AuthInv, AdmissionInv, Tracker, Held, AdmissionsOK, TypeOK
<1> QED
    BY <1>1, <1>2, <1>3, AuthorityInvariant, PTL DEF Spec
=============================================================================
