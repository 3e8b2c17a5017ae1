\* Admission, reports and generations of three requests, each of which ends.
CONSTANTS
    r1 = r1  r2 = r2  r3 = r3  t1 = t1  t2 = t2
    Requests = {r1, r2, r3}
    Trees = {t1, t2}
    Tree <- MCTree
    Free = Free
    MaxLeases = 2
SPECIFICATION FairSpec
CHECK_DEADLOCK FALSE
INVARIANTS
    AdmissionsOK
    GenerationNamesLease
PROPERTIES
    ReportsHitTheirLease
    EveryRequestEnds
