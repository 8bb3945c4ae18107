\* Three cars, one of them twice: the monitor, the rules of the grader, and
\* termination.
SPECIFICATION Spec
CONSTANTS
    a = a
    b = b
    c = c
    Cars = {a, b, c}
    h_lanes = 2
    v_lanes = 2
    h_pri <- MC_h_pri
    v_pri <- MC_v_pri
    Trips <- MixedTrips
    UINT_MAX = 100
INVARIANTS
    TypeOK
    NoCollision
    Bookkeeping
    NoLostWakeup
    NeverDeadlocks
PROPERTIES
    ImplementsRules
    RoutesComplete
