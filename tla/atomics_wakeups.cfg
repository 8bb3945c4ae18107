\* Three cars, one of them twice, with as many conditions per lane as cars, so
\* that the fourth ticket of a lane shares one with the first.
SPECIFICATION Spec
CONSTANTS
    a = a
    b = b
    c = c
    Cars = {a, b, c}
    h_lanes = 2
    v_lanes = 1
    h_pri <- MC_h_pri
    v_pri <- MC_v_pri
    Trips <- MixedTrips
    Max_car = 3
    INT_MAX = 10
INVARIANTS
    NoCollision
    Bookkeeping
    ConditionsNotShared
    NoLostWakeup
    NeverDeadlocks
PROPERTY
    RoutesComplete
