\* As many arrivals as there are tickets.
SPECIFICATION Spec
CONSTANTS
    a = a
    b = b
    c = c
    Cars = {a, b}
    h_lanes = 2
    v_lanes = 2
    h_pri <- MC_h_pri
    v_pri <- MC_v_pri
    Trips <- OneTrip
    UINT_MAX = 2
INVARIANT
    NeverDeadlocks
