\* The rules: they never block themselves, and they keep order across lanes.
\* The log may end anywhere.
SPECIFICATION BoundedSpec
CONSTANTS
    a = a
    b = b
    c = c
    Cars = {a, b, c}
    h_lanes = 2
    v_lanes = 2
    h_pri <- MC_h_pri
    v_pri <- MC_v_pri
    MaxArrivals = 5
INVARIANTS
    NeverGridlocked
PROPERTY
    EqualPriorityIsFIFO
SYMMETRY Symmetry
CHECK_DEADLOCK FALSE
