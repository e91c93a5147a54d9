\* Two ids, four runtimes, one stream, two CloseTunnels.
SPECIFICATION Spec
CONSTANTS
    k1 = k1
    k2 = k2
    k3 = k3
    k4 = k4
    s1 = s1
    a = a
    b = b
    Ids = {a, b}
    Runtimes = {k1, k2, k3, k4}
    Streams = {s1}
    MaxCloses = 2
SYMMETRY TaskSymmetry
INVARIANT ActiveIsServed
INVARIANT ReachableByStop
CHECK_DEADLOCK FALSE
