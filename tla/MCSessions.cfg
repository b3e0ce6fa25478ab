\* Two attempts that may overlap in the TypeScript SDKs, three runs of the Python
\* SDK, three faults; three connections of two addresses to a server that is
\* closed twice.
SPECIFICATION Spec

CONSTANTS
    Slots = {s1, s2}
    NoSlot = NoSlot
    Exchanging = TRUE
    MaxConnects = 2
    MaxFaults = 3
    MaxClientConnects = 3
    MaxRuns = 3
    Impatient = FALSE
    Sockets = {c1, c2, c3}
    Ips = {i1, i2}
    MaxPerIp = 1
    MaxCalls = 2

\* Bounded faults and calls, and a server that may be closed.
CHECK_DEADLOCK FALSE

INVARIANTS
    BackendsInv
    ClientInv
    LifecycleInv

PROPERTIES
    StaysDown
    Recovers
