\* Three operations over three connections, with a restart of the gateway, and
\* with answers that come in time or not.
SPECIFICATION FairSpec

CONSTANTS
    t1 = t1
    t2 = t2
    Topics = {t1, t2}
    MaxOps = 3
    MaxConnections = 3
    MaxRestarts = 1
    Overlap = FALSE
    SameTick = FALSE

\* Nothing is left to do once the bounds are used up.
CHECK_DEADLOCK FALSE

INVARIANT ControlInv

PROPERTY CallsSettle
