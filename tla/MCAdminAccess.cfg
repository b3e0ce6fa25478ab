\* Two tenants behind two addresses, and two admin sessions: the quotas of the
\* proxy and those of the failures are explored apart.
SPECIFICATION Spec

CONSTANTS
    Ips = {i1, i2}
    Tenants = {t1, t2}
    SessionIds = {s1, s2}
    Window = 1
    Ttl = 1
    AuthFailLimit = 1
    ProxyLimit = 2
    IpLimit = 2
    Probing = FALSE
    None = None
    MaxNow = 2

SYMMETRY Symmetry

CONSTRAINT OneSide

\* The clock stops.
CHECK_DEADLOCK FALSE

INVARIANTS
    AccessInv
    RefusalsEarned
