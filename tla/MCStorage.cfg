\* Two issued credentials and one of before the migration, in two namespaces,
\* with and without crashes between the statements of a route.
SPECIFICATION StorageSpec

CONSTANTS
    Rows = {l1, r1, r2}
    NoRow = NoRow
    LegacyRows = {l1}
    BackendIds = {b1}
    NoBackend = NoBackend
    Namespaces = {"n1", "n2"}
    Instances = {"i1"}
    Bound = "bound"
    Conns = {x}
    MaxSecret = 2
    Ids = {1, 2, 3}
    Parents = {p1, p2}
    Times = {1, 2}
    Fallible = FALSE

SYMMETRY Symmetry

INVARIANTS
    CredentialsInv
    OpenConnectionsUnrevoked
    MigrationInv

PROPERTIES
    SecretsDie
    StartsSucceed
