\* Takeovers, lease expiry, revocation and restarts of two backends.
SPECIFICATION Spec

CONSTANTS
    b1 = b1
    b2 = b2
    k1 = k1
    k2 = k2
    d1 = d1
    d2 = d2
    NoSession = NoSession
    NoBackend = NoBackend
    NoCred = NoCred
    Sessions = {s1, s2, s3}
    Backends = {b1, b2}
    Creds = {k2, d1, d2}
    DeviceCreds = {d1, d2}
    AccessCreds = {k2}
    CredNs <- MCCredNs
    BackendNs <- MCBackendNs
    Identity <- MCIdentity
    MaxEpoch = 3
    ChannelIds = {}
    MaxChannelsPerPeer = 1
    TopicNames = {}
    MaxRetained = 1

SYMMETRY Symmetry

INVARIANTS
    TypeOK
    OwnershipInv
    ViewsFresh
    OpenPeersAuthorized

PROPERTIES
    EpochsOnlyAdvance
    DeposedOnlyByNewer
    ImplementsOwnership
