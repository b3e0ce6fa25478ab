\* Channels and topics across takeovers, revocation and restarts.
SPECIFICATION Spec

CONSTANTS
    b1 = b1
    b2 = b2
    k1 = k1
    k2 = k2
    d1 = d1
    d2 = d2
    NoSession = NoSession
    NoBackend = NoBackend
    NoCred = NoCred
    Sessions = {s1, s2, s3}
    Backends = {b1, b2}
    Creds = {k1, d1}
    DeviceCreds = {d1}
    AccessCreds = {}
    CredNs <- MCCredNs
    BackendNs <- MCBackendNs
    Identity <- MCIdentity
    MaxEpoch = 2
    ChannelIds = {c1}
    MaxChannelsPerPeer = 1
    TopicNames = {t1}
    MaxRetained = 1

SYMMETRY Symmetry

CONSTRAINT Apart

INVARIANTS
    ChannelsInv
    ChannelsAnnounced
    TopicsOfCurrentEpoch
    HoldingsInScope

PROPERTIES
    CloseReasonsTrue
