\* Two backends, of which one opens a channel to the other and loses its lease.
SPECIFICATION Spec

CONSTANTS
    b1 = b1
    b2 = b2
    k1 = k1
    k2 = k2
    d1 = d1
    d2 = d2
    NoSession = NoSession
    NoBackend = NoBackend
    NoCred = NoCred
    Sessions = {s1, s2, s3}
    Backends = {b1, b2}
    Creds = {k1, k2}
    DeviceCreds = {}
    AccessCreds = {k2}
    CredNs <- MCCredNs
    BackendNs <- MCBackendNs
    Identity <- MCIdentity
    MaxEpoch = 3
    ChannelIds = {c1}
    MaxChannelsPerPeer = 1
    TopicNames = {}
    MaxRetained = 1

SYMMETRY Symmetry

INVARIANT ChannelClientsLive
