\* Fair behaviours with one backend, one device and one channel.
SPECIFICATION FairSpec

CONSTANTS
    b1 = b1
    b2 = b2
    k1 = k1
    k2 = k2
    d1 = d1
    d2 = d2
    NoSession = NoSession
    NoBackend = NoBackend
    NoCred = NoCred
    Sessions = {s1, s2}
    Backends = {b1}
    Creds = {k1, d1}
    DeviceCreds = {d1}
    AccessCreds = {}
    CredNs <- MCCredNs
    BackendNs <- MCBackendNs
    Identity <- MCIdentity
    MaxEpoch = 2
    ChannelIds = {c1}
    MaxChannelsPerPeer = 1
    TopicNames = {}
    MaxRetained = 1

PROPERTIES
    OrphanLeaseHeals
    PairingSettles
    PeersLeave
