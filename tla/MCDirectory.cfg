SPECIFICATION FairSpec
CONSTANTS
    Self = 0
    Peers <- MCPeers
    Keys <- MCKeys
    Distance <- MCDistance
    BucketOf <- MCBucketOf
    LogPeers <- MCLogPeers
    Bootstrap <- MCBootstrap
    Closer <- MCCloser
    Relays <- MCRelays
    Holds <- MCHolds
    Serves <- MCServes
    Callers <- MCCallers
    K = 1
    Alpha = 1
    MaxDeferrals = 1
    MaxFailures = 2
    MaxAsk = 1
    Fanout = 2
INVARIANTS
    InFlightIsOwed
PROPERTIES
    LivingPeersKeepTheirPlace
    LookupsTerminate
