SPECIFICATION FairSpec
CONSTANTS
    p1 = p1
    i1 = i1
    i2 = i2
    c1 = c1
    c2 = c2
    c3 = c3
    Profile = {p1}
    Identity = {i1, i2}
    Conn = {c1, c2}
    profileOf <- MCProfileOf
    identityOf <- MCIdentityOf
    claims <- MCClaims
    AuthMode = "mtls"
    Configs <- MCConfigs
    NoConn = NoConn
    NoProfile = NoProfile
    ChannelBuf = 1
INVARIANTS TableExact AllStopped
PROPERTIES NoneStuck DisplacedEnds
CHECK_DEADLOCK FALSE
