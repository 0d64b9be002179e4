CONSTANTS
    IPPrefixes <- MCPrefixesMapped
    PrefixLen <- MCPrefixLenMapped
    PrefixWidth <- MCPrefixWidthMapped
    PrefixIsV4 <- MCPrefixIsV4Mapped
    ASNs = {1, 2}
    MaxLens <- MCMaxLensMapped
    BadPrefix = BadPrefix
    BadASN = BadASN
    Docs <- MCDocs
    DocDecodes <- MCDocDecodes
    DocRoas <- MCDocRoasMapped
    NoRoas = NoRoas
    SlurmDocs <- MCSlurmDocs
    SlurmDecodes <- MCSlurmDecodes
    SlurmConf <- MCSlurmConf
    SlurmFile = TRUE
    SlurmRefresh = TRUE
    CheckTime = TRUE
    NoDoc = NoDoc
    NoSlurm = NoSlurm
    NoData = NoData
    K = 3
    SerialSpace = 8
    MaxInstalls = 4
    Reset = Reset
    Routers = {r1}
    SendNotifs = TRUE
    None = None
    MaxEnvChanges = 2

SPECIFICATION Spec
INVARIANT MetricsDescribeServed
