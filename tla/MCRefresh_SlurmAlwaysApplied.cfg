CONSTANTS
    IPPrefixes <- MCPrefixes
    PrefixLen <- MCPrefixLen
    PrefixWidth <- MCPrefixWidth
    PrefixIsV4 <- MCPrefixIsV4
    ASNs = {1, 2}
    MaxLens <- MCMaxLens
    BadPrefix = BadPrefix
    BadASN = BadASN
    Docs <- MCDocs
    DocDecodes <- MCDocDecodes
    DocRoas <- MCDocRoas
    NoRoas = NoRoas
    SlurmDocs <- MCSlurmDocs
    SlurmDecodes <- MCSlurmDecodes
    SlurmConf <- MCSlurmConf
    SlurmFile = TRUE
    SlurmRefresh = TRUE
    CheckTime = TRUE
    NoDoc = NoDoc
    NoSlurm = NoSlurm
    NoData = NoData

SPECIFICATION Spec
INVARIANT SlurmAlwaysApplied
