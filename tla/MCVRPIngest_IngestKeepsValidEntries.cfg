CONSTANTS
    IPPrefixes <- MCPrefixes
    PrefixLen <- MCPrefixLen
    PrefixWidth <- MCPrefixWidth
    PrefixIsV4 <- MCPrefixIsV4
    ASNs = {1}
    MaxLens <- MCMaxLensWide
    BadPrefix = BadPrefix
    BadASN = BadASN
    MaxInput = 2

SPECIFICATION Spec
INVARIANT IngestKeepsValidEntries
