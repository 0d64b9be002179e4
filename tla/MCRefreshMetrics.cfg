CONSTANTS
    SlurmFile = TRUE
    SlurmRefresh = TRUE
    Period = 3
    None = None

SPECIFICATION Spec
PROPERTY RefreshGaugeIsRequestTime
