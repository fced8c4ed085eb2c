SPECIFICATION Spec
CONSTANTS
    Absent = Absent
    Clusters = {c1, c2}
    NameOf <- OwnNames
    ManagementCluster = mc
    Tbot = tbot
    TkaVersions <- OneChart
    Configs <- BotConfig
    OtherFinalizers = {}
    Kinds = {"App"}
    Env = {"applag", "delete"}
    MaxTokens = 4
    MaxDisturbances = 0
PROPERTIES
    ReferencesKept
CHECK_DEADLOCK FALSE
