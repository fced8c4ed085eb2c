SPECIFICATION Spec
CONSTANTS
    Absent = Absent
    Clusters = {c1}
    NameOf <- OwnNames
    ManagementCluster = mc
    Tbot = tbot
    TkaVersions <- OneChart
    Configs <- BotConfig
    OtherFinalizers = {}
    Kinds = {"App"}
    Env = {"delete", "applag"}
    MaxTokens = 2
    MaxDisturbances = 0
PROPERTIES
    AppReferencesRemoved
CHECK_DEADLOCK FALSE
