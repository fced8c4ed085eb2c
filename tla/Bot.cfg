SPECIFICATION Spec
CONSTANTS
    Absent = Absent
    Clusters = {c1}
    NameOf <- OwnNames
    ManagementCluster = mc
    Tbot = tbot
    TkaVersions <- OneChart
    Configs <- BotConfig
    OtherFinalizers = {}
    Kinds = {"HelmRelease"}
    Env = {"fail", "crash", "lag", "delete", "release"}
    MaxTokens = 3
    MaxDisturbances = 2
INVARIANTS
    TbotReferencesBacked
PROPERTIES
    FinalizerDroppedClean
    ImplementsRegistration
CHECK_DEADLOCK FALSE
