SPECIFICATION DeployedFairSpec
CONSTANTS
    Absent = Absent
    Clusters = {c1, c2}
    NameOf <- SharedName
    ManagementCluster = mc
    Tbot = tbot
    TkaVersions <- OneChart
    Configs <- BotConfig
    OtherFinalizers = {}
    Kinds = {"HelmRelease"}
    Env = {"delete", "uservalues"}
    MaxTokens = 7
    MaxDisturbances = 1
PROPERTIES
    RegistrationConverges
    BotConverges
CHECK_DEADLOCK FALSE
