SPECIFICATION FairSpec
CONSTANTS
    Absent = Absent
    Clusters = {mc}
    NameOf <- OwnNames
    ManagementCluster = mc
    Tbot = tbot
    TkaVersions <- BothCharts
    Configs <- OlderOrBot
    OtherFinalizers = {}
    Kinds = {"HelmRelease"}
    Env = {"crash", "delete", "release"}
    MaxTokens = 4
    MaxDisturbances = 2
PROPERTIES
    RegistrationConverges
    BotConverges
CHECK_DEADLOCK FALSE
