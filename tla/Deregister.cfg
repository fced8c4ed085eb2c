SPECIFICATION Spec
CONSTANTS
    Absent = Absent
    Clusters = {c1}
    NameOf <- OwnNames
    ManagementCluster = mc
    Tbot = tbot
    TkaVersions <- OneChart
    Configs <- OneConfig
    OtherFinalizers = {}
    Kinds = {"HelmRelease"}
    Env = {"delete"}
    MaxTokens = 2
    MaxDisturbances = 0
PROPERTIES
    DeregistrationRemovesTokens
CHECK_DEADLOCK FALSE
