SPECIFICATION FairSpec
CONSTANTS
    Absent = Absent
    Clusters = {c1}
    NameOf <- OwnNames
    ManagementCluster = mc
    Tbot = tbot
    TkaVersions <- OneChart
    Configs <- BotConfig
    OtherFinalizers = {}
    Kinds = {"App"}
    Env = {"release"}
    MaxTokens = 2
    MaxDisturbances = 2
PROPERTIES
    TbotConfigured
