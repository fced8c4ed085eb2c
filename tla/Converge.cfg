SPECIFICATION FairSpec
CONSTANTS
    Absent = Absent
    Clusters = {c1}
    NameOf <- OwnNames
    ManagementCluster = mc
    Tbot = tbot
    TkaVersions <- OneChart
    Configs <- OneConfig
    OtherFinalizers = {"infra"}
    Kinds = {"HelmRelease"}
    Env = {"fail", "crash", "delete", "recreate", "expire", "remove", "tamper", "finalizers", "uservalues"}
    MaxTokens = 6
    MaxDisturbances = 2
PROPERTIES
    RegistrationConverges
    DeletionCompletes
    OtherFinalizersKept
CHECK_DEADLOCK FALSE
