SPECIFICATION Spec
CONSTANTS
    Absent = Absent
    Clusters = {c1}
    NameOf <- OwnNames
    ManagementCluster = mc
    Tbot = tbot
    TkaVersions <- OneChart
    Configs <- OneConfig
    OtherFinalizers = {}
    Kinds = {}
    Env = {"fail", "crash", "lag", "delete", "recreate", "expire", "remove", "tamper", "rotate", "uservalues"}
    MaxTokens = 4
    MaxDisturbances = 2
INVARIANTS
    TypeOK
    PublishedTokensFit
    TeleportClientUsable
    FinalizerGuards
PROPERTIES
    FinalizerDroppedClean
    ConfigMapTokenKept
    ImplementsRegistration
CHECK_DEADLOCK FALSE
