SPECIFICATION FairSpec
CONSTANTS
    Absent = Absent
    Clusters = {c1}
    NameOf <- OwnNames
    ManagementCluster = mc
    ChartHistory <- LayoutCharts
    NestedFrom = 3
    EitherLayout <- FirstPrereleases
    TeleportHistory <- BundledTeleports
    BundledAt <- Bundling
    TeleportVersions <- Teleports
    ReleaseKinds = {"HelmRelease", "App"}
    LooseSpecs <- Loose
    MaxChanges = 2
INVARIANTS
    OverrideAtLeastFloor
PROPERTIES
    AgentKeepsValues
    RolloutCompletes
