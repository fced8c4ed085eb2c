SPECIFICATION Spec
CONSTANTS
    Absent = Absent
    Clusters = {c1}
    NameOf <- OwnNames
    ManagementCluster = mc
    ChartHistory <- LayoutCharts
    NestedFrom = 3
    EitherLayout <- FirstPrereleases
    TeleportHistory <- BundledTeleports
    BundledAt <- Bundling
    TeleportVersions <- Teleports
    ReleaseKinds = {"App"}
    LooseSpecs <- Loose
    MaxChanges = 0
INVARIANTS
    NoDowngrade
