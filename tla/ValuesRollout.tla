---------------------------- MODULE ValuesRollout ----------------------------
(***************************************************************************)
(* An upgrade of the teleport-kube-agent chart while the operator writes   *)
(* its values.  The chart changed where it reads them: at the root of the  *)
(* document before 0.11.0, under `teleport-kube-agent` from then on, and   *)
(* each chart bundles a Teleport that an override should not undercut. The *)
(* operator learns the chart version in one call and writes the values in  *)
(* a later one, while users change the version asked for and Flux (or the  *)
(* app platform) renders the chart with whatever values it finds.          *)
(*                                                                         *)
(* Which chart reads what, and which version is newer than which, is taken *)
(* from the history of the releases, not from the operator's comparisons.  *)
(***************************************************************************)
EXTENDS KubeAgentValues

CONSTANTS ChartHistory,     \* the charts, oldest first
          NestedFrom,       \* position of the first that reads the nested block
          EitherLayout,     \* charts that may read either block
          TeleportHistory,  \* Teleport versions, oldest first
          BundledAt,        \* of each chart: position of the one it bundles
          TeleportVersions, \* teleportVersion in the operator's ConfigMap
          ReleaseKinds,     \* HelmRelease, App
          LooseSpecs,       \* HelmRelease versions that name no one chart
          MaxChanges        \* bound on what users and restarts change

ASSUME RolloutAssumption ==
    /\ NestedFrom \in 1..Len(ChartHistory)
    /\ ChartHistory \in Seq(VersionString)
    /\ BundledAt \in [1..Len(ChartHistory) -> 1..Len(TeleportHistory)]
    /\ TeleportHistory \in Seq(VersionString)
    /\ ReleaseKinds \subseteq {"HelmRelease", "App"}
    /\ MaxChanges \in Nat

Charts == {ChartHistory[i] : i \in 1..Len(ChartHistory)}

\* The histories say what the operator's two constants say: the charts older than
\* NestedFrom are below 0.11.0, the Teleport versions older than the one NestedFrom
\* bundles below 18.7.6, and the first chart that reads only the nested block
\* is NestedFrom.  What later charts bundle is left open.  No version that names
\* no one chart parses.
ASSUME HistoryAssumption ==
    /\ \A i, j \in 1..Len(ChartHistory) : ChartHistory[i] = ChartHistory[j] => i = j
    /\ \A i \in 1..(NestedFrom - 1) : Below(ChartHistory[i], Release(0, 11, 0))
    /\ \A i \in NestedFrom..Len(ChartHistory) : ChartHistory[i] \notin EitherLayout
    /\ \A i \in 1..(BundledAt[NestedFrom] - 1) :
           Below(TeleportHistory[i], Release(18, 7, 6))
    /\ TeleportVersions \subseteq VersionString \cup {Absent}
    /\ \A v \in TeleportVersions :
           Parses(v) => \E i \in 1..Len(TeleportHistory) : TeleportHistory[i] = v
    /\ \A v \in LooseSpecs : ~Parses(v)

VARIABLES kind,        \* of the agent's release
          release,     \* its version asked for, and the one Flux reports
          latest,      \* position of the newest chart published so far
          referenced,  \* the release refers to the values ConfigMap
          doc,         \* the values ConfigMap
          agent,       \* the agent as last rendered
          teleport,    \* the teleportVersion the operator started with
          orderly,     \* users only upgrade, and no earlier operator was there
          pc, tkaVersion,
          changes      \* so far, by users and restarts

env  == <<kind, release, latest, agent, orderly>>
vars == <<env, referenced, doc, teleport, pc, tkaVersion, changes>>

-----------------------------------------------------------------------------
(* What the charts do.                                                      *)

Position(chart) == CHOOSE i \in 1..Len(ChartHistory) : ChartHistory[i] = chart

\* The chart that is rendered for the version asked for: that one, or the newest
\* for a range, a wildcard or a reference to a chart.
Target ==
    IF release.spec \in Charts THEN release.spec ELSE ChartHistory[latest]

ReadsNested(chart) ==
    IF chart \in EitherLayout THEN BOOLEAN ELSE {Position(chart) >= NestedFrom}

\* v is no older than the Teleport bundled with the chart at a position.
NotOlder(v, chartAt) ==
    \E i \in BundledAt[chartAt]..Len(TeleportHistory) : TeleportHistory[i] = v

BlockRead(nested) ==
    CASE ~referenced \/ doc = Absent -> Absent
      [] referenced /\ doc # Absent -> IF nested THEN doc.nested ELSE doc.flat

-----------------------------------------------------------------------------
(* The operator.                                                            *)

Cluster == CHOOSE c \in Clusters : TRUE

GetConfigMapData(version) ==
    GetConfigmapDataFromTemplate("token", [proxyAddr |-> "proxy", teleportVersion |-> teleport],
        RegisterName(Cluster), KubeRoles(FALSE), version)

\* What an operator that knew only the flat layout wrote.
FlatOnly(v) ==
    [flat |-> ValuesBlock("token", [proxyAddr |-> "proxy"], RegisterName(Cluster), v,
                          KubeRoles(FALSE)),
     nested |-> Absent]

Blocks ==
    [roles : RoleLists, authToken : {"token"}, proxyAddr : {"proxy"},
     kubeClusterName : {RegisterName(Cluster)},
     teleportVersionOverride : VersionString \cup {Absent}]

Documents == [flat : Blocks \cup {Absent}, nested : Blocks \cup {Absent}]

\* No object, or no block, is not an object and no block.
ASSUME AbsentIsNoDocument == Absent \notin Blocks /\ Absent \notin Documents

Init ==
    /\ kind \in ReleaseKinds
    /\ release \in [spec : Charts \cup (IF kind = "HelmRelease" THEN LooseSpecs ELSE {}),
                    installed : {Absent}]
    /\ latest \in 1..Len(ChartHistory)
    /\ release.spec \in Charts => Position(release.spec) <= latest
    /\ teleport \in TeleportVersions
    /\ orderly \in BOOLEAN
    /\ \/ doc = Absent /\ referenced = FALSE
       \/ ~orderly /\ doc = FlatOnly(teleport) /\ referenced = TRUE
    /\ agent = Absent
    /\ pc = "idle"
    /\ tkaVersion = Absent
    /\ changes = 0

GetTeleportKubeAgentVersion ==
    IF kind = "HelmRelease" THEN helmReleaseChartVersion(release) ELSE release.spec

LookUp ==
    /\ pc = "idle"
    /\ pc' = "write"
    /\ tkaVersion' = GetTeleportKubeAgentVersion
    /\ UNCHANGED <<env, referenced, doc, teleport, changes>>

\* Create, or update if the stored values are not what the template gives now.
WriteValues ==
    /\ pc = "write"
    /\ pc' = "ensure"
    /\ doc' = GetConfigMapData(tkaVersion)
    /\ tkaVersion' = Absent
    /\ UNCHANGED <<env, referenced, teleport, changes>>

EnsureReference ==
    /\ pc = "ensure"
    /\ pc' = "idle"
    /\ referenced' = TRUE
    /\ UNCHANGED <<env, doc, teleport, tkaVersion, changes>>

Reconcile == LookUp \/ WriteValues \/ EnsureReference

-----------------------------------------------------------------------------
(* Flux or the app platform, users, restarts.                               *)

Rendered ==
    {[chart |-> Target, nested |-> nested, block |-> BlockRead(nested)] :
        nested \in ReadsNested(Target)}

Render ==
    /\ agent \notin Rendered
    /\ agent' \in Rendered
    /\ UNCHANGED <<kind, release, latest, orderly, referenced, doc, teleport, pc, tkaVersion, changes>>

\* Flux puts the chart it has installed at the head of the history.
Report ==
    /\ kind = "HelmRelease"
    /\ agent # Absent
    /\ release.installed # agent.chart
    /\ release' = [release EXCEPT !.installed = agent.chart]
    /\ UNCHANGED <<kind, latest, agent, orderly, referenced, doc, teleport, pc, tkaVersion, changes>>

Change ==
    /\ changes < MaxChanges
    /\ changes' = changes + 1

\* A user asks for another chart.
AskFor(v) ==
    /\ Change
    /\ v # release.spec
    /\ v \in Charts => /\ Position(v) <= latest
                       /\ orderly => Position(v) >= Position(Target)
    /\ v \notin Charts => kind = "HelmRelease"
    /\ release' = [release EXCEPT !.spec = v]
    /\ UNCHANGED <<kind, latest, agent, orderly, referenced, doc, teleport, pc, tkaVersion>>

PublishChart ==
    /\ latest < Len(ChartHistory)
    /\ latest' = latest + 1
    /\ UNCHANGED <<kind, release, agent, orderly, referenced, doc, teleport, pc, tkaVersion, changes>>

\* The operator is started again, perhaps with another teleportVersion.
Restart ==
    /\ Change
    /\ teleport' \in TeleportVersions
    /\ pc' = "idle"
    /\ tkaVersion' = Absent
    /\ UNCHANGED <<env, referenced, doc>>

Next ==
    \/ Reconcile \/ Render \/ Report \/ PublishChart \/ Restart
    \/ \E v \in Charts \cup LooseSpecs : AskFor(v)

Spec == Init /\ [][Next]_vars

\* Every Cluster is reconciled again within five minutes, and the release at
\* its own interval.
FairSpec == Spec /\ WF_vars(Reconcile) /\ WF_vars(Render) /\ WF_vars(Report)

-----------------------------------------------------------------------------
(* What must hold.                                                          *)

\* As long as charts are only upgraded, an agent that has its values keeps them, even if
\* the operator has not reconciled since ("so an in-place upgrade past v0.11.0
\* doesn't lose values in the window before the operator's next reconcile",
\* key.go:161) or has just looked up a version that is out of date.
AgentKeepsValues ==
    [][ orderly /\ agent # Absent /\ agent.block # Absent => agent'.block # Absent ]_vars

\* The agent runs a chart that reads the nested block, and is told a version.
Overridden ==
    /\ agent # Absent /\ Position(agent.chart) >= NestedFrom
    /\ agent.block # Absent
    /\ agent.block.teleportVersionOverride # Absent

\* No nested chart is told to run a Teleport older than the one v0.11.0 bundles:
\* neither an older release, nor a pre-release of it, nor a version that is none
\* ("dropped if it would be a downgrade against the v0.11.0 chart's bundled
\* Teleport version", key.go:164), whatever is rendered while the layout changes
\* or a restart brings another teleportVersion.  For a chart that bundles
\* the same Teleport or an older one it means that there is no downgrade.
OverrideAtLeastFloor ==
    Overridden => NotOlder(agent.block.teleportVersionOverride, NestedFrom)

\* The agent runs the chart asked for with values in the layout that
\* IsConfigMapLayoutUpToDate asks for and the override that chart should get.
RolledOut ==
    /\ agent # Absent /\ agent.chart = Target
    /\ doc # Absent /\ IsConfigMapLayoutUpToDate(doc, agent.chart)
    /\ agent.block # Absent
    /\ agent.block.teleportVersionOverride =
          IF agent.nested /\ ~NotOlder(teleport, NestedFrom) THEN Absent ELSE teleport

\* Once users leave it alone the agent ends up that way, also after a downgrade,
\* a version out of date at the write, or values an earlier operator left flat.
RolloutCompletes == <>[]RolledOut

-----------------------------------------------------------------------------
(* What the repository says and the code does not do.                       *)

\* No nested chart is told to run a Teleport older than the one it bundles itself
\* (the nested block "always targets chart v0.11.0+ consumers" and an override is
\* "dropped to avoid a downgrade against the chart's bundled Teleport",
\* key.go:130 and :134).  ResolveNestedTeleportVersionOverride knows one bundled
\* version for all charts, the one of v0.11.0, and not what a later one bundles.
NoDowngrade ==
    Overridden => NotOlder(agent.block.teleportVersionOverride, Position(agent.chart))

=============================================================================
