--------------------------- MODULE KubeAgentValues ---------------------------
(***************************************************************************)
(* The pure part of the operator: register names, token roles, chart and   *)
(* Teleport versions, and the values document it writes for the            *)
(* teleport-kube-agent chart (internal/pkg/key/key.go and the parsing half *)
(* of internal/pkg/teleport/configmap.go).                                 *)
(*                                                                         *)
(* The YAML text of the values document is abstracted to the two blocks it *)
(* is made of and the fields the operator reads back from them; a missing  *)
(* block, field or object, and an empty string, are Absent.                *)
(***************************************************************************)
EXTENDS Naturals, Sequences

CONSTANTS Absent,             \* no such object, key or value
          Clusters,           \* the Cluster objects, by namespace and name
          NameOf,             \* their names, which two namespaces may share
          ManagementCluster   \* Config.ManagementClusterName

ASSUME AbsentAssumption ==
    /\ Absent \notin Nat
    /\ Absent \notin Clusters

-----------------------------------------------------------------------------
(* Names.  fmt.Sprintf("%s-%s", mc, name) is the pair of its two parts.     *)

Names == {NameOf[c] : c \in Clusters}

RegisterName(c) ==
    IF NameOf[c] = ManagementCluster THEN <<NameOf[c]>> ELSE <<ManagementCluster, NameOf[c]>>

RegisterNames == {RegisterName(c) : c \in Clusters}

-----------------------------------------------------------------------------
(* Roles.                                                                   *)

KubeRoles(appsEnabled) == IF appsEnabled THEN <<"kube", "app">> ELSE <<"kube">>
NodeRoles == <<"node">>
RoleLists == {KubeRoles(TRUE), KubeRoles(FALSE), NodeRoles}

-----------------------------------------------------------------------------
(* Versions.  A version string is a record; "semver" says whether           *)
(* semver.NewVersion parses it.  The empty string is Absent.                *)

VersionString ==
    [semver : BOOLEAN, major : Nat, minor : Nat, patch : Nat, prerelease : BOOLEAN]

Release(major, minor, patch) ==
    [semver |-> TRUE, major |-> major, minor |-> minor, patch |-> patch,
     prerelease |-> FALSE]

Parses(v) == v # Absent /\ v.semver

\* v.Compare(release) < 0, for a release (not a pre-release) on the right.
Below(v, release) ==
    \/ v.major < release.major
    \/ /\ v.major = release.major
       /\ \/ v.minor < release.minor
          \/ /\ v.minor = release.minor
             /\ \/ v.patch < release.patch
                \/ v.patch = release.patch /\ v.prerelease

NestedSinceVersion == Release(0, 11, 0)
BundledTeleportVersion == Release(18, 7, 6)

\* Mutant: a version that does not parse is taken for a new one.
UsesNestedKubeAgentValuesUnlessOld(v) == ~(Parses(v) /\ Below(v, NestedSinceVersion))

UsesNestedKubeAgentValues(v) == Parses(v) /\ ~Below(v, NestedSinceVersion)

\* Mutant: a version that does not parse is passed on.
ResolveNestedTeleportVersionOverrideUnparsed(v) ==
    IF Parses(v) /\ Below(v, BundledTeleportVersion) THEN Absent ELSE v

ResolveNestedTeleportVersionOverride(v) ==
    IF Parses(v) /\ ~Below(v, BundledTeleportVersion) THEN v ELSE Absent

\* Mutant: only the version asked for is looked at.
helmReleaseChartVersionAskedFor(hr) == hr.spec

\* The chart version of a HelmRelease: status.history[0].chartVersion, or else
\* spec.chart.spec.version.
helmReleaseChartVersion(hr) == IF hr.installed # Absent THEN hr.installed ELSE hr.spec

-----------------------------------------------------------------------------
(* The values document.                                                     *)

ValuesBlock(token, cfg, name, version, roles) ==
    [roles |-> roles, authToken |-> token, proxyAddr |-> cfg.proxyAddr,
     kubeClusterName |-> name, teleportVersionOverride |-> version]

GetConfigmapDataFromTemplate(token, cfg, name, roles, tkaVersion) ==
    [flat   |-> IF UsesNestedKubeAgentValues(tkaVersion)
                THEN Absent
                ELSE ValuesBlock(token, cfg, name, cfg.teleportVersion, roles),
     nested |-> ValuesBlock(token, cfg, name,
                    ResolveNestedTeleportVersionOverride(cfg.teleportVersion), roles)]

\* A ConfigMap whose `values` key holds neither block.
EmptyDocument == [flat |-> Absent, nested |-> Absent]

parseConfigMapValues(doc) ==
    IF doc.nested # Absent THEN doc.nested ELSE doc.flat

GetTokenFromConfigMap(doc) ==
    LET values == parseConfigMapValues(doc)
    IN IF values = Absent THEN Absent ELSE values.authToken

registerNameFromConfigMap(doc) ==
    LET values == parseConfigMapValues(doc)
    IN IF values = Absent THEN Absent ELSE values.kubeClusterName

IsConfigMapLayoutUpToDate(doc, tkaVersion) ==
    /\ doc.nested # Absent
    /\ UsesNestedKubeAgentValues(tkaVersion) <=> doc.flat = Absent

=============================================================================
