--------------------------- MODULE ClusterReconciler ---------------------------
(***************************************************************************)
(* ClusterReconciler.Reconcile (internal/controller/cluster_controller.go) *)
(* and what it calls, against the Kubernetes API, the manager's caches,    *)
(* the Teleport auth server and the users and controllers that change the  *)
(* same objects.                                                           *)
(*                                                                         *)
(* One operator process works on one request at a time (one replica, the   *)
(* default MaxConcurrentReconciles).  Every call to an API is one step, so *)
(* the environment acts between any two of them and the process may be     *)
(* killed there.  pc names the call that comes next; loc holds the local   *)
(* variables of Reconcile.                                                 *)
(***************************************************************************)
EXTENDS JoinTokens, FiniteSets

CONSTANTS Tbot,             \* the teleport-tbot App or HelmRelease
          TkaVersions,      \* chart versions a release may ask for
          Configs,          \* teleport-operator ConfigMaps and flags of a start
          OtherFinalizers,  \* finalizers other controllers put on Clusters
          Kinds,            \* which of HelmRelease, App exist as resources
          Env,              \* what the environment may do
          MaxTokens,        \* bound on the tokens ever upserted
          MaxDisturbances   \* bound on the disturbances by the environment

EnvKinds == {"fail", "crash", "lag", "applag", "delete", "recreate", "expire", "remove",
             "tamper", "rotate", "uservalues", "release", "finalizers"}

ASSUME ConstantsAssumption ==
    /\ Tbot \notin Clusters
    /\ TkaVersions \subseteq VersionString
    /\ Configs # {}
    /\ \A cfg \in Configs :
          cfg \in [proxyAddr : STRING, teleportVersion : VersionString \cup {Absent},
                  tbot : BOOLEAN]
    /\ Kinds \subseteq {"HelmRelease", "App"}
    /\ Env \subseteq EnvKinds
    /\ MaxTokens \in Nat
    /\ MaxDisturbances \in Nat

\* The agent release of cluster c is in its namespace and named after it; the
\* bot's is shared.
Resources == Clusters \cup {Tbot}

\* An App is a typed object and read through the manager's cache, a HelmRelease
\* is unstructured and read from the API server.  Where the model has no lag of
\* the Apps they are read as they are.
CachedKinds == IF "applag" \in Env THEN Kinds \cap {"App"} ELSE {}

VARIABLES
    \* Objects in the Kubernetes API
    cluster,              \* the Cluster objects
    secret,               \* <cluster>-teleport-join-token
    configMap,            \* <cluster>-teleport-kube-agent-config
    tbotConfigMaps,       \* names that have a teleport-tbot ConfigMap
    kubeconfigs,          \* names whose kubeconfig Secret tbot has written
    userValues,           \* <cluster>-teleport-kube-agent-user-values: apps in it?
    release,              \* HelmReleases and Apps, by kind and name
    \* The Teleport auth server
    tokens,
    \* The manager's caches
    cachedCluster, cachedSecret, cachedConfigMap, cachedTbotConfigMaps, cachedRelease,
    \* The operator process
    config, identity, client, pc, req, loc, queue,
    \* Bookkeeping of the model
    disturbances

objects == <<cluster, secret, configMap, tbotConfigMaps, kubeconfigs, userValues, release>>
caches  == <<cachedCluster, cachedSecret, cachedConfigMap, cachedTbotConfigMaps,
             cachedRelease>>
session == <<config, identity, client>>
process == <<pc, req, loc, queue>>
vars    == <<objects, tokens, caches, session, process, disturbances>>

-----------------------------------------------------------------------------
(* Types.                                                                   *)

\* finalizer: the operator's own; others: those of other controllers.
ClusterObject ==
    [deleting : BOOLEAN, finalizer : BOOLEAN, others : SUBSET OtherFinalizers]

\* joinToken is Absent when Data has no such key.
SecretObject == [joinToken : (1..MaxTokens) \cup {Absent}]

TeleportVersions == {cfg.teleportVersion : cfg \in Configs}

Block ==
    [roles : RoleLists, authToken : 1..MaxTokens,
     proxyAddr : {cfg.proxyAddr : cfg \in Configs},
     kubeClusterName : RegisterNames,
     teleportVersionOverride : TeleportVersions \cup {Absent}]

Document == [flat : Block \cup {Absent}, nested : Block \cup {Absent}]

\* spec: spec.chart.spec.version of a HelmRelease, spec.version of an App.
\* installed: status.history[0].chartVersion, HelmReleases only.
\* refs: the names whose ConfigMap is among valuesFrom / extraConfigs.
ReleaseObject ==
    [spec : TkaVersions \cup {Absent}, installed : TkaVersions \cup {Absent},
     refs : SUBSET Names]

\* nil is not an object.
ASSUME AbsentIsNoObject ==
    /\ Absent \notin ClusterObject
    /\ Absent \notin SecretObject
    /\ Absent \notin Document
    /\ Absent \notin ReleaseObject

OrAbsent(S) == S \cup {Absent}

Locals ==
    [cluster : OrAbsent(ClusterObject), roles : RoleLists,
     secret : OrAbsent(SecretObject), configMap : OrAbsent(Document),
     token : OrAbsent(1..MaxTokens), tkaVersion : OrAbsent(TkaVersions),
     manager : Kinds \cup {"none"}]

\* The locals before any of them is assigned.
Blank ==
    [cluster |-> Absent, roles |-> KubeRoles(FALSE), secret |-> Absent,
     configMap |-> Absent, token |-> Absent, tkaVersion |-> Absent,
     manager |-> "none"]

DeletePCs == {"listTokens", "deleteToken", "deleteSecret", "deleteConfigMap",
              "botDetectDelete", "botDeleteConfig", "deleteTbotConfigMap",
              "deleteKubeconfigSecret", "agentDetectDelete", "agentDeleteConfig",
              "removeFinalizer"}
RegisterPCs == {"addFinalizer", "getSecret", "checkNode", "mintNode", "putSecret",
                "tkaVersion", "getConfigMap", "checkKube", "mintKube",
                "putConfigMap", "agentDetect", "agentEnsure", "getKubeconfigSecret",
                "ensureTbotConfigMap", "botDetect", "botEnsure"}
StartPCs == {"appsEnabled", "identity", "newClient"}

PCs == {"idle"} \cup StartPCs \cup DeletePCs \cup RegisterPCs

ObjectsOK ==
    /\ cluster \in [Clusters -> OrAbsent(ClusterObject)]
    /\ secret \in [Clusters -> OrAbsent(SecretObject)]
    /\ configMap \in [Clusters -> OrAbsent(Document)]
    /\ tbotConfigMaps \subseteq Names
    /\ kubeconfigs \subseteq Names
    /\ userValues \in [Clusters -> {"noapps", "apps", "malformed"}]
    /\ release \in [Kinds -> [Resources -> OrAbsent(ReleaseObject)]]

TokensOK ==
    /\ tokens \in Seq(ProvisionToken)
    /\ Len(tokens) <= MaxTokens

CachesOK ==
    /\ cachedCluster \in [Clusters -> OrAbsent(ClusterObject)]
    /\ cachedSecret \in [Clusters -> OrAbsent(SecretObject)]
    /\ cachedConfigMap \in [Clusters -> OrAbsent(Document)]
    /\ cachedTbotConfigMaps \subseteq Names
    /\ cachedRelease \in [CachedKinds -> [Resources -> OrAbsent(ReleaseObject)]]

SessionOK ==
    /\ config \in Configs
    /\ identity \in {"none", "fresh", "expired"}
    /\ client \in {"nil", "connected"}

ProcessOK ==
    /\ pc \in PCs
    /\ req \in OrAbsent(Clusters)
    /\ loc \in Locals
    /\ queue \subseteq Clusters
    /\ pc # "idle" => req \in Clusters /\ loc.cluster # Absent

\* Every variable holds a value of its kind; a process that is not idle works on
\* a request, and the Cluster of the request was found.
TypeOK ==
    /\ ObjectsOK /\ TokensOK /\ CachesOK /\ SessionOK /\ ProcessOK
    /\ disturbances \in 0..MaxDisturbances

-----------------------------------------------------------------------------
(* The operator starts in a cluster of Clusters that nobody has registered. *)

\* A Get of a typed object is answered from the manager's cache.  Where the
\* model has no lag the object itself answers and the cache is left as it was.
Read(cached, live) == IF "lag" \in Env THEN cached ELSE live

NewRelease(v) == [spec |-> v, installed |-> Absent, refs |-> {}]

NewClusters ==
    {[deleting |-> FALSE, finalizer |-> FALSE, others |-> S] : S \in SUBSET OtherFinalizers}

\* The --tbot flag the process was started with.
IsBotEnabled == config.tbot

Init ==
    /\ cluster \in [Clusters -> NewClusters]
    /\ secret = [c \in Clusters |-> Absent]
    /\ configMap = [c \in Clusters |-> Absent]
    /\ tbotConfigMaps = {}
    /\ kubeconfigs = {}
    /\ userValues = [c \in Clusters |-> "noapps"]
    /\ release \in [Kinds -> [Resources -> OrAbsent({NewRelease(v) : v \in TkaVersions})]]
    /\ (\A cfg \in Configs : ~cfg.tbot) => \A k \in Kinds : release[k][Tbot] = Absent
    /\ tokens = <<>>
    /\ cachedCluster = cluster
    /\ cachedSecret = [c \in Clusters |-> Absent]
    /\ cachedConfigMap = [c \in Clusters |-> Absent]
    /\ cachedTbotConfigMaps = {}
    /\ cachedRelease = [k \in CachedKinds |-> release[k]]
    /\ config \in Configs
    /\ identity = "none"
    /\ client = "nil"
    /\ pc = "idle"
    /\ req = Absent
    /\ loc = Blank
    /\ queue = Clusters
    /\ disturbances = 0

-----------------------------------------------------------------------------
(* How Reconcile moves on.                                                  *)

\* The next call, with l as the local variables.
Goto(p, l) ==
    /\ pc' = p
    /\ loc' = l
    /\ UNCHANGED <<req, queue>>

\* return ctrl.Result{}, nil
Stop ==
    /\ pc' = "idle"
    /\ loc' = Blank
    /\ req' = Absent
    /\ UNCHANGED queue

\* An error, or ctrl.Result{RequeueAfter: 5 * time.Minute}: the workqueue
\* hands the request out again later.
Requeue ==
    /\ pc' = "idle"
    /\ loc' = Blank
    /\ req' = Absent
    /\ queue' = queue \cup {req}

-----------------------------------------------------------------------------
(* The start of Reconcile: the Cluster, the roles, the Teleport client.     *)

\* Mutant: goes on when the Cluster is not found.
GetClusterIgnoringNotFound(c) ==
    /\ pc = "idle"
    /\ c \in queue
    /\ queue' = queue \ {c}
    /\ pc' = "appsEnabled"
    /\ req' = c
    /\ loc' = [Blank EXCEPT !.cluster = cachedCluster[c]]
    /\ UNCHANGED <<objects, tokens, caches, session, disturbances>>

GetCluster(c) ==
    /\ pc = "idle"
    /\ c \in queue
    /\ queue' = queue \ {c}
    /\ \/ /\ cachedCluster[c] = Absent
          /\ UNCHANGED <<pc, req, loc>>
       \/ /\ cachedCluster[c] # Absent
          /\ pc' = "appsEnabled"
          /\ req' = c
          /\ loc' = [Blank EXCEPT !.cluster = cachedCluster[c]]
    /\ UNCHANGED <<objects, tokens, caches, session, disturbances>>

\* Mutant: keeps trying instead of giving the worker back.
AreTeleportAppsEnabledRetrying ==
    /\ pc = "appsEnabled"
    /\ \/ /\ userValues[req] = "malformed"
          /\ UNCHANGED process
       \/ /\ userValues[req] # "malformed"
          /\ Goto("identity", [loc EXCEPT !.roles = KubeRoles(userValues[req] = "apps")])
    /\ UNCHANGED <<objects, tokens, caches, session, disturbances>>

AreTeleportAppsEnabled ==
    /\ pc = "appsEnabled"
    /\ \/ /\ userValues[req] = "malformed"
          /\ Requeue
       \/ /\ userValues[req] # "malformed"
          /\ Goto("identity", [loc EXCEPT !.roles = KubeRoles(userValues[req] = "apps")])
    /\ UNCHANGED <<objects, tokens, caches, session, disturbances>>

\* Mutant: the finalizer is not added first.
FirstCallWithoutFinalizer == IF loc.cluster.deleting THEN "listTokens" ELSE "getSecret"

\* The first call after the identity is settled.
FirstCall ==
    IF loc.cluster.deleting THEN "listTokens"
    ELSE IF loc.cluster.finalizer THEN "getSecret"
    ELSE "addFinalizer"

\* An identity not read within identityExpirationPeriod is read again.
GetIdentityConfigFromSecret ==
    /\ pc = "identity"
    /\ Goto(IF identity = "fresh" THEN FirstCall ELSE "newClient", loc)
    /\ UNCHANGED <<objects, tokens, caches, session, disturbances>>

NewClient ==
    /\ pc = "newClient"
    /\ client' = "connected"
    /\ identity' = "fresh"
    /\ Goto(FirstCall, loc)
    /\ UNCHANGED <<objects, tokens, caches, config, disturbances>>

\* Mutant: the new identity is kept although the connection failed.
NewClientFailsKeepingIdentity ==
    /\ client' = "nil"
    /\ identity' = "fresh"
    /\ UNCHANGED config

\* teleport.NewClient returns nil and an error; the nil is assigned to
\* TeleportClient, the identity is not touched.
NewClientFails ==
    /\ client' = "nil"
    /\ UNCHANGED <<config, identity>>

-----------------------------------------------------------------------------
(* A Cluster with a deletion timestamp.                                     *)

\* What a Get of a release returns.
Seen(k, r) ==
    IF k \in CachedKinds THEN cachedRelease[k][r] ELSE release[k][r]

\* The kind of the resource that is found; HelmRelease before App.
NewTeleportAppConfigManager(r) ==
    LET found == {k \in Kinds : Seen(k, r) # Absent}
    IN CASE "HelmRelease" \in found -> "HelmRelease"
         [] "HelmRelease" \notin found /\ "App" \in found -> "App"
         [] OTHER -> "none"

\* DeleteToken, first half: the first token listed that carries the label.
ListTokens ==
    /\ pc = "listTokens"
    /\ LET labelled == Labelled(tokens, RegisterName(req))
       IN \/ /\ labelled = {}
             /\ Goto("deleteSecret", loc)
          \/ \E i \in labelled : Goto("deleteToken", [loc EXCEPT !.token = i])
    /\ UNCHANGED <<objects, tokens, caches, session, disturbances>>

\* Mutant: a token that is already gone ends the reconcile.
DeleteTokenGivingUp ==
    /\ pc = "deleteToken"
    /\ tokens' = [tokens EXCEPT ![loc.token].state = "gone"]
    /\ IF tokens[loc.token].state # "gone"
       THEN Goto("deleteSecret", [loc EXCEPT !.token = Absent])
       ELSE Stop
    /\ UNCHANGED <<objects, caches, session, disturbances>>

\* DeleteToken, second half; Teleport refuses a token that is no longer there.
DeleteToken ==
    /\ pc = "deleteToken"
    /\ \/ /\ tokens[loc.token].state # "gone"
          /\ tokens' = [tokens EXCEPT ![loc.token].state = "gone"]
          /\ Goto("deleteSecret", [loc EXCEPT !.token = Absent])
       \/ /\ tokens[loc.token].state = "gone"
          /\ Requeue
          /\ UNCHANGED tokens
    /\ UNCHANGED <<objects, caches, session, disturbances>>

DeleteSecret ==
    /\ pc = "deleteSecret"
    /\ secret' = [secret EXCEPT ![req] = Absent]
    /\ Goto("deleteConfigMap", loc)
    /\ UNCHANGED <<cluster, configMap, tbotConfigMaps, kubeconfigs, userValues, release>>
    /\ UNCHANGED <<tokens, caches, session, disturbances>>

\* Mutant: deletes only what the cache shows.
DeleteConfigMapIfCached ==
    /\ pc = "deleteConfigMap"
    /\ configMap' = IF cachedConfigMap[req] = Absent THEN configMap
                    ELSE [configMap EXCEPT ![req] = Absent]
    /\ Goto(IF IsBotEnabled THEN "botDetectDelete" ELSE "agentDetectDelete", loc)
    /\ UNCHANGED <<cluster, secret, tbotConfigMaps, kubeconfigs, userValues, release>>
    /\ UNCHANGED <<tokens, caches, session, disturbances>>

\* Mutant: forgets what was made for the bot.
DeleteConfigMapForgettingBot ==
    /\ pc = "deleteConfigMap"
    /\ configMap' = [configMap EXCEPT ![req] = Absent]
    /\ Goto("agentDetectDelete", loc)
    /\ UNCHANGED <<cluster, secret, tbotConfigMaps, kubeconfigs, userValues, release>>
    /\ UNCHANGED <<tokens, caches, session, disturbances>>

DeleteConfigMap ==
    /\ pc = "deleteConfigMap"
    /\ configMap' = [configMap EXCEPT ![req] = Absent]
    /\ Goto(IF IsBotEnabled THEN "botDetectDelete" ELSE "agentDetectDelete", loc)
    /\ UNCHANGED <<cluster, secret, tbotConfigMaps, kubeconfigs, userValues, release>>
    /\ UNCHANGED <<tokens, caches, session, disturbances>>

\* Mutant: the update carries no resourceVersion.
UpdateReferencesUnconditionally(r, refs, next) ==
    /\ release[loc.manager][r] # Absent
    /\ release' = [release EXCEPT ![loc.manager][r].refs = refs]
    /\ next

\* An Update of the references of the release that was seen: it carries the
\* resourceVersion of what was seen, and a release that has changed or gone
\* since refuses it.
UpdateReferences(r, refs, next) ==
    LET k == loc.manager
    IN IF release[k][r] = Seen(k, r)
       THEN /\ release' = [release EXCEPT ![k][r].refs = refs]
            /\ next
       ELSE /\ Requeue
            /\ UNCHANGED release

\* DeleteConfig of the manager at hand: drop the reference to the ConfigMap of
\* the request's cluster.  A resource that is gone or was never found is fine,
\* and so is one that is not seen to have the reference.
DeleteConfig(r, next) ==
    LET seen == Seen(loc.manager, r)
    IN IF loc.manager # "none" /\ seen # Absent /\ NameOf[req] \in seen.refs
       THEN UpdateReferences(r, seen.refs \ {NameOf[req]}, next)
       ELSE next /\ UNCHANGED release

BotDetectDelete ==
    /\ pc = "botDetectDelete"
    /\ Goto("botDeleteConfig", [loc EXCEPT !.manager = NewTeleportAppConfigManager(Tbot)])
    /\ UNCHANGED <<objects, tokens, caches, session, disturbances>>

BotDeleteConfig ==
    /\ pc = "botDeleteConfig"
    /\ DeleteConfig(Tbot, Goto("deleteTbotConfigMap", [loc EXCEPT !.manager = "none"]))
    /\ UNCHANGED <<cluster, secret, configMap, tbotConfigMaps, kubeconfigs, userValues>>
    /\ UNCHANGED <<tokens, caches, session, disturbances>>

DeleteTbotConfigMap ==
    /\ pc = "deleteTbotConfigMap"
    /\ tbotConfigMaps' = tbotConfigMaps \ {NameOf[req]}
    /\ Goto("deleteKubeconfigSecret", loc)
    /\ UNCHANGED <<cluster, secret, configMap, kubeconfigs, userValues, release>>
    /\ UNCHANGED <<tokens, caches, session, disturbances>>

DeleteKubeconfigSecret ==
    /\ pc = "deleteKubeconfigSecret"
    /\ kubeconfigs' = kubeconfigs \ {NameOf[req]}
    /\ Goto("agentDetectDelete", loc)
    /\ UNCHANGED <<cluster, secret, configMap, tbotConfigMaps, userValues, release>>
    /\ UNCHANGED <<tokens, caches, session, disturbances>>

AgentDetectDelete ==
    /\ pc = "agentDetectDelete"
    /\ Goto("agentDeleteConfig", [loc EXCEPT !.manager = NewTeleportAppConfigManager(req)])
    /\ UNCHANGED <<objects, tokens, caches, session, disturbances>>

AgentDeleteConfig ==
    /\ pc = "agentDeleteConfig"
    /\ DeleteConfig(req,
          IF loc.cluster.finalizer
          THEN Goto("removeFinalizer", [loc EXCEPT !.manager = "none"])
          ELSE Stop)
    /\ UNCHANGED <<cluster, secret, configMap, tbotConfigMaps, kubeconfigs, userValues>>
    /\ UNCHANGED <<tokens, caches, session, disturbances>>

\* Mutant: NotFound is taken for success.
PatchFinalizersIgnoringNotFound(own, next) ==
    LET live == cluster[req]
        patch == [deleting |-> live.deleting, finalizer |-> own, others |-> loc.cluster.others]
    IN /\ next
       /\ cluster' = IF live = Absent THEN cluster ELSE [cluster EXCEPT ![req] = patch]

\* patchHelper.Patch: a merge patch with the whole finalizers list of the Cluster
\* that was read, the operator's own in it or not, and no resourceVersion.  It
\* changes whatever object now has the name.  The API server refuses a list that
\* adds a finalizer to an object being deleted.  A Cluster that is gone is an
\* error as well: Patch returns its errors as an aggregate, in which IgnoreNotFound
\* does not recognise the NotFound.
PatchFinalizers(own, next) ==
    LET live == cluster[req]
        adds == (own /\ ~live.finalizer) \/ ~(loc.cluster.others \subseteq live.others)
    IN IF live # Absent /\ ~(live.deleting /\ adds)
       THEN /\ cluster' = [cluster EXCEPT ![req] =
                  [live EXCEPT !.finalizer = own, !.others = loc.cluster.others]]
            /\ next
       ELSE /\ Requeue
            /\ UNCHANGED cluster

\* Mutant: the list is emptied.
RemoveFinalizerAndOthers ==
    /\ pc = "removeFinalizer"
    /\ cluster' = IF cluster[req] = Absent THEN cluster
                  ELSE [cluster EXCEPT ![req].finalizer = FALSE, ![req].others = {}]
    /\ Stop
    /\ UNCHANGED <<secret, configMap, tbotConfigMaps, kubeconfigs, userValues, release>>
    /\ UNCHANGED <<tokens, caches, session, disturbances>>

RemoveFinalizer ==
    /\ pc = "removeFinalizer"
    /\ PatchFinalizers(FALSE, Stop)
    /\ UNCHANGED <<secret, configMap, tbotConfigMaps, kubeconfigs, userValues, release>>
    /\ UNCHANGED <<tokens, caches, session, disturbances>>

-----------------------------------------------------------------------------
(* A Cluster that stays: the finalizer and the node token in the Secret.    *)

AddFinalizer ==
    /\ pc = "addFinalizer"
    /\ PatchFinalizers(TRUE, Goto("getSecret", loc))
    /\ UNCHANGED <<secret, configMap, tbotConfigMaps, kubeconfigs, userValues, release>>
    /\ UNCHANGED <<tokens, caches, session, disturbances>>

GetSecret ==
    /\ pc = "getSecret"
    /\ LET found == Read(cachedSecret, secret)[req]
       IN \/ found = Absent /\ Goto("mintNode", loc)
          \/ found # Absent /\ found.joinToken = Absent /\ Requeue
          \/ /\ found # Absent /\ found.joinToken # Absent
             /\ Goto("checkNode", [loc EXCEPT !.secret = found])
    /\ UNCHANGED <<objects, tokens, caches, session, disturbances>>

\* Mutant: the expiry of the node token is not looked at.
CheckNodeIgnoringExpiry ==
    /\ pc = "checkNode"
    /\ IF loc.secret.joinToken \in Labelled(tokens, RegisterName(req))
       THEN Goto("tkaVersion", [loc EXCEPT !.secret = Absent])
       ELSE Goto("mintNode", loc)
    /\ UNCHANGED <<objects, tokens, caches, session, disturbances>>

CheckNode ==
    /\ pc = "checkNode"
    /\ IF IsTokenValid(tokens, RegisterName(req), loc.secret.joinToken, NodeRoles)
       THEN Goto("tkaVersion", [loc EXCEPT !.secret = Absent])
       ELSE Goto("mintNode", loc)
    /\ UNCHANGED <<objects, tokens, caches, session, disturbances>>

\* GenerateToken, then on to p with the new token; an error at the bound.
GenerateToken(roles, p) ==
    \/ /\ Len(tokens) < MaxTokens
       /\ tokens' = Append(tokens, NewProvisionToken(RegisterName(req), roles))
       /\ Goto(p, [loc EXCEPT !.token = Len(tokens) + 1])
    \/ /\ Len(tokens) >= MaxTokens
       /\ Requeue
       /\ UNCHANGED tokens

MintNode ==
    /\ pc = "mintNode"
    /\ GenerateToken(NodeRoles, "putSecret")
    /\ UNCHANGED <<objects, caches, session, disturbances>>

\* Create refuses an object that exists; Update carries no resourceVersion and
\* overwrites whatever is there, but refuses an object that does not exist.
CreateSecret == loc.secret = Absent /\ secret[req] = Absent
UpdateSecret == loc.secret # Absent /\ secret[req] # Absent

PutSecret ==
    /\ pc = "putSecret"
    /\ IF CreateSecret \/ UpdateSecret
       THEN /\ secret' = [secret EXCEPT ![req] = [joinToken |-> loc.token]]
            /\ Goto("tkaVersion", [loc EXCEPT !.secret = Absent, !.token = Absent])
       ELSE /\ Requeue
            /\ UNCHANGED secret
    /\ UNCHANGED <<cluster, configMap, tbotConfigMaps, kubeconfigs, userValues, release>>
    /\ UNCHANGED <<tokens, caches, session, disturbances>>

-----------------------------------------------------------------------------
(* The kube agent's values in the ConfigMap.                                *)

GetTeleportKubeAgentVersion(r) ==
    LET k == NewTeleportAppConfigManager(r)
    IN CASE k = "HelmRelease" -> helmReleaseChartVersion(Seen(k, r))
         [] k = "App" -> Seen(k, r).spec
         [] OTHER -> Absent

GetTkaVersion ==
    /\ pc = "tkaVersion"
    /\ Goto("getConfigMap", [loc EXCEPT !.tkaVersion = GetTeleportKubeAgentVersion(req)])
    /\ UNCHANGED <<objects, tokens, caches, session, disturbances>>

GetConfigMap ==
    /\ pc = "getConfigMap"
    /\ LET found == Read(cachedConfigMap, configMap)[req]
       IN \/ found = Absent /\ Goto("mintKube", loc)
          \/ found # Absent /\ GetTokenFromConfigMap(found) = Absent /\ Requeue
          \/ /\ found # Absent /\ GetTokenFromConfigMap(found) # Absent
             /\ Goto("checkKube", [loc EXCEPT !.configMap = found])
    /\ UNCHANGED <<objects, tokens, caches, session, disturbances>>

CheckKube ==
    /\ pc = "checkKube"
    /\ LET token == GetTokenFromConfigMap(loc.configMap)
       IN IF IsTokenValid(tokens, RegisterName(req), token, loc.roles)
          THEN Goto("putConfigMap", [loc EXCEPT !.token = token])
          ELSE Goto("mintKube", loc)
    /\ UNCHANGED <<objects, tokens, caches, session, disturbances>>

MintKube ==
    /\ pc = "mintKube"
    /\ GenerateToken(loc.roles, "putConfigMap")
    /\ UNCHANGED <<objects, caches, session, disturbances>>

\* RenderConfigMapValues / getConfigMapData for the values now at hand.
RenderConfigMapValues(registerName) ==
    GetConfigmapDataFromTemplate(loc.token, config, registerName, loc.roles, loc.tkaVersion)

\* What Reconcile forgets once the ConfigMap phase is over.
AfterConfigMap ==
    [loc EXCEPT !.configMap = Absent, !.token = Absent, !.tkaVersion = Absent]

WriteConfigMap(doc) ==
    /\ configMap' = [configMap EXCEPT ![req] = doc]
    /\ Goto("agentDetect", AfterConfigMap)

\* CreateConfigMap looks once more and is content with a ConfigMap it finds.
CreateConfigMap ==
    /\ loc.configMap = Absent
    /\ \/ /\ Read(cachedConfigMap, configMap)[req] # Absent
          /\ Goto("agentDetect", AfterConfigMap)
          /\ UNCHANGED configMap
       \/ /\ Read(cachedConfigMap, configMap)[req] = Absent
          /\ configMap[req] = Absent
          /\ WriteConfigMap(RenderConfigMapValues(RegisterName(req)))
       \/ /\ Read(cachedConfigMap, configMap)[req] = Absent
          /\ configMap[req] # Absent
          /\ Requeue
          /\ UNCHANGED configMap

\* Mutant: the update carries no resourceVersion.
UpdateConfigMapUnconditionally ==
    LET stored == registerNameFromConfigMap(loc.configMap)
    IN IF stored # Absent /\ configMap[req] # Absent
       THEN WriteConfigMap(RenderConfigMapValues(stored))
       ELSE Requeue /\ UNCHANGED configMap

\* The object read is sent back with its resourceVersion, so the update holds
\* only while the ConfigMap is still the one read.  The name in the stored
\* values is kept.
UpdateConfigMap ==
    LET stored == registerNameFromConfigMap(loc.configMap)
    IN IF stored # Absent /\ configMap[req] = loc.configMap
       THEN WriteConfigMap(RenderConfigMapValues(stored))
       ELSE Requeue /\ UNCHANGED configMap

\* Mutant: only a new token is reason enough to write.
PutConfigMapOnNewTokenOnly ==
    /\ pc = "putConfigMap"
    /\ \/ CreateConfigMap
       \/ /\ loc.configMap # Absent
          /\ IF GetTokenFromConfigMap(loc.configMap) = loc.token
             THEN Goto("agentDetect", AfterConfigMap) /\ UNCHANGED configMap
             ELSE UpdateConfigMap
    /\ UNCHANGED <<cluster, secret, tbotConfigMaps, kubeconfigs, userValues, release>>
    /\ UNCHANGED <<tokens, caches, session, disturbances>>

PutConfigMap ==
    /\ pc = "putConfigMap"
    /\ \/ CreateConfigMap
       \/ /\ loc.configMap # Absent
          /\ IF loc.configMap = RenderConfigMapValues(RegisterName(req))
             THEN Goto("agentDetect", AfterConfigMap) /\ UNCHANGED configMap
             ELSE UpdateConfigMap
    /\ UNCHANGED <<cluster, secret, tbotConfigMaps, kubeconfigs, userValues, release>>
    /\ UNCHANGED <<tokens, caches, session, disturbances>>

-----------------------------------------------------------------------------
(* The references to the ConfigMaps, and the bot's ConfigMap.               *)

\* EnsureConfig of the manager at hand.  The Get and the Update that may follow
\* are one step: what happens between them makes the Update fail (Fails).
EnsureConfig(r, next) ==
    LET seen == Seen(loc.manager, r)
    IN \/ /\ loc.manager = "none"
          /\ next
          /\ UNCHANGED release
       \/ /\ loc.manager # "none" /\ seen = Absent
          /\ Requeue
          /\ UNCHANGED release
       \/ /\ loc.manager # "none" /\ seen # Absent /\ NameOf[req] \in seen.refs
          /\ next
          /\ UNCHANGED release
       \/ /\ loc.manager # "none" /\ seen # Absent /\ NameOf[req] \notin seen.refs
          /\ UpdateReferences(r, seen.refs \cup {NameOf[req]}, next)

AgentDetect ==
    /\ pc = "agentDetect"
    /\ Goto("agentEnsure", [loc EXCEPT !.manager = NewTeleportAppConfigManager(req)])
    /\ UNCHANGED <<objects, tokens, caches, session, disturbances>>

\* Mutant: the bot is set up only when the Cluster is first registered.
AgentEnsureBotOnce ==
    /\ pc = "agentEnsure"
    /\ EnsureConfig(req,
          IF IsBotEnabled /\ ~loc.cluster.finalizer
          THEN Goto("getKubeconfigSecret", [loc EXCEPT !.manager = "none"])
          ELSE Requeue)
    /\ UNCHANGED <<cluster, secret, configMap, tbotConfigMaps, kubeconfigs, userValues>>
    /\ UNCHANGED <<tokens, caches, session, disturbances>>

AgentEnsure ==
    /\ pc = "agentEnsure"
    /\ EnsureConfig(req,
          IF IsBotEnabled THEN Goto("getKubeconfigSecret", [loc EXCEPT !.manager = "none"])
          ELSE Requeue)
    /\ UNCHANGED <<cluster, secret, configMap, tbotConfigMaps, kubeconfigs, userValues>>
    /\ UNCHANGED <<tokens, caches, session, disturbances>>

\* Mutant: the reference is made before the ConfigMap.
GetKubeconfigSecretThenReference ==
    /\ pc = "getKubeconfigSecret"
    /\ IF NameOf[req] \in kubeconfigs THEN Requeue ELSE Goto("botDetect", loc)
    /\ UNCHANGED <<objects, tokens, caches, session, disturbances>>

GetKubeconfigSecret ==
    /\ pc = "getKubeconfigSecret"
    /\ IF NameOf[req] \in kubeconfigs THEN Requeue ELSE Goto("ensureTbotConfigMap", loc)
    /\ UNCHANGED <<objects, tokens, caches, session, disturbances>>

\* Mutant: a ConfigMap that is there means that the bot has been set up.
EnsureTbotConfigMapOnce ==
    /\ pc = "ensureTbotConfigMap"
    /\ IF NameOf[req] \in Read(cachedTbotConfigMaps, tbotConfigMaps)
       THEN Requeue
       ELSE Goto("botDetect", loc)
    /\ tbotConfigMaps' = tbotConfigMaps \cup {NameOf[req]}
    /\ UNCHANGED <<cluster, secret, configMap, kubeconfigs, userValues, release>>
    /\ UNCHANGED <<tokens, caches, session, disturbances>>

EnsureTbotConfigMap ==
    /\ pc = "ensureTbotConfigMap"
    /\ \/ /\ NameOf[req] \in Read(cachedTbotConfigMaps, tbotConfigMaps)
          /\ Goto("botDetect", loc)
          /\ UNCHANGED tbotConfigMaps
       \/ /\ NameOf[req] \notin Read(cachedTbotConfigMaps, tbotConfigMaps)
          /\ NameOf[req] \notin tbotConfigMaps
          /\ tbotConfigMaps' = tbotConfigMaps \cup {NameOf[req]}
          /\ Goto("botDetect", loc)
       \/ /\ NameOf[req] \notin Read(cachedTbotConfigMaps, tbotConfigMaps)
          /\ NameOf[req] \in tbotConfigMaps
          /\ Requeue
          /\ UNCHANGED tbotConfigMaps
    /\ UNCHANGED <<cluster, secret, configMap, kubeconfigs, userValues, release>>
    /\ UNCHANGED <<tokens, caches, session, disturbances>>

BotDetect ==
    /\ pc = "botDetect"
    /\ Goto("botEnsure", [loc EXCEPT !.manager = NewTeleportAppConfigManager(Tbot)])
    /\ UNCHANGED <<objects, tokens, caches, session, disturbances>>

BotEnsure ==
    /\ pc = "botEnsure"
    /\ EnsureConfig(Tbot, Requeue)
    /\ UNCHANGED <<cluster, secret, configMap, tbotConfigMaps, kubeconfigs, userValues>>
    /\ UNCHANGED <<tokens, caches, session, disturbances>>

Delete ==
    \/ ListTokens \/ DeleteToken \/ DeleteSecret \/ DeleteConfigMap
    \/ BotDetectDelete \/ BotDeleteConfig \/ DeleteTbotConfigMap \/ DeleteKubeconfigSecret
    \/ AgentDetectDelete \/ AgentDeleteConfig \/ RemoveFinalizer

Register ==
    \/ AddFinalizer \/ GetSecret \/ CheckNode \/ MintNode \/ PutSecret
    \/ GetTkaVersion \/ GetConfigMap \/ CheckKube \/ MintKube \/ PutConfigMap
    \/ AgentDetect \/ AgentEnsure
    \/ GetKubeconfigSecret \/ EnsureTbotConfigMap \/ BotDetect \/ BotEnsure

\* The next call of the reconcile under way.
Continue ==
    \/ AreTeleportAppsEnabled \/ GetIdentityConfigFromSecret \/ NewClient
    \/ Delete \/ Register

-----------------------------------------------------------------------------
(* The environment.                                                         *)

Disturb(kind) ==
    /\ kind \in Env
    /\ disturbances < MaxDisturbances
    /\ disturbances' = disturbances + 1

\* The call that comes next returns an error and has no effect: the API server
\* or Teleport is unreachable, an Update meets a conflict, a ConfigMap or the
\* identity Secret cannot be read.
Fails ==
    /\ pc # "idle"
    /\ pc = "identity" => identity # "fresh"
    /\ Disturb("fail")
    /\ IF pc = "newClient" THEN NewClientFails ELSE UNCHANGED session
    /\ Requeue
    /\ UNCHANGED <<objects, tokens, caches>>

\* The process is killed and comes up again, perhaps with another ConfigMap
\* teleport-operator: caches are filled before the first request, and every
\* Cluster is enqueued.
Restart ==
    /\ Disturb("crash")
    /\ config' \in Configs
    /\ identity' = "none"
    /\ client' = "nil"
    /\ pc' = "idle"
    /\ req' = Absent
    /\ loc' = Blank
    /\ queue' = {c \in Clusters : cluster[c] # Absent}
    /\ cachedCluster' = cluster
    /\ cachedSecret' = Read(secret, cachedSecret)
    /\ cachedConfigMap' = Read(configMap, cachedConfigMap)
    /\ cachedTbotConfigMaps' = Read(tbotConfigMaps, cachedTbotConfigMaps)
    /\ cachedRelease' = [k \in CachedKinds |-> release[k]]
    /\ UNCHANGED <<objects, tokens>>

\* More than identityExpirationPeriod has passed since the identity was read.
IdentityExpires ==
    /\ "rotate" \in Env
    /\ identity = "fresh"
    /\ identity' = "expired"
    /\ UNCHANGED <<objects, tokens, caches, config, client, process, disturbances>>

\* The watch delivers the state of a Cluster; For(&capi.Cluster{}) enqueues it.
SyncCluster(c) ==
    /\ cachedCluster[c] # cluster[c]
    /\ cachedCluster' = [cachedCluster EXCEPT ![c] = cluster[c]]
    /\ queue' = queue \cup {c}
    /\ UNCHANGED <<cachedSecret, cachedConfigMap, cachedTbotConfigMaps, cachedRelease>>
    /\ UNCHANGED <<objects, tokens, session, pc, req, loc, disturbances>>

\* The other watches only fill the cache.
SyncObjects(c) ==
    /\ "lag" \in Env
    /\ \/ /\ cachedSecret[c] # secret[c]
          /\ cachedSecret' = [cachedSecret EXCEPT ![c] = secret[c]]
          /\ UNCHANGED <<cachedConfigMap, cachedTbotConfigMaps>>
       \/ /\ cachedConfigMap[c] # configMap[c]
          /\ cachedConfigMap' = [cachedConfigMap EXCEPT ![c] = configMap[c]]
          /\ UNCHANGED <<cachedSecret, cachedTbotConfigMaps>>
       \/ /\ cachedTbotConfigMaps # tbotConfigMaps
          /\ cachedTbotConfigMaps' = tbotConfigMaps
          /\ UNCHANGED <<cachedSecret, cachedConfigMap>>
    /\ UNCHANGED <<cachedCluster, cachedRelease>>
    /\ UNCHANGED <<objects, tokens, session, process, disturbances>>

SyncApps ==
    /\ \E k \in CachedKinds :
          /\ cachedRelease[k] # release[k]
          /\ cachedRelease' = [cachedRelease EXCEPT ![k] = release[k]]
    /\ UNCHANGED <<cachedCluster, cachedSecret, cachedConfigMap, cachedTbotConfigMaps>>
    /\ UNCHANGED <<objects, tokens, session, process, disturbances>>

\* Only Cluster objects change.
SetCluster(c, object) ==
    /\ cluster' = [cluster EXCEPT ![c] = object]
    /\ UNCHANGED <<secret, configMap, tbotConfigMaps, kubeconfigs, userValues, release>>
    /\ UNCHANGED <<tokens, caches, session, process>>

UserDeletes(c) ==
    /\ "delete" \in Env
    /\ cluster[c] # Absent
    /\ ~cluster[c].deleting
    /\ SetCluster(c, [cluster[c] EXCEPT !.deleting = TRUE])
    /\ UNCHANGED disturbances

ClusterGone(c) ==
    /\ cluster[c] # Absent
    /\ cluster[c].deleting
    /\ ~cluster[c].finalizer
    /\ cluster[c].others = {}
    /\ SetCluster(c, Absent)
    /\ UNCHANGED disturbances

UserCreates(c) ==
    /\ Disturb("recreate")
    /\ cluster[c] = Absent
    /\ \E object \in NewClusters : SetCluster(c, object)

\* Another controller puts its finalizer on a Cluster, or takes it off again.
OtherFinalizerChanges(c) ==
    /\ Disturb("finalizers")
    /\ cluster[c] # Absent
    /\ \E f \in OtherFinalizers :
          \/ /\ ~cluster[c].deleting
             /\ f \notin cluster[c].others
             /\ SetCluster(c, [cluster[c] EXCEPT !.others = @ \cup {f}])
          \/ /\ f \in cluster[c].others
             /\ SetCluster(c, [cluster[c] EXCEPT !.others = @ \ {f}])

UserSetsValues(c) ==
    /\ Disturb("uservalues")
    /\ \E v \in {"noapps", "apps", "malformed"} \ {userValues[c]} :
          userValues' = [userValues EXCEPT ![c] = v]
    /\ UNCHANGED <<cluster, secret, configMap, tbotConfigMaps, kubeconfigs, release>>
    /\ UNCHANGED <<tokens, caches, session, process>>

\* Someone removes the Secret or the ConfigMap, or empties it.
ObjectTouched(c) ==
    /\ \/ /\ Disturb("remove")
          /\ \/ /\ secret[c] # Absent
                /\ secret' = [secret EXCEPT ![c] = Absent]
                /\ UNCHANGED configMap
             \/ /\ configMap[c] # Absent
                /\ configMap' = [configMap EXCEPT ![c] = Absent]
                /\ UNCHANGED secret
       \/ /\ Disturb("tamper")
          /\ \/ /\ secret[c] # Absent
                /\ secret' = [secret EXCEPT ![c].joinToken = Absent]
                /\ UNCHANGED configMap
             \/ /\ configMap[c] # Absent
                /\ configMap' = [configMap EXCEPT ![c] = EmptyDocument]
                /\ UNCHANGED secret
    /\ UNCHANGED <<cluster, tbotConfigMaps, kubeconfigs, userValues, release>>
    /\ UNCHANGED <<tokens, caches, session, process>>

\* 720 hours pass; Teleport drops an expired token some time later.
TokenExpires ==
    /\ Disturb("expire")
    /\ \E i \in GetTokens(tokens), s \in {"expired", "gone"} :
          /\ tokens[i].state # s
          /\ tokens' = [tokens EXCEPT ![i].state = s]
    /\ UNCHANGED <<objects, caches, session, process>>

\* A release is deployed, upgraded (the references stay), installed by Flux or
\* uninstalled.
ReleaseChanges(k, r) ==
    /\ Disturb("release")
    /\ r = Tbot => \E cfg \in Configs : cfg.tbot
    /\ LET old == release[k][r]
       IN \E new \in ReleaseObject \cup {Absent} :
             /\ new # old
             /\ \/ old = Absent /\ new # Absent /\ new.installed = Absent /\ new.refs = {}
                \/ old # Absent /\ new = Absent
                \/ /\ old # Absent /\ new # Absent
                   /\ new.refs = old.refs
                   /\ new.installed = old.installed
                \/ /\ old # Absent /\ new # Absent
                   /\ k = "HelmRelease"
                   /\ new = [old EXCEPT !.installed = old.spec]
             /\ release' = [release EXCEPT ![k][r] = new]
    /\ UNCHANGED <<cluster, secret, configMap, tbotConfigMaps, kubeconfigs, userValues>>
    /\ UNCHANGED <<tokens, caches, session, process>>

\* tbot, configured for the cluster, writes its kubeconfig.  A tbot whose ConfigMap
\* or reference is gone is taken to write no more, as if it reloaded at once.
TbotWritesKubeconfig(c) ==
    /\ NameOf[c] \in tbotConfigMaps \ kubeconfigs
    /\ \E k \in Kinds : release[k][Tbot] # Absent /\ NameOf[c] \in release[k][Tbot].refs
    /\ kubeconfigs' = kubeconfigs \cup {NameOf[c]}
    /\ UNCHANGED <<cluster, secret, configMap, tbotConfigMaps, userValues, release>>
    /\ UNCHANGED <<tokens, caches, session, process, disturbances>>

Environment ==
    \/ Restart \/ Fails \/ IdentityExpires \/ TokenExpires \/ SyncApps
    \/ \E c \in Clusters :
          \/ SyncCluster(c) \/ SyncObjects(c)
          \/ UserDeletes(c) \/ ClusterGone(c) \/ UserCreates(c) \/ OtherFinalizerChanges(c)
          \/ UserSetsValues(c) \/ ObjectTouched(c) \/ TbotWritesKubeconfig(c)
    \/ \E k \in Kinds, r \in Resources : ReleaseChanges(k, r)

Next == Continue \/ (\E c \in Clusters : GetCluster(c)) \/ Environment

Spec == Init /\ [][Next]_vars

\* The process runs, the workqueue hands out every request in turn, and the
\* watches deliver.
Fairness ==
    /\ WF_vars(Continue)
    /\ WF_vars(SyncApps)
    /\ \A c \in Clusters :
          /\ SF_vars(GetCluster(c))
          /\ WF_vars(SyncCluster(c))
          /\ WF_vars(SyncObjects(c))

FairSpec == Spec /\ Fairness

-----------------------------------------------------------------------------
(* What must hold.                                                          *)

\* The token a Secret or one block of a ConfigMap hands out.
JoinsAs(token, c, roles) ==
    /\ token \in 1..Len(tokens)
    /\ tokens[token].cluster = RegisterName(c)
    /\ tokens[token].roles = roles

BlockFits(block, c) ==
    block # Absent =>
        /\ JoinsAs(block.authToken, c, block.roles)
        /\ block.kubeClusterName = RegisterName(c)

SecretFits(s, c) ==
    s # Absent /\ s.joinToken # Absent => JoinsAs(s.joinToken, c, NodeRoles)

DocumentFits(doc, c) ==
    doc # Absent => BlockFits(doc.flat, c) /\ BlockFits(doc.nested, c)

\* Whoever reads the Secret or the ConfigMap of a cluster gets a token that was
\* issued for that cluster and for the very roles the reader asks Teleport for,
\* whatever was toggled, rotated, removed or stale between the reads of
\* Reconcile and its writes.
PublishedTokensFit ==
    \A c \in Clusters : SecretFits(secret[c], c) /\ DocumentFits(configMap[c], c)

TeleportCalls ==
    {"listTokens", "deleteToken", "checkNode", "mintNode", "checkKube", "mintKube"}

\* Reconcile never calls Teleport through the nil client that a failed
\* (re)connection leaves behind.
TeleportClientUsable == pc \in TeleportCalls => client = "connected"

\* Nothing the operator published for a Cluster is without a Cluster that has the
\* finalizer: it is set before the first write and dropped after the last delete,
\* across stale Clusters, Clusters that go or are created again under the same
\* name, errors and restarts.  In particular nothing is left of a Cluster that is
\* gone ("delete resources in case the cluster is deleted",
\* cluster_controller_test.go:127).
FinalizerGuards ==
    \A c \in Clusters :
        secret[c] # Absent \/ configMap[c] # Absent \/ NameOf[c] \in tbotConfigMaps
        => cluster[c] # Absent /\ cluster[c].finalizer

\* No release that is there refers to a ConfigMap of the cluster.
ReferencesGone(c) ==
    \A k \in Kinds, r \in {c} \cup (IF IsBotEnabled THEN {Tbot} ELSE {}) :
        release[k][r] # Absent => NameOf[c] \notin release[k][r].refs

\* The step that drops the finalizer finds the join token Secret, the
\* ConfigMaps, the bot's kubeconfig and, in HelmReleases, the references to the
\* ConfigMaps gone.
FinalizerDroppedClean ==
    [][ \A c \in Clusters :
          cluster[c] # Absent /\ cluster[c].finalizer
          /\ cluster'[c] # Absent /\ ~cluster'[c].finalizer
          => /\ secret[c] = Absent
             /\ configMap[c] = Absent
             /\ IsBotEnabled => NameOf[c] \notin tbotConfigMaps \cup kubeconfigs
             /\ Kinds = {"HelmRelease"} => ReferencesGone(c) ]_vars

\* The patch that drops the operator's finalizer leaves the finalizers of other
\* controllers as they are, although it sends the list of a Cluster that may be
\* stale: on a Cluster being deleted the list can only have shrunk since, and
\* the API server refuses to let it grow again.  (Of AddFinalizer this is not true:
\* its list, sent for a Cluster that stays, may undo a change made since the read.)
OtherFinalizersKept ==
    [][ \A c \in Clusters :
          cluster[c] # Absent /\ cluster[c].finalizer
          /\ cluster'[c] # Absent /\ ~cluster'[c].finalizer
          => cluster'[c].others = cluster[c].others ]_vars

\* Reconcile replaces the kube token of a ConfigMap only when that token is no
\* longer good for the roles Reconcile found enabled, even if the ConfigMap it
\* read was stale.
ConfigMapTokenKept ==
    [][ \A c \in Clusters :
          configMap[c] # Absent /\ configMap'[c] # Absent =>
             LET old == GetTokenFromConfigMap(configMap[c])
                 new == GetTokenFromConfigMap(configMap'[c])
             IN old # Absent /\ new # Absent /\ new # old
                => ~IsTokenValid(tokens, RegisterName(c), old, loc.roles) ]_vars

\* tbot is never pointed at a ConfigMap that does not exist: the ConfigMap is
\* created before the reference and deleted after it.
TbotReferencesBacked ==
    \A k \in Kinds :
        release[k][Tbot] # Absent => release[k][Tbot].refs \subseteq tbotConfigMaps

\* A reference to the values of a cluster leaves a release that stays only while
\* Reconcile deregisters that very cluster: neither the clusters that share the
\* bot's list nor a list read stale cost one its reference.
ReferencesKept ==
    [][ \A k \in Kinds, r \in Resources :
          release[k][r] # Absent /\ release'[k][r] # Absent =>
             \A n \in release[k][r].refs \ release'[k][r].refs :
                \E c \in Clusters :
                   /\ c = req /\ NameOf[c] = n
                   /\ cluster[c] = Absent \/ cluster[c].deleting ]_vars

Registered(c) ==
    /\ cluster[c].finalizer
    /\ secret[c] # Absent
    /\ IsTokenValid(tokens, RegisterName(c), secret[c].joinToken, NodeRoles)
    /\ configMap[c] # Absent
    /\ LET token == GetTokenFromConfigMap(configMap[c])
           roles == KubeRoles(userValues[c] = "apps")
       IN /\ IsTokenValid(tokens, RegisterName(c), token, roles)
          /\ configMap[c] = GetConfigmapDataFromTemplate(token, config, RegisterName(c),
                                roles, GetTeleportKubeAgentVersion(c))
    /\ LET k == NewTeleportAppConfigManager(c)
       IN k # "none" => NameOf[c] \in release[k][c].refs

\* Someone left the user values, the Secret or the ConfigMap in a state that
\* Reconcile cannot read; it returns an error and repairs none of them.
Unreadable(c) ==
    \/ userValues[c] = "malformed"
    \/ secret[c] # Absent /\ secret[c].joinToken = Absent
    \/ configMap[c] # Absent /\ GetTokenFromConfigMap(configMap[c]) = Absent

\* Once the environment leaves it alone, a Cluster that is not being deleted
\* ends up, and stays, with valid tokens, the values its chart version asks for
\* and a reference to them; only objects it cannot read keep Reconcile from that.
RegistrationConverges ==
    \A c \in Clusters :
        <>[](\/ cluster[c] = Absent
             \/ cluster[c].deleting
             \/ Unreadable(c)
             \/ Registered(c))

\* The bot has the cluster's kubeconfig made, or has all it takes to make it.
BotConfigured(c) ==
    \/ NameOf[c] \in kubeconfigs
    \/ /\ NameOf[c] \in tbotConfigMaps
       /\ LET k == NewTeleportAppConfigManager(Tbot)
          IN k # "none" => NameOf[c] \in release[k][Tbot].refs

\* While the process runs with --tbot, every Cluster that stays ends up with its
\* kubeconfig or with the bot's ConfigMap and a reference to it, whatever an
\* earlier process with the flag off, a failure between the two writes or the
\* deletion of a cluster of the same name left behind.
BotConverges ==
    \A c \in Clusters :
        <>[](IsBotEnabled /\ cluster[c] # Absent /\ ~cluster[c].deleting =>
                Unreadable(c) \/ BotConfigured(c))

\* A Cluster being deleted loses the finalizer, also when its Secret or ConfigMap
\* cannot be read or another controller's finalizers make the API server refuse
\* the patch; only unreadable user values keep Reconcile from getting that far.
DeletionCompletes ==
    \A c \in Clusters :
        (cluster[c] # Absent /\ cluster[c].deleting)
        ~> \/ cluster[c] = Absent
           \/ ~cluster[c].finalizer
           \/ userValues[c] = "malformed"

-----------------------------------------------------------------------------
(* What the repository says and the code does not do.                       *)

\* Deregistering a deleted Cluster removes its join tokens from Teleport
\* ("delete the cluster from teleport", cluster_controller.go:114): none is left
\* when the finalizer goes.  DeleteToken stops after the first of them.
DeregistrationRemovesTokens ==
    [][ \A c \in Clusters :
          cluster[c] # Absent /\ cluster[c].finalizer
          /\ cluster'[c] # Absent /\ ~cluster'[c].finalizer
          => Labelled(tokens, RegisterName(c)) = {} ]_vars

\* When the finalizer goes, the bot's App refers to the Cluster no more
\* ("expected ExtraConfigs entry %q to be removed, still present",
\* cluster_controller_app_manager_test.go:199).  DeleteConfig takes an App from
\* the cache that does not show the reference yet for one that has none.
AppReferencesRemoved ==
    [][ \A c \in Clusters :
          cluster[c] # Absent /\ cluster[c].finalizer
          /\ cluster'[c] # Absent /\ ~cluster'[c].finalizer
          => \A k \in Kinds :
                release[k][Tbot] # Absent => NameOf[c] \notin release[k][Tbot].refs ]_vars

\* With --tbot "teleport bot configmap is created and app.spec.extraConfig is
\* updated" (main.go:76): in the end every Cluster that stays has its ConfigMap,
\* and the bot's release, if there is one, refers to it.  Reconcile looks at
\* neither once the kubeconfig Secret exists.
TbotConfigured ==
    \A c \in Clusters :
        <>[](cluster[c] # Absent /\ ~cluster[c].deleting =>
                /\ NameOf[c] \in tbotConfigMaps
                /\ LET k == NewTeleportAppConfigManager(Tbot)
                   IN k # "none" => NameOf[c] \in release[k][Tbot].refs)

=============================================================================
