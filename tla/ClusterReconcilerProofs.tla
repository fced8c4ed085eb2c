----------------------- MODULE ClusterReconcilerProofs -----------------------
(***************************************************************************)
(* Theorems about ClusterReconciler, for any clusters, versions, configs,  *)
(* flags, bounds and any choice of what the environment may do.            *)
(***************************************************************************)
EXTENDS ClusterReconciler, TLAPS

-----------------------------------------------------------------------------
(* The client.                                                              *)

\* Strengthening of TeleportClientUsable: a fresh identity was read together
\* with a connection that was made, a connection is only attempted without one,
\* and past the identity check there is a client.
ClientInv ==
    /\ identity = "fresh" => client = "connected"
    /\ pc = "newClient" => identity # "fresh"
    /\ pc \in DeletePCs \cup RegisterPCs => client = "connected"

\* The initial state has no identity and no request under way.
LEMMA ClientInit == Init => ClientInv
BY DEF Init, ClientInv, DeletePCs, RegisterPCs

\* Every step keeps ClientInv: only NewClient enters the two branches of
\* Reconcile, or a fresh identity does; only a failed NewClient and a restart
\* lose the client, and both leave the process idle.
LEMMA ClientStep == ClientInv /\ [Next]_vars => ClientInv'
<1> SUFFICES ASSUME ClientInv, [Next]_vars PROVE ClientInv'
  OBVIOUS
<1> USE DEF ClientInv
<1>1. CASE UNCHANGED vars
  BY <1>1 DEF vars, process, session
<1>2. CASE AreTeleportAppsEnabled
  BY <1>2 DEF AreTeleportAppsEnabled, Requeue, Goto, session, DeletePCs, RegisterPCs
<1>3. CASE GetIdentityConfigFromSecret
  BY <1>3 DEF GetIdentityConfigFromSecret, FirstCall, Goto, session, DeletePCs, RegisterPCs
<1>4. CASE NewClient
  BY <1>4 DEF NewClient, FirstCall, Goto
<1>5. CASE Delete
  BY <1>5 DEF Delete, ListTokens, DeleteToken, DeleteSecret, DeleteConfigMap,
     BotDetectDelete, BotDeleteConfig, DeleteTbotConfigMap, DeleteKubeconfigSecret,
     AgentDetectDelete, AgentDeleteConfig, RemoveFinalizer, DeleteConfig,
     PatchFinalizers, UpdateReferences, Goto, Stop, Requeue, session, DeletePCs
<1>6. CASE Register
  BY <1>6 DEF Register, AddFinalizer, GetSecret, CheckNode, MintNode, PutSecret,
     GetTkaVersion, GetConfigMap, CheckKube, MintKube, PutConfigMap, AgentDetect,
     AgentEnsure, GetKubeconfigSecret, EnsureTbotConfigMap, BotDetect, BotEnsure,
     GenerateToken, CreateConfigMap, UpdateConfigMap, WriteConfigMap, EnsureConfig,
     PatchFinalizers, UpdateReferences, Goto, Requeue, session, RegisterPCs
<1>7. ASSUME NEW c \in Clusters, GetCluster(c) PROVE ClientInv'
  BY <1>7 DEF GetCluster, session, DeletePCs, RegisterPCs
<1>8. CASE Environment
  <2>1. CASE Restart
    BY <2>1 DEF Restart, DeletePCs, RegisterPCs
  <2>2. CASE Fails
    BY <2>2 DEF Fails, NewClientFails, Requeue, session, DeletePCs, RegisterPCs
  <2>3. CASE IdentityExpires
    BY <2>3 DEF IdentityExpires, process
  <2>4. CASE UNCHANGED <<session, pc>>
    BY <2>4 DEF session
  <2>5. ASSUME Environment, ~Restart, ~Fails, ~IdentityExpires
        PROVE  UNCHANGED <<session, pc>>
    BY <2>5 DEF Environment, TokenExpires, SyncCluster, SyncObjects, SyncApps, UserDeletes,
       ClusterGone, UserCreates, OtherFinalizerChanges, SetCluster, UserSetsValues, ObjectTouched,
       TbotWritesKubeconfig, ReleaseChanges, session, process
  <2> QED
    BY <1>8, <2>1, <2>2, <2>3, <2>4, <2>5
<1> QED
  BY <1>1, <1>2, <1>3, <1>4, <1>5, <1>6, <1>7, <1>8 DEF Next, Continue

\* No call to Teleport is ever made through a nil client.
THEOREM ClientIsUsable == Spec => []TeleportClientUsable
<1>1. ClientInv => TeleportClientUsable
  BY DEF ClientInv, TeleportClientUsable, TeleportCalls, DeletePCs, RegisterPCs
<1> QED
  BY ClientInit, ClientStep, <1>1, PTL DEF Spec

-----------------------------------------------------------------------------
(* Types.  Lemmas about the operators come first.                           *)

\* The lists of roles Reconcile builds are the three of RoleLists.
LEMMA RolesType ==
    /\ \A b \in BOOLEAN : KubeRoles(b) \in RoleLists
    /\ NodeRoles \in RoleLists
BY DEF KubeRoles, NodeRoles, RoleLists

\* A register name is one of RegisterNames.
LEMMA NameType == ASSUME NEW c \in Clusters PROVE RegisterName(c) \in RegisterNames
BY DEF RegisterNames

\* The rendered values are a Document.
LEMMA RenderType ==
    ASSUME NEW token \in 1..MaxTokens, NEW cfg \in Configs, NEW name \in RegisterNames,
           NEW roles \in RoleLists, NEW v
    PROVE  GetConfigmapDataFromTemplate(token, cfg, name, roles, v) \in Document
<1>1. ResolveNestedTeleportVersionOverride(cfg.teleportVersion)
        \in TeleportVersions \cup {Absent}
  BY DEF ResolveNestedTeleportVersionOverride, TeleportVersions
<1>2. \A w \in TeleportVersions \cup {Absent} : ValuesBlock(token, cfg, name, w, roles) \in Block
  BY DEF ValuesBlock, Block
<1>3. cfg.teleportVersion \in TeleportVersions \cup {Absent}
  BY DEF TeleportVersions
<1> QED
  BY <1>1, <1>2, <1>3 DEF GetConfigmapDataFromTemplate, Document

\* What is read back from a Document.
LEMMA ParseType ==
    ASSUME NEW doc \in Document
    PROVE  /\ GetTokenFromConfigMap(doc) \in OrAbsent(1..MaxTokens)
           /\ registerNameFromConfigMap(doc) \in OrAbsent(RegisterNames)
BY DEF GetTokenFromConfigMap, registerNameFromConfigMap, parseConfigMapValues,
   Document, Block, OrAbsent

\* What a Get of a release returns is a release, or nothing.
LEMMA SeenType ==
    ASSUME ObjectsOK, CachesOK, NEW k \in Kinds, NEW r \in Resources
    PROVE  Seen(k, r) \in OrAbsent(ReleaseObject)
BY DEF ObjectsOK, CachesOK, Seen

\* The manager of a resource is for a kind that exists, and found it.
LEMMA ManagerType ==
    ASSUME NEW r
    PROVE  LET k == NewTeleportAppConfigManager(r)
           IN k \in Kinds \cup {"none"} /\ (k # "none" => Seen(k, r) # Absent)
BY ConstantsAssumption DEF NewTeleportAppConfigManager

\* The chart version found is one a release may ask for.
LEMMA VersionType ==
    ASSUME ObjectsOK, CachesOK, NEW r \in Resources
    PROVE  GetTeleportKubeAgentVersion(r) \in OrAbsent(TkaVersions)
<1> DEFINE k == NewTeleportAppConfigManager(r)
<1>1. k # "none" => Seen(k, r) \in ReleaseObject
  BY ManagerType, SeenType DEF OrAbsent
<1>2. k # "none" => /\ Seen(k, r).spec \in OrAbsent(TkaVersions)
                    /\ Seen(k, r).installed \in OrAbsent(TkaVersions)
  BY <1>1 DEF ReleaseObject, OrAbsent
<1> QED
  BY <1>2 DEF GetTeleportKubeAgentVersion, helmReleaseChartVersion, OrAbsent

\* Blank is a value of the locals.
LEMMA BlankType == Blank \in Locals
BY RolesType DEF Blank, Locals, OrAbsent

\* Going on to the next call keeps the process well typed.
LEMMA GotoType ==
    ASSUME ProcessOK, pc # "idle", NEW p \in PCs, NEW l \in Locals,
           l.cluster # Absent, Goto(p, l)
    PROVE  ProcessOK'
BY DEF ProcessOK, Goto

\* So does ending a reconcile for good.
LEMMA StopType ==
    ASSUME ProcessOK, Stop
    PROVE  ProcessOK'
BY BlankType DEF ProcessOK, Stop, PCs, OrAbsent

\* So does an error or a RequeueAfter, which put the request back.
LEMMA RequeueType ==
    ASSUME ProcessOK, pc # "idle", Requeue
    PROVE  ProcessOK'
BY BlankType DEF ProcessOK, Requeue, PCs, OrAbsent

\* Setting one local to a value of its kind gives locals again, of the same
\* Cluster.
LEMMA LocalsType ==
    ASSUME NEW l \in Locals
    PROVE  /\ \A x \in RoleLists :
                 /\ [l EXCEPT !.roles = x] \in Locals
                 /\ [l EXCEPT !.roles = x].cluster = l.cluster
           /\ \A x \in OrAbsent(SecretObject) :
                 /\ [l EXCEPT !.secret = x] \in Locals
                 /\ [l EXCEPT !.secret = x].cluster = l.cluster
           /\ \A x \in OrAbsent(Document) :
                 /\ [l EXCEPT !.configMap = x] \in Locals
                 /\ [l EXCEPT !.configMap = x].cluster = l.cluster
           /\ \A x \in OrAbsent(1..MaxTokens) :
                 /\ [l EXCEPT !.token = x] \in Locals
                 /\ [l EXCEPT !.token = x].cluster = l.cluster
           /\ \A x \in OrAbsent(TkaVersions) :
                 /\ [l EXCEPT !.tkaVersion = x] \in Locals
                 /\ [l EXCEPT !.tkaVersion = x].cluster = l.cluster
           /\ \A x \in Kinds \cup {"none"} :
                 /\ [l EXCEPT !.manager = x] \in Locals
                 /\ [l EXCEPT !.manager = x].cluster = l.cluster
BY DEF Locals

\* The locals that must be assigned where Reconcile uses them.
LocalsAssigned ==
    pc \in {"deleteToken", "putConfigMap"} => loc.token \in 1..Len(tokens)

TypeInv == TypeOK /\ LocalsAssigned

\* The initial state is well typed.
LEMMA TypeInit == Init => TypeInv
<1> SUFFICES ASSUME Init PROVE TypeInv
  OBVIOUS
<1>1. ObjectsOK
  <2>1. \A v \in TkaVersions : NewRelease(v) \in ReleaseObject
    BY DEF NewRelease, ReleaseObject
  <2>2. release \in [Kinds -> [Resources -> OrAbsent(ReleaseObject)]]
    BY <2>1 DEF Init, OrAbsent
  <2>3. ASSUME NEW x \in NewClusters PROVE x \in OrAbsent(ClusterObject)
    <3>1. PICK S \in SUBSET OtherFinalizers :
             x = [deleting |-> FALSE, finalizer |-> FALSE, others |-> S]
      BY <2>3 DEF NewClusters
    <3> QED
      BY <3>1 DEF OrAbsent, ClusterObject
  <2>4. cluster \in [Clusters -> OrAbsent(ClusterObject)]
    BY <2>3 DEF Init
  <2> QED
    BY <2>2, <2>4 DEF Init, ObjectsOK, OrAbsent
<1>2. TokensOK /\ SessionOK
  BY ConstantsAssumption DEF Init, TokensOK, SessionOK
<1>3. CachesOK
  BY <1>1 DEF Init, CachesOK, ObjectsOK, OrAbsent, CachedKinds
<1>4. ProcessOK
  BY BlankType DEF Init, ProcessOK, PCs, OrAbsent
<1> QED
  BY <1>1, <1>2, <1>3, <1>4, ConstantsAssumption DEF Init, TypeInv, TypeOK, LocalsAssigned

\* What a step leaves alone keeps its type.
LEMMA TypeFrame ==
    ASSUME TypeOK
    PROVE  /\ UNCHANGED objects => ObjectsOK'
           /\ UNCHANGED tokens => TokensOK'
           /\ UNCHANGED caches => CachesOK'
           /\ UNCHANGED session => SessionOK'
           /\ UNCHANGED process => ProcessOK'
           /\ UNCHANGED disturbances => (disturbances \in 0..MaxDisturbances)'
BY DEF TypeOK, ObjectsOK, TokensOK, CachesOK, SessionOK, ProcessOK,
   objects, caches, session, process

\* The start of Reconcile keeps the types.
LEMMA TypeStart ==
    ASSUME TypeInv,
           \/ \E c \in Clusters : GetCluster(c)
           \/ AreTeleportAppsEnabled \/ GetIdentityConfigFromSecret \/ NewClient
    PROVE  TypeInv'
<1>0. ProcessOK /\ SessionOK
  BY DEF TypeInv, TypeOK
<1> DEFINE Rest == UNCHANGED <<objects, tokens, caches, disturbances>>
<1>1. Rest
  BY DEF GetCluster, AreTeleportAppsEnabled, GetIdentityConfigFromSecret, NewClient
<1>2. SessionOK'
  BY <1>0, TypeFrame DEF GetCluster, AreTeleportAppsEnabled, GetIdentityConfigFromSecret,
     NewClient, TypeInv, SessionOK
<1>3. ProcessOK'
  <2>1. ASSUME NEW c \in Clusters, GetCluster(c) PROVE ProcessOK'
    <3>1. cachedCluster[c] # Absent =>
            [Blank EXCEPT !.cluster = cachedCluster[c]] \in Locals
      BY BlankType DEF TypeInv, TypeOK, CachesOK, Locals
    <3>2. [Blank EXCEPT !.cluster = cachedCluster[c]].cluster = cachedCluster[c]
      BY DEF Blank
    <3> QED
      BY <1>0, <2>1, <3>1, <3>2 DEF GetCluster, ProcessOK, PCs, StartPCs, OrAbsent
  <2>2. CASE AreTeleportAppsEnabled
    <3>1. KubeRoles(userValues[req] = "apps") \in RoleLists
      BY RolesType
    <3>2. [loc EXCEPT !.roles = KubeRoles(userValues[req] = "apps")] \in Locals
      BY <1>0, <3>1, LocalsType DEF ProcessOK
    <3>3. [loc EXCEPT !.roles = KubeRoles(userValues[req] = "apps")].cluster = loc.cluster
      BY <1>0, <3>1, LocalsType DEF ProcessOK
    <3>4. pc # "idle" /\ loc.cluster # Absent
      BY <1>0, <2>2 DEF AreTeleportAppsEnabled, ProcessOK
    <3>5. CASE Requeue
      BY <1>0, <3>4, <3>5, RequeueType
    <3>6. CASE Goto("identity", [loc EXCEPT !.roles = KubeRoles(userValues[req] = "apps")])
      BY <1>0, <3>2, <3>3, <3>4, <3>6, GotoType DEF PCs, StartPCs
    <3> QED
      BY <2>2, <3>5, <3>6 DEF AreTeleportAppsEnabled
  <2>3. CASE GetIdentityConfigFromSecret \/ NewClient
    <3>1. FirstCall \in PCs /\ "newClient" \in PCs
      BY DEF FirstCall, PCs, StartPCs, DeletePCs, RegisterPCs
    <3> QED
      BY <1>0, <2>3, <3>1 DEF GetIdentityConfigFromSecret, NewClient, Goto, ProcessOK
  <2> QED
    BY <2>1, <2>2, <2>3
<1>4. LocalsAssigned'
  BY DEF LocalsAssigned, GetCluster, AreTeleportAppsEnabled,
     GetIdentityConfigFromSecret, NewClient, FirstCall, Goto, Requeue
<1> QED
  BY <1>1, <1>2, <1>3, <1>4, TypeFrame DEF TypeInv, TypeOK

\* Only the references of one release are written, if any.
ReferencesWritten ==
    \/ UNCHANGED release
    \/ \E k \in Kinds, r \in Resources, S \in SUBSET Names :
          /\ release[k][r] # Absent
          /\ release' = [release EXCEPT ![k][r].refs = S]

\* An EnsureConfig or DeleteConfig that writes sends back what was seen of a
\* release that is there, with a reference more or less.
LEMMA SeenWritten ==
    ASSUME ObjectsOK, CachesOK, NEW k \in Kinds, NEW r \in Resources, req \in Clusters,
           Seen(k, r) # Absent, release[k][r] = Seen(k, r),
           NEW S, S \in {Seen(k, r).refs \cup {NameOf[req]}, Seen(k, r).refs \ {NameOf[req]}},
           release' = [release EXCEPT ![k][r].refs = S]
    PROVE  ReferencesWritten
<1>1. Seen(k, r) \in ReleaseObject
  BY SeenType DEF OrAbsent
<1>2. S \in SUBSET Names
  BY <1>1 DEF ReleaseObject, Names
<1> QED
  BY <1>2 DEF ReferencesWritten

\* Changing the references of a release gives a release.
LEMMA ReferencesType ==
    ASSUME release \in [Kinds -> [Resources -> OrAbsent(ReleaseObject)]],
           NEW k \in Kinds, NEW r \in Resources, release[k][r] # Absent,
           NEW S \in SUBSET Names
    PROVE  [release EXCEPT ![k][r].refs = S]
              \in [Kinds -> [Resources -> OrAbsent(ReleaseObject)]]
<1>1. release[k][r] \in ReleaseObject
  BY DEF OrAbsent
<1>2. [release[k][r] EXCEPT !.refs = S] \in ReleaseObject
  BY <1>1 DEF ReleaseObject
<1>3. [release[k] EXCEPT ![r] = [release[k][r] EXCEPT !.refs = S]]
         \in [Resources -> OrAbsent(ReleaseObject)]
  BY <1>2 DEF OrAbsent
<1> QED
  BY <1>3

\* The releases keep their type when only references are written.
LEMMA ReleasesType ==
    ASSUME release \in [Kinds -> [Resources -> OrAbsent(ReleaseObject)]], ReferencesWritten
    PROVE  release' \in [Kinds -> [Resources -> OrAbsent(ReleaseObject)]]
<1>1. CASE UNCHANGED release
  BY <1>1
<1>2. CASE ~(UNCHANGED release)
  <2>1. PICK k \in Kinds, r \in Resources, S \in SUBSET Names :
           /\ release[k][r] # Absent
           /\ release' = [release EXCEPT ![k][r].refs = S]
    BY <1>2 DEF ReferencesWritten
  <2> QED
    BY <2>1, ReferencesType
<1> QED
  BY <1>1, <1>2

\* Marking a token changes only its state: the sequence keeps its length, and
\* every token its label and roles.
LEMMA MarkType ==
    ASSUME tokens \in Seq(ProvisionToken), NEW i \in 1..Len(tokens),
           NEW s \in {"live", "expired", "gone"},
           tokens' = [tokens EXCEPT ![i].state = s]
    PROVE  /\ tokens' \in Seq(ProvisionToken)
           /\ Len(tokens') = Len(tokens)
           /\ \A j \in 1..Len(tokens) :
                 /\ tokens'[j].cluster = tokens[j].cluster /\ tokens'[j].roles = tokens[j].roles
                 /\ tokens'[j].state \in {tokens[j].state, s}
<1>1. tokens[i] \in ProvisionToken
  OBVIOUS
<1>2. [tokens[i] EXCEPT !.state = s] \in ProvisionToken
  BY <1>1 DEF ProvisionToken
<1>3. tokens' = [tokens EXCEPT ![i] = [tokens[i] EXCEPT !.state = s]]
  OBVIOUS
<1>4. /\ tokens' \in Seq(ProvisionToken)
      /\ Len(tokens') = Len(tokens)
  BY <1>2, <1>3
<1>5. \A j \in 1..Len(tokens) :
        tokens'[j] = IF j = i THEN [tokens[i] EXCEPT !.state = s] ELSE tokens[j]
  BY <1>3
<1>6. /\ [tokens[i] EXCEPT !.state = s].cluster = tokens[i].cluster
      /\ [tokens[i] EXCEPT !.state = s].roles = tokens[i].roles
      /\ [tokens[i] EXCEPT !.state = s].state = s
  BY <1>1 DEF ProvisionToken
<1> QED
  BY <1>4, <1>5, <1>6

\* Patching the finalizers of a Cluster, with those of the Cluster that was read,
\* gives a Cluster.
LEMMA PatchType ==
    ASSUME ObjectsOK, ProcessOK, pc # "idle", cluster[req] # Absent, NEW own \in BOOLEAN
    PROVE  [cluster EXCEPT ![req] =
              [cluster[req] EXCEPT !.finalizer = own, !.others = loc.cluster.others]]
           \in [Clusters -> OrAbsent(ClusterObject)]
<1>1. cluster[req] \in ClusterObject /\ loc.cluster \in ClusterObject
  BY DEF ObjectsOK, ProcessOK, Locals, OrAbsent
<1>2. [cluster[req] EXCEPT !.finalizer = own, !.others = loc.cluster.others] \in ClusterObject
  BY <1>1 DEF ClusterObject
<1> QED
  BY <1>2 DEF ObjectsOK, ProcessOK, OrAbsent

\* The deletion branch keeps the types.
LEMMA TypeDelete ==
    ASSUME TypeInv, Delete
    PROVE  TypeInv'
<1> DEFINE Branch == {"deleteSecret", "deleteConfigMap", "botDetectDelete",
             "botDeleteConfig", "deleteTbotConfigMap", "deleteKubeconfigSecret",
             "agentDetectDelete", "agentDeleteConfig", "removeFinalizer"}
<1> USE DEF TypeInv, TypeOK
<1>0. UNCHANGED <<caches, session, disturbances>> /\ pc # "idle"
  BY DEF Delete, ListTokens, DeleteToken, DeleteSecret, DeleteConfigMap,
     BotDetectDelete, BotDeleteConfig, DeleteTbotConfigMap, DeleteKubeconfigSecret,
     AgentDetectDelete, AgentDeleteConfig, RemoveFinalizer
<1>1. CASE ListTokens
  <2>1. UNCHANGED objects /\ UNCHANGED tokens
    BY <1>1 DEF ListTokens
  <2>2. CASE Goto("deleteSecret", loc)
    <3>1. ProcessOK'
      BY <1>0, <2>2, GotoType DEF PCs, DeletePCs, ProcessOK
    <3> QED
      BY <1>0, <2>1, <2>2, <3>1, TypeFrame DEF LocalsAssigned, Goto
  <2>3. ASSUME NEW i \in Labelled(tokens, RegisterName(req)),
               Goto("deleteToken", [loc EXCEPT !.token = i])
        PROVE  TypeInv'
    <3>1. i \in 1..Len(tokens) /\ i \in 1..MaxTokens
      BY ConstantsAssumption DEF Labelled, GetTokens, TokensOK
    <3>2. /\ [loc EXCEPT !.token = i] \in Locals
          /\ [loc EXCEPT !.token = i].cluster = loc.cluster
      BY <3>1, LocalsType DEF ProcessOK, OrAbsent
    <3>3. [loc EXCEPT !.token = i].token = i
      BY DEF ProcessOK, Locals
    <3>4. ProcessOK'
      BY <1>0, <2>3, <3>2, GotoType DEF PCs, DeletePCs, ProcessOK
    <3> QED
      BY <1>0, <2>1, <2>3, <3>1, <3>3, <3>4, TypeFrame DEF LocalsAssigned, Goto
  <2> QED
    BY <1>1, <2>2, <2>3 DEF ListTokens
<1>2. CASE DeleteToken
  <2>1. UNCHANGED objects /\ loc.token \in 1..Len(tokens)
    BY <1>2 DEF DeleteToken, LocalsAssigned
  <2>2. TokensOK'
    BY <1>2, <2>1, MarkType DEF DeleteToken, TokensOK
  <2>3. /\ [loc EXCEPT !.token = Absent] \in Locals
        /\ [loc EXCEPT !.token = Absent].cluster = loc.cluster
    BY LocalsType DEF ProcessOK, OrAbsent
  <2>4. ProcessOK'
    BY <1>0, <1>2, <2>3, GotoType, RequeueType DEF DeleteToken, PCs, DeletePCs, ProcessOK
  <2> QED
    BY <1>0, <1>2, <2>1, <2>2, <2>4, TypeFrame
       DEF DeleteToken, LocalsAssigned, Goto, Requeue
<1>3. ASSUME pc' \in Branch \cup {"idle"}, ObjectsOK', ProcessOK', UNCHANGED tokens
      PROVE  TypeInv'
  BY <1>0, <1>3, TypeFrame DEF LocalsAssigned
<1>4. CASE DeleteSecret \/ DeleteConfigMap \/ DeleteTbotConfigMap \/ DeleteKubeconfigSecret
  <2>1. ObjectsOK' /\ UNCHANGED tokens
    BY <1>4 DEF DeleteSecret, DeleteConfigMap, DeleteTbotConfigMap,
       DeleteKubeconfigSecret, ObjectsOK, OrAbsent
  <2>2. \E p \in Branch : Goto(p, loc)
    BY <1>4 DEF DeleteSecret, DeleteConfigMap, DeleteTbotConfigMap, DeleteKubeconfigSecret
  <2>3. ProcessOK' /\ pc' \in Branch
    BY <1>0, <2>2 DEF Goto, PCs, DeletePCs, ProcessOK
  <2> QED
    BY <1>3, <2>1, <2>3
<1>5. CASE BotDetectDelete \/ AgentDetectDelete
  <2>1. ObjectsOK' /\ UNCHANGED tokens
    BY <1>5, TypeFrame DEF BotDetectDelete, AgentDetectDelete
  <2>2. \E p \in Branch, m \in Kinds \cup {"none"} : Goto(p, [loc EXCEPT !.manager = m])
    BY <1>5, ManagerType DEF BotDetectDelete, AgentDetectDelete
  <2>3. ProcessOK' /\ pc' \in Branch
    BY <1>0, <2>2, LocalsType DEF Goto, PCs, DeletePCs, ProcessOK
  <2> QED
    BY <1>3, <2>1, <2>3
<1>6. ASSUME BotDeleteConfig \/ AgentDeleteConfig PROVE ReferencesWritten
  <2>1. PICK r \in Resources :
           \/ UNCHANGED release
           \/ /\ loc.manager # "none" /\ Seen(loc.manager, r) # Absent
              /\ release[loc.manager][r] = Seen(loc.manager, r)
              /\ release' = [release EXCEPT ![loc.manager][r].refs
                                               = Seen(loc.manager, r).refs \ {NameOf[req]}]
    <3>1. Tbot \in Resources /\ req \in Resources
      BY <1>0 DEF Resources, ProcessOK
    <3> QED
      BY <1>6, <3>1 DEF BotDeleteConfig, AgentDeleteConfig, DeleteConfig, UpdateReferences
  <2>2. loc.manager # "none" => loc.manager \in Kinds
    BY DEF ProcessOK, Locals
  <2> QED
    BY <1>0, <2>1, <2>2, SeenWritten DEF ReferencesWritten, ProcessOK
<1>7. CASE BotDeleteConfig \/ AgentDeleteConfig
  <2>1. /\ [loc EXCEPT !.manager = "none"] \in Locals
        /\ [loc EXCEPT !.manager = "none"].cluster = loc.cluster
    BY LocalsType DEF ProcessOK
  <2>2. release' \in [Kinds -> [Resources -> OrAbsent(ReleaseObject)]]
    BY <1>6, <1>7, ReleasesType DEF ObjectsOK
  <2>3. ObjectsOK' /\ UNCHANGED tokens
    BY <1>7, <2>2 DEF BotDeleteConfig, AgentDeleteConfig, ObjectsOK
  <2>4. \/ Stop \/ Requeue
        \/ \E p \in Branch : Goto(p, [loc EXCEPT !.manager = "none"])
    BY <1>7 DEF BotDeleteConfig, AgentDeleteConfig, DeleteConfig, UpdateReferences
  <2>5. ProcessOK' /\ pc' \in Branch \cup {"idle"}
    BY <1>0, <2>1, <2>4, StopType, RequeueType
       DEF Stop, Requeue, Goto, PCs, DeletePCs, ProcessOK
  <2> QED
    BY <1>3, <2>3, <2>5
<1>8. CASE RemoveFinalizer
  <2>1. cluster' \in [Clusters -> OrAbsent(ClusterObject)]
    BY <1>0, <1>8, PatchType DEF RemoveFinalizer, PatchFinalizers, ObjectsOK
  <2>2. ObjectsOK'
    BY <1>8, <2>1 DEF RemoveFinalizer, ObjectsOK
  <2>3. Stop \/ Requeue
    BY <1>8 DEF RemoveFinalizer, PatchFinalizers
  <2>4. ProcessOK' /\ pc' = "idle"
    BY <1>0, <2>3, StopType, RequeueType DEF Stop, Requeue
  <2> QED
    BY <1>3, <1>8, <2>2, <2>4 DEF RemoveFinalizer
<1> QED
  BY <1>1, <1>2, <1>4, <1>5, <1>7, <1>8 DEF Delete

\* Upserting a token lengthens the sequence by one well-typed token and leaves
\* the others as they are.
LEMMA UpsertType ==
    ASSUME tokens \in Seq(ProvisionToken), NEW c \in Clusters, NEW roles \in RoleLists,
           tokens' = Append(tokens, NewProvisionToken(RegisterName(c), roles))
    PROVE  /\ tokens' \in Seq(ProvisionToken)
           /\ Len(tokens') = Len(tokens) + 1
           /\ \A j \in 1..Len(tokens) : tokens'[j] = tokens[j]
           /\ tokens'[Len(tokens) + 1] = NewProvisionToken(RegisterName(c), roles)
<1>1. NewProvisionToken(RegisterName(c), roles) \in ProvisionToken
  BY NameType DEF NewProvisionToken, ProvisionToken
<1> QED
  BY <1>1

\* What GenerateToken does to the tokens and to the process.
LEMMA GenerateType ==
    ASSUME TypeOK, pc # "idle", NEW roles \in RoleLists, NEW p \in PCs \ {"deleteToken"},
           GenerateToken(roles, p)
    PROVE  TokensOK' /\ ProcessOK' /\ LocalsAssigned'
<1> USE DEF TypeOK
<1>1. CASE Len(tokens) >= MaxTokens /\ Requeue /\ UNCHANGED tokens
  BY <1>1, TypeFrame, RequeueType DEF LocalsAssigned, Requeue
<1>2. CASE /\ Len(tokens) < MaxTokens
           /\ tokens' = Append(tokens, NewProvisionToken(RegisterName(req), roles))
           /\ Goto(p, [loc EXCEPT !.token = Len(tokens) + 1])
  <2>1. tokens' \in Seq(ProvisionToken) /\ Len(tokens') = Len(tokens) + 1
    BY <1>2, UpsertType DEF TokensOK, ProcessOK
  <2>2. Len(tokens) \in Nat
    BY DEF TokensOK
  <2>3. TokensOK'
    BY <1>2, <2>1, <2>2, ConstantsAssumption DEF TokensOK
  <2>4. Len(tokens) + 1 \in 1..MaxTokens
    BY <1>2, <2>2, ConstantsAssumption
  <2>5. /\ [loc EXCEPT !.token = Len(tokens) + 1] \in Locals
        /\ [loc EXCEPT !.token = Len(tokens) + 1].cluster = loc.cluster
    BY <2>4, LocalsType DEF ProcessOK, OrAbsent
  <2>6. ProcessOK'
    BY <1>2, <2>5, GotoType DEF ProcessOK
  <2>7. loc'.token = Len(tokens) + 1
    BY <1>2 DEF Goto, ProcessOK, Locals
  <2> QED
    BY <2>1, <2>2, <2>3, <2>6, <2>7 DEF LocalsAssigned
<1> QED
  BY <1>1, <1>2 DEF GenerateToken

\* Where the ConfigMap phase ends the locals are still well typed.
LEMMA AfterType ==
    ASSUME loc \in Locals
    PROVE  AfterConfigMap \in Locals /\ AfterConfigMap.cluster = loc.cluster
BY DEF AfterConfigMap, Locals, OrAbsent

\* The registration branch keeps the types.
LEMMA TypeRegister ==
    ASSUME TypeInv, Register
    PROVE  TypeInv'
<1> DEFINE Branch == RegisterPCs \ {"putConfigMap"}
<1> USE DEF TypeInv, TypeOK
<1>0. UNCHANGED <<caches, session, disturbances>> /\ pc # "idle"
  BY DEF Register, AddFinalizer, GetSecret, CheckNode, MintNode, PutSecret,
     GetTkaVersion, GetConfigMap, CheckKube, MintKube, PutConfigMap, AgentDetect,
     AgentEnsure, GetKubeconfigSecret, EnsureTbotConfigMap, BotDetect, BotEnsure
<1>1. loc \in Locals /\ req \in Clusters /\ loc.cluster # Absent
  BY <1>0 DEF ProcessOK
<1>2. ASSUME ObjectsOK', UNCHANGED tokens,
             \/ Requeue
             \/ \E p \in Branch, l \in Locals : l.cluster = loc.cluster /\ Goto(p, l)
      PROVE  TypeInv'
  <2>1. ProcessOK'
    BY <1>0, <1>1, <1>2, RequeueType DEF Goto, PCs, RegisterPCs, ProcessOK
  <2>2. pc' \in Branch \cup {"idle"}
    BY <1>2 DEF Goto, Requeue
  <2> QED
    BY <1>0, <1>2, <2>1, <2>2, TypeFrame DEF LocalsAssigned, RegisterPCs
<1>3. CASE AddFinalizer
  <2>1. cluster' \in [Clusters -> OrAbsent(ClusterObject)]
    BY <1>0, <1>3, PatchType DEF AddFinalizer, PatchFinalizers, ObjectsOK
  <2>2. ObjectsOK'
    BY <1>3, <2>1 DEF AddFinalizer, ObjectsOK
  <2>3. Requeue \/ Goto("getSecret", loc)
    BY <1>3 DEF AddFinalizer, PatchFinalizers
  <2> QED
    BY <1>1, <1>2, <1>3, <2>2, <2>3 DEF AddFinalizer, RegisterPCs
<1>4. CASE GetSecret
  <2>1. Read(cachedSecret, secret)[req] \in OrAbsent(SecretObject)
    BY <1>1 DEF Read, ObjectsOK, CachesOK
  <2>2. \/ Requeue \/ Goto("mintNode", loc)
        \/ \E x \in OrAbsent(SecretObject) : Goto("checkNode", [loc EXCEPT !.secret = x])
    BY <1>4, <2>1 DEF GetSecret
  <2>3. ObjectsOK' /\ UNCHANGED tokens
    BY <1>4, TypeFrame DEF GetSecret
  <2> QED
    BY <1>1, <1>2, <2>2, <2>3, LocalsType DEF RegisterPCs
<1>5. CASE CheckNode
  <2>1. Goto("mintNode", loc) \/ Goto("tkaVersion", [loc EXCEPT !.secret = Absent])
    BY <1>5 DEF CheckNode
  <2>2. ObjectsOK' /\ UNCHANGED tokens
    BY <1>5, TypeFrame DEF CheckNode
  <2> QED
    BY <1>1, <1>2, <2>1, <2>2, LocalsType DEF RegisterPCs, OrAbsent
<1>6. CASE MintNode \/ MintKube
  <2>1. loc.roles \in RoleLists
    BY <1>1 DEF Locals
  <2>2. TokensOK' /\ ProcessOK' /\ LocalsAssigned'
    BY <1>0, <1>6, <2>1, RolesType, GenerateType DEF MintNode, MintKube, PCs, RegisterPCs
  <2>3. UNCHANGED objects
    BY <1>6 DEF MintNode, MintKube
  <2> QED
    BY <1>0, <2>2, <2>3, TypeFrame
<1>7. CASE PutSecret
  <2>1. [joinToken |-> loc.token] \in SecretObject
    BY <1>1 DEF Locals, OrAbsent, SecretObject
  <2>2. ObjectsOK' /\ UNCHANGED tokens
    BY <1>7, <2>1 DEF PutSecret, ObjectsOK, OrAbsent
  <2>3. Requeue \/ Goto("tkaVersion", [loc EXCEPT !.secret = Absent, !.token = Absent])
    BY <1>7 DEF PutSecret
  <2>4. /\ [loc EXCEPT !.secret = Absent, !.token = Absent] \in Locals
        /\ [loc EXCEPT !.secret = Absent, !.token = Absent].cluster = loc.cluster
    BY <1>1 DEF Locals, OrAbsent
  <2> QED
    BY <1>2, <2>2, <2>3, <2>4 DEF RegisterPCs
<1>8. CASE GetTkaVersion
  <2>1. GetTeleportKubeAgentVersion(req) \in OrAbsent(TkaVersions)
    BY <1>1, VersionType DEF Resources
  <2>2. ObjectsOK' /\ UNCHANGED tokens
    BY <1>8, TypeFrame DEF GetTkaVersion
  <2>3. \E x \in OrAbsent(TkaVersions) : Goto("getConfigMap", [loc EXCEPT !.tkaVersion = x])
    BY <1>8, <2>1 DEF GetTkaVersion
  <2> QED
    BY <1>1, <1>2, <2>2, <2>3, LocalsType DEF RegisterPCs
<1>9. CASE GetConfigMap
  <2>1. Read(cachedConfigMap, configMap)[req] \in OrAbsent(Document)
    BY <1>1 DEF Read, ObjectsOK, CachesOK
  <2>2. \/ Requeue \/ Goto("mintKube", loc)
        \/ \E x \in OrAbsent(Document) : Goto("checkKube", [loc EXCEPT !.configMap = x])
    BY <1>9, <2>1 DEF GetConfigMap
  <2>3. ObjectsOK' /\ UNCHANGED tokens
    BY <1>9, TypeFrame DEF GetConfigMap
  <2> QED
    BY <1>1, <1>2, <2>2, <2>3, LocalsType DEF RegisterPCs
<1>10. CASE CheckKube
  <2> DEFINE token == GetTokenFromConfigMap(loc.configMap)
  <2>1. ObjectsOK' /\ UNCHANGED tokens
    BY <1>10, TypeFrame DEF CheckKube
  <2>2. CASE ~IsTokenValid(tokens, RegisterName(req), token, loc.roles)
    <3>1. Goto("mintKube", loc)
      BY <1>10, <2>2 DEF CheckKube
    <3> QED
      BY <1>1, <1>2, <2>1, <3>1 DEF RegisterPCs
  <2>3. CASE IsTokenValid(tokens, RegisterName(req), token, loc.roles)
    <3>1. token \in 1..Len(tokens)
      BY <2>3 DEF IsTokenValid, Labelled, GetTokens
    <3>2. token \in 1..MaxTokens
      BY <3>1, ConstantsAssumption DEF TokensOK
    <3>3. Goto("putConfigMap", [loc EXCEPT !.token = token])
      BY <1>10, <2>3 DEF CheckKube
    <3>4. /\ [loc EXCEPT !.token = token] \in Locals
          /\ [loc EXCEPT !.token = token].cluster = loc.cluster
          /\ [loc EXCEPT !.token = token].token = token
      BY <1>1, <3>2 DEF Locals, OrAbsent
    <3>5. ProcessOK'
      BY <1>0, <1>1, <3>3, <3>4, GotoType DEF PCs, RegisterPCs
    <3> QED
      BY <1>0, <2>1, <3>1, <3>3, <3>4, <3>5, TypeFrame DEF LocalsAssigned, Goto
  <2> QED
    BY <2>2, <2>3
<1>11. CASE PutConfigMap
  <2>1. loc.token \in 1..MaxTokens /\ loc.roles \in RoleLists /\ config \in Configs
    BY <1>1, <1>11, ConstantsAssumption
       DEF PutConfigMap, LocalsAssigned, TokensOK, Locals, SessionOK
  <2>2. \A name \in RegisterNames : RenderConfigMapValues(name) \in Document
    BY <2>1, RenderType DEF RenderConfigMapValues
  <2>3. RegisterName(req) \in RegisterNames
    BY <1>1, NameType
  <2>4. loc.configMap # Absent =>
          registerNameFromConfigMap(loc.configMap) \in OrAbsent(RegisterNames)
    BY <1>1, ParseType DEF Locals, OrAbsent
  <2>5. \/ UNCHANGED configMap
        \/ \E name \in RegisterNames :
              configMap' = [configMap EXCEPT ![req] = RenderConfigMapValues(name)]
    BY <1>11, <2>3, <2>4 DEF PutConfigMap, CreateConfigMap, UpdateConfigMap,
       WriteConfigMap, OrAbsent
  <2>6. configMap' \in [Clusters -> OrAbsent(Document)]
    BY <2>2, <2>5 DEF ObjectsOK, OrAbsent
  <2>7. ObjectsOK' /\ UNCHANGED tokens
    BY <1>11, <2>6 DEF PutConfigMap, ObjectsOK
  <2>8. Requeue \/ Goto("agentDetect", AfterConfigMap)
    BY <1>11 DEF PutConfigMap, CreateConfigMap, UpdateConfigMap, WriteConfigMap
  <2> QED
    BY <1>1, <1>2, <2>7, <2>8, AfterType DEF RegisterPCs
<1>12. CASE AgentDetect \/ BotDetect
  <2>1. ObjectsOK' /\ UNCHANGED tokens
    BY <1>12, TypeFrame DEF AgentDetect, BotDetect
  <2>2. \E p \in Branch, m \in Kinds \cup {"none"} : Goto(p, [loc EXCEPT !.manager = m])
    BY <1>12, ManagerType DEF AgentDetect, BotDetect, RegisterPCs
  <2> QED
    BY <1>1, <1>2, <2>1, <2>2, LocalsType
<1>13. CASE AgentEnsure \/ BotEnsure
  <2> DEFINE next == \/ Requeue
                     \/ Goto("getKubeconfigSecret", [loc EXCEPT !.manager = "none"])
  <2>1. PICK r \in Resources :
           /\ next
           /\ \/ UNCHANGED release
              \/ /\ loc.manager # "none" /\ Seen(loc.manager, r) # Absent
                 /\ release[loc.manager][r] = Seen(loc.manager, r)
                 /\ release' = [release EXCEPT ![loc.manager][r].refs
                                                  = Seen(loc.manager, r).refs \cup {NameOf[req]}]
    <3>1. req \in Resources /\ Tbot \in Resources
      BY <1>1 DEF Resources
    <3> QED
      BY <1>13, <3>1 DEF AgentEnsure, BotEnsure, EnsureConfig, UpdateReferences
  <2>2. release' \in [Kinds -> [Resources -> OrAbsent(ReleaseObject)]]
    <3>1. loc.manager # "none" => loc.manager \in Kinds
      BY <1>1 DEF Locals
    <3>2. ReferencesWritten
      BY <1>1, <2>1, <3>1, SeenWritten DEF ReferencesWritten
    <3> QED
      BY <3>2, ReleasesType DEF ObjectsOK
  <2>3. ObjectsOK' /\ UNCHANGED tokens
    BY <1>13, <2>2 DEF AgentEnsure, BotEnsure, ObjectsOK
  <2> QED
    BY <1>1, <1>2, <2>1, <2>3, LocalsType DEF RegisterPCs
<1>14. CASE GetKubeconfigSecret
  <2>1. ObjectsOK' /\ UNCHANGED tokens
    BY <1>14, TypeFrame DEF GetKubeconfigSecret
  <2>2. Requeue \/ Goto("ensureTbotConfigMap", loc)
    BY <1>14 DEF GetKubeconfigSecret
  <2> QED
    BY <1>1, <1>2, <2>1, <2>2 DEF RegisterPCs
<1>15. CASE EnsureTbotConfigMap
  <2>1. ObjectsOK' /\ UNCHANGED tokens
    BY <1>1, <1>15 DEF EnsureTbotConfigMap, ObjectsOK, Names
  <2>2. Requeue \/ Goto("botDetect", loc)
    BY <1>15 DEF EnsureTbotConfigMap
  <2> QED
    BY <1>1, <1>2, <2>1, <2>2 DEF RegisterPCs
<1> QED
  BY <1>3, <1>4, <1>5, <1>6, <1>7, <1>8, <1>9, <1>10, <1>11, <1>12, <1>13, <1>14, <1>15
     DEF Register

\* The environment keeps the types.
LEMMA TypeEnvironment ==
    ASSUME TypeInv, Environment
    PROVE  TypeInv'
<1> USE DEF TypeInv, TypeOK
<1>0. ASSUME NEW kind, Disturb(kind) PROVE (disturbances \in 0..MaxDisturbances)'
  BY <1>0, ConstantsAssumption DEF Disturb
<1>1. CASE Restart
  <2>1. ProcessOK' /\ SessionOK'
    BY <1>1, BlankType DEF Restart, ProcessOK, SessionOK, PCs, OrAbsent
  <2>2. CachesOK'
    BY <1>1 DEF Restart, Read, CachesOK, ObjectsOK, CachedKinds
  <2> QED
    BY <1>0, <1>1, <2>1, <2>2, TypeFrame DEF Restart, LocalsAssigned
<1>2. CASE Fails
  <2>1. ProcessOK' /\ SessionOK'
    BY <1>2, RequeueType, TypeFrame DEF Fails, NewClientFails, SessionOK
  <2> QED
    BY <1>0, <1>2, <2>1, TypeFrame DEF Fails, LocalsAssigned, Requeue
<1>3. CASE IdentityExpires
  <2>1. SessionOK'
    BY <1>3 DEF IdentityExpires, SessionOK
  <2> QED
    BY <1>3, <2>1, TypeFrame DEF IdentityExpires, LocalsAssigned, process
<1>4. CASE TokenExpires
  <2>1. PICK i \in 1..Len(tokens), s \in {"live", "expired", "gone"} :
           tokens' = [tokens EXCEPT ![i].state = s]
    BY <1>4 DEF TokenExpires, GetTokens
  <2>2. TokensOK' /\ Len(tokens') = Len(tokens)
    BY <2>1, MarkType DEF TokensOK
  <2> QED
    BY <1>0, <1>4, <2>2, TypeFrame DEF TokenExpires, LocalsAssigned, process
<1>5. ASSUME NEW c \in Clusters, SyncCluster(c) PROVE TypeInv'
  <2>1. CachesOK' /\ ProcessOK'
    BY <1>5 DEF SyncCluster, CachesOK, ProcessOK, ObjectsOK
  <2> QED
    BY <1>5, <2>1, TypeFrame DEF SyncCluster, LocalsAssigned
<1>6. ASSUME NEW c \in Clusters, SyncObjects(c) PROVE TypeInv'
  <2>1. CachesOK'
    BY <1>6 DEF SyncObjects, CachesOK, ObjectsOK
  <2> QED
    BY <1>6, <2>1, TypeFrame DEF SyncObjects, LocalsAssigned, process
<1>7. CASE SyncApps
  <2>1. CachesOK'
    BY <1>7 DEF SyncApps, CachesOK, ObjectsOK, CachedKinds
  <2> QED
    BY <1>7, <2>1, TypeFrame DEF SyncApps, LocalsAssigned, process
<1>8. ASSUME ObjectsOK', UNCHANGED <<tokens, caches, session, process>>,
             (disturbances \in 0..MaxDisturbances)'
      PROVE  TypeInv'
  BY <1>8, TypeFrame DEF LocalsAssigned, process
<1>9. ASSUME NEW c \in Clusters,
             UserDeletes(c) \/ ClusterGone(c) \/ UserCreates(c) \/ OtherFinalizerChanges(c)
      PROVE  TypeInv'
  <2>1. PICK x \in OrAbsent(ClusterObject) : SetCluster(c, x)
    <3>1. CASE UserDeletes(c)
      <4>1. [cluster[c] EXCEPT !.deleting = TRUE] \in ClusterObject
        BY <3>1 DEF UserDeletes, ObjectsOK, OrAbsent, ClusterObject
      <4> QED
        BY <3>1, <4>1 DEF UserDeletes, OrAbsent
    <3>2. CASE ClusterGone(c) \/ UserCreates(c)
      BY <3>2 DEF ClusterGone, UserCreates, NewClusters, OrAbsent, ClusterObject
    <3>3. CASE OtherFinalizerChanges(c)
      <4>1. cluster[c] \in ClusterObject
        BY <3>3 DEF OtherFinalizerChanges, ObjectsOK, OrAbsent
      <4>2. \A S \in SUBSET OtherFinalizers : [cluster[c] EXCEPT !.others = S] \in ClusterObject
        BY <4>1 DEF ClusterObject
      <4>3. \A f \in OtherFinalizers :
              /\ cluster[c].others \cup {f} \in SUBSET OtherFinalizers
              /\ cluster[c].others \ {f} \in SUBSET OtherFinalizers
        BY <4>1 DEF ClusterObject
      <4> QED
        BY <3>3, <4>2, <4>3 DEF OtherFinalizerChanges, OrAbsent
    <3> QED
      BY <1>9, <3>1, <3>2, <3>3
  <2>2. ObjectsOK' /\ UNCHANGED <<tokens, caches, session, process>>
    BY <2>1 DEF SetCluster, ObjectsOK
  <2>3. (disturbances \in 0..MaxDisturbances)'
    BY <1>0, <1>9, TypeFrame DEF UserDeletes, ClusterGone, UserCreates, OtherFinalizerChanges
  <2> QED
    BY <1>8, <2>2, <2>3
<1>10. ASSUME NEW c \in Clusters, UserSetsValues(c) \/ TbotWritesKubeconfig(c)
      PROVE  TypeInv'
  <2>1. ObjectsOK'
    BY <1>10 DEF UserSetsValues, TbotWritesKubeconfig, ObjectsOK, Names
  <2>2. (disturbances \in 0..MaxDisturbances)'
    BY <1>0, <1>10, TypeFrame DEF UserSetsValues, TbotWritesKubeconfig
  <2> QED
    BY <1>8, <1>10, <2>1, <2>2 DEF UserSetsValues, TbotWritesKubeconfig
<1>11. ASSUME NEW c \in Clusters, ObjectTouched(c) PROVE TypeInv'
  <2>1. EmptyDocument \in Document
    BY DEF EmptyDocument, Document
  <2>2. secret[c] # Absent => [secret[c] EXCEPT !.joinToken = Absent] \in SecretObject
    BY DEF ObjectsOK, OrAbsent, SecretObject
  <2>3. /\ secret' \in [Clusters -> OrAbsent(SecretObject)]
        /\ configMap' \in [Clusters -> OrAbsent(Document)]
    BY <1>11, <2>1, <2>2 DEF ObjectTouched, ObjectsOK, OrAbsent
  <2>4. ObjectsOK'
    BY <1>11, <2>3 DEF ObjectTouched, ObjectsOK
  <2>5. (disturbances \in 0..MaxDisturbances)'
    BY <1>0, <1>11 DEF ObjectTouched
  <2> QED
    BY <1>8, <1>11, <2>4, <2>5 DEF ObjectTouched
<1>12. ASSUME NEW k \in Kinds, NEW r \in Resources, ReleaseChanges(k, r) PROVE TypeInv'
  <2>1. PICK new \in OrAbsent(ReleaseObject) : release' = [release EXCEPT ![k][r] = new]
    BY <1>12 DEF ReleaseChanges, OrAbsent
  <2>2. ObjectsOK'
    BY <1>12, <2>1 DEF ReleaseChanges, ObjectsOK
  <2>3. (disturbances \in 0..MaxDisturbances)'
    BY <1>0, <1>12 DEF ReleaseChanges
  <2> QED
    BY <1>8, <1>12, <2>2, <2>3 DEF ReleaseChanges
<1> QED
  BY <1>1, <1>2, <1>3, <1>4, <1>5, <1>6, <1>7, <1>9, <1>10, <1>11, <1>12 DEF Environment

\* Every step keeps the types.
LEMMA TypeStep == TypeInv /\ [Next]_vars => TypeInv'
<1> SUFFICES ASSUME TypeInv, [Next]_vars PROVE TypeInv'
  OBVIOUS
<1>1. CASE UNCHANGED vars
  BY <1>1, TypeFrame DEF vars, TypeInv, TypeOK, LocalsAssigned, process
<1> QED
  BY <1>1, TypeStart, TypeDelete, TypeRegister, TypeEnvironment DEF Next, Continue

\* Every variable keeps its type in every behaviour.
THEOREM TypesHold == Spec => []TypeOK
<1>1. TypeInv => TypeOK
  BY DEF TypeInv
<1> QED
  BY TypeInit, TypeStep, <1>1, PTL DEF Spec

=============================================================================
