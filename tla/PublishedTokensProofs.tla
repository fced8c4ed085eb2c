------------------------ MODULE PublishedTokensProofs ------------------------
(***************************************************************************)
(* The tokens handed out in Secrets and ConfigMaps always fit the cluster  *)
(* and the roles they are handed out for.                                  *)
(*                                                                         *)
(* PublishedTokensFit is not inductive: what is written comes from the     *)
(* locals of Reconcile, those from caches that may be stale, and the       *)
(* register name of an update from the ConfigMap that was read.  FitInv    *)
(* adds that all of these fit too.  Four lemmas say what one step may do   *)
(* to the tokens, to the published objects, to the caches and to the       *)
(* locals; FitStep combines them.                                          *)
(***************************************************************************)
EXTENDS ClusterReconcilerProofs

FitInv ==
    /\ PublishedTokensFit
    /\ \A c \in Clusters :
          SecretFits(cachedSecret[c], c) /\ DocumentFits(cachedConfigMap[c], c)
    /\ pc # "idle" => SecretFits(loc.secret, req) /\ DocumentFits(loc.configMap, req)
    /\ pc = "putSecret" => JoinsAs(loc.token, req, NodeRoles)
    /\ pc = "putConfigMap" => JoinsAs(loc.token, req, loc.roles)

\* Two lists of RoleLists of which one contains the roles of the other and is
\* as long are the same list.
LEMMA SameRoles ==
    ASSUME NEW a \in RoleLists, NEW b \in RoleLists, containsRoles(a, b)
    PROVE  a = b
<1>1. a \in {<<"kube", "app">>, <<"kube">>, <<"node">>}
  BY DEF RoleLists, KubeRoles, NodeRoles
<1>2. b \in {<<"kube", "app">>, <<"kube">>, <<"node">>}
  BY DEF RoleLists, KubeRoles, NodeRoles
<1>3. Len(a) = Len(b)
  BY DEF containsRoles
<1>4. CASE a = <<"kube", "app">>
  BY <1>2, <1>3, <1>4
<1>5. CASE a = <<"kube">>
  <2>1. b # <<"node">>
    <3> SUFFICES ASSUME b = <<"node">> PROVE FALSE
      OBVIOUS
    <3>1. \E i \in 1..Len(a) : a[i] = b[1]
      BY DEF containsRoles
    <3> QED
      BY <1>5, <3>1
  <2> QED
    BY <1>2, <1>3, <1>5, <2>1
<1>6. CASE a = <<"node">>
  <2>1. b # <<"kube">>
    <3> SUFFICES ASSUME b = <<"kube">> PROVE FALSE
      OBVIOUS
    <3>1. \E i \in 1..Len(a) : a[i] = b[1]
      BY DEF containsRoles
    <3> QED
      BY <1>6, <3>1
  <2> QED
    BY <1>2, <1>3, <1>6, <2>1
<1> QED
  BY <1>1, <1>4, <1>5, <1>6

\* A token that IsTokenValid accepts joins as the cluster and with the roles it
\* was held against.
LEMMA ValidFits ==
    ASSUME TokensOK, NEW c \in Clusters, NEW token, NEW roles \in RoleLists,
           IsTokenValid(tokens, RegisterName(c), token, roles)
    PROVE  JoinsAs(token, c, roles)
<1>1. token \in 1..Len(tokens) /\ tokens[token].cluster = RegisterName(c)
  BY DEF IsTokenValid, Labelled, GetTokens
<1>2. tokens[token].roles \in RoleLists
  <2>1. tokens[token] \in ProvisionToken
    BY <1>1 DEF TokensOK
  <2> QED
    BY <2>1 DEF ProvisionToken
<1>3. tokens[token].roles = roles
  BY <1>2, SameRoles DEF IsTokenValid
<1> QED
  BY <1>1, <1>3 DEF JoinsAs

\* Every token keeps its name, its label and its roles, and none comes to life
\* again.
TokensKept ==
    \A i \in 1..Len(tokens) :
        /\ i \in 1..Len(tokens')
        /\ tokens'[i].cluster = tokens[i].cluster
        /\ tokens'[i].roles = tokens[i].roles
        /\ tokens'[i].state = "live" => tokens[i].state = "live"

\* No step of the operator or of Teleport takes a token's name, label or roles
\* away: GenerateToken appends, DeleteToken and expiry only mark.
LEMMA TokensStep == ASSUME TypeInv, [Next]_vars PROVE TokensKept
<1>1. CASE UNCHANGED tokens
  BY <1>1 DEF TokensKept
<1>2. CASE DeleteToken
  <2>1. loc.token \in 1..Len(tokens) /\ tokens \in Seq(ProvisionToken)
    BY <1>2 DEF DeleteToken, TypeInv, TypeOK, TokensOK, LocalsAssigned
  <2> QED
    BY <1>1, <1>2, <2>1, MarkType DEF DeleteToken, TokensKept
<1>3. CASE TokenExpires
  <2>1. PICK i \in 1..Len(tokens), s \in {"expired", "gone"} :
           tokens' = [tokens EXCEPT ![i].state = s]
    BY <1>3 DEF TokenExpires, GetTokens
  <2> QED
    BY <2>1, MarkType DEF TypeInv, TypeOK, TokensOK, TokensKept
<1>4. ASSUME NEW roles \in RoleLists, NEW p, GenerateToken(roles, p), pc # "idle"
      PROVE  TokensKept
  <2>1. CASE tokens' = Append(tokens, NewProvisionToken(RegisterName(req), roles))
    <3>1. req \in Clusters /\ tokens \in Seq(ProvisionToken) /\ Len(tokens) \in Nat
      BY <1>4 DEF TypeInv, TypeOK, TokensOK, ProcessOK
    <3> QED
      BY <1>4, <2>1, <3>1, UpsertType DEF TokensKept
  <2> QED
    BY <1>1, <1>4, <2>1 DEF GenerateToken
<1>5. CASE MintNode \/ MintKube
  <2>1. loc.roles \in RoleLists
    BY DEF TypeInv, TypeOK, ProcessOK, Locals
  <2> QED
    BY <1>4, <1>5, <2>1, RolesType DEF MintNode, MintKube
<1>6. ASSUME Delete, ~DeleteToken PROVE UNCHANGED tokens
  BY <1>6 DEF Delete, ListTokens, DeleteSecret, DeleteConfigMap, BotDetectDelete,
     BotDeleteConfig, DeleteTbotConfigMap, DeleteKubeconfigSecret, AgentDetectDelete,
     AgentDeleteConfig, RemoveFinalizer
<1>7. ASSUME Register, ~(MintNode \/ MintKube) PROVE UNCHANGED tokens
  BY <1>7 DEF Register, AddFinalizer, GetSecret, CheckNode, PutSecret, GetTkaVersion,
     GetConfigMap, CheckKube, PutConfigMap, AgentDetect, AgentEnsure,
     GetKubeconfigSecret, EnsureTbotConfigMap, BotDetect, BotEnsure
<1>8. ASSUME Environment, ~TokenExpires PROVE UNCHANGED tokens
  BY <1>8 DEF Environment, Restart, Fails, IdentityExpires, SyncCluster, SyncObjects,
     SyncApps, UserDeletes, ClusterGone, UserCreates, OtherFinalizerChanges, SetCluster, UserSetsValues, ObjectTouched,
     TbotWritesKubeconfig, ReleaseChanges
<1>9. ASSUME \/ AreTeleportAppsEnabled \/ GetIdentityConfigFromSecret \/ NewClient
             \/ \E c \in Clusters : GetCluster(c)
             \/ UNCHANGED vars
      PROVE  UNCHANGED tokens
  BY <1>9 DEF AreTeleportAppsEnabled, GetIdentityConfigFromSecret, NewClient,
     GetCluster, vars
<1> QED
  BY <1>1, <1>2, <1>3, <1>5, <1>6, <1>7, <1>8, <1>9 DEF Next, Continue

\* What fits goes on fitting.
LEMMA FitsStable ==
    ASSUME TokensKept
    PROVE  /\ \A t, c, roles : JoinsAs(t, c, roles) => JoinsAs(t, c, roles)'
           /\ \A s, c : SecretFits(s, c) => SecretFits(s, c)'
           /\ \A d, c : DocumentFits(d, c) => DocumentFits(d, c)'
<1>1. \A t, c, roles : JoinsAs(t, c, roles) => JoinsAs(t, c, roles)'
  BY DEF TokensKept, JoinsAs
<1>2. \A s, c : SecretFits(s, c) => SecretFits(s, c)'
  BY <1>1 DEF SecretFits
<1>3. \A b, c : BlockFits(b, c) => BlockFits(b, c)'
  BY <1>1 DEF BlockFits
<1>4. \A d, c : DocumentFits(d, c) => DocumentFits(d, c)'
  BY <1>3 DEF DocumentFits
<1> QED
  BY <1>1, <1>2, <1>4

-----------------------------------------------------------------------------
(* What one step may do to the published objects, the caches, the locals.   *)

\* A Secret is written only by PutSecret, with the token at hand and where a
\* Secret is exactly if one was read; otherwise it stays, goes, or loses its key.
LEMMA SecretStep ==
    ASSUME TypeInv, [Next]_vars, NEW c \in Clusters
    PROVE  \/ secret'[c] = secret[c]
           \/ secret'[c] = Absent
           \/ secret'[c] # Absent /\ secret'[c].joinToken = Absent
           \/ /\ c = req /\ pc = "putSecret" /\ secret'[c] = [joinToken |-> loc.token]
              /\ pc' # pc /\ (secret[c] = Absent <=> loc.secret = Absent)
<1> DEFINE Goal == \/ secret'[c] = secret[c]
                   \/ secret'[c] = Absent
                   \/ secret'[c] # Absent /\ secret'[c].joinToken = Absent
                   \/ /\ c = req /\ pc = "putSecret" /\ secret'[c] = [joinToken |-> loc.token]
                      /\ pc' # pc /\ (secret[c] = Absent <=> loc.secret = Absent)
<1>0. secret \in [Clusters -> OrAbsent(SecretObject)]
  BY DEF TypeInv, TypeOK, ObjectsOK
<1>1. CASE UNCHANGED secret
  BY <1>1
<1>2. CASE DeleteSecret
  BY <1>0, <1>2 DEF DeleteSecret
<1>3. CASE PutSecret
  BY <1>0, <1>3 DEF PutSecret, CreateSecret, UpdateSecret, Goto
<1>4. ASSUME NEW d \in Clusters, ObjectTouched(d) PROVE Goal
  <2>1. secret[d] # Absent =>
          /\ [secret[d] EXCEPT !.joinToken = Absent].joinToken = Absent
          /\ [secret[d] EXCEPT !.joinToken = Absent] \in SecretObject
    BY <1>0 DEF OrAbsent, SecretObject
  <2>2. \/ UNCHANGED secret
        \/ secret' = [secret EXCEPT ![d] = Absent]
        \/ /\ secret[d] # Absent
           /\ secret' = [secret EXCEPT ![d] = [secret[d] EXCEPT !.joinToken = Absent]]
    BY <1>4 DEF ObjectTouched
  <2> QED
    BY <1>0, <1>1, <2>1, <2>2
<1>5. ASSUME Delete, ~DeleteSecret PROVE UNCHANGED secret
  BY <1>5 DEF Delete, ListTokens, DeleteToken, DeleteConfigMap, BotDetectDelete,
     BotDeleteConfig, DeleteTbotConfigMap, DeleteKubeconfigSecret, AgentDetectDelete,
     AgentDeleteConfig, RemoveFinalizer, objects
<1>6. ASSUME Register, ~PutSecret PROVE UNCHANGED secret
  BY <1>6 DEF Register, AddFinalizer, GetSecret, CheckNode, MintNode, GetTkaVersion,
     GetConfigMap, CheckKube, MintKube, PutConfigMap, AgentDetect, AgentEnsure,
     GetKubeconfigSecret, EnsureTbotConfigMap, BotDetect, BotEnsure, objects
<1>7. ASSUME Environment, ~(\E d \in Clusters : ObjectTouched(d)) PROVE UNCHANGED secret
  BY <1>7 DEF Environment, Restart, Fails, IdentityExpires, TokenExpires, SyncCluster,
     SyncObjects, SyncApps, UserDeletes, ClusterGone, UserCreates, OtherFinalizerChanges, SetCluster, UserSetsValues,
     TbotWritesKubeconfig, ReleaseChanges, objects
<1>8. ASSUME \/ AreTeleportAppsEnabled \/ GetIdentityConfigFromSecret \/ NewClient
             \/ \E d \in Clusters : GetCluster(d)
             \/ UNCHANGED vars
      PROVE  UNCHANGED secret
  BY <1>8 DEF AreTeleportAppsEnabled, GetIdentityConfigFromSecret, NewClient,
     GetCluster, vars, objects
<1> QED
  BY <1>1, <1>2, <1>3, <1>4, <1>5, <1>6, <1>7, <1>8 DEF Next, Continue

\* A ConfigMap is written only by PutConfigMap, with values rendered for the
\* token and roles at hand and for the cluster's register name or the name in
\* the ConfigMap that was read, and in its place; otherwise it stays, goes, or is
\* emptied.
LEMMA ConfigMapStep ==
    ASSUME TypeInv, [Next]_vars, NEW c \in Clusters
    PROVE  \/ configMap'[c] \in {configMap[c], Absent, EmptyDocument}
           \/ /\ c = req /\ pc = "putConfigMap" /\ configMap[c] \in {Absent, loc.configMap}
              /\ \/ configMap'[c] = RenderConfigMapValues(RegisterName(req))
                 \/ /\ loc.configMap # Absent
                    /\ registerNameFromConfigMap(loc.configMap) # Absent
                    /\ configMap'[c] =
                         RenderConfigMapValues(registerNameFromConfigMap(loc.configMap))
<1>0. configMap \in [Clusters -> OrAbsent(Document)]
  BY DEF TypeInv, TypeOK, ObjectsOK
<1>1. CASE UNCHANGED configMap
  BY <1>1
<1>2. CASE DeleteConfigMap
  BY <1>0, <1>2 DEF DeleteConfigMap
<1>3. CASE PutConfigMap
  <2>1. \/ UNCHANGED configMap
        \/ /\ configMap[req] = Absent
           /\ configMap' = [configMap EXCEPT ![req] = RenderConfigMapValues(RegisterName(req))]
        \/ /\ loc.configMap # Absent /\ configMap[req] = loc.configMap
           /\ registerNameFromConfigMap(loc.configMap) # Absent
           /\ configMap' = [configMap EXCEPT ![req] =
                 RenderConfigMapValues(registerNameFromConfigMap(loc.configMap))]
    BY <1>3 DEF PutConfigMap, CreateConfigMap, UpdateConfigMap, WriteConfigMap
  <2>2. pc = "putConfigMap"
    BY <1>3 DEF PutConfigMap
  <2> QED
    BY <1>0, <2>1, <2>2
<1>4. ASSUME NEW d \in Clusters, ObjectTouched(d)
      PROVE  configMap'[c] \in {configMap[c], Absent, EmptyDocument}
  BY <1>0, <1>4 DEF ObjectTouched
<1>5. ASSUME Delete, ~DeleteConfigMap PROVE UNCHANGED configMap
  BY <1>5 DEF Delete, ListTokens, DeleteToken, DeleteSecret, BotDetectDelete,
     BotDeleteConfig, DeleteTbotConfigMap, DeleteKubeconfigSecret, AgentDetectDelete,
     AgentDeleteConfig, RemoveFinalizer, objects
<1>6. ASSUME Register, ~PutConfigMap PROVE UNCHANGED configMap
  BY <1>6 DEF Register, AddFinalizer, GetSecret, CheckNode, MintNode, PutSecret,
     GetTkaVersion, GetConfigMap, CheckKube, MintKube, AgentDetect, AgentEnsure,
     GetKubeconfigSecret, EnsureTbotConfigMap, BotDetect, BotEnsure, objects
<1>7. ASSUME Environment, ~(\E d \in Clusters : ObjectTouched(d)) PROVE UNCHANGED configMap
  BY <1>7 DEF Environment, Restart, Fails, IdentityExpires, TokenExpires, SyncCluster,
     SyncObjects, SyncApps, UserDeletes, ClusterGone, UserCreates, OtherFinalizerChanges, SetCluster, UserSetsValues,
     TbotWritesKubeconfig, ReleaseChanges, objects
<1>8. ASSUME \/ AreTeleportAppsEnabled \/ GetIdentityConfigFromSecret \/ NewClient
             \/ \E d \in Clusters : GetCluster(d)
             \/ UNCHANGED vars
      PROVE  UNCHANGED configMap
  BY <1>8 DEF AreTeleportAppsEnabled, GetIdentityConfigFromSecret, NewClient,
     GetCluster, vars, objects
<1> QED
  BY <1>1, <1>2, <1>3, <1>4, <1>5, <1>6, <1>7, <1>8 DEF Next, Continue

\* A cache holds on to what it has or catches up with the object.
LEMMA CacheStep ==
    ASSUME TypeInv, [Next]_vars, NEW c \in Clusters
    PROVE  /\ cachedSecret'[c] \in {cachedSecret[c], secret[c]}
           /\ cachedConfigMap'[c] \in {cachedConfigMap[c], configMap[c]}
<1>0. /\ cachedSecret \in [Clusters -> OrAbsent(SecretObject)]
      /\ cachedConfigMap \in [Clusters -> OrAbsent(Document)]
  BY DEF TypeInv, TypeOK, CachesOK
<1>1. CASE Restart
  BY <1>1 DEF Restart, Read
<1>2. ASSUME NEW d \in Clusters, SyncObjects(d)
      PROVE  /\ cachedSecret'[c] \in {cachedSecret[c], secret[c]}
             /\ cachedConfigMap'[c] \in {cachedConfigMap[c], configMap[c]}
  BY <1>0, <1>2 DEF SyncObjects
<1>3. ASSUME Environment, ~Restart, ~(\E d \in Clusters : SyncObjects(d))
      PROVE  UNCHANGED <<cachedSecret, cachedConfigMap>>
  BY <1>3 DEF Environment, Fails, IdentityExpires, TokenExpires, SyncCluster,
     SyncApps, UserDeletes, ClusterGone, UserCreates, OtherFinalizerChanges, SetCluster, UserSetsValues, ObjectTouched,
     TbotWritesKubeconfig, ReleaseChanges, caches
<1>4. ASSUME Delete PROVE UNCHANGED <<cachedSecret, cachedConfigMap>>
  BY <1>4 DEF Delete, ListTokens, DeleteToken, DeleteSecret, DeleteConfigMap,
     BotDetectDelete, BotDeleteConfig, DeleteTbotConfigMap, DeleteKubeconfigSecret,
     AgentDetectDelete, AgentDeleteConfig, RemoveFinalizer, caches
<1>5. ASSUME Register PROVE UNCHANGED <<cachedSecret, cachedConfigMap>>
  BY <1>5 DEF Register, AddFinalizer, GetSecret, CheckNode, MintNode, PutSecret,
     GetTkaVersion, GetConfigMap, CheckKube, MintKube, PutConfigMap, AgentDetect,
     AgentEnsure, GetKubeconfigSecret, EnsureTbotConfigMap, BotDetect, BotEnsure, caches
<1>6. ASSUME \/ AreTeleportAppsEnabled \/ GetIdentityConfigFromSecret \/ NewClient
             \/ \E d \in Clusters : GetCluster(d)
             \/ UNCHANGED vars
      PROVE  UNCHANGED <<cachedSecret, cachedConfigMap>>
  BY <1>6 DEF AreTeleportAppsEnabled, GetIdentityConfigFromSecret, NewClient,
     GetCluster, vars, caches
<1> QED
  BY <1>1, <1>2, <1>3, <1>4, <1>5, <1>6 DEF Next, Continue

\* The request's cluster gets a new token for the roles.
Minted(roles) ==
    /\ tokens' = Append(tokens, NewProvisionToken(RegisterName(req), roles))
    /\ loc'.token = Len(tokens) + 1

\* The objects at hand are the ones before, none, or the ones a Get answers with.
ObjectsRead ==
    /\ req' = req
    /\ loc'.secret \in {loc.secret, Absent, Read(cachedSecret, secret)[req]}
    /\ loc'.configMap \in {loc.configMap, Absent, Read(cachedConfigMap, configMap)[req]}

\* The token PutSecret is about to write was minted for a node, or was at hand.
NodeTokenAtHand ==
    pc' = "putSecret" =>
        \/ pc = "putSecret" /\ loc'.token = loc.token
        \/ Minted(NodeRoles)

\* The token PutConfigMap is about to write was minted for the roles found
\* enabled, was found valid for them, or was at hand.
KubeTokenAtHand ==
    pc' = "putConfigMap" =>
        /\ loc'.roles = loc.roles
        /\ \/ pc = "putConfigMap" /\ loc'.token = loc.token
           \/ Minted(loc.roles)
           \/ /\ IsTokenValid(tokens, RegisterName(req), loc'.token, loc.roles)
              /\ pc # "idle"

\* A reconcile starts with nothing at hand.
Started ==
    /\ pc' = "appsEnabled"
    /\ loc'.secret = Absent
    /\ loc'.configMap = Absent

\* How a step moves the process on.
LEMMA LocalsStep ==
    ASSUME TypeInv, [Next]_vars
    PROVE  \/ pc' = "idle"
           \/ Started
           \/ pc # "idle" /\ ObjectsRead /\ NodeTokenAtHand /\ KubeTokenAtHand
<1> DEFINE Moved == pc # "idle" /\ ObjectsRead /\ NodeTokenAtHand /\ KubeTokenAtHand
<1>0. loc \in Locals
  BY DEF TypeInv, TypeOK, ProcessOK
<1>1. CASE UNCHANGED <<pc, req, loc>>
  BY <1>1 DEF ObjectsRead, NodeTokenAtHand, KubeTokenAtHand
<1>2. ASSUME NEW c \in Clusters, GetCluster(c) PROVE pc' = "idle" \/ Started
  BY <1>2 DEF GetCluster, Started, Blank
<1>3. ASSUME pc # "idle", NEW p \in PCs \ {"putSecret", "putConfigMap"}, NEW l,
             Goto(p, l), l.secret \in {loc.secret, Absent}, l.configMap \in {loc.configMap, Absent}
      PROVE  Moved
  BY <1>3 DEF Goto, ObjectsRead, NodeTokenAtHand, KubeTokenAtHand
<1>4. CASE AreTeleportAppsEnabled
  <2>1. /\ [loc EXCEPT !.roles = KubeRoles(userValues[req] = "apps")].secret = loc.secret
        /\ [loc EXCEPT !.roles = KubeRoles(userValues[req] = "apps")].configMap = loc.configMap
    BY <1>0 DEF Locals
  <2> QED
    BY <1>3, <1>4, <2>1 DEF AreTeleportAppsEnabled, Requeue, PCs, StartPCs
<1>5. CASE GetIdentityConfigFromSecret \/ NewClient
  <2>1. FirstCall \in PCs \ {"putSecret", "putConfigMap"} /\ "newClient" \in PCs
    BY DEF FirstCall, PCs, StartPCs, DeletePCs, RegisterPCs
  <2> QED
    BY <1>3, <1>5, <2>1 DEF GetIdentityConfigFromSecret, NewClient
<1>6. CASE Delete
  <2>1. pc # "idle"
    BY <1>6 DEF Delete, ListTokens, DeleteToken, DeleteSecret, DeleteConfigMap,
       BotDetectDelete, BotDeleteConfig, DeleteTbotConfigMap, DeleteKubeconfigSecret,
       AgentDetectDelete, AgentDeleteConfig, RemoveFinalizer
  <2>2. \/ pc' = "idle"
        \/ \E p \in DeletePCs : Goto(p, loc)
        \/ \E p \in DeletePCs : \E x : Goto(p, [loc EXCEPT !.token = x])
        \/ \E p \in DeletePCs : \E x : Goto(p, [loc EXCEPT !.manager = x])
    BY <1>6 DEF Delete, ListTokens, DeleteToken, DeleteSecret, DeleteConfigMap,
       BotDetectDelete, BotDeleteConfig, DeleteTbotConfigMap, DeleteKubeconfigSecret,
       AgentDetectDelete, AgentDeleteConfig, RemoveFinalizer, DeleteConfig,
       PatchFinalizers, UpdateReferences, Stop, Requeue, DeletePCs
  <2>3. \A x : /\ [loc EXCEPT !.token = x].secret = loc.secret
               /\ [loc EXCEPT !.token = x].configMap = loc.configMap
               /\ [loc EXCEPT !.manager = x].secret = loc.secret
               /\ [loc EXCEPT !.manager = x].configMap = loc.configMap
    BY <1>0 DEF Locals
  <2>4. DeletePCs \subseteq PCs \ {"putSecret", "putConfigMap"}
    BY DEF DeletePCs, PCs
  <2> QED
    BY <1>3, <2>1, <2>2, <2>3, <2>4
<1>7. ASSUME pc # "idle", NEW roles \in RoleLists, NEW p, GenerateToken(roles, p)
      PROVE  \/ pc' = "idle"
             \/ pc' = p /\ ObjectsRead /\ Minted(roles) /\ loc'.roles = loc.roles
  <2>1. LET l == [loc EXCEPT !.token = Len(tokens) + 1]
        IN /\ l.secret = loc.secret /\ l.configMap = loc.configMap
           /\ l.roles = loc.roles /\ l.token = Len(tokens) + 1
    BY <1>0 DEF Locals
  <2> QED
    BY <1>7, <2>1 DEF GenerateToken, Goto, Requeue, ObjectsRead, Minted
<1>8. CASE MintNode
  <2>1. pc # "idle" /\ GenerateToken(NodeRoles, "putSecret")
    BY <1>8 DEF MintNode
  <2>2. NodeRoles \in RoleLists
    BY RolesType
  <2> QED
    BY <1>7, <2>1, <2>2 DEF NodeTokenAtHand, KubeTokenAtHand
<1>9. CASE MintKube
  <2>1. pc # "idle" /\ GenerateToken(loc.roles, "putConfigMap")
    BY <1>9 DEF MintKube
  <2>2. loc.roles \in RoleLists
    BY <1>0 DEF Locals
  <2> QED
    BY <1>7, <2>1, <2>2 DEF NodeTokenAtHand, KubeTokenAtHand
<1>10. CASE GetSecret \/ GetConfigMap
  <2>1. \A x : LET l == [loc EXCEPT !.secret = x]
               IN l.secret = x /\ l.configMap = loc.configMap
    BY <1>0 DEF Locals
  <2>2. \A x : LET l == [loc EXCEPT !.configMap = x]
               IN l.secret = loc.secret /\ l.configMap = x
    BY <1>0 DEF Locals
  <2> QED
    BY <1>10, <2>1, <2>2 DEF GetSecret, GetConfigMap, Goto, Requeue, ObjectsRead,
       NodeTokenAtHand, KubeTokenAtHand
<1>11. CASE CheckKube
  <2>1. LET l == [loc EXCEPT !.token = GetTokenFromConfigMap(loc.configMap)]
        IN /\ l.secret = loc.secret /\ l.configMap = loc.configMap
           /\ l.roles = loc.roles /\ l.token = GetTokenFromConfigMap(loc.configMap)
    BY <1>0 DEF Locals
  <2> QED
    BY <1>11, <2>1 DEF CheckKube, Goto, ObjectsRead, NodeTokenAtHand, KubeTokenAtHand
<1>12. ASSUME Register, ~MintNode, ~MintKube, ~GetSecret, ~GetConfigMap, ~CheckKube
       PROVE  pc' = "idle" \/ Moved
  <2>1. pc # "idle"
    BY <1>12 DEF Register, AddFinalizer, CheckNode, PutSecret, GetTkaVersion,
       PutConfigMap, AgentDetect, AgentEnsure, GetKubeconfigSecret,
       EnsureTbotConfigMap, BotDetect, BotEnsure
  <2> DEFINE Branch == RegisterPCs \ {"putSecret", "putConfigMap"}
             Shape(l) == /\ l.secret \in {loc.secret, Absent}
                         /\ l.configMap \in {loc.configMap, Absent}
  <2>2. /\ "getSecret" \in Branch /\ "mintNode" \in Branch /\ "tkaVersion" \in Branch
        /\ "getConfigMap" \in Branch /\ "agentDetect" \in Branch
        /\ "agentEnsure" \in Branch /\ "getKubeconfigSecret" \in Branch
        /\ "ensureTbotConfigMap" \in Branch /\ "botDetect" \in Branch
        /\ "botEnsure" \in Branch
    BY DEF RegisterPCs
  <2>3. Shape(loc)
    OBVIOUS
  <2>4. Shape([loc EXCEPT !.secret = Absent])
    BY <1>0 DEF Locals
  <2>5. Shape([loc EXCEPT !.secret = Absent, !.token = Absent])
    BY <1>0 DEF Locals
  <2>6. \A x : Shape([loc EXCEPT !.tkaVersion = x])
    BY <1>0 DEF Locals
  <2>7. \A x : Shape([loc EXCEPT !.manager = x])
    BY <1>0 DEF Locals
  <2>8. Shape(AfterConfigMap)
    BY <1>0 DEF AfterConfigMap, Locals
  <2>9. ASSUME NEW p \in Branch, NEW l, Shape(l), Goto(p, l) PROVE Moved
    <3>1. p \in PCs \ {"putSecret", "putConfigMap"}
      BY DEF PCs
    <3> QED
      BY <1>3, <2>1, <2>9, <3>1
  <2> HIDE DEF Branch, Shape, Moved
  <2>10. CASE AddFinalizer \/ GetKubeconfigSecret \/ EnsureTbotConfigMap
    <3>1. \/ pc' = "idle" \/ Goto("getSecret", loc)
          \/ Goto("ensureTbotConfigMap", loc) \/ Goto("botDetect", loc)
      BY <2>10 DEF AddFinalizer, PatchFinalizers, GetKubeconfigSecret, EnsureTbotConfigMap,
         Requeue
    <3> QED
      BY <2>2, <2>3, <3>1, <2>9
  <2>11. CASE CheckNode \/ PutSecret
    <3>1. \/ pc' = "idle" \/ Goto("mintNode", loc)
          \/ Goto("tkaVersion", [loc EXCEPT !.secret = Absent])
          \/ Goto("tkaVersion", [loc EXCEPT !.secret = Absent, !.token = Absent])
      BY <2>11 DEF CheckNode, PutSecret, Requeue
    <3> QED
      BY <2>2, <2>3, <2>4, <2>5, <3>1, <2>9
  <2>12. CASE GetTkaVersion
    <3>1. \E x : Goto("getConfigMap", [loc EXCEPT !.tkaVersion = x])
      BY <2>12 DEF GetTkaVersion
    <3> QED
      BY <2>2, <2>6, <3>1, <2>9
  <2>13. CASE PutConfigMap
    <3>1. pc' = "idle" \/ Goto("agentDetect", AfterConfigMap)
      BY <2>13 DEF PutConfigMap, CreateConfigMap, UpdateConfigMap, WriteConfigMap, Requeue
    <3> QED
      BY <2>2, <2>8, <3>1, <2>9
  <2>14. CASE AgentDetect \/ BotDetect \/ AgentEnsure \/ BotEnsure
    <3>1. \/ pc' = "idle"
          \/ \E x : \/ Goto("agentEnsure", [loc EXCEPT !.manager = x])
                    \/ Goto("botEnsure", [loc EXCEPT !.manager = x])
                    \/ Goto("getKubeconfigSecret", [loc EXCEPT !.manager = x])
      BY <2>14 DEF AgentDetect, BotDetect, AgentEnsure, BotEnsure, EnsureConfig,
         UpdateReferences, Requeue
    <3> QED
      BY <2>2, <2>7, <3>1, <2>9
  <2> QED
    BY <1>12, <2>10, <2>11, <2>12, <2>13, <2>14 DEF Register
<1>13. CASE Environment
  <2>1. pc' = "idle" \/ UNCHANGED <<pc, req, loc>>
    BY <1>13 DEF Environment, Restart, Fails, Requeue, IdentityExpires, TokenExpires,
       SyncCluster, SyncObjects, SyncApps, UserDeletes, ClusterGone, UserCreates, OtherFinalizerChanges, SetCluster,
       UserSetsValues, ObjectTouched, TbotWritesKubeconfig, ReleaseChanges, process
  <2> QED
    BY <1>1, <2>1
<1>14. CASE UNCHANGED vars
  BY <1>1, <1>14 DEF vars, process
<1> QED
  BY <1>2, <1>4, <1>5, <1>6, <1>8, <1>9, <1>10, <1>11, <1>12, <1>13, <1>14
     DEF Next, Continue, Register

-----------------------------------------------------------------------------
(* The invariant.                                                           *)

\* Values rendered for a token that fits, under the cluster's register name, fit.
LEMMA RenderFits ==
    ASSUME NEW c, NEW token, NEW cfg, NEW roles, NEW version, JoinsAs(token, c, roles)
    PROVE  DocumentFits(
               GetConfigmapDataFromTemplate(token, cfg, RegisterName(c), roles, version), c)
<1> DEFINE B(v) == ValuesBlock(token, cfg, RegisterName(c), v, roles)
<1>1. \A v : BlockFits(B(v), c)
  BY DEF BlockFits, ValuesBlock
<1>2. BlockFits(Absent, c)
  BY DEF BlockFits
<1> HIDE DEF B
<1>3. \A v, w : /\ DocumentFits([flat |-> B(v), nested |-> B(w)], c)
                /\ DocumentFits([flat |-> Absent, nested |-> B(w)], c)
  BY <1>1, <1>2 DEF DocumentFits
<1> QED
  BY <1>3 DEF GetConfigmapDataFromTemplate, B

\* The register name in a ConfigMap that fits is the cluster's own.
LEMMA StoredNameFits ==
    ASSUME NEW c, NEW doc, doc # Absent, DocumentFits(doc, c),
           registerNameFromConfigMap(doc) # Absent
    PROVE  registerNameFromConfigMap(doc) = RegisterName(c)
BY DEF DocumentFits, BlockFits, registerNameFromConfigMap, parseConfigMapValues

\* A token just minted for the request joins as its cluster and with its roles.
LEMMA MintedFits ==
    ASSUME TypeInv, pc # "idle", req' = req, NEW roles \in RoleLists, Minted(roles)
    PROVE  /\ loc'.token \in 1..Len(tokens')
           /\ tokens'[loc'.token].cluster = RegisterName(req')
           /\ tokens'[loc'.token].roles = roles
<1>1. tokens \in Seq(ProvisionToken) /\ Len(tokens) \in Nat /\ req \in Clusters
  BY DEF TypeInv, TypeOK, TokensOK, ProcessOK
<1>2. /\ Len(tokens') = Len(tokens) + 1
      /\ tokens'[Len(tokens) + 1] = NewProvisionToken(RegisterName(req), roles)
  BY <1>1, UpsertType DEF Minted
<1> QED
  BY <1>1, <1>2 DEF Minted, NewProvisionToken

\* Nothing is published and nothing is at hand at the start.
LEMMA FitInit == Init => FitInv
BY DEF Init, FitInv, PublishedTokensFit, SecretFits, DocumentFits, BlockFits

\* Every step keeps what is published, cached and at hand fitting.
LEMMA FitStep == TypeInv /\ FitInv /\ [Next]_vars => FitInv'
<1> SUFFICES ASSUME TypeInv, FitInv, [Next]_vars PROVE FitInv'
  OBVIOUS
<1>1. TokensKept
  BY TokensStep
<1>2. /\ \A t, c, roles : JoinsAs(t, c, roles) => JoinsAs(t, c, roles)'
      /\ \A s, c : SecretFits(s, c) => SecretFits(s, c)'
      /\ \A d, c : DocumentFits(d, c) => DocumentFits(d, c)'
  BY <1>1, FitsStable
<1>3. pc # "idle" => req \in Clusters
  BY DEF TypeInv, TypeOK, ProcessOK
<1>4. ASSUME NEW c \in Clusters PROVE SecretFits(secret'[c], c)
  <2>1. SecretFits(secret[c], c)
    BY DEF FitInv, PublishedTokensFit
  <2>2. CASE c = req /\ pc = "putSecret" /\ secret'[c] = [joinToken |-> loc.token]
    <3>1. JoinsAs(loc.token, c, NodeRoles)
      BY <2>2 DEF FitInv
    <3> QED
      BY <2>2, <3>1 DEF SecretFits
  <2> QED
    BY <2>1, <2>2, SecretStep DEF SecretFits
<1>5. ASSUME NEW c \in Clusters PROVE DocumentFits(configMap'[c], c)
  <2>1. DocumentFits(configMap[c], c) /\ DocumentFits(Absent, c)
    BY DEF FitInv, PublishedTokensFit, DocumentFits
  <2>2. DocumentFits(EmptyDocument, c)
    BY DEF DocumentFits, BlockFits, EmptyDocument
  <2>3. CASE c = req /\ pc = "putConfigMap"
    <3>1. JoinsAs(loc.token, c, loc.roles) /\ DocumentFits(loc.configMap, c)
      BY <2>3 DEF FitInv
    <3>2. DocumentFits(RenderConfigMapValues(RegisterName(req)), c)
      BY <2>3, <3>1, RenderFits DEF RenderConfigMapValues
    <3>3. loc.configMap # Absent /\ registerNameFromConfigMap(loc.configMap) # Absent
          => registerNameFromConfigMap(loc.configMap) = RegisterName(req)
      BY <2>3, <3>1, StoredNameFits
    <3> QED
      BY <2>1, <2>2, <3>2, <3>3, ConfigMapStep
  <2> QED
    BY <2>1, <2>2, <2>3, ConfigMapStep
<1>6. PublishedTokensFit'
  <2>1. ASSUME NEW c \in Clusters
        PROVE  SecretFits(secret[c], c)' /\ DocumentFits(configMap[c], c)'
    BY <1>2, <1>4, <1>5 DEF SecretFits, DocumentFits, BlockFits, JoinsAs
  <2> QED
    BY <2>1 DEF PublishedTokensFit
<1>7. ASSUME NEW c \in Clusters
      PROVE  SecretFits(cachedSecret[c], c)' /\ DocumentFits(cachedConfigMap[c], c)'
  <2>1. SecretFits(cachedSecret'[c], c) /\ DocumentFits(cachedConfigMap'[c], c)
    BY CacheStep DEF FitInv, PublishedTokensFit
  <2> QED
    BY <1>2, <2>1 DEF SecretFits, DocumentFits, BlockFits, JoinsAs
<1>8. CASE pc' = "idle"
  BY <1>6, <1>7, <1>8 DEF FitInv
<1>9. CASE Started
  BY <1>6, <1>7, <1>9 DEF FitInv, Started, SecretFits, DocumentFits
<1>10. CASE pc # "idle" /\ ObjectsRead /\ NodeTokenAtHand /\ KubeTokenAtHand
  <2>1. req \in Clusters /\ req' = req /\ pc # "idle"
    BY <1>3, <1>10 DEF ObjectsRead
  <2>2. SecretFits(loc'.secret, req) /\ DocumentFits(loc'.configMap, req)
    <3>1. /\ SecretFits(Absent, req) /\ DocumentFits(Absent, req)
          /\ SecretFits(loc.secret, req) /\ DocumentFits(loc.configMap, req)
          /\ SecretFits(Read(cachedSecret, secret)[req], req)
          /\ DocumentFits(Read(cachedConfigMap, configMap)[req], req)
      BY <2>1 DEF FitInv, PublishedTokensFit, SecretFits, DocumentFits, Read
    <3> QED
      BY <1>10, <3>1 DEF ObjectsRead
  <2>3. SecretFits(loc.secret, req)' /\ DocumentFits(loc.configMap, req)'
    BY <1>2, <2>1, <2>2 DEF SecretFits, DocumentFits, BlockFits, JoinsAs
  <2>4. loc.roles \in RoleLists /\ NodeRoles \in RoleLists /\ TokensOK
    BY RolesType DEF TypeInv, TypeOK, ProcessOK, Locals
  <2>5. ASSUME pc' = "putSecret" PROVE JoinsAs(loc.token, req, NodeRoles)'
    <3>1. CASE Minted(NodeRoles)
      BY <2>1, <2>4, <3>1, MintedFits DEF JoinsAs
    <3>2. CASE pc = "putSecret" /\ loc'.token = loc.token
      <4>1. JoinsAs(loc.token, req, NodeRoles)
        BY <3>2 DEF FitInv
      <4> QED
        BY <1>2, <2>1, <3>2, <4>1 DEF JoinsAs
    <3> QED
      BY <1>10, <2>5, <3>1, <3>2 DEF NodeTokenAtHand
  <2>6. ASSUME pc' = "putConfigMap" PROVE JoinsAs(loc.token, req, loc.roles)'
    <3>1. loc'.roles = loc.roles
      BY <1>10, <2>6 DEF KubeTokenAtHand
    <3>2. CASE Minted(loc.roles)
      BY <2>1, <2>4, <3>1, <3>2, MintedFits DEF JoinsAs
    <3>3. CASE pc = "putConfigMap" /\ loc'.token = loc.token
      <4>1. JoinsAs(loc.token, req, loc.roles)
        BY <3>3 DEF FitInv
      <4> QED
        BY <1>2, <2>1, <3>1, <3>3, <4>1 DEF JoinsAs
    <3>4. CASE IsTokenValid(tokens, RegisterName(req), loc'.token, loc.roles)
      <4>1. JoinsAs(loc'.token, req, loc.roles)
        BY <2>1, <2>4, <3>4, ValidFits
      <4> QED
        BY <1>2, <2>1, <3>1, <4>1 DEF JoinsAs
    <3> QED
      BY <1>10, <2>6, <3>2, <3>3, <3>4 DEF KubeTokenAtHand
  <2> QED
    BY <1>6, <1>7, <2>3, <2>5, <2>6 DEF FitInv
<1> QED
  BY <1>8, <1>9, <1>10, LocalsStep

\* The tokens Reconcile publishes always fit, for any clusters, roles toggled,
\* caches lagging, failures and restarts.
THEOREM TokensFit == Spec => []PublishedTokensFit
<1>1. FitInv => PublishedTokensFit
  BY DEF FitInv
<1> QED
  BY <1>1, TypeInit, TypeStep, FitInit, FitStep, PTL DEF Spec

=============================================================================
