-------------------------- MODULE TokensKeptProofs --------------------------
(***************************************************************************)
(* A kube token that is still good is not replaced.                        *)
(*                                                                         *)
(* The decision to mint is taken at CheckKube, the write comes calls       *)
(* later.  SpentInv carries the decision over: the token in the ConfigMap  *)
(* that was read stays no good, since a token that expired or went never   *)
(* comes back and a new one has a new name, and the ConfigMap that is      *)
(* overwritten is the one that was read.                                   *)
(***************************************************************************)
EXTENDS PublishedTokensProofs

KubePCs == {"checkKube", "mintKube", "putConfigMap"}

\* The ConfigMap is at hand only where it is used.
HeldInv == pc \notin KubePCs => loc.configMap = Absent

\* A token that is no good for the request's cluster and the roles, and no name
\* of one that is still to be made.
Spent(token, roles) ==
    /\ token = Absent \/ token \in 1..Len(tokens)
    /\ ~IsTokenValid(tokens, RegisterName(req), token, roles)

\* Past the check, the token in the ConfigMap at hand is spent or is the one to be
\* written again.
SpentInv ==
    /\ pc = "mintKube" /\ loc.configMap # Absent =>
          Spent(GetTokenFromConfigMap(loc.configMap), loc.roles)
    /\ pc = "putConfigMap" /\ loc.configMap # Absent =>
          \/ loc.token = GetTokenFromConfigMap(loc.configMap)
          \/ Spent(GetTokenFromConfigMap(loc.configMap), loc.roles)

\* A token that is no good never becomes good again.
LEMMA SpentStays ==
    ASSUME TypeInv, TokensKept, req' = req, NEW token, NEW roles, Spent(token, roles)
    PROVE  /\ token = Absent \/ token \in 1..Len(tokens')
           /\ ~IsTokenValid(tokens', RegisterName(req), token, roles)
<1>1. CASE token = Absent
  <2>1. Absent \notin 1..Len(tokens')
    BY AbsentAssumption
  <2> QED
    BY <1>1, <2>1 DEF IsTokenValid, Labelled, GetTokens
<1>2. CASE token \in 1..Len(tokens)
  BY <1>2 DEF Spent, TokensKept, IsTokenValid, Labelled, GetTokens
<1> QED
  BY <1>1, <1>2 DEF Spent

\* The locals that a step does not assign.
LEMMA LocalsKept ==
    ASSUME TypeInv
    PROVE  /\ \A x : LET l == [loc EXCEPT !.token = x]
                     IN /\ l.configMap = loc.configMap
                        /\ l.roles = loc.roles /\ l.token = x
           /\ \A x : [loc EXCEPT !.manager = x].configMap = loc.configMap
           /\ \A x : [loc EXCEPT !.tkaVersion = x].configMap = loc.configMap
           /\ \A x : [loc EXCEPT !.roles = x].configMap = loc.configMap
           /\ \A x : [loc EXCEPT !.secret = x].configMap = loc.configMap
           /\ [loc EXCEPT !.secret = Absent, !.token = Absent].configMap = loc.configMap
           /\ AfterConfigMap.configMap = Absent
BY DEF TypeInv, TypeOK, ProcessOK, Locals, AfterConfigMap

\* GenerateToken changes no local but the token.
LEMMA MintedLocals ==
    ASSUME TypeInv, NEW roles, NEW p, GenerateToken(roles, p)
    PROVE  \/ pc' = "idle"
           \/ /\ pc' = p /\ req' = req
              /\ loc'.configMap = loc.configMap /\ loc'.roles = loc.roles
<1> DEFINE l == [loc EXCEPT !.token = Len(tokens) + 1]
<1>1. l.configMap = loc.configMap /\ l.roles = loc.roles
  BY LocalsKept
<1>2. pc' = "idle" \/ Goto(p, l)
  BY DEF GenerateToken, Requeue
<1> HIDE DEF l
<1> QED
  BY <1>1, <1>2 DEF Goto

\* Only these calls bring Reconcile to a call with a ConfigMap at hand.
LEMMA TokenFlow ==
    ASSUME [Next]_vars, pc' \in KubePCs
    PROVE  UNCHANGED <<pc, req, loc>> \/ GetConfigMap \/ CheckKube \/ MintKube
<1> USE DEF KubePCs
<1>1. ASSUME AreTeleportAppsEnabled \/ GetIdentityConfigFromSecret \/ NewClient PROVE FALSE
  BY <1>1 DEF AreTeleportAppsEnabled, GetIdentityConfigFromSecret, NewClient, FirstCall,
     Goto, Requeue
<1>2. ASSUME Delete PROVE FALSE
  BY <1>2 DEF Delete, ListTokens, DeleteToken, DeleteSecret, DeleteConfigMap,
     BotDetectDelete, BotDeleteConfig, DeleteTbotConfigMap, DeleteKubeconfigSecret,
     AgentDetectDelete, AgentDeleteConfig, RemoveFinalizer, DeleteConfig,
     PatchFinalizers, UpdateReferences, Goto, Stop, Requeue
<1>3. ASSUME Register, ~GetConfigMap, ~CheckKube, ~MintKube PROVE FALSE
  BY <1>3 DEF Register, AddFinalizer, GetSecret, CheckNode, MintNode, GenerateToken, PutSecret,
     GetTkaVersion, PutConfigMap, AgentDetect,
     AgentEnsure, GetKubeconfigSecret, EnsureTbotConfigMap, BotDetect, BotEnsure,
     CreateConfigMap, UpdateConfigMap, WriteConfigMap, EnsureConfig,
     PatchFinalizers, UpdateReferences, Goto, Requeue
<1>4. ASSUME \E c \in Clusters : GetCluster(c) PROVE UNCHANGED <<pc, req, loc>>
  BY <1>4 DEF GetCluster
<1>5. ASSUME Environment \/ UNCHANGED vars PROVE UNCHANGED <<pc, req, loc>>
  BY <1>5 DEF Environment, Restart, Fails, Requeue, IdentityExpires, TokenExpires,
     SyncCluster, SyncObjects, SyncApps, UserDeletes, ClusterGone, UserCreates,
     OtherFinalizerChanges, SetCluster, UserSetsValues, ObjectTouched,
     TbotWritesKubeconfig, ReleaseChanges, process, vars
<1> QED
  BY <1>1, <1>2, <1>3, <1>4, <1>5 DEF Next, Continue

\* At the start nothing is at hand.
LEMMA KeptInit == Init => HeldInv /\ SpentInv
BY DEF Init, Blank, HeldInv, SpentInv, KubePCs

\* Every step lets go of the ConfigMap where it is done with.
LEMMA HeldStep == TypeInv /\ HeldInv /\ [Next]_vars => HeldInv'
<1> SUFFICES ASSUME TypeInv, HeldInv, [Next]_vars PROVE HeldInv'
  OBVIOUS
<1> USE DEF HeldInv
<1>0. Blank.configMap = Absent
  BY DEF Blank
<1>1. CASE loc' = Blank
  BY <1>0, <1>1
<1>2. CASE UNCHANGED <<pc, loc>>
  BY <1>2
<1>3. ASSUME NEW c \in Clusters, GetCluster(c) PROVE HeldInv'
  <2>1. [Blank EXCEPT !.cluster = cachedCluster[c]].configMap = Absent
    BY DEF Blank
  <2> QED
    BY <1>2, <1>3, <2>1 DEF GetCluster
<1>4. ASSUME pc \notin KubePCs, NEW p, NEW l, Goto(p, l), l.configMap = loc.configMap
      PROVE  HeldInv'
  BY <1>4 DEF Goto
<1>5. CASE AreTeleportAppsEnabled \/ GetIdentityConfigFromSecret \/ NewClient
  <2>1. /\ pc \notin KubePCs
        /\ \/ loc' = Blank
           \/ \E p : Goto(p, loc)
           \/ \E p, x : Goto(p, [loc EXCEPT !.roles = x])
    BY <1>5 DEF AreTeleportAppsEnabled, GetIdentityConfigFromSecret, NewClient, Requeue,
       KubePCs
  <2> QED
    BY <1>1, <1>4, <2>1, LocalsKept
<1>6. CASE Delete
  <2>1. pc \notin KubePCs
    BY <1>6 DEF Delete, ListTokens, DeleteToken, DeleteSecret, DeleteConfigMap,
       BotDetectDelete, BotDeleteConfig, DeleteTbotConfigMap, DeleteKubeconfigSecret,
       AgentDetectDelete, AgentDeleteConfig, RemoveFinalizer, KubePCs
  <2>2. \/ loc' = Blank
        \/ \E p : Goto(p, loc)
        \/ \E p, x : Goto(p, [loc EXCEPT !.token = x])
        \/ \E p, x : Goto(p, [loc EXCEPT !.manager = x])
    BY <1>6 DEF Delete, ListTokens, DeleteToken, DeleteSecret, DeleteConfigMap,
       BotDetectDelete, BotDeleteConfig, DeleteTbotConfigMap, DeleteKubeconfigSecret,
       AgentDetectDelete, AgentDeleteConfig, RemoveFinalizer, DeleteConfig,
       PatchFinalizers, UpdateReferences, Stop, Requeue
  <2> QED
    BY <1>1, <1>4, <2>1, <2>2, LocalsKept
<1>7. CASE \/ AddFinalizer \/ GetSecret \/ CheckNode \/ MintNode \/ PutSecret
           \/ GetTkaVersion \/ AgentDetect \/ AgentEnsure
           \/ GetKubeconfigSecret \/ EnsureTbotConfigMap \/ BotDetect \/ BotEnsure
  <2>1. pc \notin KubePCs
    BY <1>7 DEF AddFinalizer, GetSecret, CheckNode, MintNode, PutSecret, GetTkaVersion,
       AgentDetect, AgentEnsure, GetKubeconfigSecret, EnsureTbotConfigMap, BotDetect,
       BotEnsure, KubePCs
  <2>2. \/ loc' = Blank
        \/ \E p : Goto(p, loc)
        \/ \E p, x : Goto(p, [loc EXCEPT !.secret = x])
        \/ \E p : Goto(p, [loc EXCEPT !.secret = Absent, !.token = Absent])
        \/ \E p, x : Goto(p, [loc EXCEPT !.token = x])
        \/ \E p, x : Goto(p, [loc EXCEPT !.tkaVersion = x])
        \/ \E p, x : Goto(p, [loc EXCEPT !.manager = x])
    <3>1. CASE GetSecret \/ CheckNode \/ MintNode \/ PutSecret
      BY <3>1 DEF GetSecret, CheckNode, MintNode, GenerateToken, PutSecret, Requeue
    <3>2. CASE \/ AddFinalizer \/ GetTkaVersion \/ AgentDetect \/ AgentEnsure
               \/ GetKubeconfigSecret \/ EnsureTbotConfigMap \/ BotDetect \/ BotEnsure
      BY <3>2 DEF AddFinalizer, GetTkaVersion, AgentDetect, AgentEnsure, GetKubeconfigSecret,
         EnsureTbotConfigMap, BotDetect, BotEnsure, EnsureConfig, PatchFinalizers,
         UpdateReferences, Requeue
    <3> QED
      BY <1>7, <3>1, <3>2
  <2> QED
    BY <1>1, <1>4, <2>1, <2>2, LocalsKept
<1>8. ASSUME NEW p, NEW l, Goto(p, l), p \notin KubePCs => l.configMap = Absent
      PROVE  HeldInv'
  BY <1>8 DEF Goto
<1>9. CASE MintKube
  <2>1. loc' = Blank \/ \E l : Goto("putConfigMap", l)
    BY <1>9 DEF MintKube, GenerateToken, Requeue
  <2> QED
    BY <1>1, <1>8, <2>1 DEF KubePCs
<1>10. CASE GetConfigMap \/ CheckKube \/ PutConfigMap
  <2>1. \/ loc' = Blank
        \/ \E p \in {"mintKube", "checkKube", "putConfigMap"} : \E l : Goto(p, l)
        \/ Goto("agentDetect", AfterConfigMap)
    BY <1>10 DEF GetConfigMap, CheckKube, PutConfigMap, CreateConfigMap, UpdateConfigMap,
       WriteConfigMap, Requeue
  <2> QED
    BY <1>1, <1>8, <2>1, LocalsKept DEF KubePCs
<1>11. CASE Environment \/ UNCHANGED vars
  <2>1. loc' = Blank \/ UNCHANGED <<pc, loc>>
    BY <1>11 DEF Environment, Restart, Fails, Requeue, IdentityExpires, TokenExpires,
       SyncCluster, SyncObjects, SyncApps, UserDeletes, ClusterGone, UserCreates,
       OtherFinalizerChanges, SetCluster, UserSetsValues, ObjectTouched,
       TbotWritesKubeconfig, ReleaseChanges, process, vars
  <2> QED
    BY <1>1, <1>2, <2>1
<1> QED
  BY <1>3, <1>5, <1>6, <1>7, <1>9, <1>10, <1>11 DEF Next, Continue, Register

\* Every step keeps SpentInv.
LEMMA SpentStep == TypeInv /\ FitInv /\ HeldInv /\ SpentInv /\ [Next]_vars => SpentInv'
<1> SUFFICES ASSUME TypeInv, FitInv, HeldInv, SpentInv, [Next]_vars PROVE SpentInv'
  OBVIOUS
<1>1. TokensKept
  BY TokensStep
<1>2. ASSUME req' = req, NEW token, NEW roles, Spent(token, roles)
      PROVE  /\ token = Absent \/ token \in 1..Len(tokens')
             /\ ~IsTokenValid(tokens', RegisterName(req'), token, roles)
  BY <1>1, <1>2, SpentStays
<1>3. CASE pc' \notin KubePCs
  BY <1>3 DEF SpentInv, KubePCs
<1>4. CASE UNCHANGED <<pc, req, loc>>
  BY <1>2, <1>4 DEF SpentInv, Spent
<1>5. CASE GetConfigMap
  <2>1. pc = "getConfigMap" /\ loc.configMap = Absent
    BY <1>5 DEF GetConfigMap, HeldInv, KubePCs
  <2>2. \/ pc' = "mintKube" /\ loc' = loc
        \/ pc' \in {"idle", "checkKube"}
    BY <1>5 DEF GetConfigMap, Goto, Requeue
  <2> QED
    BY <2>1, <2>2 DEF SpentInv
<1>6. CASE CheckKube
  <2> DEFINE token == GetTokenFromConfigMap(loc.configMap)
  <2>1. \/ pc' = "putConfigMap" /\ loc'.configMap = loc.configMap /\ loc'.token = token
        \/ /\ pc' = "mintKube" /\ UNCHANGED <<loc, req, tokens>> /\ pc # "idle"
           /\ ~IsTokenValid(tokens, RegisterName(req), token, loc.roles)
    <3> DEFINE l == [loc EXCEPT !.token = token]
    <3>1. l.configMap = loc.configMap /\ l.token = token
      BY LocalsKept
    <3>2. \/ Goto("putConfigMap", l)
          \/ /\ Goto("mintKube", loc) /\ UNCHANGED tokens /\ pc # "idle"
             /\ ~IsTokenValid(tokens, RegisterName(req), token, loc.roles)
      BY <1>6 DEF CheckKube
    <3> HIDE DEF l, token
    <3> QED
      BY <3>1, <3>2 DEF Goto
  <2>2. pc # "idle" /\ loc.configMap # Absent => token = Absent \/ token \in 1..Len(tokens)
    BY DEF FitInv, DocumentFits, BlockFits, JoinsAs, GetTokenFromConfigMap, parseConfigMapValues
  <2> QED
    BY <2>1, <2>2 DEF SpentInv, Spent
<1>7. CASE MintKube
  <2>1. pc = "mintKube" /\ GenerateToken(loc.roles, "putConfigMap")
    BY <1>7 DEF MintKube
  <2>2. \/ pc' = "idle"
        \/ /\ pc' = "putConfigMap" /\ req' = req
           /\ loc'.configMap = loc.configMap /\ loc'.roles = loc.roles
    BY <2>1, MintedLocals
  <2> QED
    BY <1>2, <2>1, <2>2 DEF SpentInv, Spent
<1> QED
  BY <1>3, <1>4, <1>5, <1>6, <1>7, TokenFlow

\* The values rendered for a token hold that token, if any.
LEMMA RenderedToken ==
    ASSUME NEW name, GetTokenFromConfigMap(RenderConfigMapValues(name)) # Absent
    PROVE  GetTokenFromConfigMap(RenderConfigMapValues(name)) = loc.token
<1> DEFINE B(v) == ValuesBlock(loc.token, config, name, v, loc.roles)
<1>1. \A v : B(v).authToken = loc.token
  BY DEF ValuesBlock
<1> HIDE DEF B
<1>2. \A v, w : /\ GetTokenFromConfigMap([flat |-> B(v), nested |-> B(w)]) \in {Absent, loc.token}
                /\ GetTokenFromConfigMap([flat |-> Absent, nested |-> B(w)]) \in {Absent, loc.token}
  BY <1>1 DEF GetTokenFromConfigMap, parseConfigMapValues
<1> QED
  BY <1>2 DEF RenderConfigMapValues, GetConfigmapDataFromTemplate, B

\* Where the kube token of a ConfigMap is replaced, it was spent.
LEMMA ReplacedKubeToken ==
    ASSUME TypeInv, SpentInv, [Next]_vars, NEW c \in Clusters,
           configMap[c] # Absent, configMap'[c] # Absent,
           GetTokenFromConfigMap(configMap[c]) # Absent,
           GetTokenFromConfigMap(configMap'[c]) # Absent,
           GetTokenFromConfigMap(configMap'[c]) # GetTokenFromConfigMap(configMap[c])
    PROVE  ~IsTokenValid(tokens, RegisterName(c), GetTokenFromConfigMap(configMap[c]), loc.roles)
<1>0. GetTokenFromConfigMap(EmptyDocument) = Absent
  BY DEF GetTokenFromConfigMap, parseConfigMapValues, EmptyDocument
<1>1. /\ c = req /\ pc = "putConfigMap" /\ configMap[c] = loc.configMap
      /\ \E name : configMap'[c] = RenderConfigMapValues(name)
  BY <1>0, ConfigMapStep
<1>2. GetTokenFromConfigMap(configMap'[c]) = loc.token
  BY <1>1, RenderedToken
<1> QED
  BY <1>1, <1>2 DEF SpentInv, Spent

\* Reconcile replaces the token of a ConfigMap only when it is no longer good,
\* for any caches lagging, roles toggled, tokens expiring, failures and restarts.
THEOREM KubeTokensKept == Spec => ConfigMapTokenKept
<1>1. TypeInv /\ SpentInv /\ [Next]_vars
      => [ \A c \in Clusters :
             configMap[c] # Absent /\ configMap'[c] # Absent =>
                LET old == GetTokenFromConfigMap(configMap[c])
                    new == GetTokenFromConfigMap(configMap'[c])
                IN old # Absent /\ new # Absent /\ new # old
                   => ~IsTokenValid(tokens, RegisterName(c), old, loc.roles) ]_vars
  BY ReplacedKubeToken
<1>2. Init => SpentInv /\ HeldInv
  BY KeptInit
<1> QED
  BY <1>1, <1>2, TypeInit, TypeStep, FitInit, FitStep, HeldStep, SpentStep, PTL
     DEF Spec, ConfigMapTokenKept

=============================================================================
