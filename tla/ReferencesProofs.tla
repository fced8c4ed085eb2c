-------------------------- MODULE ReferencesProofs --------------------------
(***************************************************************************)
(* The references to ConfigMaps in HelmReleases and Apps: none is taken    *)
(* from a cluster that stays, and none of the bot's is to a ConfigMap that *)
(* is not there.                                                           *)
(***************************************************************************)
EXTENDS FinalizerProofs

-----------------------------------------------------------------------------
(* The end of a Cluster, where no other takes its name.                     *)

\* What a copy of a Cluster read earlier tells of a later one, when no Cluster is
\* created again: one that was gone is gone, one that was being deleted is gone
\* or being deleted.
Ends(copy, later) ==
    /\ copy = Absent => later = Absent
    /\ copy # Absent /\ copy.deleting => later = Absent \/ later.deleting

LifeInv ==
    /\ \A c \in Clusters : Ends(cachedCluster[c], cluster[c])
    /\ pc # "idle" => /\ Ends(loc.cluster, cluster[req])
                      /\ Ends(loc.cluster, cachedCluster[req])

\* The cache is up to date at the start.
LEMMA LifeInit == Init => LifeInv
<1> SUFFICES ASSUME Init PROVE LifeInv
  OBVIOUS
<1>1. pc = "idle" /\ cachedCluster = cluster
  BY DEF Init
<1> QED
  BY <1>1 DEF LifeInv, Ends

\* Where no Cluster is created again, every step keeps LifeInv.
LEMMA LifeStep ==
    ASSUME "recreate" \notin Env
    PROVE  TypeInv /\ LifeInv /\ [Next]_vars => LifeInv'
<1> SUFFICES ASSUME TypeInv, LifeInv, [Next]_vars PROVE LifeInv'
  OBVIOUS
<1>0. /\ pc # "idle" => req \in Clusters
      /\ pc' # "idle" => req' \in Clusters
  BY TypeStep DEF TypeInv, TypeOK, ProcessOK
<1>1. ASSUME NEW c \in Clusters, NEW copy, Ends(copy, cluster[c]) PROVE Ends(copy, cluster'[c])
  <2>1. CASE cluster'[c] = cluster[c]
    BY <1>1, <2>1
  <2>2. CASE \/ ChangedByOthers(cluster[c], cluster'[c])
             \/ Claimed(cluster[c], cluster'[c])
             \/ Dropped(cluster[c], cluster'[c])
    BY <1>1, <2>2 DEF Ends, ChangedByOthers, Claimed, Dropped, SameMark
  <2> QED
    BY <2>1, <2>2, ClusterStep
<1>2. ASSUME NEW c \in Clusters PROVE Ends(cachedCluster'[c], cluster'[c])
  <2>1. CASE cachedCluster'[c] = cluster[c] /\ UNCHANGED cluster
    BY <2>1 DEF Ends
  <2>2. CASE cachedCluster'[c] = cachedCluster[c]
    BY <1>1, <2>2 DEF LifeInv
  <2> QED
    BY <2>1, <2>2, CachedClusterStep
<1>3. ASSUME pc' # "idle"
      PROVE  /\ Ends(loc'.cluster, cluster'[req'])
             /\ Ends(loc'.cluster, cachedCluster'[req'])
  <2>1. CASE Begins
    <3>1. /\ req' \in Clusters /\ loc'.cluster = cachedCluster[req']
          /\ UNCHANGED <<cluster, cachedCluster>>
      BY <2>1 DEF Begins, objects, caches
    <3>2. Ends(cachedCluster[req'], cachedCluster[req'])
      BY DEF Ends
    <3> QED
      BY <3>1, <3>2 DEF LifeInv
  <2>2. CASE pc # "idle" /\ req' = req /\ loc'.cluster = loc.cluster
    <3>1. Ends(loc.cluster, cluster[req]) /\ Ends(loc.cluster, cachedCluster[req])
      BY <2>2 DEF LifeInv
    <3>2. Ends(loc.cluster, cluster'[req])
      BY <1>0, <1>1, <2>2, <3>1
    <3>3. Ends(loc.cluster, cachedCluster'[req])
      BY <1>0, <2>2, <3>1, CachedClusterStep
    <3> QED
      BY <2>2, <3>2, <3>3
  <2> QED
    BY <1>3, <2>1, <2>2, ProcessStep DEF GoesOn
<1> QED
  BY <1>2, <1>3 DEF LifeInv, Ends

-----------------------------------------------------------------------------
(* The references that stay.                                                *)

\* A reference that leaves a release that stays is one of the request's own, and
\* its cluster is going.
LEMMA TakenWhenEnding ==
    ASSUME TypeInv, BranchInv, LifeInv, [Next]_vars, NEW k \in Kinds, NEW r \in Resources,
           release[k][r] # Absent, release'[k][r] # Absent,
           NEW n \in release[k][r].refs \ release'[k][r].refs
    PROVE  \E c \in Clusters :
              /\ c = req /\ NameOf[c] = n
              /\ cluster[c] = Absent \/ cluster[c].deleting
<1>1. pc \in ForgetPCs /\ n = NameOf[req]
  BY ReleaseStep DEF RefsOf
<1>2. req \in Clusters /\ loc.cluster # Absent /\ loc.cluster.deleting /\ pc # "idle"
  BY <1>1 DEF TypeInv, TypeOK, ProcessOK, BranchInv, ForgetPCs, DeletePCs
<1> QED
  BY <1>1, <1>2 DEF LifeInv, Ends

\* As long as no Cluster takes the place of one that is gone, a cluster that
\* stays keeps its references, though all clusters share the bot's list and the
\* list may be read stale.
THEOREM ReferencesAreKept ==
    ASSUME "recreate" \notin Env
    PROVE  Spec => ReferencesKept
<1>1. TypeInv /\ BranchInv /\ LifeInv /\ [Next]_vars
      => [ \A k \in Kinds, r \in Resources :
             release[k][r] # Absent /\ release'[k][r] # Absent =>
                \A n \in release[k][r].refs \ release'[k][r].refs :
                   \E c \in Clusters :
                      /\ c = req /\ NameOf[c] = n
                      /\ cluster[c] = Absent \/ cluster[c].deleting ]_vars
  BY TakenWhenEnding
<1>2. TypeInv /\ LifeInv /\ [Next]_vars => LifeInv'
  BY LifeStep
<1> QED
  BY <1>1, <1>2, TypeInit, TypeStep, BranchInit, BranchStep, LifeInit, PTL
     DEF Spec, ReferencesKept

-----------------------------------------------------------------------------
(* The bot's references.                                                    *)

\* Either the bot's ConfigMap is read as it is, or the cache may show one that
\* was deleted, but then no other cluster, and no later one, goes by its name.
BotReadable ==
    \/ "lag" \notin Env
    \/ /\ "recreate" \notin Env
       /\ \A c, d \in Clusters : NameOf[c] = NameOf[d] => c = d

\* A ConfigMap of the bot that only the cache still shows is one of a cluster
\* that Reconcile will not register any more.
StaleInv ==
    "lag" \in Env =>
        \A c \in Clusters :
            NameOf[c] \in cachedTbotConfigMaps \ tbotConfigMaps =>
                /\ cachedCluster[c] = Absent \/ cachedCluster[c].deleting
                /\ pc # "idle" /\ req = c => loc.cluster.deleting

\* Reconcile makes the reference to a ConfigMap that is there.
BackedInv ==
    /\ TbotReferencesBacked
    /\ pc \in {"botDetect", "botEnsure"} => NameOf[req] \in tbotConfigMaps

\* The cache of the bot's ConfigMaps catches up while none of them changes.
LEMMA CachedTbotStep ==
    ASSUME [Next]_vars
    PROVE  \/ UNCHANGED cachedTbotConfigMaps
           \/ cachedTbotConfigMaps' = tbotConfigMaps /\ UNCHANGED tbotConfigMaps
<1>1. CASE Environment
  BY <1>1 DEF Environment, Restart, Read, Fails, IdentityExpires, TokenExpires, SyncCluster,
     SyncObjects, SyncApps, UserDeletes, ClusterGone, UserCreates, OtherFinalizerChanges,
     SetCluster, UserSetsValues, ObjectTouched, TbotWritesKubeconfig, ReleaseChanges,
     objects, caches
<1>2. ASSUME Delete \/ Register PROVE UNCHANGED cachedTbotConfigMaps
  BY <1>2 DEF Delete, ListTokens, DeleteToken, DeleteSecret, DeleteConfigMap,
     BotDetectDelete, BotDeleteConfig, DeleteTbotConfigMap, DeleteKubeconfigSecret,
     AgentDetectDelete, AgentDeleteConfig, RemoveFinalizer,
     Register, AddFinalizer, GetSecret, CheckNode, MintNode, PutSecret,
     GetTkaVersion, GetConfigMap, CheckKube, MintKube, PutConfigMap, AgentDetect,
     AgentEnsure, GetKubeconfigSecret, EnsureTbotConfigMap, BotDetect, BotEnsure, caches
<1>3. ASSUME \/ AreTeleportAppsEnabled \/ GetIdentityConfigFromSecret \/ NewClient
             \/ \E c \in Clusters : GetCluster(c)
             \/ UNCHANGED vars
      PROVE  UNCHANGED cachedTbotConfigMaps
  BY <1>3 DEF AreTeleportAppsEnabled, GetIdentityConfigFromSecret, NewClient,
     GetCluster, vars, caches
<1> QED
  BY <1>1, <1>2, <1>3 DEF Next, Continue

\* At the start there is neither a ConfigMap of the bot nor a reference to one.
LEMMA BackedInit == Init => StaleInv /\ BackedInv
<1> SUFFICES ASSUME Init PROVE StaleInv /\ BackedInv
  OBVIOUS
<1>1. ASSUME NEW k \in Kinds, release[k][Tbot] # Absent PROVE release[k][Tbot].refs = {}
  <2>1. PICK v \in TkaVersions : release[k][Tbot] = NewRelease(v)
    BY <1>1 DEF Init, OrAbsent, Resources
  <2> QED
    BY <2>1 DEF NewRelease
<1>2. pc = "idle" /\ cachedTbotConfigMaps = {}
  BY DEF Init
<1> QED
  BY <1>1, <1>2 DEF StaleInv, BackedInv, TbotReferencesBacked

\* Where BotReadable holds, every step keeps StaleInv.
LEMMA StaleStep ==
    ASSUME BotReadable
    PROVE  TypeInv /\ BranchInv /\ ("recreate" \notin Env => LifeInv) /\ StaleInv /\ [Next]_vars
           => StaleInv'
<1> SUFFICES ASSUME TypeInv, BranchInv, "recreate" \notin Env => LifeInv, StaleInv, [Next]_vars,
                    "lag" \in Env, NEW c \in Clusters,
                    NameOf[c] \in cachedTbotConfigMaps' \ tbotConfigMaps'
             PROVE  /\ cachedCluster'[c] = Absent \/ cachedCluster'[c].deleting
                    /\ pc' # "idle" /\ req' = c => loc'.cluster.deleting
  BY DEF StaleInv
<1>0. /\ LifeInv
      /\ \A d \in Clusters : NameOf[c] = NameOf[d] => c = d
  BY DEF BotReadable
<1>1. NameOf[c] \in cachedTbotConfigMaps
  BY CachedTbotStep
<1>2. /\ cachedCluster[c] = Absent \/ cachedCluster[c].deleting
      /\ pc # "idle" /\ req = c => loc.cluster.deleting
  <2>1. CASE NameOf[c] \notin tbotConfigMaps
    BY <1>1, <2>1 DEF StaleInv
  <2>2. CASE NameOf[c] \in tbotConfigMaps
    <3>1. pc = "deleteTbotConfigMap" /\ NameOf[c] = NameOf[req]
      BY <2>2, TbotWritten
    <3>2. req \in Clusters /\ loc.cluster # Absent /\ loc.cluster.deleting
      BY <3>1 DEF TypeInv, TypeOK, ProcessOK, BranchInv, DeletePCs
    <3> QED
      BY <1>0, <3>1, <3>2 DEF LifeInv, Ends
  <2> QED
    BY <2>1, <2>2
<1>3. cachedCluster'[c] = Absent \/ cachedCluster'[c].deleting
  BY <1>0, <1>2, CachedClusterStep DEF LifeInv, Ends
<1>4. ASSUME pc' # "idle", req' = c PROVE loc'.cluster.deleting
  BY <1>2, <1>4, ProcessStep DEF Begins, GoesOn
<1> QED
  BY <1>3, <1>4

\* EnsureTbotConfigMap is done only when the ConfigMap is there.
LEMMA EnsuredTbotConfigMap ==
    ASSUME BotReadable, TypeInv, BranchInv, StaleInv, EnsureTbotConfigMap, pc' # "idle"
    PROVE  req' = req /\ NameOf[req] \in tbotConfigMaps'
<1>1. pc = "ensureTbotConfigMap" /\ req' = req
  BY DEF EnsureTbotConfigMap, Goto, Requeue
<1>2. req \in Clusters /\ ~loc.cluster.deleting
  BY <1>1 DEF TypeInv, TypeOK, ProcessOK, BranchInv, RegisterPCs
<1>3. NameOf[req] \in Read(cachedTbotConfigMaps, tbotConfigMaps) => NameOf[req] \in tbotConfigMaps
  BY <1>1, <1>2 DEF Read, StaleInv
<1> QED
  BY <1>1, <1>3 DEF EnsureTbotConfigMap, Requeue

\* How Reconcile gets to the reference of the bot.
LEMMA BotFlow ==
    ASSUME [Next]_vars, pc' \in {"botDetect", "botEnsure"}
    PROVE  UNCHANGED <<pc, req>> \/ EnsureTbotConfigMap \/ (BotDetect /\ UNCHANGED req)
<1>1. ASSUME AreTeleportAppsEnabled \/ GetIdentityConfigFromSecret \/ NewClient PROVE FALSE
  BY <1>1 DEF AreTeleportAppsEnabled, GetIdentityConfigFromSecret, NewClient, FirstCall,
     Goto, Requeue
<1>2. ASSUME Delete PROVE FALSE
  BY <1>2 DEF Delete, ListTokens, DeleteToken, DeleteSecret, DeleteConfigMap,
     BotDetectDelete, BotDeleteConfig, DeleteTbotConfigMap, DeleteKubeconfigSecret,
     AgentDetectDelete, AgentDeleteConfig, RemoveFinalizer, DeleteConfig,
     PatchFinalizers, UpdateReferences, Goto, Stop, Requeue
<1>3. ASSUME Register, ~EnsureTbotConfigMap PROVE BotDetect /\ UNCHANGED req
  BY <1>3 DEF Register, AddFinalizer, GetSecret, CheckNode, MintNode, PutSecret,
     GetTkaVersion, GetConfigMap, CheckKube, MintKube, PutConfigMap, AgentDetect,
     AgentEnsure, GetKubeconfigSecret, BotDetect, BotEnsure, GenerateToken,
     CreateConfigMap, UpdateConfigMap, WriteConfigMap, EnsureConfig,
     PatchFinalizers, UpdateReferences, Goto, Requeue
<1>4. ASSUME \E c \in Clusters : GetCluster(c) PROVE UNCHANGED <<pc, req>>
  BY <1>4 DEF GetCluster
<1>5. ASSUME Environment \/ UNCHANGED vars PROVE UNCHANGED <<pc, req>>
  BY <1>5 DEF Environment, Restart, Fails, Requeue, IdentityExpires, TokenExpires,
     SyncCluster, SyncObjects, SyncApps, UserDeletes, ClusterGone, UserCreates,
     OtherFinalizerChanges, SetCluster, UserSetsValues, ObjectTouched,
     TbotWritesKubeconfig, ReleaseChanges, process, vars
<1> QED
  BY <1>1, <1>2, <1>3, <1>4, <1>5 DEF Next, Continue

\* Where there is one kind of release, every step keeps BackedInv.
LEMMA BackedStep ==
    ASSUME OneKind, BotReadable
    PROVE  TypeInv /\ BranchInv /\ CleanupInv /\ StaleInv /\ BackedInv /\ [Next]_vars
           => BackedInv'
<1> SUFFICES ASSUME TypeInv, BranchInv, CleanupInv, StaleInv, BackedInv, [Next]_vars
             PROVE  BackedInv'
  OBVIOUS
<1>1. ASSUME NEW k \in Kinds, release'[k][Tbot] # Absent
      PROVE  release'[k][Tbot].refs \subseteq tbotConfigMaps'
  <2>0. RefsOf(release[k][Tbot]) \subseteq tbotConfigMaps /\ Tbot \in Resources
    BY DEF BackedInv, TbotReferencesBacked, RefsOf, Resources
  <2>1. CASE RefsOf(release'[k][Tbot]) = RefsOf(release[k][Tbot])
    <3>1. CASE tbotConfigMaps \subseteq tbotConfigMaps'
      BY <1>1, <2>0, <2>1, <3>1 DEF RefsOf
    <3>2. CASE /\ pc = "deleteTbotConfigMap"
               /\ tbotConfigMaps' = tbotConfigMaps \ {NameOf[req]}
      <4>1. IsBotEnabled /\ pc \in PastBot
        BY <3>2 DEF BranchInv, BotPCs, PastBot
      <4>2. NameOf[req] \notin RefsOf(release[k][Tbot])
        BY <4>1 DEF CleanupInv, Unreferenced
      <4> QED
        BY <1>1, <2>0, <2>1, <3>2, <4>2 DEF RefsOf
    <3> QED
      BY <3>1, <3>2, TbotWritten
  <2>2. CASE /\ Subject = Tbot /\ release[k][Tbot] # Absent /\ UNCHANGED tbotConfigMaps
             /\ \/ /\ pc \in EnsurePCs
                   /\ release'[k][Tbot].refs = release[k][Tbot].refs \cup {NameOf[req]}
                \/ /\ pc \in ForgetPCs
                   /\ release'[k][Tbot].refs = release[k][Tbot].refs \ {NameOf[req]}
    <3>1. pc \in EnsurePCs => pc = "botEnsure"
      BY <2>2, ConstantsAssumption DEF EnsurePCs, Subject, TypeInv, TypeOK, ProcessOK
    <3> QED
      BY <2>0, <2>2, <3>1 DEF BackedInv, RefsOf
  <2> QED
    BY <1>1, <2>0, <2>1, <2>2, ReleaseStep
<1>2. ASSUME pc' \in {"botDetect", "botEnsure"} PROVE NameOf[req'] \in tbotConfigMaps'
  <2>1. CASE EnsureTbotConfigMap
    BY <1>2, <2>1, EnsuredTbotConfigMap
  <2>2. CASE UNCHANGED <<pc, req>> \/ (BotDetect /\ UNCHANGED req)
    <3>1. pc \in {"botDetect", "botEnsure"} /\ req' = req
      BY <1>2, <2>2 DEF BotDetect
    <3> QED
      BY <3>1, TbotWritten DEF BackedInv
  <2> QED
    BY <1>2, <2>1, <2>2, BotFlow
<1> QED
  BY <1>1, <1>2 DEF BackedInv, TbotReferencesBacked

\* Where releases are of one kind and read as they are, tbot is never pointed at a
\* ConfigMap that is not there: across failures, restarts, uninstalled releases
\* and clusters that share a name or a stale cache.
THEOREM BotReferencesBacked ==
    ASSUME OneKind, BotReadable
    PROVE  Spec => []TbotReferencesBacked
<1> DEFINE IInv == /\ TypeInv /\ BranchInv /\ CleanupInv
                   /\ "recreate" \notin Env => LifeInv
                   /\ StaleInv /\ BackedInv
<1>1. Init => IInv
  BY TypeInit, BranchInit, CleanupInit, LifeInit, BackedInit
<1>2. IInv /\ [Next]_vars => IInv'
  <2>1. SUFFICES ASSUME IInv, [Next]_vars PROVE IInv'
    OBVIOUS
  <2>2. "recreate" \notin Env => LifeInv'
    BY <2>1, LifeStep
  <2>3. TypeInv' /\ BranchInv' /\ CleanupInv'
    BY <2>1, TypeStep, BranchStep, CleanupStep
  <2>4. StaleInv' /\ BackedInv'
    BY <2>1, StaleStep, BackedStep
  <2> QED
    BY <2>2, <2>3, <2>4
<1>3. IInv => TbotReferencesBacked
  BY DEF BackedInv
<1> HIDE DEF IInv
<1> QED
  BY <1>1, <1>2, <1>3, PTL DEF Spec

=============================================================================
