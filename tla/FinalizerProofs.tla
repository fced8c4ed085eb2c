--------------------------- MODULE FinalizerProofs ---------------------------
(***************************************************************************)
(* The finalizer: what is gone when it is dropped, whose finalizers the    *)
(* patch that drops it keeps, and that it guards all that is published.    *)
(*                                                                         *)
(* Lemmas on what one step may do to the process, the Clusters and the     *)
(* objects come first.  None of the three properties is inductive.         *)
(* CleanupInv says which objects are gone at each call of the deletion     *)
(* branch, ListInv how stale the Cluster that was read can be, and         *)
(* ClaimInv what a stale Cluster with the finalizer tells of the live one. *)
(***************************************************************************)
EXTENDS ClusterReconcilerProofs

-----------------------------------------------------------------------------
(* What one step may do to the process.                                     *)

\* The calls made for the bot.
BotPCs == {"botDetectDelete", "botDeleteConfig", "deleteTbotConfigMap",
           "deleteKubeconfigSecret", "getKubeconfigSecret", "ensureTbotConfigMap",
           "botDetect", "botEnsure"}

\* A request is taken up with the Cluster in the cache.
Begins ==
    /\ pc = "idle"
    /\ pc' = "appsEnabled"
    /\ req' \in Clusters
    /\ cachedCluster[req'] # Absent
    /\ loc'.cluster = cachedCluster[req']
    /\ UNCHANGED <<objects, caches, config>>

\* A reconcile goes on with the same request, Cluster and flags.
GoesOn ==
    /\ pc # "idle"
    /\ req' = req
    /\ loc'.cluster = loc.cluster
    /\ UNCHANGED <<caches, config>>

\* The process is idle after a step, rests, takes up a request or goes on with
\* the one it has.
LEMMA ProcessStep ==
    ASSUME TypeInv, [Next]_vars
    PROVE  pc' = "idle" \/ UNCHANGED <<pc, req, loc, config>> \/ Begins \/ GoesOn
<1>0. loc \in Locals
  BY DEF TypeInv, TypeOK, ProcessOK
<1>1. ASSUME NEW c \in Clusters, GetCluster(c) PROVE pc' = "idle" \/ Begins
  <2>1. [Blank EXCEPT !.cluster = cachedCluster[c]].cluster = cachedCluster[c]
    BY DEF Blank
  <2> QED
    BY <1>1, <2>1 DEF GetCluster, Begins, session
<1>2. ASSUME pc # "idle", UNCHANGED <<caches, config>>, NEW p, NEW l,
             l.cluster = loc.cluster, Goto(p, l)
      PROVE  GoesOn
  BY <1>2 DEF Goto, GoesOn
<1>3. \A x : /\ [loc EXCEPT !.roles = x].cluster = loc.cluster
             /\ [loc EXCEPT !.secret = x].cluster = loc.cluster
             /\ [loc EXCEPT !.configMap = x].cluster = loc.cluster
             /\ [loc EXCEPT !.token = x].cluster = loc.cluster
             /\ [loc EXCEPT !.tkaVersion = x].cluster = loc.cluster
             /\ [loc EXCEPT !.manager = x].cluster = loc.cluster
  BY <1>0 DEF Locals
<1>4. [loc EXCEPT !.secret = Absent, !.token = Absent].cluster = loc.cluster
  BY <1>0 DEF Locals
<1>5. AfterConfigMap.cluster = loc.cluster
  BY <1>0, AfterType
<1>6. CASE AreTeleportAppsEnabled \/ GetIdentityConfigFromSecret \/ NewClient
  <2>1. pc # "idle" /\ UNCHANGED <<caches, config>>
    BY <1>6 DEF AreTeleportAppsEnabled, GetIdentityConfigFromSecret, NewClient, session
  <2>2. \/ pc' = "idle"
        \/ \E p : Goto(p, loc)
        \/ \E p, x : Goto(p, [loc EXCEPT !.roles = x])
    BY <1>6 DEF AreTeleportAppsEnabled, GetIdentityConfigFromSecret, NewClient, Requeue
  <2> QED
    BY <1>2, <1>3, <2>1, <2>2
<1>7. CASE Delete
  <2>1. pc # "idle" /\ UNCHANGED <<caches, config>>
    BY <1>7 DEF Delete, ListTokens, DeleteToken, DeleteSecret, DeleteConfigMap,
       BotDetectDelete, BotDeleteConfig, DeleteTbotConfigMap, DeleteKubeconfigSecret,
       AgentDetectDelete, AgentDeleteConfig, RemoveFinalizer, session
  <2>2. \/ pc' = "idle"
        \/ \E p : Goto(p, loc)
        \/ \E p, x : Goto(p, [loc EXCEPT !.token = x])
        \/ \E p, x : Goto(p, [loc EXCEPT !.manager = x])
    BY <1>7 DEF Delete, ListTokens, DeleteToken, DeleteSecret, DeleteConfigMap,
       BotDetectDelete, BotDeleteConfig, DeleteTbotConfigMap, DeleteKubeconfigSecret,
       AgentDetectDelete, AgentDeleteConfig, RemoveFinalizer, DeleteConfig,
       PatchFinalizers, UpdateReferences, Stop, Requeue
  <2> QED
    BY <1>2, <1>3, <2>1, <2>2
<1>8. CASE Register
  <2>1. pc # "idle" /\ UNCHANGED <<caches, config>>
    BY <1>8 DEF Register, AddFinalizer, GetSecret, CheckNode, MintNode, PutSecret,
       GetTkaVersion, GetConfigMap, CheckKube, MintKube, PutConfigMap, AgentDetect,
       AgentEnsure, GetKubeconfigSecret, EnsureTbotConfigMap, BotDetect, BotEnsure, session
  <2>2. \/ pc' = "idle"
        \/ \E p : Goto(p, loc)
        \/ \E p, x : Goto(p, [loc EXCEPT !.secret = x])
        \/ \E p : Goto(p, [loc EXCEPT !.secret = Absent, !.token = Absent])
        \/ \E p, x : Goto(p, [loc EXCEPT !.configMap = x])
        \/ \E p, x : Goto(p, [loc EXCEPT !.token = x])
        \/ \E p, x : Goto(p, [loc EXCEPT !.tkaVersion = x])
        \/ \E p, x : Goto(p, [loc EXCEPT !.manager = x])
        \/ \E p : Goto(p, AfterConfigMap)
    <3>1. CASE AddFinalizer \/ GetSecret \/ CheckNode \/ PutSecret \/ GetTkaVersion
      BY <3>1 DEF AddFinalizer, GetSecret, CheckNode, PutSecret, GetTkaVersion,
         PatchFinalizers, Requeue
    <3>2. CASE MintNode \/ MintKube
      BY <3>2 DEF MintNode, MintKube, GenerateToken, Requeue
    <3>3. CASE GetConfigMap \/ CheckKube \/ PutConfigMap
      BY <3>3 DEF GetConfigMap, CheckKube, PutConfigMap, CreateConfigMap,
         UpdateConfigMap, WriteConfigMap, Requeue
    <3>4. CASE AgentDetect \/ BotDetect \/ AgentEnsure \/ BotEnsure
      BY <3>4 DEF AgentDetect, BotDetect, AgentEnsure, BotEnsure, EnsureConfig,
         UpdateReferences, Requeue
    <3>5. CASE GetKubeconfigSecret \/ EnsureTbotConfigMap
      BY <3>5 DEF GetKubeconfigSecret, EnsureTbotConfigMap, Requeue
    <3> QED
      BY <1>8, <3>1, <3>2, <3>3, <3>4, <3>5 DEF Register
  <2> QED
    BY <1>2, <1>3, <1>4, <1>5, <2>1, <2>2
<1>9. CASE Environment
  BY <1>9 DEF Environment, Restart, Fails, Requeue, IdentityExpires, TokenExpires,
     SyncCluster, SyncObjects, SyncApps, UserDeletes, ClusterGone, UserCreates,
     OtherFinalizerChanges, SetCluster, UserSetsValues, ObjectTouched,
     TbotWritesKubeconfig, ReleaseChanges, process, session
<1>10. CASE UNCHANGED vars
  BY <1>10 DEF vars, process, session
<1> QED
  BY <1>1, <1>6, <1>7, <1>8, <1>9, <1>10 DEF Next, Continue

\* The branch Reconcile is in is the one for the Cluster it has read, and the
\* bot's calls are made with --tbot only.
BranchInv ==
    /\ pc \in DeletePCs => loc.cluster.deleting
    /\ pc \in RegisterPCs => ~loc.cluster.deleting
    /\ pc = "removeFinalizer" => loc.cluster.finalizer
    /\ pc = "addFinalizer" => ~loc.cluster.finalizer
    /\ pc \in BotPCs => IsBotEnabled

\* No branch is entered yet.
LEMMA BranchInit == Init => BranchInv
BY DEF Init, BranchInv, DeletePCs, RegisterPCs, BotPCs

\* Every step keeps Reconcile in its branch.
LEMMA BranchStep == TypeInv /\ BranchInv /\ [Next]_vars => BranchInv'
<1> SUFFICES ASSUME TypeInv, BranchInv, [Next]_vars PROVE BranchInv'
  OBVIOUS
<1>1. CASE pc' = "idle"
  BY <1>1 DEF BranchInv, DeletePCs, RegisterPCs, BotPCs
<1>2. CASE UNCHANGED <<pc, req, loc, config>>
  BY <1>2 DEF BranchInv, IsBotEnabled
<1>3. CASE Begins
  BY <1>3 DEF Begins, BranchInv, DeletePCs, RegisterPCs, BotPCs
<1>4. CASE GoesOn /\ pc' # "idle" /\ ~(UNCHANGED <<pc, req, loc, config>>)
  <2>1. loc'.cluster = loc.cluster /\ (IsBotEnabled' <=> IsBotEnabled)
    BY <1>4 DEF GoesOn, IsBotEnabled
  <2>2. CASE AreTeleportAppsEnabled
    BY <1>4, <2>2 DEF AreTeleportAppsEnabled, Goto, Requeue, BranchInv, DeletePCs,
       RegisterPCs, BotPCs
  <2>3. CASE GetIdentityConfigFromSecret \/ NewClient
    <3>1. pc' \in {"newClient", FirstCall}
      BY <2>3 DEF GetIdentityConfigFromSecret, NewClient, Goto
    <3> QED
      BY <2>1, <3>1 DEF FirstCall, BranchInv, DeletePCs, RegisterPCs, BotPCs
  <2>4. CASE Delete
    <3>1. /\ pc \in DeletePCs /\ pc' \in DeletePCs
          /\ pc' = "removeFinalizer" => loc.cluster.finalizer
          /\ pc' \in BotPCs => pc \in BotPCs \/ IsBotEnabled
      BY <1>4, <2>4 DEF Delete, ListTokens, DeleteToken, DeleteSecret, DeleteConfigMap,
         BotDetectDelete, BotDeleteConfig, DeleteTbotConfigMap, DeleteKubeconfigSecret,
         AgentDetectDelete, AgentDeleteConfig, RemoveFinalizer, DeleteConfig,
         PatchFinalizers, UpdateReferences, Goto, Stop, Requeue, DeletePCs, BotPCs
    <3> QED
      BY <2>1, <3>1 DEF BranchInv, DeletePCs, RegisterPCs
  <2>5. CASE Register
    <3>1. /\ pc \in RegisterPCs /\ pc' \in RegisterPCs \ {"addFinalizer"}
          /\ pc' \in BotPCs => pc \in BotPCs \/ IsBotEnabled
      BY <1>4, <2>5 DEF Register, AddFinalizer, GetSecret, CheckNode, MintNode, PutSecret,
         GetTkaVersion, GetConfigMap, CheckKube, MintKube, PutConfigMap, AgentDetect,
         AgentEnsure, GetKubeconfigSecret, EnsureTbotConfigMap, BotDetect, BotEnsure,
         GenerateToken, CreateConfigMap, UpdateConfigMap, WriteConfigMap, EnsureConfig,
         PatchFinalizers, UpdateReferences, Goto, Requeue, RegisterPCs, BotPCs
    <3> QED
      BY <2>1, <3>1 DEF BranchInv, DeletePCs, RegisterPCs
  <2>6. ASSUME NEW c \in Clusters, GetCluster(c) PROVE FALSE
    BY <1>4, <2>6 DEF GetCluster, GoesOn
  <2>7. ASSUME Environment \/ UNCHANGED vars PROVE FALSE
    BY <1>4, <2>7 DEF Environment, Restart, Fails, Requeue, IdentityExpires, TokenExpires,
       SyncCluster, SyncObjects, SyncApps, UserDeletes, ClusterGone, UserCreates,
       OtherFinalizerChanges, SetCluster, UserSetsValues, ObjectTouched,
       TbotWritesKubeconfig, ReleaseChanges, process, session, vars
  <2> QED
    BY <2>2, <2>3, <2>4, <2>5, <2>6, <2>7 DEF Next, Continue
<1> QED
  BY <1>1, <1>2, <1>3, <1>4, ProcessStep

-----------------------------------------------------------------------------
(* What one step may do to a Cluster and to the cache of the Clusters.      *)

\* Both exist, and only the lists of finalizers may differ.
SameMark(old, new) == old # Absent /\ new # Absent /\ new.deleting = old.deleting

\* Of a Cluster being deleted the list of finalizers never grows.
Shrinks(old, new) == old.deleting => new.others \subseteq old.others

\* A user deletes it, it goes, it comes back, or another controller edits it.
ChangedByOthers(old, new) ==
    \/ /\ old # Absent /\ new # Absent
       /\ ~old.deleting /\ new.deleting
       /\ new.finalizer = old.finalizer /\ new.others = old.others
    \/ old # Absent /\ old.deleting /\ ~old.finalizer /\ new = Absent
    \/ "recreate" \in Env /\ old = Absent /\ new # Absent /\ ~new.deleting /\ ~new.finalizer
    \/ SameMark(old, new) /\ new.finalizer = old.finalizer /\ Shrinks(old, new)

\* Reconcile patches the Cluster of its request.
Claimed(old, new) ==
    /\ pc = "addFinalizer"
    /\ SameMark(old, new) /\ new.finalizer /\ new.others = loc.cluster.others
    /\ old.deleting => old.finalizer /\ new.others \subseteq old.others

Dropped(old, new) ==
    /\ pc = "removeFinalizer" /\ pc' = "idle"
    /\ SameMark(old, new) /\ ~new.finalizer /\ new.others = loc.cluster.others
    /\ Shrinks(old, new)

\* Only the Cluster c changes, while the process goes on.
OnlyPatched(c) ==
    /\ \A d \in Clusters \ {c} : cluster'[d] = cluster[d]
    /\ UNCHANGED <<secret, configMap, tbotConfigMaps, kubeconfigs, userValues, release,
                   tokens, caches, session>>

\* Only the Cluster c changes, and the process rests.
OnlyCluster(c) == OnlyPatched(c) /\ UNCHANGED process

\* Patching the finalizers of a Cluster changes its list and nothing else.
LEMMA PatchStep ==
    ASSUME TypeInv, pc # "idle", NEW own \in BOOLEAN, NEW ACTION next,
           PatchFinalizers(own, next)
    PROVE  \/ UNCHANGED cluster
           \/ /\ \A d \in Clusters \ {req} : cluster'[d] = cluster[d]
              /\ SameMark(cluster[req], cluster'[req])
              /\ cluster'[req].finalizer = own
              /\ cluster'[req].others = loc.cluster.others
              /\ cluster[req].deleting =>
                    /\ loc.cluster.others \subseteq cluster[req].others
                    /\ own => cluster[req].finalizer
<1>0. cluster \in [Clusters -> OrAbsent(ClusterObject)] /\ req \in Clusters
  BY DEF TypeInv, TypeOK, ObjectsOK, ProcessOK
<1>1. CASE UNCHANGED cluster
  BY <1>1
<1>2. CASE ~(UNCHANGED cluster)
  <2> DEFINE new == [cluster[req] EXCEPT !.finalizer = own, !.others = loc.cluster.others]
  <2>1. /\ cluster[req] # Absent
        /\ cluster' = [cluster EXCEPT ![req] = new]
        /\ cluster[req].deleting =>
              /\ loc.cluster.others \subseteq cluster[req].others
              /\ own => cluster[req].finalizer
    BY <1>2 DEF PatchFinalizers
  <2>2. cluster' \in [Clusters -> OrAbsent(ClusterObject)]
    BY <1>0, <2>1, PatchType DEF TypeInv, TypeOK
  <2>3. cluster[req] \in ClusterObject
    BY <1>0, <2>1 DEF OrAbsent
  <2>4. /\ new.deleting = cluster[req].deleting
        /\ new.finalizer = own
        /\ new.others = loc.cluster.others
    BY <2>3 DEF ClusterObject
  <2>5. new \in ClusterObject
    <3>1. loc.cluster \in ClusterObject
      BY DEF TypeInv, TypeOK, ProcessOK, Locals, OrAbsent
    <3> QED
      BY <2>3, <3>1 DEF ClusterObject
  <2>6. new # Absent
    BY <2>5, AbsentIsNoObject
  <2>7. cluster'[req] = new /\ \A d \in Clusters \ {req} : cluster'[d] = cluster[d]
    BY <1>0, <2>1
  <2> QED
    BY <2>1, <2>4, <2>6, <2>7 DEF SameMark
<1> QED
  BY <1>1, <1>2

\* A Cluster changes by its users and controllers, or by a patch of Reconcile.
LEMMA ClusterStep ==
    ASSUME TypeInv, [Next]_vars, NEW c \in Clusters
    PROVE  \/ cluster'[c] = cluster[c]
           \/ ChangedByOthers(cluster[c], cluster'[c]) /\ OnlyCluster(c)
           \/ c = req /\ Claimed(cluster[c], cluster'[c]) /\ OnlyPatched(c)
           \/ c = req /\ Dropped(cluster[c], cluster'[c]) /\ OnlyPatched(c)
<1> DEFINE Goal == \/ cluster'[c] = cluster[c]
                   \/ ChangedByOthers(cluster[c], cluster'[c]) /\ OnlyCluster(c)
                   \/ c = req /\ Claimed(cluster[c], cluster'[c]) /\ OnlyPatched(c)
                   \/ c = req /\ Dropped(cluster[c], cluster'[c]) /\ OnlyPatched(c)
<1>0. cluster \in [Clusters -> OrAbsent(ClusterObject)]
  BY DEF TypeInv, TypeOK, ObjectsOK
<1>1. CASE UNCHANGED cluster
  BY <1>1
<1>2. CASE AddFinalizer
  <2>1. pc = "addFinalizer" /\ PatchFinalizers(TRUE, Goto("getSecret", loc))
    BY <1>2 DEF AddFinalizer
  <2> QED
    BY <1>2, <2>1, PatchStep DEF AddFinalizer, Claimed, OnlyPatched
<1>3. CASE RemoveFinalizer
  <2>1. pc = "removeFinalizer" /\ PatchFinalizers(FALSE, Stop)
    BY <1>3 DEF RemoveFinalizer
  <2>2. pc' = "idle"
    BY <2>1 DEF PatchFinalizers, Stop, Requeue
  <2> QED
    BY <1>3, <2>1, <2>2, PatchStep DEF RemoveFinalizer, Dropped, OnlyPatched, Shrinks
<1>4. ASSUME NEW d \in Clusters, NEW x, SetCluster(d, x)
      PROVE  /\ \A e \in Clusters \ {d} : cluster'[e] = cluster[e]
             /\ cluster'[d] = x
             /\ OnlyCluster(d)
  BY <1>0, <1>4 DEF SetCluster, OnlyCluster, OnlyPatched
<1>5. ASSUME NEW d \in Clusters, UserDeletes(d) PROVE Goal
  <2> DEFINE x == [cluster[d] EXCEPT !.deleting = TRUE]
  <2>1. cluster[d] \in ClusterObject /\ ~cluster[d].deleting /\ SetCluster(d, x)
    BY <1>0, <1>5 DEF UserDeletes, OrAbsent
  <2>2. x \in ClusterObject /\ x.deleting /\ x.finalizer = cluster[d].finalizer
        /\ x.others = cluster[d].others
    BY <2>1 DEF ClusterObject
  <2>3. x # Absent /\ cluster[d] # Absent
    BY <2>1, <2>2, AbsentIsNoObject
  <2> HIDE DEF x
  <2> QED
    BY <1>4, <2>1, <2>2, <2>3 DEF ChangedByOthers
<1>6. ASSUME NEW d \in Clusters, ClusterGone(d) PROVE Goal
  BY <1>4, <1>6 DEF ClusterGone, ChangedByOthers
<1>7. ASSUME NEW d \in Clusters, UserCreates(d) PROVE Goal
  <2>1. PICK x \in NewClusters : SetCluster(d, x)
    BY <1>7 DEF UserCreates
  <2>2. x \in ClusterObject /\ ~x.deleting /\ ~x.finalizer
    <3>1. PICK S \in SUBSET OtherFinalizers :
             x = [deleting |-> FALSE, finalizer |-> FALSE, others |-> S]
      BY DEF NewClusters
    <3> QED
      BY <3>1 DEF ClusterObject
  <2> QED
    BY <1>4, <1>7, <2>1, <2>2, AbsentIsNoObject DEF UserCreates, Disturb, ChangedByOthers
<1>8. ASSUME NEW d \in Clusters, OtherFinalizerChanges(d) PROVE Goal
  <2>1. cluster[d] \in ClusterObject /\ cluster[d] # Absent
    BY <1>0, <1>8 DEF OtherFinalizerChanges, OrAbsent
  <2>2. PICK S \in SUBSET OtherFinalizers :
           /\ SetCluster(d, [cluster[d] EXCEPT !.others = S])
           /\ cluster[d].deleting => S \subseteq cluster[d].others
    <3>1. PICK f \in OtherFinalizers :
             \/ /\ ~cluster[d].deleting
                /\ SetCluster(d, [cluster[d] EXCEPT !.others = cluster[d].others \cup {f}])
             \/ SetCluster(d, [cluster[d] EXCEPT !.others = cluster[d].others \ {f}])
      BY <1>8 DEF OtherFinalizerChanges
    <3>2. /\ cluster[d].others \cup {f} \in SUBSET OtherFinalizers
          /\ cluster[d].others \ {f} \in SUBSET OtherFinalizers
      BY <2>1 DEF ClusterObject
    <3> QED
      BY <3>1, <3>2
  <2> DEFINE x == [cluster[d] EXCEPT !.others = S]
  <2>3. /\ x \in ClusterObject
        /\ x.deleting = cluster[d].deleting /\ x.finalizer = cluster[d].finalizer
        /\ x.others = S
    BY <2>1 DEF ClusterObject
  <2>4. x # Absent
    BY <2>3, AbsentIsNoObject
  <2> HIDE DEF x
  <2> QED
    BY <1>4, <2>1, <2>2, <2>3, <2>4 DEF x, ChangedByOthers, SameMark, Shrinks
<1>9. ASSUME Delete, ~RemoveFinalizer PROVE UNCHANGED cluster
  BY <1>9 DEF Delete, ListTokens, DeleteToken, DeleteSecret, DeleteConfigMap,
     BotDetectDelete, BotDeleteConfig, DeleteTbotConfigMap, DeleteKubeconfigSecret,
     AgentDetectDelete, AgentDeleteConfig, objects
<1>10. ASSUME Register, ~AddFinalizer PROVE UNCHANGED cluster
  BY <1>10 DEF Register, GetSecret, CheckNode, MintNode, PutSecret, GetTkaVersion,
     GetConfigMap, CheckKube, MintKube, PutConfigMap, AgentDetect, AgentEnsure,
     GetKubeconfigSecret, EnsureTbotConfigMap, BotDetect, BotEnsure, objects
<1>11. ASSUME Environment,
              ~\E d \in Clusters :
                 UserDeletes(d) \/ ClusterGone(d) \/ UserCreates(d) \/ OtherFinalizerChanges(d)
       PROVE  UNCHANGED cluster
  BY <1>11 DEF Environment, Restart, Fails, IdentityExpires, TokenExpires, SyncCluster,
     SyncObjects, SyncApps, UserSetsValues, ObjectTouched, TbotWritesKubeconfig,
     ReleaseChanges, objects
<1>12. ASSUME \/ AreTeleportAppsEnabled \/ GetIdentityConfigFromSecret \/ NewClient
              \/ \E d \in Clusters : GetCluster(d)
              \/ UNCHANGED vars
       PROVE  UNCHANGED cluster
  BY <1>12 DEF AreTeleportAppsEnabled, GetIdentityConfigFromSecret, NewClient,
     GetCluster, vars, objects
<1> QED
  BY <1>1, <1>2, <1>3, <1>5, <1>6, <1>7, <1>8, <1>9, <1>10, <1>11, <1>12 DEF Next, Continue

\* The cache of the Clusters catches up with a Cluster while no Cluster changes.
LEMMA CachedClusterStep ==
    ASSUME TypeInv, [Next]_vars, NEW c \in Clusters
    PROVE  \/ cachedCluster'[c] = cachedCluster[c]
           \/ cachedCluster'[c] = cluster[c] /\ UNCHANGED cluster
<1>0. cachedCluster \in [Clusters -> OrAbsent(ClusterObject)]
  BY DEF TypeInv, TypeOK, CachesOK
<1>1. CASE Restart
  BY <1>1 DEF Restart, objects
<1>2. ASSUME NEW d \in Clusters, SyncCluster(d)
      PROVE  \/ cachedCluster'[c] = cachedCluster[c]
             \/ cachedCluster'[c] = cluster[c] /\ UNCHANGED cluster
  BY <1>0, <1>2 DEF SyncCluster, objects
<1>3. ASSUME Environment, ~Restart, ~\E d \in Clusters : SyncCluster(d)
      PROVE  UNCHANGED cachedCluster
  BY <1>3 DEF Environment, Fails, IdentityExpires, TokenExpires, SyncObjects, SyncApps,
     UserDeletes, ClusterGone, UserCreates, OtherFinalizerChanges, SetCluster,
     UserSetsValues, ObjectTouched, TbotWritesKubeconfig, ReleaseChanges, caches
<1>4. ASSUME Delete \/ Register PROVE UNCHANGED cachedCluster
  BY <1>4 DEF Delete, ListTokens, DeleteToken, DeleteSecret, DeleteConfigMap,
     BotDetectDelete, BotDeleteConfig, DeleteTbotConfigMap, DeleteKubeconfigSecret,
     AgentDetectDelete, AgentDeleteConfig, RemoveFinalizer,
     Register, AddFinalizer, GetSecret, CheckNode, MintNode, PutSecret,
     GetTkaVersion, GetConfigMap, CheckKube, MintKube, PutConfigMap, AgentDetect,
     AgentEnsure, GetKubeconfigSecret, EnsureTbotConfigMap, BotDetect, BotEnsure, caches
<1>5. ASSUME \/ AreTeleportAppsEnabled \/ GetIdentityConfigFromSecret \/ NewClient
             \/ \E d \in Clusters : GetCluster(d)
             \/ UNCHANGED vars
      PROVE  UNCHANGED cachedCluster
  BY <1>5 DEF AreTeleportAppsEnabled, GetIdentityConfigFromSecret, NewClient,
     GetCluster, vars, caches
<1> QED
  BY <1>1, <1>2, <1>3, <1>4, <1>5 DEF Next, Continue

-----------------------------------------------------------------------------
(* The finalizers of other controllers.                                     *)

\* While a Cluster that was being deleted when it was read keeps the operator's
\* finalizer, it is being deleted and its list can only have shrunk.
Outlived(copy, live) ==
    copy # Absent /\ copy.deleting /\ copy.finalizer /\ live # Absent /\ live.finalizer
    => live.deleting /\ live.others \subseteq copy.others

\* So it is with the Cluster in the cache and with the one at hand.  The third
\* part is about a Cluster at hand that is older than the one in the cache:
\* nobody but Reconcile itself could have dropped the finalizer meanwhile.
ListInv ==
    /\ \A c \in Clusters : Outlived(cachedCluster[c], cluster[c])
    /\ pc # "idle" => Outlived(loc.cluster, cluster[req])
    /\ pc # "idle" /\ ~loc.cluster.deleting =>
          LET copy == cachedCluster[req]
              live == cluster[req]
          IN copy # Absent /\ copy.deleting /\ copy.finalizer
             => live # Absent /\ live.deleting /\ live.finalizer

\* At the start the cache is up to date.
LEMMA ListInit == Init => ListInv
<1> SUFFICES ASSUME Init PROVE ListInv
  OBVIOUS
<1>1. pc = "idle" /\ cachedCluster = cluster
  BY DEF Init
<1> QED
  BY <1>1 DEF ListInv, Outlived

\* Every step keeps ListInv: on a Cluster being deleted the list only shrinks,
\* also by the patch of AddFinalizer.
LEMMA ListStep == TypeInv /\ BranchInv /\ ListInv /\ [Next]_vars => ListInv'
<1> SUFFICES ASSUME TypeInv, BranchInv, ListInv, [Next]_vars PROVE ListInv'
  OBVIOUS
<1>0. /\ pc # "idle" => req \in Clusters
      /\ pc' # "idle" => req' \in Clusters
  BY TypeStep DEF TypeInv, TypeOK, ProcessOK
<1>1. ASSUME NEW c \in Clusters PROVE Outlived(cachedCluster'[c], cluster'[c])
  <2>1. CASE cachedCluster'[c] = cluster[c] /\ UNCHANGED cluster
    BY <2>1 DEF Outlived
  <2>2. CASE cachedCluster'[c] = cachedCluster[c]
    <3>1. Outlived(cachedCluster[c], cluster[c])
      BY DEF ListInv
    <3>2. CASE cluster'[c] = cluster[c]
      BY <2>2, <3>1, <3>2
    <3>3. CASE ChangedByOthers(cluster[c], cluster'[c])
      BY <2>2, <3>1, <3>3 DEF Outlived, ChangedByOthers, SameMark, Shrinks
    <3>4. CASE c = req /\ Claimed(cluster[c], cluster'[c])
      <4>1. pc # "idle" /\ ~loc.cluster.deleting
        BY <3>4 DEF Claimed, BranchInv, RegisterPCs
      <4> QED
        BY <2>2, <3>1, <3>4, <4>1 DEF Outlived, Claimed, SameMark, ListInv
    <3>5. CASE Dropped(cluster[c], cluster'[c])
      BY <3>5 DEF Outlived, Dropped
    <3> QED
      BY <3>2, <3>3, <3>4, <3>5, ClusterStep
  <2> QED
    BY <2>1, <2>2, CachedClusterStep
<1>2. ASSUME pc # "idle", req \in Clusters, loc.cluster.deleting
      PROVE  Outlived(loc.cluster, cluster'[req])
  <2>1. Outlived(loc.cluster, cluster[req]) /\ pc # "addFinalizer"
    BY <1>2 DEF ListInv, BranchInv, RegisterPCs
  <2> QED
    BY <1>2, <2>1, ClusterStep DEF Outlived, ChangedByOthers, Claimed, Dropped, SameMark, Shrinks
<1>3. ASSUME pc' # "idle" PROVE Outlived(loc'.cluster, cluster'[req'])
  <2>1. CASE Begins
    BY <1>0, <1>3, <2>1 DEF Begins, ListInv, objects
  <2>2. CASE pc # "idle" /\ req' = req /\ loc'.cluster = loc.cluster
    BY <1>0, <1>2, <2>2 DEF Outlived
  <2> QED
    BY <1>3, <2>1, <2>2, ProcessStep DEF GoesOn
<1>4. ASSUME pc' # "idle", ~loc'.cluster.deleting,
             cachedCluster'[req'] # Absent,
             cachedCluster'[req'].deleting, cachedCluster'[req'].finalizer
      PROVE  /\ cluster'[req'] # Absent
             /\ cluster'[req'].deleting /\ cluster'[req'].finalizer
  <2>1. CASE Begins
    BY <1>4, <2>1 DEF Begins, caches
  <2>2. CASE pc # "idle" /\ req' = req /\ loc'.cluster = loc.cluster
    <3>1. req \in Clusters /\ pc # "removeFinalizer"
      BY <1>0, <1>4, <2>2 DEF BranchInv, DeletePCs
    <3>2. CASE cachedCluster'[req] = cluster[req] /\ UNCHANGED cluster
      BY <1>4, <2>2, <3>2
    <3>3. CASE cachedCluster'[req] = cachedCluster[req]
      <4>1. cluster[req] # Absent /\ cluster[req].deleting /\ cluster[req].finalizer
        BY <1>4, <2>2, <3>3 DEF ListInv
      <4> QED
        BY <2>2, <3>1, <4>1, ClusterStep DEF ChangedByOthers, Claimed, Dropped, SameMark
    <3> QED
      BY <3>1, <3>2, <3>3, CachedClusterStep
  <2> QED
    BY <1>4, <2>1, <2>2, ProcessStep DEF GoesOn
<1> QED
  BY <1>1, <1>3, <1>4 DEF ListInv, Outlived

\* The patch that drops the finalizer sends the list the Cluster has.
LEMMA DropKeepsOthers ==
    ASSUME TypeInv, BranchInv, ListInv, [Next]_vars, NEW c \in Clusters,
           cluster[c] # Absent, cluster[c].finalizer,
           cluster'[c] # Absent, ~cluster'[c].finalizer
    PROVE  cluster'[c].others = cluster[c].others
<1>1. c = req /\ Dropped(cluster[c], cluster'[c])
  BY ClusterStep DEF ChangedByOthers, Claimed, SameMark
<1>2. loc.cluster.deleting /\ loc.cluster.finalizer /\ loc.cluster # Absent
  BY <1>1 DEF Dropped, BranchInv, DeletePCs, TypeInv, TypeOK, ProcessOK
<1>3. Outlived(loc.cluster, cluster[c])
  BY <1>1 DEF ListInv, Dropped
<1> QED
  BY <1>1, <1>2, <1>3 DEF Outlived, Dropped, Shrinks

\* Dropping the operator's finalizer never costs another controller its own,
\* whatever is done to the Cluster between the read and the patch.
THEOREM OthersAreKept == Spec => OtherFinalizersKept
<1>1. TypeInv /\ BranchInv /\ ListInv /\ [Next]_vars
      => [ \A c \in Clusters :
              cluster[c] # Absent /\ cluster[c].finalizer
              /\ cluster'[c] # Absent /\ ~cluster'[c].finalizer
              => cluster'[c].others = cluster[c].others ]_vars
  BY DropKeepsOthers
<1> QED
  BY <1>1, TypeInit, TypeStep, BranchInit, BranchStep, ListInit, ListStep, PTL
     DEF Spec, OtherFinalizersKept

-----------------------------------------------------------------------------
(* What one step may do to the objects made for a Cluster.                  *)

\* A Secret comes to be by PutSecret only, one Secret at a time and with no
\* other object.
LEMMA SecretWritten ==
    ASSUME TypeInv, [Next]_vars
    PROVE  \/ UNCHANGED secret
           \/ \E c \in Clusters :
                 /\ \A d \in Clusters \ {c} : secret'[d] = secret[d]
                 /\ secret[c] = Absent => c = req /\ pc = "putSecret"
                 /\ UNCHANGED <<cluster, configMap, tbotConfigMaps>>
<1> DEFINE Goal == \/ UNCHANGED secret
                   \/ \E c \in Clusters :
                         /\ \A d \in Clusters \ {c} : secret'[d] = secret[d]
                         /\ secret[c] = Absent => c = req /\ pc = "putSecret"
                         /\ UNCHANGED <<cluster, configMap, tbotConfigMaps>>
<1>0. secret \in [Clusters -> OrAbsent(SecretObject)] /\ (pc # "idle" => req \in Clusters)
  BY DEF TypeInv, TypeOK, ObjectsOK, ProcessOK
<1>1. CASE DeleteSecret
  <2>1. pc # "idle" /\ secret' = [secret EXCEPT ![req] = Absent]
    BY <1>1 DEF DeleteSecret
  <2>2. CASE secret[req] = Absent
    BY <1>0, <2>1, <2>2
  <2> QED
    BY <1>0, <1>1, <2>1, <2>2 DEF DeleteSecret
<1>2. CASE PutSecret
  BY <1>0, <1>2 DEF PutSecret
<1>3. ASSUME NEW c \in Clusters, ObjectTouched(c) PROVE Goal
  BY <1>0, <1>3 DEF ObjectTouched
<1>4. ASSUME Delete, ~DeleteSecret PROVE UNCHANGED secret
  BY <1>4 DEF Delete, ListTokens, DeleteToken, DeleteConfigMap, BotDetectDelete,
     BotDeleteConfig, DeleteTbotConfigMap, DeleteKubeconfigSecret, AgentDetectDelete,
     AgentDeleteConfig, RemoveFinalizer, objects
<1>5. ASSUME Register, ~PutSecret PROVE UNCHANGED secret
  BY <1>5 DEF Register, AddFinalizer, GetSecret, CheckNode, MintNode, GetTkaVersion,
     GetConfigMap, CheckKube, MintKube, PutConfigMap, AgentDetect, AgentEnsure,
     GetKubeconfigSecret, EnsureTbotConfigMap, BotDetect, BotEnsure, objects
<1>6. ASSUME Environment, ~(\E d \in Clusters : ObjectTouched(d)) PROVE UNCHANGED secret
  BY <1>6 DEF Environment, Restart, Fails, IdentityExpires, TokenExpires, SyncCluster,
     SyncObjects, SyncApps, UserDeletes, ClusterGone, UserCreates, OtherFinalizerChanges,
     SetCluster, UserSetsValues, TbotWritesKubeconfig, ReleaseChanges, objects
<1>7. ASSUME \/ AreTeleportAppsEnabled \/ GetIdentityConfigFromSecret \/ NewClient
             \/ \E d \in Clusters : GetCluster(d)
             \/ UNCHANGED vars
      PROVE  UNCHANGED secret
  BY <1>7 DEF AreTeleportAppsEnabled, GetIdentityConfigFromSecret, NewClient,
     GetCluster, vars, objects
<1> QED
  BY <1>1, <1>2, <1>3, <1>4, <1>5, <1>6, <1>7 DEF Next, Continue

\* A ConfigMap comes to be by PutConfigMap only.
LEMMA ConfigMapWritten ==
    ASSUME TypeInv, [Next]_vars
    PROVE  \/ UNCHANGED configMap
           \/ \E c \in Clusters :
                 /\ \A d \in Clusters \ {c} : configMap'[d] = configMap[d]
                 /\ configMap[c] = Absent => c = req /\ pc = "putConfigMap"
                 /\ UNCHANGED <<cluster, secret, tbotConfigMaps>>
<1> DEFINE Goal == \/ UNCHANGED configMap
                   \/ \E c \in Clusters :
                         /\ \A d \in Clusters \ {c} : configMap'[d] = configMap[d]
                         /\ configMap[c] = Absent => c = req /\ pc = "putConfigMap"
                         /\ UNCHANGED <<cluster, secret, tbotConfigMaps>>
<1>0. configMap \in [Clusters -> OrAbsent(Document)] /\ (pc # "idle" => req \in Clusters)
  BY DEF TypeInv, TypeOK, ObjectsOK, ProcessOK
<1>1. CASE DeleteConfigMap
  <2>1. pc # "idle" /\ configMap' = [configMap EXCEPT ![req] = Absent]
    BY <1>1 DEF DeleteConfigMap
  <2>2. CASE configMap[req] = Absent
    BY <1>0, <2>1, <2>2
  <2> QED
    BY <1>0, <1>1, <2>1, <2>2 DEF DeleteConfigMap
<1>2. CASE PutConfigMap
  <2>1. \/ UNCHANGED configMap
        \/ \E doc : configMap' = [configMap EXCEPT ![req] = doc]
    BY <1>2 DEF PutConfigMap, CreateConfigMap, UpdateConfigMap, WriteConfigMap
  <2> QED
    BY <1>0, <1>2, <2>1 DEF PutConfigMap
<1>3. ASSUME NEW c \in Clusters, ObjectTouched(c) PROVE Goal
  BY <1>0, <1>3 DEF ObjectTouched
<1>4. ASSUME Delete, ~DeleteConfigMap PROVE UNCHANGED configMap
  BY <1>4 DEF Delete, ListTokens, DeleteToken, DeleteSecret, BotDetectDelete,
     BotDeleteConfig, DeleteTbotConfigMap, DeleteKubeconfigSecret, AgentDetectDelete,
     AgentDeleteConfig, RemoveFinalizer, objects
<1>5. ASSUME Register, ~PutConfigMap PROVE UNCHANGED configMap
  BY <1>5 DEF Register, AddFinalizer, GetSecret, CheckNode, MintNode, PutSecret,
     GetTkaVersion, GetConfigMap, CheckKube, MintKube, AgentDetect, AgentEnsure,
     GetKubeconfigSecret, EnsureTbotConfigMap, BotDetect, BotEnsure, objects
<1>6. ASSUME Environment, ~(\E d \in Clusters : ObjectTouched(d)) PROVE UNCHANGED configMap
  BY <1>6 DEF Environment, Restart, Fails, IdentityExpires, TokenExpires, SyncCluster,
     SyncObjects, SyncApps, UserDeletes, ClusterGone, UserCreates, OtherFinalizerChanges,
     SetCluster, UserSetsValues, TbotWritesKubeconfig, ReleaseChanges, objects
<1>7. ASSUME \/ AreTeleportAppsEnabled \/ GetIdentityConfigFromSecret \/ NewClient
             \/ \E d \in Clusters : GetCluster(d)
             \/ UNCHANGED vars
      PROVE  UNCHANGED configMap
  BY <1>7 DEF AreTeleportAppsEnabled, GetIdentityConfigFromSecret, NewClient,
     GetCluster, vars, objects
<1> QED
  BY <1>1, <1>2, <1>3, <1>4, <1>5, <1>6, <1>7 DEF Next, Continue

\* The bot's ConfigMap comes and goes by the two calls of Reconcile only, and a
\* kubeconfig comes only where that ConfigMap is.
LEMMA TbotWritten ==
    ASSUME [Next]_vars
    PROVE  /\ \/ UNCHANGED tbotConfigMaps
              \/ /\ pc = "ensureTbotConfigMap"
                 /\ tbotConfigMaps' = tbotConfigMaps \cup {NameOf[req]}
                 /\ UNCHANGED <<cluster, secret, configMap, release>>
              \/ /\ pc = "deleteTbotConfigMap"
                 /\ tbotConfigMaps' = tbotConfigMaps \ {NameOf[req]}
                 /\ UNCHANGED <<cluster, secret, configMap, release>>
           /\ kubeconfigs' \subseteq kubeconfigs \cup tbotConfigMaps
<1>1. CASE Delete
  BY <1>1 DEF Delete, ListTokens, DeleteToken, DeleteSecret, DeleteConfigMap,
     BotDetectDelete, BotDeleteConfig, DeleteTbotConfigMap, DeleteKubeconfigSecret,
     AgentDetectDelete, AgentDeleteConfig, RemoveFinalizer, objects
<1>2. CASE Register
  BY <1>2 DEF Register, AddFinalizer, GetSecret, CheckNode, MintNode, PutSecret,
     GetTkaVersion, GetConfigMap, CheckKube, MintKube, PutConfigMap, AgentDetect,
     AgentEnsure, GetKubeconfigSecret, EnsureTbotConfigMap, BotDetect, BotEnsure, objects
<1>3. CASE Environment
  BY <1>3 DEF Environment, Restart, Fails, IdentityExpires, TokenExpires, SyncCluster,
     SyncObjects, SyncApps, UserDeletes, ClusterGone, UserCreates, OtherFinalizerChanges,
     SetCluster, UserSetsValues, ObjectTouched, TbotWritesKubeconfig, ReleaseChanges, objects
<1>4. ASSUME \/ AreTeleportAppsEnabled \/ GetIdentityConfigFromSecret \/ NewClient
             \/ \E d \in Clusters : GetCluster(d)
             \/ UNCHANGED vars
      PROVE  UNCHANGED <<tbotConfigMaps, kubeconfigs>>
  BY <1>4 DEF AreTeleportAppsEnabled, GetIdentityConfigFromSecret, NewClient,
     GetCluster, vars, objects
<1> QED
  BY <1>1, <1>2, <1>3, <1>4 DEF Next, Continue

\* The references of a release, none if it is not there.
RefsOf(object) == IF object = Absent THEN {} ELSE object.refs

EnsurePCs == {"agentEnsure", "botEnsure"}
ForgetPCs == {"agentDeleteConfig", "botDeleteConfig"}

\* The release the calls of the config managers are about.
Subject == IF pc \in {"agentEnsure", "agentDeleteConfig"} THEN req ELSE Tbot

\* Writing the references of one release changes that release only.
LEMMA RefsWritten ==
    ASSUME TypeInv
    PROVE  \A k \in Kinds, r \in Resources, S \in SUBSET Names :
              /\ release[k][r] # Absent
              /\ release' = [release EXCEPT ![k][r].refs = S]
              => /\ release'[k][r] # Absent
                 /\ release'[k][r].refs = S
                 /\ \A l \in Kinds, s \in Resources :
                       <<l, s>> # <<k, r>> => release'[l][s] = release[l][s]
<1> SUFFICES ASSUME NEW k \in Kinds, NEW r \in Resources, NEW S \in SUBSET Names,
                    release[k][r] # Absent,
                    release' = [release EXCEPT ![k][r].refs = S]
             PROVE  /\ release'[k][r] # Absent
                    /\ release'[k][r].refs = S
                    /\ \A l \in Kinds, s \in Resources :
                          <<l, s>> # <<k, r>> => release'[l][s] = release[l][s]
  OBVIOUS
<1>0. release \in [Kinds -> [Resources -> OrAbsent(ReleaseObject)]]
  BY DEF TypeInv, TypeOK, ObjectsOK
<1>1. release[k][r] \in ReleaseObject
  BY <1>0 DEF OrAbsent
<1> DEFINE new == [release[k][r] EXCEPT !.refs = S]
<1>2. new \in ReleaseObject /\ new.refs = S
  BY <1>1 DEF ReleaseObject
<1>3. new # Absent
  BY <1>2, AbsentIsNoObject
<1>4. release' = [release EXCEPT ![k] = [release[k] EXCEPT ![r] = new]]
  BY <1>0
<1> HIDE DEF new
<1>5. release[k] \in [Resources -> OrAbsent(ReleaseObject)]
  BY <1>0
<1>6. release'[k] = [release[k] EXCEPT ![r] = new] /\ \A l \in Kinds \ {k} : release'[l] = release[l]
  BY <1>0, <1>4
<1> QED
  BY <1>2, <1>3, <1>5, <1>6

\* References come by EnsureConfig and go by DeleteConfig, one at a time, or with
\* the release; the release written is one of the kind at hand and is there.
LEMMA ReleaseStep ==
    ASSUME TypeInv, [Next]_vars, NEW k \in Kinds, NEW r \in Resources
    PROVE  \/ release'[k][r] = Absent
           \/ RefsOf(release'[k][r]) = RefsOf(release[k][r])
           \/ /\ k = loc.manager /\ r = Subject
              /\ release[k][r] # Absent /\ release'[k][r] # Absent
              /\ UNCHANGED <<cluster, secret, configMap, tbotConfigMaps, kubeconfigs>>
              /\ \/ /\ pc \in EnsurePCs
                    /\ release'[k][r].refs = release[k][r].refs \cup {NameOf[req]}
                 \/ /\ pc \in ForgetPCs
                    /\ release'[k][r].refs = release[k][r].refs \ {NameOf[req]}
<1> DEFINE Written ==
              /\ k = loc.manager /\ r = Subject
              /\ release[k][r] # Absent /\ release'[k][r] # Absent
              /\ UNCHANGED <<cluster, secret, configMap, tbotConfigMaps, kubeconfigs>>
              /\ \/ /\ pc \in EnsurePCs
                    /\ release'[k][r].refs = release[k][r].refs \cup {NameOf[req]}
                 \/ /\ pc \in ForgetPCs
                    /\ release'[k][r].refs = release[k][r].refs \ {NameOf[req]}
           Goal == \/ release'[k][r] = Absent
                   \/ RefsOf(release'[k][r]) = RefsOf(release[k][r])
                   \/ Written
<1>0. /\ release \in [Kinds -> [Resources -> OrAbsent(ReleaseObject)]]
      /\ pc # "idle" => req \in Clusters
      /\ loc \in Locals
  BY DEF TypeInv, TypeOK, ObjectsOK, ProcessOK
<1>1. CASE UNCHANGED release
  BY <1>1
<1>2. ASSUME pc \in EnsurePCs \cup ForgetPCs,
             loc.manager # "none", Seen(loc.manager, Subject) # Absent,
             release[loc.manager][Subject] = Seen(loc.manager, Subject),
             UNCHANGED <<cluster, secret, configMap, tbotConfigMaps, kubeconfigs>>,
             NEW S,
             \/ pc \in EnsurePCs /\ S = Seen(loc.manager, Subject).refs \cup {NameOf[req]}
             \/ pc \in ForgetPCs /\ S = Seen(loc.manager, Subject).refs \ {NameOf[req]},
             release' = [release EXCEPT ![loc.manager][Subject].refs = S]
      PROVE  Goal
  <2>1. req \in Clusters /\ Subject \in Resources /\ loc.manager \in Kinds
    BY <1>0, <1>2 DEF EnsurePCs, ForgetPCs, Subject, Resources, Locals
  <2>2. release[loc.manager][Subject] \in ReleaseObject
    BY <1>0, <1>2, <2>1 DEF OrAbsent
  <2>3. release[loc.manager][Subject].refs \in SUBSET Names /\ NameOf[req] \in Names
    BY <2>1, <2>2 DEF ReleaseObject, Names
  <2>4. S \in SUBSET Names
    BY <1>2, <2>3
  <2>5. /\ release'[loc.manager][Subject] # Absent
        /\ release'[loc.manager][Subject].refs = S
        /\ \A l \in Kinds, s \in Resources :
              <<l, s>> # <<loc.manager, Subject>> => release'[l][s] = release[l][s]
    <3>1. /\ release[loc.manager][Subject] # Absent
          /\ release' = [release EXCEPT ![loc.manager][Subject].refs = S]
      BY <1>2
    <3> QED
      BY <2>1, <2>4, <3>1, RefsWritten
  <2>6. CASE <<k, r>> # <<loc.manager, Subject>>
    BY <2>5, <2>6
  <2>7. CASE k = loc.manager /\ r = Subject
    BY <1>2, <2>5, <2>7
  <2> QED
    BY <2>6, <2>7
<1>3. CASE BotDeleteConfig \/ AgentDeleteConfig
  <2>1. /\ Subject = IF pc = "agentDeleteConfig" THEN req ELSE Tbot
        /\ pc \in ForgetPCs
        /\ UNCHANGED <<cluster, secret, configMap, tbotConfigMaps, kubeconfigs>>
    BY <1>3 DEF BotDeleteConfig, AgentDeleteConfig, Subject, ForgetPCs
  <2>2. \/ UNCHANGED release
        \/ /\ loc.manager # "none" /\ Seen(loc.manager, Subject) # Absent
           /\ release[loc.manager][Subject] = Seen(loc.manager, Subject)
           /\ release' = [release EXCEPT ![loc.manager][Subject].refs
                            = Seen(loc.manager, Subject).refs \ {NameOf[req]}]
    BY <1>3, <2>1 DEF BotDeleteConfig, AgentDeleteConfig, DeleteConfig, UpdateReferences
  <2> QED
    BY <1>1, <1>2, <2>1, <2>2
<1>4. CASE BotEnsure \/ AgentEnsure
  <2>1. /\ Subject = IF pc = "agentEnsure" THEN req ELSE Tbot
        /\ pc \in EnsurePCs
        /\ UNCHANGED <<cluster, secret, configMap, tbotConfigMaps, kubeconfigs>>
    BY <1>4 DEF BotEnsure, AgentEnsure, Subject, EnsurePCs
  <2>2. \/ UNCHANGED release
        \/ /\ loc.manager # "none" /\ Seen(loc.manager, Subject) # Absent
           /\ release[loc.manager][Subject] = Seen(loc.manager, Subject)
           /\ release' = [release EXCEPT ![loc.manager][Subject].refs
                            = Seen(loc.manager, Subject).refs \cup {NameOf[req]}]
    BY <1>4, <2>1 DEF BotEnsure, AgentEnsure, EnsureConfig, UpdateReferences
  <2> QED
    BY <1>1, <1>2, <2>1, <2>2
<1>5. ASSUME NEW l \in Kinds, NEW s \in Resources, ReleaseChanges(l, s) PROVE Goal
  <2>1. PICK new \in ReleaseObject \cup {Absent} :
           /\ \/ new = Absent
              \/ release[l][s] = Absent /\ new # Absent /\ new.refs = {}
              \/ release[l][s] # Absent /\ new # Absent /\ new.refs = release[l][s].refs
              \/ /\ release[l][s] # Absent /\ new # Absent
                 /\ new = [release[l][s] EXCEPT !.installed = release[l][s].spec]
           /\ release' = [release EXCEPT ![l][s] = new]
    BY <1>5 DEF ReleaseChanges
  <2>2. release[l][s] # Absent =>
          [release[l][s] EXCEPT !.installed = release[l][s].spec].refs = release[l][s].refs
    BY <1>0 DEF OrAbsent, ReleaseObject
  <2>3. release' = [release EXCEPT ![l] = [release[l] EXCEPT ![s] = new]]
    BY <2>1
  <2>4. release'[k][r] = IF <<k, r>> = <<l, s>> THEN new ELSE release[k][r]
    BY <1>0, <2>3
  <2>5. CASE k = l /\ r = s
    BY <2>1, <2>2, <2>4, <2>5 DEF RefsOf
  <2>6. CASE ~(k = l /\ r = s)
    BY <2>4, <2>6
  <2> QED
    BY <2>5, <2>6
<1>6. ASSUME Delete, ~(BotDeleteConfig \/ AgentDeleteConfig) PROVE UNCHANGED release
  BY <1>6 DEF Delete, ListTokens, DeleteToken, DeleteSecret, DeleteConfigMap,
     BotDetectDelete, DeleteTbotConfigMap, DeleteKubeconfigSecret, AgentDetectDelete,
     RemoveFinalizer, objects
<1>7. ASSUME Register, ~(BotEnsure \/ AgentEnsure) PROVE UNCHANGED release
  BY <1>7 DEF Register, AddFinalizer, GetSecret, CheckNode, MintNode, PutSecret,
     GetTkaVersion, GetConfigMap, CheckKube, MintKube, PutConfigMap, AgentDetect,
     GetKubeconfigSecret, EnsureTbotConfigMap, BotDetect, objects
<1>8. ASSUME Environment, ~(\E l \in Kinds, s \in Resources : ReleaseChanges(l, s))
      PROVE  UNCHANGED release
  BY <1>8 DEF Environment, Restart, Fails, IdentityExpires, TokenExpires, SyncCluster,
     SyncObjects, SyncApps, UserDeletes, ClusterGone, UserCreates, OtherFinalizerChanges,
     SetCluster, UserSetsValues, ObjectTouched, TbotWritesKubeconfig, objects
<1>9. ASSUME \/ AreTeleportAppsEnabled \/ GetIdentityConfigFromSecret \/ NewClient
             \/ \E d \in Clusters : GetCluster(d)
             \/ UNCHANGED vars
      PROVE  UNCHANGED release
  BY <1>9 DEF AreTeleportAppsEnabled, GetIdentityConfigFromSecret, NewClient,
     GetCluster, vars, objects
<1> QED
  BY <1>1, <1>3, <1>4, <1>5, <1>6, <1>7, <1>8, <1>9 DEF Next, Continue

-----------------------------------------------------------------------------
(* What is gone when the finalizer is dropped.                              *)

\* The calls of the deletion branch after each of its deletes.
PastKubeconfig    == {"agentDetectDelete", "agentDeleteConfig", "removeFinalizer"}
PastTbotConfigMap == {"deleteKubeconfigSecret"} \cup PastKubeconfig
PastBot           == {"deleteTbotConfigMap"} \cup PastTbotConfigMap
PastConfigMap     == {"botDetectDelete", "botDeleteConfig"} \cup PastBot
PastSecret        == {"deleteConfigMap"} \cup PastConfigMap

\* There is one kind of release, and it is not cached.  Otherwise a release that
\* is not seen may still have the reference.
OneKind == CachedKinds = {} /\ \A k, l \in Kinds : k = l

\* No release named r refers to the ConfigMap of the request's cluster.
Unreferenced(r) == \A k \in Kinds : NameOf[req] \notin RefsOf(release[k][r])

\* What was deleted on the way stays gone, since nobody else makes it again and
\* Reconcile works on one request at a time.
CleanupInv ==
    /\ pc \in PastSecret => secret[req] = Absent
    /\ pc \in PastConfigMap => configMap[req] = Absent
    /\ IsBotEnabled /\ pc \in PastTbotConfigMap => NameOf[req] \notin tbotConfigMaps
    /\ IsBotEnabled /\ pc \in PastKubeconfig => NameOf[req] \notin kubeconfigs
    /\ OneKind =>
          /\ IsBotEnabled /\ pc \in PastBot => Unreferenced(Tbot)
          /\ pc = "botDeleteConfig" /\ loc.manager = "none" => Unreferenced(Tbot)
          /\ pc = "removeFinalizer" => Unreferenced(req)
          /\ pc = "agentDeleteConfig" /\ loc.manager = "none" => Unreferenced(req)

\* Where no manager is found for a release there is none to refer to anything.
LEMMA NoManager ==
    ASSUME OneKind, NEW r, NewTeleportAppConfigManager(r) = "none"
    PROVE  \A k \in Kinds : release[k][r] = Absent
BY ConstantsAssumption DEF OneKind, NewTeleportAppConfigManager, Seen

\* A DeleteConfig that Reconcile goes on from leaves no reference, if there was
\* none where it found no release.
LEMMA ForgetStep ==
    ASSUME TypeInv, [Next]_vars, OneKind, pc \in ForgetPCs, pc' # "idle", req' = req,
           NEW ACTION next, DeleteConfig(Subject, next),
           loc.manager = "none" => Unreferenced(Subject)
    PROVE  \A k \in Kinds : NameOf[req] \notin RefsOf(release'[k][Subject])
<1>0. /\ loc.manager # "none" => loc.manager \in Kinds
      /\ Subject \in Resources
  BY DEF TypeInv, TypeOK, ProcessOK, Locals, Subject, Resources, ForgetPCs
<1>1. \A k \in Kinds : Seen(k, Subject) = release[k][Subject]
  BY DEF OneKind, Seen
<1>2. SUFFICES ASSUME NEW k \in Kinds
               PROVE  NameOf[req] \notin RefsOf(release'[k][Subject])
  OBVIOUS
<1>3. CASE UNCHANGED release /\ NameOf[req] \notin RefsOf(release[k][Subject])
  BY <1>3
<1>4. CASE loc.manager = "none"
  <2>1. UNCHANGED release
    BY <1>4 DEF DeleteConfig
  <2> QED
    BY <1>3, <1>4, <2>1 DEF Unreferenced
<1>5. CASE loc.manager # "none"
  <2>1. k = loc.manager
    BY <1>0, <1>5 DEF OneKind
  <2>2. CASE release[k][Subject] # Absent /\ NameOf[req] \in release[k][Subject].refs
    <3> DEFINE S == release[k][Subject].refs \ {NameOf[req]}
    <3>1. release' = [release EXCEPT ![k][Subject].refs = S]
      BY <1>1, <1>5, <2>1, <2>2 DEF DeleteConfig, UpdateReferences, Requeue
    <3>2. release[k][Subject] \in ReleaseObject
      BY <1>0, <2>2 DEF TypeInv, TypeOK, ObjectsOK, OrAbsent
    <3>3. S \in SUBSET Names /\ NameOf[req] \notin S
      BY <3>2 DEF ReleaseObject
    <3> HIDE DEF S
    <3>4. release'[k][Subject] # Absent /\ release'[k][Subject].refs = S
      BY <1>0, <2>2, <3>1, <3>3, RefsWritten
    <3> QED
      BY <3>3, <3>4 DEF RefsOf
  <2>3. CASE ~(release[k][Subject] # Absent /\ NameOf[req] \in release[k][Subject].refs)
    <3>1. UNCHANGED release
      BY <1>1, <1>5, <2>1, <2>3 DEF DeleteConfig
    <3> QED
      BY <1>3, <2>3, <3>1 DEF RefsOf
  <2> QED
    BY <2>2, <2>3
<1> QED
  BY <1>4, <1>5

\* No request is under way at the start.
LEMMA CleanupInit == Init => CleanupInv
BY DEF Init, CleanupInv, PastSecret, PastConfigMap, PastBot, PastTbotConfigMap, PastKubeconfig

\* While the process rests in the deletion branch nothing comes back.
LEMMA CleanupRests ==
    ASSUME TypeInv, CleanupInv, [Next]_vars, UNCHANGED <<pc, req, loc, config>>,
           pc \in DeletePCs
    PROVE  CleanupInv'
<1>0. req \in Clusters /\ pc # "idle" /\ (IsBotEnabled' <=> IsBotEnabled)
  BY DEF TypeInv, TypeOK, ProcessOK, DeletePCs, IsBotEnabled
<1>1. secret[req] = Absent => secret'[req] = Absent
  BY <1>0, SecretWritten DEF DeletePCs
<1>2. configMap[req] = Absent => configMap'[req] = Absent
  BY <1>0, ConfigMapWritten DEF DeletePCs
<1>3. tbotConfigMaps' \subseteq tbotConfigMaps
  BY TbotWritten DEF DeletePCs
<1>4. kubeconfigs' \subseteq kubeconfigs \cup tbotConfigMaps
  BY TbotWritten
<1>5. ASSUME NEW r \in Resources, Unreferenced(r) PROVE Unreferenced(r)'
  <2>1. ASSUME NEW k \in Kinds PROVE NameOf[req] \notin RefsOf(release'[k][r])
    <3>1. NameOf[req] \notin RefsOf(release[k][r]) /\ pc \notin EnsurePCs
      BY <1>5 DEF Unreferenced, DeletePCs, EnsurePCs
    <3> QED
      BY <3>1, ReleaseStep DEF RefsOf
  <2> QED
    BY <2>1 DEF Unreferenced
<1>6. req \in Resources /\ Tbot \in Resources
  BY <1>0 DEF Resources
<1>7. /\ IsBotEnabled /\ pc \in PastKubeconfig => NameOf[req] \notin kubeconfigs'
      /\ IsBotEnabled /\ pc \in PastTbotConfigMap => NameOf[req] \notin tbotConfigMaps'
  BY <1>3, <1>4 DEF CleanupInv, PastTbotConfigMap
<1>8. Unreferenced(req)' <=> \A k \in Kinds : NameOf[req] \notin RefsOf(release'[k][req])
  BY DEF Unreferenced
<1>9. Unreferenced(req) => Unreferenced(req)'
  BY <1>5, <1>6, <1>8 DEF Unreferenced
<1>10. Unreferenced(Tbot) => Unreferenced(Tbot)'
  BY <1>5, <1>6
<1> QED
  BY <1>0, <1>1, <1>2, <1>7, <1>9, <1>10 DEF CleanupInv

\* Every call of the deletion branch keeps CleanupInv.
LEMMA CleanupDelete ==
    ASSUME TypeInv, BranchInv, CleanupInv, [Next]_vars, Delete, pc' # "idle"
    PROVE  CleanupInv'
<1> USE DEF PastSecret, PastConfigMap, PastBot, PastTbotConfigMap, PastKubeconfig
<1>0. /\ req \in Clusters /\ req' = req /\ config' = config /\ loc \in Locals
      /\ IsBotEnabled' <=> IsBotEnabled
  <2>1. pc # "idle" /\ config' = config
    BY DEF Delete, ListTokens, DeleteToken, DeleteSecret, DeleteConfigMap,
       BotDetectDelete, BotDeleteConfig, DeleteTbotConfigMap, DeleteKubeconfigSecret,
       AgentDetectDelete, AgentDeleteConfig, RemoveFinalizer, session
  <2>2. req' = req
    BY <2>1, ProcessStep DEF GoesOn, Begins
  <2> QED
    BY <2>1, <2>2 DEF TypeInv, TypeOK, ProcessOK, IsBotEnabled
<1>1. CASE ListTokens \/ DeleteToken
  <2>1. pc' \in {"deleteToken", "deleteSecret"}
    BY <1>1 DEF ListTokens, DeleteToken, Goto, Requeue
  <2> QED
    BY <2>1 DEF CleanupInv
<1>2. CASE DeleteSecret
  <2>1. pc' = "deleteConfigMap" /\ secret'[req] = Absent
    BY <1>0, <1>2 DEF DeleteSecret, Goto, TypeInv, TypeOK, ObjectsOK
  <2> QED
    BY <1>0, <2>1 DEF CleanupInv
<1>3. CASE DeleteConfigMap
  <2>1. /\ pc' = IF IsBotEnabled THEN "botDetectDelete" ELSE "agentDetectDelete"
        /\ configMap'[req] = Absent /\ secret'[req] = Absent
    BY <1>0, <1>3 DEF DeleteConfigMap, Goto, TypeInv, TypeOK, ObjectsOK, CleanupInv
  <2> QED
    BY <1>0, <2>1 DEF CleanupInv
<1>4. CASE BotDetectDelete
  <2>1. /\ pc' = "botDeleteConfig" /\ UNCHANGED <<secret, configMap, release>>
        /\ loc' = [loc EXCEPT !.manager = NewTeleportAppConfigManager(Tbot)]
        /\ secret[req] = Absent /\ configMap[req] = Absent
    BY <1>4 DEF BotDetectDelete, Goto, objects, CleanupInv
  <2>2. loc'.manager = NewTeleportAppConfigManager(Tbot)
    BY <1>0, <2>1 DEF Locals
  <2>3. OneKind /\ loc'.manager = "none" => Unreferenced(Tbot)'
    BY <2>1, <2>2, NoManager DEF Unreferenced, RefsOf
  <2> QED
    BY <1>0, <2>1, <2>3 DEF CleanupInv
<1>5. CASE BotDeleteConfig
  <2> DEFINE next == Goto("deleteTbotConfigMap", [loc EXCEPT !.manager = "none"])
  <2>1. /\ pc = "botDeleteConfig" /\ Subject = Tbot /\ pc \in ForgetPCs
        /\ DeleteConfig(Subject, next)
        /\ UNCHANGED <<secret, configMap>>
    BY <1>5 DEF BotDeleteConfig, Subject, ForgetPCs
  <2>2. pc' = "deleteTbotConfigMap"
    BY <2>1 DEF DeleteConfig, UpdateReferences, Goto, Requeue
  <2>3. OneKind => Unreferenced(Tbot)'
    <3>1. ASSUME OneKind PROVE \A k \in Kinds : NameOf[req] \notin RefsOf(release'[k][Tbot])
      <4>1. loc.manager = "none" => Unreferenced(Subject)
        BY <2>1, <3>1 DEF CleanupInv
      <4> HIDE DEF next
      <4> QED
        BY <1>0, <2>1, <3>1, <4>1, ForgetStep
    <3> QED
      BY <1>0, <3>1 DEF Unreferenced
  <2> QED
    BY <1>0, <2>1, <2>2, <2>3 DEF CleanupInv
<1>6. CASE DeleteTbotConfigMap
  <2>1. /\ pc = "deleteTbotConfigMap" /\ pc' = "deleteKubeconfigSecret"
        /\ NameOf[req] \notin tbotConfigMaps'
        /\ UNCHANGED <<secret, configMap, release>>
    BY <1>6 DEF DeleteTbotConfigMap, Goto
  <2> QED
    BY <1>0, <2>1 DEF CleanupInv, Unreferenced
<1>7. CASE DeleteKubeconfigSecret
  <2>1. /\ pc = "deleteKubeconfigSecret" /\ pc' = "agentDetectDelete"
        /\ NameOf[req] \notin kubeconfigs'
        /\ UNCHANGED <<secret, configMap, tbotConfigMaps, release>>
    BY <1>7 DEF DeleteKubeconfigSecret, Goto
  <2> QED
    BY <1>0, <2>1 DEF CleanupInv, Unreferenced
<1>8. CASE AgentDetectDelete
  <2>1. /\ pc = "agentDetectDelete" /\ pc' = "agentDeleteConfig"
        /\ UNCHANGED <<secret, configMap, tbotConfigMaps, kubeconfigs, release>>
        /\ loc' = [loc EXCEPT !.manager = NewTeleportAppConfigManager(req)]
    BY <1>8 DEF AgentDetectDelete, Goto, objects
  <2>2. loc'.manager = NewTeleportAppConfigManager(req)
    BY <1>0, <2>1 DEF Locals
  <2>3. OneKind /\ loc'.manager = "none"
        => \A k \in Kinds : NameOf[req] \notin RefsOf(release'[k][req])
    BY <2>1, <2>2, NoManager DEF RefsOf
  <2> QED
    BY <1>0, <2>1, <2>3 DEF CleanupInv, Unreferenced
<1>9. CASE AgentDeleteConfig
  <2> DEFINE next == IF loc.cluster.finalizer
                     THEN Goto("removeFinalizer", [loc EXCEPT !.manager = "none"])
                     ELSE Stop
  <2>1. /\ pc = "agentDeleteConfig" /\ Subject = req /\ pc \in ForgetPCs
        /\ DeleteConfig(Subject, next)
        /\ UNCHANGED <<secret, configMap, tbotConfigMaps, kubeconfigs>>
    BY <1>9 DEF AgentDeleteConfig, Subject, ForgetPCs
  <2>2. pc' = "removeFinalizer"
    BY <2>1 DEF DeleteConfig, UpdateReferences, Goto, Stop, Requeue
  <2>3. OneKind => \A k \in Kinds : NameOf[req] \notin RefsOf(release'[k][req])
    <3>1. SUFFICES ASSUME OneKind
                   PROVE  \A k \in Kinds : NameOf[req] \notin RefsOf(release'[k][req])
      OBVIOUS
    <3>2. loc.manager = "none" => Unreferenced(Subject)
      BY <2>1, <3>1 DEF CleanupInv
    <3> HIDE DEF next
    <3> QED
      BY <1>0, <2>1, <3>1, <3>2, ForgetStep
  <2>4. OneKind /\ IsBotEnabled => \A k \in Kinds : NameOf[req] \notin RefsOf(release'[k][Tbot])
    <3>1. SUFFICES ASSUME OneKind, IsBotEnabled, NEW k \in Kinds
                   PROVE  NameOf[req] \notin RefsOf(release'[k][Tbot])
      OBVIOUS
    <3>2. Tbot \in Resources /\ NameOf[req] \notin RefsOf(release[k][Tbot])
      BY <2>1, <3>1 DEF CleanupInv, Unreferenced, Resources
    <3> QED
      BY <2>1, <3>2, ReleaseStep DEF RefsOf, EnsurePCs
  <2> QED
    BY <1>0, <2>1, <2>2, <2>3, <2>4 DEF CleanupInv, Unreferenced
<1>10. CASE RemoveFinalizer
  BY <1>10 DEF RemoveFinalizer, PatchFinalizers, Stop, Requeue
<1> QED
  BY <1>1, <1>2, <1>3, <1>4, <1>5, <1>6, <1>7, <1>8, <1>9, <1>10 DEF Delete

\* Every step keeps CleanupInv.
LEMMA CleanupStep == TypeInv /\ BranchInv /\ CleanupInv /\ [Next]_vars => CleanupInv'
<1> SUFFICES ASSUME TypeInv, BranchInv, CleanupInv, [Next]_vars PROVE CleanupInv'
  OBVIOUS
<1>1. CASE pc' \notin PastSecret
  BY <1>1 DEF CleanupInv, PastSecret, PastConfigMap, PastBot, PastTbotConfigMap, PastKubeconfig
<1>2. CASE pc' \in PastSecret
  <2>1. pc' # "idle" /\ pc' \in DeletePCs
    BY <1>2 DEF PastSecret, PastConfigMap, PastBot, PastTbotConfigMap, PastKubeconfig, DeletePCs
  <2>2. CASE UNCHANGED <<pc, req, loc, config>>
    BY <2>1, <2>2, CleanupRests
  <2>3. CASE Delete
    BY <2>1, <2>3, CleanupDelete
  <2>4. ASSUME ~(UNCHANGED <<pc, req, loc, config>>) PROVE Delete
    <3>1. ~Register
      <4>1. Register => pc \in RegisterPCs
        BY DEF Register, AddFinalizer, GetSecret, CheckNode, MintNode, PutSecret,
           GetTkaVersion, GetConfigMap, CheckKube, MintKube, PutConfigMap, AgentDetect,
           AgentEnsure, GetKubeconfigSecret, EnsureTbotConfigMap, BotDetect, BotEnsure,
           RegisterPCs
      <4>2. Register => loc'.cluster = loc.cluster
        BY <2>1, <2>4, <4>1, ProcessStep DEF GoesOn, Begins, RegisterPCs
      <4> QED
        BY <2>1, <4>1, <4>2, BranchStep DEF BranchInv
    <3>2. ~(AreTeleportAppsEnabled \/ GetIdentityConfigFromSecret \/ NewClient)
      BY <1>2 DEF AreTeleportAppsEnabled, GetIdentityConfigFromSecret, NewClient, FirstCall,
         Goto, Requeue, PastSecret, PastConfigMap, PastBot, PastTbotConfigMap, PastKubeconfig
    <3>3. ~\E c \in Clusters : GetCluster(c)
      BY <1>2 DEF GetCluster, PastSecret, PastConfigMap, PastBot, PastTbotConfigMap,
         PastKubeconfig
    <3>4. ~(Environment \/ UNCHANGED vars)
      BY <2>1, <2>4 DEF Environment, Restart, Fails, Requeue, IdentityExpires, TokenExpires,
         SyncCluster, SyncObjects, SyncApps, UserDeletes, ClusterGone, UserCreates,
         OtherFinalizerChanges, SetCluster, UserSetsValues, ObjectTouched,
         TbotWritesKubeconfig, ReleaseChanges, process, session, vars
    <3> QED
      BY <3>1, <3>2, <3>3, <3>4 DEF Next, Continue
  <2> QED
    BY <2>2, <2>3, <2>4
<1> QED
  BY <1>1, <1>2

\* Where RemoveFinalizer drops the finalizer, what was made for the Cluster is gone.
LEMMA DropFindsClean ==
    ASSUME TypeInv, BranchInv, CleanupInv, [Next]_vars, NEW c \in Clusters,
           cluster[c] # Absent, cluster[c].finalizer,
           cluster'[c] # Absent, ~cluster'[c].finalizer
    PROVE  /\ secret[c] = Absent
           /\ configMap[c] = Absent
           /\ IsBotEnabled => NameOf[c] \notin tbotConfigMaps \cup kubeconfigs
           /\ Kinds = {"HelmRelease"} => ReferencesGone(c)
<1>1. c = req /\ pc = "removeFinalizer"
  BY ClusterStep DEF ChangedByOthers, Claimed, Dropped, SameMark
<1>2. Kinds = {"HelmRelease"} => OneKind
  BY DEF OneKind, CachedKinds
<1>3. OneKind => ReferencesGone(c)
  BY <1>1 DEF CleanupInv, Unreferenced, RefsOf, ReferencesGone, PastBot, PastTbotConfigMap,
     PastKubeconfig
<1> QED
  BY <1>1, <1>2, <1>3 DEF CleanupInv, PastSecret, PastConfigMap, PastBot, PastTbotConfigMap,
     PastKubeconfig

\* The finalizer is dropped only when everything it stands for is gone.
THEOREM DroppedClean == Spec => FinalizerDroppedClean
<1>1. TypeInv /\ BranchInv /\ CleanupInv /\ [Next]_vars
      => [ \A c \in Clusters :
              cluster[c] # Absent /\ cluster[c].finalizer
              /\ cluster'[c] # Absent /\ ~cluster'[c].finalizer
              => /\ secret[c] = Absent
                 /\ configMap[c] = Absent
                 /\ IsBotEnabled => NameOf[c] \notin tbotConfigMaps \cup kubeconfigs
                 /\ Kinds = {"HelmRelease"} => ReferencesGone(c) ]_vars
  BY DropFindsClean
<1> QED
  BY <1>1, TypeInit, TypeStep, BranchInit, BranchStep, CleanupInit, CleanupStep, PTL
     DEF Spec, FinalizerDroppedClean

-----------------------------------------------------------------------------
(* The finalizer guards what is published.                                  *)

\* A copy of a Cluster that stays, with the finalizer on it.
Holds(copy) == copy # Absent /\ ~copy.deleting /\ copy.finalizer

\* A Cluster that is there and has the finalizer.
Guarded(live) == live # Absent /\ live.finalizer

\* The calls that come after the finalizer is known to be set.
ClaimedPCs == RegisterPCs \ {"addFinalizer"}

\* A copy that holds the finalizer, in the cache or at hand, is right about it
\* however stale it is, and the calls after AddFinalizer may count on it.  The
\* last part is about a Cluster at hand whose finalizer is about to be dropped:
\* the cache does not show one that stays and has it.
ClaimInv ==
    /\ \A c \in Clusters : Holds(cachedCluster[c]) => Guarded(cluster[c])
    /\ pc # "idle" /\ Holds(loc.cluster) => Guarded(cluster[req])
    /\ pc \in ClaimedPCs => Guarded(cluster[req])
    /\ pc # "idle" /\ loc.cluster.deleting /\ loc.cluster.finalizer
       => ~Holds(cachedCluster[req])

\* The cache is up to date at the start.
LEMMA ClaimInit == Init => ClaimInv
<1> SUFFICES ASSUME Init PROVE ClaimInv
  OBVIOUS
<1>1. pc = "idle" /\ cachedCluster = cluster
  BY DEF Init
<1> QED
  BY <1>1 DEF ClaimInv, Holds, Guarded, ClaimedPCs, RegisterPCs

\* How Reconcile gets past AddFinalizer.
LEMMA ClaimFlow ==
    ASSUME TypeInv, BranchInv, [Next]_vars, pc' \in ClaimedPCs
    PROVE  pc \in ClaimedPCs \/ AddFinalizer \/ loc.cluster.finalizer
<1>0. pc' # "idle"
  BY DEF ClaimedPCs, RegisterPCs
<1>1. CASE UNCHANGED pc
  BY <1>1
<1>2. ASSUME Delete PROVE pc' \in DeletePCs
  BY <1>0, <1>2 DEF Delete, ListTokens, DeleteToken, DeleteSecret, DeleteConfigMap,
     BotDetectDelete, BotDeleteConfig, DeleteTbotConfigMap, DeleteKubeconfigSecret,
     AgentDetectDelete, AgentDeleteConfig, RemoveFinalizer, DeleteConfig,
     PatchFinalizers, UpdateReferences, Goto, Stop, Requeue, DeletePCs
<1>3. CASE Register
  BY <1>3 DEF Register, GetSecret, CheckNode, MintNode, PutSecret, GetTkaVersion,
     GetConfigMap, CheckKube, MintKube, PutConfigMap, AgentDetect, AgentEnsure,
     GetKubeconfigSecret, EnsureTbotConfigMap, BotDetect, BotEnsure, ClaimedPCs, RegisterPCs
<1>4. CASE AreTeleportAppsEnabled \/ GetIdentityConfigFromSecret \/ NewClient
  BY <1>4 DEF AreTeleportAppsEnabled, GetIdentityConfigFromSecret, NewClient, FirstCall,
     Goto, Requeue, ClaimedPCs, RegisterPCs
<1>5. CASE \E c \in Clusters : GetCluster(c)
  BY <1>5 DEF GetCluster, ClaimedPCs, RegisterPCs
<1>6. CASE Environment \/ UNCHANGED vars
  <2>1. UNCHANGED pc
    BY <1>0, <1>6 DEF Environment, Restart, Fails, Requeue, IdentityExpires, TokenExpires,
       SyncCluster, SyncObjects, SyncApps, UserDeletes, ClusterGone, UserCreates,
       OtherFinalizerChanges, SetCluster, UserSetsValues, ObjectTouched,
       TbotWritesKubeconfig, ReleaseChanges, process, vars
  <2> QED
    BY <1>1, <2>1
<1> QED
  BY <1>2, <1>3, <1>4, <1>5, <1>6 DEF Next, Continue, ClaimedPCs, RegisterPCs, DeletePCs

\* Only the patch of RemoveFinalizer takes the finalizer from a Cluster.
LEMMA GuardKept ==
    ASSUME TypeInv, [Next]_vars, NEW c \in Clusters, Guarded(cluster[c]),
           ~(c = req /\ pc = "removeFinalizer")
    PROVE  Guarded(cluster'[c])
BY ClusterStep DEF Guarded, ChangedByOthers, Claimed, Dropped, SameMark

\* Every step keeps ClaimInv, also when Clusters are created again.
LEMMA ClaimStep == TypeInv /\ BranchInv /\ ListInv /\ ClaimInv /\ [Next]_vars => ClaimInv'
<1> SUFFICES ASSUME TypeInv, BranchInv, ListInv, ClaimInv, [Next]_vars PROVE ClaimInv'
  OBVIOUS
<1>0. /\ pc # "idle" => req \in Clusters /\ loc.cluster # Absent
      /\ pc' # "idle" => req' \in Clusters
  BY TypeStep DEF TypeInv, TypeOK, ProcessOK
<1>1. ASSUME NEW c \in Clusters, Holds(cachedCluster'[c]) PROVE Guarded(cluster'[c])
  <2>1. CASE cachedCluster'[c] = cluster[c] /\ UNCHANGED cluster
    BY <1>1, <2>1 DEF Holds, Guarded
  <2>2. CASE cachedCluster'[c] = cachedCluster[c]
    <3>1. Guarded(cluster[c])
      BY <1>1, <2>2 DEF ClaimInv
    <3>2. ~(c = req /\ pc = "removeFinalizer")
      BY <1>1, <2>2 DEF ClaimInv, BranchInv, DeletePCs
    <3> QED
      BY <3>1, <3>2, GuardKept
  <2> QED
    BY <2>1, <2>2, CachedClusterStep
<1>2. ASSUME pc' # "idle", Holds(loc'.cluster) PROVE Guarded(cluster'[req'])
  <2>1. CASE Begins
    <3>1. Guarded(cluster[req'])
      BY <1>0, <1>2, <2>1 DEF Begins, ClaimInv
    <3> QED
      BY <2>1, <3>1 DEF Begins, objects, Guarded
  <2>2. CASE pc # "idle" /\ req' = req /\ loc'.cluster = loc.cluster
    <3>1. Guarded(cluster[req]) /\ pc # "removeFinalizer"
      BY <1>2, <2>2 DEF ClaimInv, Holds, BranchInv, DeletePCs
    <3>2. Guarded(cluster'[req])
      BY <1>0, <2>2, <3>1, GuardKept
    <3> QED
      BY <2>2, <3>2 DEF Guarded
  <2> QED
    BY <1>2, <2>1, <2>2, ProcessStep DEF GoesOn
<1>3. ASSUME pc' \in ClaimedPCs PROVE Guarded(cluster'[req'])
  <2>0. pc' # "idle" /\ pc' # "appsEnabled"
    BY <1>3 DEF ClaimedPCs, RegisterPCs
  <2>1. pc # "idle" /\ req' = req /\ loc'.cluster = loc.cluster
    BY <2>0, ProcessStep DEF GoesOn, Begins
  <2>2. req \in Clusters /\ loc.cluster # Absent /\ ~loc.cluster.deleting
    BY <1>0, <1>3, <2>1, BranchStep DEF BranchInv, ClaimedPCs
  <2>3. CASE AddFinalizer
    <3> DEFINE new == [cluster[req] EXCEPT !.finalizer = TRUE, !.others = loc.cluster.others]
    <3>1. cluster[req] # Absent /\ cluster' = [cluster EXCEPT ![req] = new]
      BY <2>0, <2>3 DEF AddFinalizer, PatchFinalizers, Requeue
    <3>2. cluster \in [Clusters -> OrAbsent(ClusterObject)] /\ loc.cluster \in ClusterObject
      BY <2>2 DEF TypeInv, TypeOK, ObjectsOK, ProcessOK, Locals, OrAbsent
    <3>3. new \in ClusterObject /\ new.finalizer
      BY <2>2, <3>1, <3>2 DEF OrAbsent, ClusterObject
    <3>4. new # Absent
      BY <3>3, AbsentIsNoObject
    <3> HIDE DEF new
    <3> QED
      BY <2>1, <2>2, <3>1, <3>2, <3>3, <3>4 DEF Guarded
  <2>4. CASE pc \in ClaimedPCs \/ loc.cluster.finalizer
    <3>1. Guarded(cluster[req])
      BY <2>1, <2>2, <2>4 DEF ClaimInv, Holds
    <3>2. pc # "removeFinalizer"
      BY <2>2 DEF BranchInv, DeletePCs
    <3>3. Guarded(cluster'[req])
      BY <2>2, <3>1, <3>2, GuardKept
    <3> QED
      BY <2>1, <3>3 DEF Guarded
  <2> QED
    BY <1>3, <2>3, <2>4, ClaimFlow
<1>4. ASSUME pc' # "idle", loc'.cluster.deleting, loc'.cluster.finalizer
      PROVE  ~Holds(cachedCluster'[req'])
  <2>1. CASE Begins
    BY <1>4, <2>1 DEF Begins, caches, Holds
  <2>2. CASE pc # "idle" /\ req' = req /\ loc'.cluster = loc.cluster
    <3>1. ~Holds(cachedCluster[req]) /\ Outlived(loc.cluster, cluster[req])
      BY <1>4, <2>2 DEF ClaimInv, ListInv
    <3>2. ~Holds(cluster[req])
      BY <1>0, <1>4, <2>2, <3>1 DEF Holds, Outlived
    <3> QED
      BY <1>0, <2>2, <3>1, <3>2, CachedClusterStep
  <2> QED
    BY <1>4, <2>1, <2>2, ProcessStep DEF GoesOn
<1> QED
  BY <1>1, <1>2, <1>3, <1>4 DEF ClaimInv, Holds, Guarded

\* Where --tbot is ever on it is always on, and then no two clusters share the
\* name that the bot's ConfigMap goes by.  With the flag off Reconcile drops the
\* finalizer and leaves that ConfigMap.
BotOwned ==
    (\E cfg \in Configs : cfg.tbot) =>
        /\ \A cfg \in Configs : cfg.tbot
        /\ \A c, d \in Clusters : NameOf[c] = NameOf[d] => c = d

\* The bot has a ConfigMap only if some process runs with --tbot.
BotlessInv == tbotConfigMaps # {} => \E cfg \in Configs : cfg.tbot

\* Only a process with --tbot makes the bot's ConfigMap.
LEMMA BotlessStep == TypeInv /\ BranchInv /\ BotlessInv /\ [Next]_vars => BotlessInv'
<1> SUFFICES ASSUME TypeInv, BranchInv, BotlessInv, [Next]_vars, ~(\E cfg \in Configs : cfg.tbot)
             PROVE  tbotConfigMaps' = {}
  BY DEF BotlessInv
<1>1. pc # "ensureTbotConfigMap"
  BY DEF BranchInv, BotPCs, IsBotEnabled, TypeInv, TypeOK, SessionOK
<1>2. tbotConfigMaps = {}
  BY DEF BotlessInv
<1> QED
  BY <1>1, <1>2, TbotWritten

\* An object that is made for a Cluster is made while the finalizer is known to
\* be set.
LEMMA MadeWhenClaimed ==
    ASSUME TypeInv, BranchInv, [Next]_vars, BotOwned, NEW c \in Clusters,
           \/ secret[c] = Absent /\ secret'[c] # Absent
           \/ configMap[c] = Absent /\ configMap'[c] # Absent
           \/ NameOf[c] \notin tbotConfigMaps /\ NameOf[c] \in tbotConfigMaps'
    PROVE  c = req /\ pc \in ClaimedPCs /\ UNCHANGED cluster
<1> USE DEF ClaimedPCs, RegisterPCs
<1>1. CASE secret[c] = Absent /\ secret'[c] # Absent
  BY <1>1, SecretWritten
<1>2. CASE configMap[c] = Absent /\ configMap'[c] # Absent
  BY <1>2, ConfigMapWritten
<1>3. CASE NameOf[c] \notin tbotConfigMaps /\ NameOf[c] \in tbotConfigMaps'
  <2>1. pc = "ensureTbotConfigMap" /\ NameOf[c] = NameOf[req] /\ UNCHANGED cluster
    BY <1>3, TbotWritten
  <2>2. req \in Clusters /\ config \in Configs /\ config.tbot
    BY <2>1 DEF TypeInv, TypeOK, ProcessOK, SessionOK, BranchInv, BotPCs, IsBotEnabled
  <2> QED
    BY <2>1, <2>2 DEF BotOwned
<1> QED
  BY <1>1, <1>2, <1>3

\* Nothing is published at the start.
LEMMA GuardsInit == Init => BotlessInv /\ FinalizerGuards
BY DEF Init, BotlessInv, FinalizerGuards

\* Every step leaves what is published under the finalizer.
LEMMA GuardsStep ==
    ASSUME BotOwned
    PROVE  TypeInv /\ BranchInv /\ CleanupInv /\ ClaimInv /\ BotlessInv /\ FinalizerGuards
           /\ [Next]_vars => FinalizerGuards'
<1> SUFFICES ASSUME TypeInv, BranchInv, CleanupInv, ClaimInv, BotlessInv, FinalizerGuards,
                    [Next]_vars, NEW c \in Clusters,
                    \/ secret'[c] # Absent \/ configMap'[c] # Absent
                    \/ NameOf[c] \in tbotConfigMaps'
             PROVE  Guarded(cluster'[c])
  BY DEF FinalizerGuards, Guarded
<1>1. CASE \/ secret[c] = Absent /\ secret'[c] # Absent
           \/ configMap[c] = Absent /\ configMap'[c] # Absent
           \/ NameOf[c] \notin tbotConfigMaps /\ NameOf[c] \in tbotConfigMaps'
  BY <1>1, MadeWhenClaimed DEF ClaimInv, Guarded
<1>2. CASE secret[c] # Absent \/ configMap[c] # Absent \/ NameOf[c] \in tbotConfigMaps
  <2>1. Guarded(cluster[c])
    BY <1>2 DEF FinalizerGuards, Guarded
  <2>2. ~(c = req /\ pc = "removeFinalizer")
    <3> SUFFICES ASSUME c = req, pc = "removeFinalizer" PROVE FALSE
      OBVIOUS
    <3>1. /\ secret[c] = Absent /\ configMap[c] = Absent
          /\ IsBotEnabled => NameOf[c] \notin tbotConfigMaps
      BY DEF CleanupInv, PastSecret, PastConfigMap, PastBot, PastTbotConfigMap, PastKubeconfig
    <3>2. tbotConfigMaps # {} => IsBotEnabled
      BY DEF BotlessInv, BotOwned, IsBotEnabled, TypeInv, TypeOK, SessionOK
    <3> QED
      BY <1>2, <3>1, <3>2
  <2> QED
    BY <2>1, <2>2, GuardKept
<1> QED
  BY <1>1, <1>2

\* Nothing the operator published for a Cluster is without a Cluster that has the
\* finalizer, also when Clusters go and others take their names.
THEOREM GuardsAlways ==
    ASSUME BotOwned
    PROVE  Spec => []FinalizerGuards
<1> DEFINE IInv == /\ TypeInv /\ BranchInv /\ ListInv /\ CleanupInv /\ ClaimInv
                   /\ BotlessInv /\ FinalizerGuards
<1>1. Init => IInv
  BY TypeInit, BranchInit, ListInit, CleanupInit, ClaimInit, GuardsInit
<1>2. IInv /\ [Next]_vars => IInv'
  BY TypeStep, BranchStep, ListStep, CleanupStep, ClaimStep, BotlessStep, GuardsStep
<1> QED
  BY <1>1, <1>2, PTL DEF Spec

=============================================================================
