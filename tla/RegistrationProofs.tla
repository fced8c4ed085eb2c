------------------------- MODULE RegistrationProofs -------------------------
(***************************************************************************)
(* ClusterReconciler implements Registration, for any clusters, versions,  *)
(* configs and bounds.  The invariants of FinalizerProofs are what the     *)
(* guards of the abstract actions follow from: ClaimInv that of Publish,   *)
(* ListInv and CleanupInv that of Release.                                 *)
(***************************************************************************)
EXTENDS RegistrationRefinement, FinalizerProofs

\* Where the bot's ConfigMap is one of the parts, no two clusters share it.
PartsOwned ==
    BotAlwaysEnabled => \A c, d \in Clusters : NameOf[c] = NameOf[d] => c = d

\* Changing one part of one cluster publishes or withdraws it.
LEMMA PartChanged ==
    ASSUME NEW c \in Clusters, NEW p \in Parts,
           \A d \in Clusters, q \in Parts :
              <<d, q>> # <<c, p>> => (Made(d, q)' <=> Made(d, q))
    PROVE  Published' = [Published EXCEPT ![c] =
              IF Made(c, p)' THEN Published[c] \cup {p} ELSE Published[c] \ {p}]
<1> DEFINE new == IF Made(c, p)' THEN Published[c] \cup {p} ELSE Published[c] \ {p}
<1>1. \A d \in Clusters : /\ Published[d] = {q \in Parts : Made(d, q)}
                          /\ Published'[d] = {q \in Parts : Made(d, q)'}
  BY DEF Published
<1>2. ASSUME NEW d \in Clusters, d # c PROVE Published'[d] = Published[d]
  <2>1. \A q \in Parts : Made(d, q)' <=> Made(d, q)
    BY <1>2
  <2> QED
    BY <1>1, <2>1
<1>3. Published'[c] = new
  <2>1. \A q \in Parts : q # p => (Made(c, q)' <=> Made(c, q))
    OBVIOUS
  <2> QED
    BY <1>1, <2>1
<1>4. Published' = [d \in Clusters |-> Published'[d]] /\ Published = [d \in Clusters |-> Published[d]]
  BY <1>1 DEF Published
<1> HIDE DEF new
<1> QED
  BY <1>2, <1>3, <1>4 DEF new

\* A Cluster that is there is there for Registration.
LEMMA SeenObject ==
    ASSUME NEW object \in ClusterObject
    PROVE  [deleting |-> object.deleting, finalizer |-> object.finalizer] # Absent
<1>1. [deleting |-> object.deleting, finalizer |-> object.finalizer] \in RegObject
  BY DEF ClusterObject, RegObject
<1> QED
  BY <1>1, AbsentIsNoRegObject

\* Making a part, or one less, is a step of Registration.
LEMMA PartStep ==
    ASSUME NEW c \in Clusters, NEW p \in Parts,
           \A d \in Clusters, q \in Parts :
              <<d, q>> # <<c, p>> => (Made(d, q)' <=> Made(d, q)),
           ~Made(c, p) /\ Made(c, p)' => Guarded(cluster[c]),
           TypeInv, UNCHANGED cluster
    PROVE  [LifeCycle!RegNext]_(LifeCycle!regVars)
<1>1. Object' = Object
  BY DEF Object, ObjectOf
<1>2. Published' = [Published EXCEPT ![c] =
         IF Made(c, p)' THEN Published[c] \cup {p} ELSE Published[c] \ {p}]
  BY PartChanged
<1>3. CASE ~Made(c, p)'
  <2>1. LifeCycle!Withdraw(c, p)
    BY <1>1, <1>2, <1>3 DEF LifeCycle!Withdraw
  <2> QED
    BY <2>1 DEF LifeCycle!RegNext
<1>4. CASE Made(c, p)' /\ Made(c, p)
  <2>1. Published[c] \cup {p} = Published[c]
    BY <1>4 DEF Published
  <2>2. Published' = Published
    BY <1>2, <1>4, <2>1 DEF Published
  <2> QED
    BY <1>1, <2>2 DEF LifeCycle!regVars
<1>5. CASE Made(c, p)' /\ ~Made(c, p)
  <2>1. Object[c] # Absent /\ Object[c].finalizer
    <3>1. cluster[c] # Absent /\ cluster[c].finalizer /\ cluster[c] \in ClusterObject
      BY <1>5 DEF Guarded, TypeInv, TypeOK, ObjectsOK, OrAbsent
    <3>2. Object[c] = [deleting |-> cluster[c].deleting, finalizer |-> cluster[c].finalizer]
      BY <3>1 DEF Object, ObjectOf
    <3>3. Object[c] # Absent
      BY <3>1, <3>2, SeenObject
    <3>4. Object[c].finalizer = cluster[c].finalizer
      BY <3>2
    <3> QED
      BY <3>1, <3>3, <3>4
  <2>2. LifeCycle!Publish(c, p)
    BY <1>1, <1>2, <1>5, <2>1 DEF LifeCycle!Publish
  <2> QED
    BY <2>2 DEF LifeCycle!RegNext
<1> QED
  BY <1>3, <1>4, <1>5

\* What changes a Cluster, and no other, is a step of Registration.
LEMMA ObjectStep ==
    ASSUME TypeInv, BranchInv, ListInv, CleanupInv, [Next]_vars,
           NEW c \in Clusters, cluster'[c] # cluster[c]
    PROVE  [LifeCycle!RegNext]_(LifeCycle!regVars)
<1>1. /\ \/ ChangedByOthers(cluster[c], cluster'[c])
         \/ c = req /\ Claimed(cluster[c], cluster'[c])
         \/ c = req /\ Dropped(cluster[c], cluster'[c])
      /\ OnlyPatched(c)
  BY ClusterStep DEF OnlyCluster
<1>2. Published' = Published
  BY <1>1 DEF OnlyPatched, Published, Made
<1> DEFINE new == ObjectOf(cluster'[c])
<1>3. Object' = [Object EXCEPT ![c] = new]
  <2>1. \A d \in Clusters \ {c} : ObjectOf(cluster'[d]) = ObjectOf(cluster[d])
    BY <1>1 DEF OnlyPatched
  <2>2. ObjectOf(cluster'[c]) = new
    OBVIOUS
  <2>3. Object' = [d \in Clusters |-> ObjectOf(cluster'[d])]
    BY DEF Object, ObjectOf
  <2> HIDE DEF new
  <2> QED
    BY <2>1, <2>2, <2>3 DEF Object
<1>4. Object[c] = ObjectOf(cluster[c]) /\ Object = [d \in Clusters |-> Object[d]]
  BY DEF Object
<1>5. cluster[c] # Absent =>
         /\ Object[c] = [deleting |-> cluster[c].deleting, finalizer |-> cluster[c].finalizer]
         /\ Object[c].deleting = cluster[c].deleting
         /\ Object[c].finalizer = cluster[c].finalizer
  BY <1>4 DEF ObjectOf
<1>6. cluster'[c] # Absent =>
         new = [deleting |-> cluster'[c].deleting, finalizer |-> cluster'[c].finalizer]
  BY DEF ObjectOf
<1>7. ASSUME new = Object[c] PROVE [LifeCycle!RegNext]_(LifeCycle!regVars)
  BY <1>2, <1>3, <1>4, <1>7 DEF LifeCycle!regVars
<1>8. /\ cluster[c] # Absent => cluster[c] \in ClusterObject
      /\ cluster'[c] # Absent => cluster'[c] \in ClusterObject
  BY TypeStep DEF TypeInv, TypeOK, ObjectsOK, OrAbsent
<1>10. cluster[c] # Absent => Object[c] # Absent
  BY <1>5, <1>8, SeenObject
<1> HIDE DEF new
<1>11. CASE cluster[c] # Absent /\ cluster'[c] # Absent /\ cluster'[c].deleting
            /\ cluster'[c].finalizer = cluster[c].finalizer
  <2>1. new = [Object[c] EXCEPT !.deleting = TRUE]
    BY <1>5, <1>6, <1>8, <1>11 DEF ClusterObject
  <2>2. LifeCycle!Mark(c)
    BY <1>2, <1>3, <1>10, <1>11, <2>1 DEF LifeCycle!Mark
  <2> QED
    BY <2>2 DEF LifeCycle!RegNext
<1>12. CASE cluster[c] # Absent /\ cluster[c].deleting /\ ~cluster[c].finalizer
            /\ cluster'[c] = Absent
  <2>1. new = Absent
    BY <1>12 DEF new, ObjectOf
  <2>2. LifeCycle!Vanish(c)
    BY <1>2, <1>3, <1>5, <1>10, <1>12, <2>1 DEF LifeCycle!Vanish
  <2> QED
    BY <2>2 DEF LifeCycle!RegNext
<1>13. CASE /\ SameMark(cluster[c], cluster'[c])
            /\ cluster'[c].finalizer = cluster[c].finalizer
  BY <1>5, <1>6, <1>7, <1>13 DEF SameMark
<1>14. CASE Claimed(cluster[c], cluster'[c])
  <2>1. CASE cluster[c].deleting
    <3>1. cluster'[c].finalizer = cluster[c].finalizer
      BY <1>8, <1>14, <2>1 DEF Claimed, SameMark, ClusterObject
    <3> QED
      BY <1>13, <1>14, <3>1 DEF Claimed
  <2>2. CASE ~cluster[c].deleting
    <3>1. cluster'[c].finalizer = TRUE
      BY <1>8, <1>14 DEF Claimed, SameMark, ClusterObject
    <3>2. new = [Object[c] EXCEPT !.finalizer = TRUE]
      BY <1>5, <1>6, <1>14, <3>1 DEF Claimed, SameMark
    <3>3. LifeCycle!Claim(c)
      BY <1>2, <1>3, <1>5, <1>10, <1>14, <2>2, <3>2 DEF LifeCycle!Claim, Claimed, SameMark
    <3> QED
      BY <3>3 DEF LifeCycle!RegNext
  <2> QED
    BY <2>1, <2>2
<1>15. CASE c = req /\ Dropped(cluster[c], cluster'[c])
  <2>1. pc = "removeFinalizer" /\ SameMark(cluster[c], cluster'[c])
    BY <1>15 DEF Dropped
  <2>2. cluster'[c].finalizer = FALSE
    BY <1>8, <1>15 DEF Dropped, SameMark, ClusterObject
  <2>3. CASE ~cluster[c].finalizer
    <3>1. cluster'[c].finalizer = cluster[c].finalizer
      BY <1>8, <2>1, <2>2, <2>3 DEF SameMark, ClusterObject
    <3> QED
      BY <1>13, <2>1, <3>1
  <2>4. Published[c] = {}
    <3>1. BotAlwaysEnabled => IsBotEnabled
      BY DEF BotAlwaysEnabled, IsBotEnabled, TypeInv, TypeOK, SessionOK
    <3>2. \A p \in Parts : ~Made(c, p)
      BY <1>15, <2>1, <3>1 DEF Made, CleanupInv, PastSecret, PastConfigMap, PastBot,
         PastTbotConfigMap, PastKubeconfig
    <3> QED
      BY <3>2 DEF Published
  <2>5. new = [Object[c] EXCEPT !.finalizer = FALSE]
    BY <1>5, <1>6, <2>1, <2>2 DEF SameMark
  <2>6. CASE cluster[c].finalizer
    <3>1. loc.cluster # Absent /\ loc.cluster.deleting /\ loc.cluster.finalizer
      BY <2>1 DEF TypeInv, TypeOK, ProcessOK, BranchInv, DeletePCs
    <3>2. cluster[c].deleting
      BY <1>15, <2>1, <2>6, <3>1 DEF ListInv, Outlived, SameMark
    <3>3. LifeCycle!Release(c)
      BY <1>2, <1>3, <1>5, <1>10, <2>1, <2>4, <2>5, <3>2 DEF LifeCycle!Release, SameMark
    <3> QED
      BY <3>3 DEF LifeCycle!RegNext
  <2> QED
    BY <2>3, <2>6
<1>16. CASE cluster[c] = Absent /\ cluster'[c] # Absent
            /\ ~cluster'[c].deleting /\ ~cluster'[c].finalizer
  <2>1. Object[c] = Absent
    BY <1>4, <1>16 DEF ObjectOf
  <2>2. cluster'[c].deleting = FALSE /\ cluster'[c].finalizer = FALSE
    BY <1>8, <1>16 DEF ClusterObject
  <2>3. new = LifeCycle!New
    BY <1>6, <1>16, <2>2 DEF LifeCycle!New
  <2>4. LifeCycle!Create(c)
    BY <1>2, <1>3, <2>1, <2>3 DEF LifeCycle!Create
  <2> QED
    BY <2>4 DEF LifeCycle!RegNext
<1> QED
  BY <1>1, <1>11, <1>12, <1>13, <1>14, <1>15, <1>16 DEF ChangedByOthers

\* Every step is a step of Registration or changes nothing that it sees.
LEMMA RegistrationStep ==
    ASSUME PartsOwned
    PROVE  TypeInv /\ BranchInv /\ ListInv /\ CleanupInv /\ ClaimInv /\ [Next]_vars
           => [LifeCycle!RegNext]_(LifeCycle!regVars)
<1> SUFFICES ASSUME TypeInv, BranchInv, ListInv, CleanupInv, ClaimInv, [Next]_vars
             PROVE  [LifeCycle!RegNext]_(LifeCycle!regVars)
  OBVIOUS
<1>1. CASE \E c \in Clusters : cluster'[c] # cluster[c]
  BY <1>1, ObjectStep
<1>2. CASE \A c \in Clusters : cluster'[c] = cluster[c]
  <2>1. UNCHANGED cluster
    BY <1>2, TypeStep DEF TypeInv, TypeOK, ObjectsOK
  <2>2. ASSUME UNCHANGED <<secret, configMap, tbotConfigMaps>>
        PROVE  [LifeCycle!RegNext]_(LifeCycle!regVars)
    BY <2>1, <2>2 DEF LifeCycle!regVars, Object, Published, Made
  <2>3. ASSUME ~(UNCHANGED secret) PROVE [LifeCycle!RegNext]_(LifeCycle!regVars)
    <3>1. PICK c \in Clusters :
             /\ \A d \in Clusters \ {c} : secret'[d] = secret[d]
             /\ secret[c] = Absent => c = req /\ pc = "putSecret"
             /\ UNCHANGED <<configMap, tbotConfigMaps>>
      BY <2>3, SecretWritten
    <3>2. \A d \in Clusters, q \in Parts :
             <<d, q>> # <<c, "secret">> => (Made(d, q)' <=> Made(d, q))
      BY <3>1 DEF Made, Parts
    <3>3. ~Made(c, "secret") => Guarded(cluster[c])
      BY <3>1 DEF Made, ClaimInv, ClaimedPCs, RegisterPCs
    <3> QED
      BY <2>1, <3>2, <3>3, PartStep DEF Parts
  <2>4. ASSUME ~(UNCHANGED configMap) PROVE [LifeCycle!RegNext]_(LifeCycle!regVars)
    <3>1. PICK c \in Clusters :
             /\ \A d \in Clusters \ {c} : configMap'[d] = configMap[d]
             /\ configMap[c] = Absent => c = req /\ pc = "putConfigMap"
             /\ UNCHANGED <<secret, tbotConfigMaps>>
      BY <2>4, ConfigMapWritten
    <3>2. \A d \in Clusters, q \in Parts :
             <<d, q>> # <<c, "configMap">> => (Made(d, q)' <=> Made(d, q))
      BY <3>1 DEF Made, Parts
    <3>3. ~Made(c, "configMap") => Guarded(cluster[c])
      BY <3>1 DEF Made, ClaimInv, ClaimedPCs, RegisterPCs
    <3> QED
      BY <2>1, <3>2, <3>3, PartStep DEF Parts
  <2>5. ASSUME ~(UNCHANGED tbotConfigMaps) PROVE [LifeCycle!RegNext]_(LifeCycle!regVars)
    <3>1. /\ \/ /\ pc = "ensureTbotConfigMap"
                /\ tbotConfigMaps' = tbotConfigMaps \cup {NameOf[req]}
             \/ /\ pc = "deleteTbotConfigMap"
                /\ tbotConfigMaps' = tbotConfigMaps \ {NameOf[req]}
          /\ UNCHANGED <<secret, configMap>>
      BY <2>5, TbotWritten
    <3>2. PICK c \in Clusters : c = req
      BY <3>1 DEF TypeInv, TypeOK, ProcessOK
    <3>3. \A d \in Clusters, q \in Parts :
             <<d, q>> # <<c, "tbotConfigMap">> => (Made(d, q)' <=> Made(d, q))
      BY <3>1, <3>2 DEF Made, Parts, PartsOwned
    <3>4. ~Made(c, "tbotConfigMap") /\ Made(c, "tbotConfigMap")'
          => Guarded(cluster[c])
      BY <3>1, <3>2 DEF Made, ClaimInv, ClaimedPCs, RegisterPCs
    <3> QED
      BY <2>1, <3>2, <3>3, <3>4, PartStep DEF Parts
  <2> QED
    BY <2>2, <2>3, <2>4, <2>5
<1> QED
  BY <1>1, <1>2

\* At the start no Cluster has the finalizer and nothing is published.
LEMMA RegistrationInit == Init => LifeCycle!RegInit
<1> SUFFICES ASSUME Init PROVE LifeCycle!RegInit
  OBVIOUS
<1>1. ASSUME NEW c \in Clusters
      PROVE  ObjectOf(cluster[c]) = [deleting |-> FALSE, finalizer |-> FALSE]
  <2>1. cluster[c] \in NewClusters
    BY DEF Init
  <2>2. PICK S \in SUBSET OtherFinalizers :
           cluster[c] = [deleting |-> FALSE, finalizer |-> FALSE, others |-> S]
    BY <2>1 DEF NewClusters
  <2>3. cluster[c] \in ClusterObject
    BY <2>2 DEF ClusterObject
  <2>4. cluster[c] # Absent
    BY <2>3, AbsentIsNoObject
  <2> QED
    BY <2>2, <2>4 DEF ObjectOf
<1>2. ASSUME NEW c \in Clusters PROVE {p \in Parts : Made(c, p)} = {}
  BY DEF Init, Made
<1> QED
  BY <1>1, <1>2 DEF LifeCycle!RegInit, LifeCycle!New, Object, Published

\* The operator keeps the promise of Registration, whatever is stale, fails,
\* restarts or is created again.
THEOREM RegistrationImplemented ==
    ASSUME PartsOwned
    PROVE  Spec => ImplementsRegistration
<1> DEFINE IInv == TypeInv /\ BranchInv /\ ListInv /\ CleanupInv /\ ClaimInv
<1>1. Init => IInv /\ LifeCycle!RegInit
  BY TypeInit, BranchInit, ListInit, CleanupInit, ClaimInit, RegistrationInit
<1>2. IInv /\ [Next]_vars => IInv'
  BY TypeStep, BranchStep, ListStep, CleanupStep, ClaimStep
<1>3. IInv /\ [Next]_vars => [LifeCycle!RegNext]_(LifeCycle!regVars)
  BY RegistrationStep
<1> QED
  BY <1>1, <1>2, <1>3, PTL DEF Spec, ImplementsRegistration, LifeCycle!RegSpec

=============================================================================
