----------------------- MODULE RegistrationRefinement -----------------------
(***************************************************************************)
(* ClusterReconciler implements Registration.  The parts of a Cluster are  *)
(* its join token Secret, its values ConfigMap and, where --tbot is never  *)
(* off, the bot's ConfigMap.                                               *)
(***************************************************************************)
EXTENDS ClusterReconciler

Parts == {"secret", "configMap", "tbotConfigMap"}

BotAlwaysEnabled == \A cfg \in Configs : cfg.tbot

\* The part p of the cluster c exists.
Made(c, p) ==
    \/ p = "secret" /\ secret[c] # Absent
    \/ p = "configMap" /\ configMap[c] # Absent
    \/ p = "tbotConfigMap" /\ BotAlwaysEnabled /\ NameOf[c] \in tbotConfigMaps

\* What Registration knows of a Cluster.
RegObject == [deleting : BOOLEAN, finalizer : BOOLEAN]

ASSUME AbsentIsNoRegObject == Absent \notin RegObject

ObjectOf(live) ==
    IF live = Absent THEN Absent
    ELSE [deleting |-> live.deleting, finalizer |-> live.finalizer]

Object == [c \in Clusters |-> ObjectOf(cluster[c])]
Published == [c \in Clusters |-> {p \in Parts : Made(c, p)}]

LifeCycle == INSTANCE Registration WITH object <- Object, published <- Published

\* Every behaviour of the operator, with its stale Clusters, Clusters created
\* again, failing calls and restarts, is one of Registration: finalizer first,
\* objects then, and the finalizer dropped last, one visible change at a time.
ImplementsRegistration == LifeCycle!RegSpec

=============================================================================
