----------------------------- MODULE MCReconciler -----------------------------
(***************************************************************************)
(* Values for the constants of ClusterReconciler.                          *)
(***************************************************************************)
EXTENDS RegistrationRefinement

\* The last chart that reads the flat values, and the first that does not.
FlatChart == Release(0, 10, 9)
NestedChart == Release(0, 11, 0)

BothCharts == {FlatChart, NestedChart}
OneChart == {NestedChart}

\* A teleport version older than the one bundled with the chart, and a newer.
OlderTeleport == [proxyAddr |-> "proxy", teleportVersion |-> Release(17, 0, 0), tbot |-> FALSE]
NewerTeleport == [proxyAddr |-> "proxy", teleportVersion |-> Release(18, 7, 6), tbot |-> FALSE]
WithTbot == [NewerTeleport EXCEPT !.tbot = TRUE]

OneConfig == {NewerTeleport}
OlderOrBot == {OlderTeleport, WithTbot}
BotConfig == {WithTbot}

\* Every cluster its own name, or all of them one name in several namespaces.
OwnNames == [c \in Clusters |-> c]
SharedName == [c \in Clusters |-> "name"]

\* FairSpec, started when all agents and the bot are deployed, with user values
\* that may become unreadable but have no apps.
DeployedFairSpec ==
    /\ Init /\ \A k \in Kinds, r \in Resources : release[k][r] # Absent
    /\ [][Next /\ \A c \in Clusters : userValues'[c] # "apps"]_vars
    /\ Fairness

=============================================================================
