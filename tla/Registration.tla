---------------------------- MODULE Registration ----------------------------
(***************************************************************************)
(* What the operator promises about a Cluster and the objects it makes for *)
(* it, without tokens, caches, requests or single API calls: a finalizer   *)
(* is put on the Cluster before the first object is made and is taken off  *)
(* only from a Cluster being deleted of which no object is left, so nobody *)
(* sees the Cluster go while its objects stay, and one created again under *)
(* the same name starts with none.                                         *)
(***************************************************************************)
CONSTANTS Absent,      \* the Cluster does not exist
          Clusters,
          Parts        \* the objects made for a Cluster

VARIABLES object,      \* of each Cluster: Absent, or deleting and finalizer
          published    \* of each Cluster: the parts that exist

regVars == <<object, published>>

New == [deleting |-> FALSE, finalizer |-> FALSE]

RegInit ==
    /\ object = [c \in Clusters |-> New]
    /\ published = [c \in Clusters |-> {}]

\* The operator puts its finalizer on a Cluster that stays.
Claim(c) ==
    /\ object[c] # Absent
    /\ ~object[c].deleting
    /\ object' = [object EXCEPT ![c].finalizer = TRUE]
    /\ UNCHANGED published

\* The operator makes an object, only for a Cluster it has claimed.
Publish(c, p) ==
    /\ object[c] # Absent
    /\ object[c].finalizer
    /\ published' = [published EXCEPT ![c] = @ \cup {p}]
    /\ UNCHANGED object

\* The operator, or someone else, removes an object.
Withdraw(c, p) ==
    /\ published' = [published EXCEPT ![c] = @ \ {p}]
    /\ UNCHANGED object

\* The operator lets go of a Cluster being deleted once nothing is left.
Release(c) ==
    /\ object[c] # Absent
    /\ object[c].deleting
    /\ published[c] = {}
    /\ object' = [object EXCEPT ![c].finalizer = FALSE]
    /\ UNCHANGED published

\* The Cluster is marked for deletion.
Mark(c) ==
    /\ object[c] # Absent
    /\ object' = [object EXCEPT ![c].deleting = TRUE]
    /\ UNCHANGED published

\* A Cluster marked for deletion without the finalizer goes.
Vanish(c) ==
    /\ object[c] # Absent
    /\ object[c].deleting
    /\ ~object[c].finalizer
    /\ object' = [object EXCEPT ![c] = Absent]
    /\ UNCHANGED published

\* A Cluster is created under the name of one that is gone.
Create(c) ==
    /\ object[c] = Absent
    /\ object' = [object EXCEPT ![c] = New]
    /\ UNCHANGED published

RegNext ==
    \E c \in Clusters :
        \/ Claim(c) \/ Release(c) \/ Mark(c) \/ Vanish(c) \/ Create(c)
        \/ \E p \in Parts : Publish(c, p) \/ Withdraw(c, p)

RegSpec == RegInit /\ [][RegNext]_regVars

=============================================================================
