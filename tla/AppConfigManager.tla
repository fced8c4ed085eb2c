--------------------------- MODULE AppConfigManager ---------------------------
(***************************************************************************)
(* TeleportAppConfigManager (internal/pkg/teleport/app_manager.go) on one  *)
(* resource name that may be a HelmRelease, an App or both, call by call:  *)
(* the two Gets that detect the kind, the Get of EnsureConfig or           *)
(* DeleteConfig, and the Update of the whole list of references, while     *)
(* others deploy, uninstall and edit the same objects.                     *)
(*                                                                         *)
(* ClusterReconciler has these calls too, with the lists as sets; here     *)
(* they are sequences with the entries of others in them.                  *)
(***************************************************************************)
EXTENDS Filtering

CONSTANTS Absent,       \* no such object; a list that is nil
          Names,        \* the clusters whose ConfigMap is referred to
          Doubles,      \* those whose ConfigMap users refer to as well
          MaxEntries,   \* bound on the length of a list others may extend
          MaxChanges    \* bound on what others change

ASSUME ManagerAssumption ==
    /\ Absent \notin Names
    /\ Doubles \subseteq Names
    /\ MaxEntries \in Nat
    /\ MaxChanges \in Nat

Kinds == {"HelmRelease", "App"}

VARIABLES release,      \* of each kind: Absent, or its list of references
          cachedApp,    \* the App in the manager's cache
          wanted,       \* clusters that are there; the others are deregistered
          forgotten,    \* clusters whose DeleteConfig has returned without error
          pc, cur, op, manager, seen,
          changes       \* so far, by others

others == <<release, cachedApp, wanted, changes>>
vars   == <<others, forgotten, pc, cur, op, manager, seen>>

\* The desired entry for a cluster, and the entries of others: one for the same
\* ConfigMap with another priority or valuesKey, and one for something else.
desired(n) == [name |-> n, exact |-> TRUE]
ForeignEntries == {[name |-> n, exact |-> FALSE] : n \in Doubles \cup {"user"}}
Entries == {desired(n) : n \in Names} \cup ForeignEntries

\* nil is no list, and not found is no object.
ASSUME AbsentIsNoList ==
    /\ Absent \notin Seq(Entries)
    /\ Absent \notin [refs : Seq(Entries) \cup {Absent}]

NewReleases == [refs : {Absent, <<>>} \cup {<<e>> : e \in ForeignEntries}]

Elements(refs) == IF refs = Absent THEN <<>> ELSE refs

Contains(refs, e) == Has(Elements(refs), e)

Init ==
    /\ release \in [Kinds -> {Absent} \cup NewReleases]
    /\ cachedApp = release["App"]
    /\ wanted = Names
    /\ forgotten = {}
    /\ pc = "idle"
    /\ cur = Absent
    /\ op = "none"
    /\ manager = "none"
    /\ seen = Absent
    /\ changes = 0

-----------------------------------------------------------------------------
(* The lists.  nil and empty are different lists to reflect.DeepEqual.      *)

\* Mutant: an entry for the ConfigMap will do, whatever its priority.
appendValuesReferenceByName(refs, ref) ==
    IF \E i \in 1..Len(Elements(refs)) : Elements(refs)[i].name = ref.name
    THEN refs ELSE Append(Elements(refs), ref)

\* appendExtraConfig is the same.
appendValuesReference(refs, ref) ==
    IF Contains(refs, ref) THEN refs ELSE Append(Elements(refs), ref)

\* removeExtraConfig is the same: a new slice, never nil.
removeValuesReference(refs, ref) == Filter(Elements(refs), Entries \ {ref})

\* An App's empty list is left out of the object that is sent (omitempty).
Stored(k, refs) == IF k = "App" /\ refs = <<>> THEN Absent ELSE refs

-----------------------------------------------------------------------------
(* The calls.                                                               *)

Get(k) == IF k = "App" THEN cachedApp ELSE release[k]

\* The call under way is over.
Return ==
    /\ pc' = "idle"
    /\ cur' = Absent
    /\ op' = "none"
    /\ manager' = "none"
    /\ seen' = Absent

\* It returns nil, and DeleteConfig is not called again for the cluster.
ReturnNil ==
    /\ Return
    /\ forgotten' = IF op = "delete" THEN forgotten \cup {cur} ELSE forgotten

Succeed == ReturnNil /\ UNCHANGED others

\* It returns an error, and Reconcile calls again later.
Fail == Return /\ UNCHANGED <<others, forgotten>>

\* Reconcile gets to one of the clusters.
Start(n) ==
    /\ pc = "idle"
    /\ n \notin forgotten
    /\ pc' = "detectHelmRelease"
    /\ cur' = n
    /\ op' = IF n \in wanted THEN "ensure" ELSE "delete"
    /\ UNCHANGED <<others, forgotten, manager, seen>>

\* NewTeleportAppConfigManager: a HelmRelease takes precedence.
DetectHelmRelease ==
    /\ pc = "detectHelmRelease"
    /\ IF Get("HelmRelease") # Absent
       THEN pc' = "get" /\ manager' = "HelmRelease"
       ELSE pc' = "detectApp" /\ UNCHANGED manager
    /\ UNCHANGED <<others, forgotten, cur, op, seen>>

DetectApp ==
    /\ pc = "detectApp"
    /\ \/ /\ Get("App") # Absent
          /\ pc' = "get"
          /\ manager' = "App"
          /\ UNCHANGED <<others, forgotten, cur, op, seen>>
       \/ /\ Get("App") = Absent
          /\ Succeed

\* Get, change, compare; on to the Update if there is something to change.
EnsureConfig ==
    /\ pc = "get" /\ op = "ensure"
    /\ LET object == Get(manager)
       IN \/ object = Absent /\ Fail
          \/ /\ object # Absent
             /\ appendValuesReference(object.refs, desired(cur)) = object.refs
             /\ Succeed
          \/ /\ object # Absent
             /\ appendValuesReference(object.refs, desired(cur)) # object.refs
             /\ pc' = "update"
             /\ seen' = object
             /\ UNCHANGED <<others, forgotten, cur, op, manager>>

DeleteConfig ==
    /\ pc = "get" /\ op = "delete"
    /\ LET object == Get(manager)
       IN \/ object = Absent /\ Succeed
          \/ /\ object # Absent
             /\ \/ manager = "App" /\ object.refs = Absent
                \/ removeValuesReference(object.refs, desired(cur)) = object.refs
             /\ Succeed
          \/ /\ object # Absent
             /\ ~(manager = "App" /\ object.refs = Absent)
             /\ removeValuesReference(object.refs, desired(cur)) # object.refs
             /\ pc' = "update"
             /\ seen' = object
             /\ UNCHANGED <<others, forgotten, cur, op, manager>>

Updated ==
    IF op = "ensure" THEN appendValuesReference(seen.refs, desired(cur))
    ELSE removeValuesReference(seen.refs, desired(cur))

\* Write the list that was computed.
Write ==
    /\ release' = [release EXCEPT ![manager] = [refs |-> Stored(manager, Updated)]]
    /\ ReturnNil
    /\ UNCHANGED <<cachedApp, wanted, changes>>

\* Mutant: the update carries no resourceVersion.
UpdateUnconditionally ==
    /\ pc = "update"
    /\ IF release[manager] # Absent THEN Write ELSE Fail

\* Mutant: a conflict is only logged.
UpdateIgnoringConflict ==
    /\ pc = "update"
    /\ IF release[manager] = seen THEN Write ELSE Succeed

\* Update carries the resourceVersion of the object that was read: it holds only
\* while that object is unchanged.
Update ==
    /\ pc = "update"
    /\ IF release[manager] = seen THEN Write ELSE Fail

Manager ==
    \/ DetectHelmRelease \/ DetectApp \/ EnsureConfig \/ DeleteConfig \/ Update

-----------------------------------------------------------------------------
(* The others.                                                              *)

SyncApp ==
    /\ cachedApp # release["App"]
    /\ cachedApp' = release["App"]
    /\ UNCHANGED <<release, wanted, changes, forgotten, pc, cur, op, manager, seen>>

\* A Cluster is deleted: from now on its reference is to be removed.
ClusterDeleted(n) ==
    /\ n \in wanted
    /\ wanted' = wanted \ {n}
    /\ UNCHANGED <<release, cachedApp, changes, forgotten, pc, cur, op, manager, seen>>

Change ==
    /\ changes < MaxChanges
    /\ changes' = changes + 1

\* The call in progress fails, or the process is restarted.
CallFails ==
    /\ Change
    /\ pc # "idle"
    /\ Return
    /\ UNCHANGED <<release, cachedApp, wanted, forgotten>>

\* A list with an entry of others put in at either end, or taken out.
Edits(refs) ==
    {<<e>> \o refs : e \in IF Len(refs) < MaxEntries THEN ForeignEntries ELSE {}}
    \cup {refs \o <<e>> : e \in IF Len(refs) < MaxEntries THEN ForeignEntries ELSE {}}
    \cup {SubSeq(refs, 1, i - 1) \o SubSeq(refs, i + 1, Len(refs)) :
              i \in {j \in 1..Len(refs) : refs[j] \in ForeignEntries}}

\* A release is deployed or uninstalled, or someone edits its list, leaving the
\* operator's entries alone.
Edit(k) ==
    /\ Change
    /\ \/ release[k] = Absent /\ \E new \in NewReleases : release' = [release EXCEPT ![k] = new]
       \/ release[k] # Absent /\ release' = [release EXCEPT ![k] = Absent]
       \/ /\ release[k] # Absent
          /\ \E refs \in Edits(Elements(release[k].refs)) :
                release' = [release EXCEPT ![k].refs = Stored(k, refs)]
    /\ UNCHANGED <<cachedApp, wanted, forgotten, pc, cur, op, manager, seen>>

Next ==
    \/ Manager \/ SyncApp \/ CallFails
    \/ \E n \in Names : Start(n) \/ ClusterDeleted(n)
    \/ \E k \in Kinds : Edit(k)

Spec == Init /\ [][Next]_vars

\* Reconcile comes back to every cluster, its calls end, the watch delivers.
FairSpec ==
    /\ Spec
    /\ WF_vars(Manager) /\ WF_vars(SyncApp)
    /\ \A n \in Names : SF_vars(Start(n))

-----------------------------------------------------------------------------
(* What must hold.                                                          *)

\* The references of each release.
References ==
    [k \in Kinds |-> IF release[k] = Absent THEN Absent ELSE Elements(release[k].refs)]

Lists == INSTANCE ReferenceList WITH Entry <- desired, list <- References

\* The lists only change the way ReferenceList allows: whatever was edited
\* between a Get and its Update, or not yet seen in the cache, no entry of
\* another is lost, doubled or moved.
ImplementsReferenceList == Lists!ListSpec

\* After DeleteConfig has returned without error, the HelmRelease has no
\* reference to the cluster any more and never gets one again.
DeletedStaysDeleted ==
    \A n \in forgotten :
        release["HelmRelease"] # Absent => ~Contains(release["HelmRelease"].refs, desired(n))

\* The kind that takes precedence now.
InUse == IF release["HelmRelease"] # Absent THEN "HelmRelease" ELSE "App"

\* Every cluster that stays ends up with its entry in the release that takes
\* precedence, next to whatever similar entry someone else made and although
\* the kind may change between the detection and the update.
ReferencesConverge ==
    \A n \in Names :
        <>[](n \in wanted /\ release[InUse] # Absent
             => Contains(release[InUse].refs, desired(n)))

=============================================================================
