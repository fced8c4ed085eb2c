---------------------------- MODULE ReferenceList ----------------------------
(***************************************************************************)
(* What TeleportAppConfigManager promises about the values references of   *)
(* HelmReleases and Apps: EnsureConfig appends one entry that is not there *)
(* yet, DeleteConfig takes that entry out, and neither of them moves, adds *)
(* or drops an entry of anyone else, or one for another cluster.           *)
(***************************************************************************)
EXTENDS Filtering

CONSTANTS Absent,      \* the release does not exist
          Kinds,       \* of releases
          Names,       \* of clusters
          Entries,     \* all there may be
          Entry(_)     \* the entry for a cluster

VARIABLE list          \* the references of each release

Own(refs) == Filter(refs, {Entry(n) : n \in Names})

Without(refs, e) == Filter(refs, Entries \ {e})

ListInit == \A k \in Kinds : list[k] # Absent => Own(list[k]) = <<>>

Ensure(k, n) ==
    /\ list[k] # Absent
    /\ ~Has(list[k], Entry(n))
    /\ list' = [list EXCEPT ![k] = Append(@, Entry(n))]

Forget(k, n) ==
    /\ list[k] # Absent
    /\ list' = [list EXCEPT ![k] = Without(@, Entry(n))]

\* Someone else deploys a release, uninstalls it, or edits its references but
\* for the operator's entries.
Others(k) ==
    /\ \A j \in Kinds \ {k} : list'[j] = list[j]
    /\ \/ list'[k] = Absent
       \/ list[k] = Absent /\ Own(list'[k]) = <<>>
       \/ list[k] # Absent /\ Own(list'[k]) = Own(list[k])

ListNext ==
    \E k \in Kinds : Others(k) \/ \E n \in Names : Ensure(k, n) \/ Forget(k, n)

ListSpec == ListInit /\ [][ListNext]_list

=============================================================================
