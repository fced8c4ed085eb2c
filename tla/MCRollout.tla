------------------------------ MODULE MCRollout ------------------------------
(***************************************************************************)
(* Values for the constants of ValuesRollout.                              *)
(***************************************************************************)
EXTENDS ValuesRollout

OwnNames == [c \in Clusters |-> c]

Prerelease(major, minor, patch) == [Release(major, minor, patch) EXCEPT !.prerelease = TRUE]

\* A version that semver.NewVersion refuses: a range, "latest".
NoVersion == [Release(0, 0, 0) EXCEPT !.semver = FALSE]

\* The charts around the change of the layout: the last flat one, a pre-release
\* that may read either, and two nested ones.
LayoutCharts ==
    <<Release(0, 10, 9), Prerelease(0, 11, 0), Release(0, 11, 0), Release(1, 0, 0)>>
FirstPrereleases == {Prerelease(0, 11, 0)}

\* The Teleport versions around the one bundled with 0.11.0, one that 1.0.0
\* bundles, and what is none.
BundledTeleports ==
    <<Release(18, 6, 9), Prerelease(18, 7, 6), Release(18, 7, 6), Release(18, 8, 0)>>
Bundling == <<1, 3, 3, 4>>
Teleports == {BundledTeleports[i] : i \in 1..Len(BundledTeleports)} \cup {NoVersion}

\* A range, and a HelmRelease that refers to a chart instead.
Loose == {NoVersion, Absent}

=============================================================================
