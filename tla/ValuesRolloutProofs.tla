------------------------- MODULE ValuesRolloutProofs -------------------------
(***************************************************************************)
(* What holds of an upgrade of the chart for every history of charts and   *)
(* of Teleport versions: an agent that has its values keeps them, and is   *)
(* never told to run a Teleport older than the one v0.11.0 bundles.        *)
(***************************************************************************)
EXTENDS ValuesRollout, TLAPS

Agents == [chart : Charts, nested : BOOLEAN, block : Blocks \cup {Absent}]

\* What the variables hold.
TypeInv ==
    /\ release \in [spec : Charts \cup LooseSpecs, installed : Charts \cup {Absent}]
    /\ latest \in 1..Len(ChartHistory)
    /\ teleport \in TeleportVersions
    /\ doc \in Documents \cup {Absent}
    /\ referenced \in BOOLEAN
    /\ agent \in Agents \cup {Absent}
    /\ tkaVersion \in Charts \cup LooseSpecs \cup {Absent}

SafeOverride(block) ==
    \/ block.teleportVersionOverride = Absent
    \/ NotOlder(block.teleportVersionOverride, NestedFrom)

\* The override of a nested block was safe whenever it was written, and that is
\* the block that nested charts read.
OverrideInv ==
    /\ doc # Absent /\ doc.nested # Absent => SafeOverride(doc.nested)
    /\ agent # Absent =>
          \/ Position(agent.chart) < NestedFrom
          \/ agent.nested
    /\ agent # Absent /\ agent.nested /\ agent.block # Absent => SafeOverride(agent.block)

NestedAskedFor == Position(Target) >= NestedFrom

\* While charts are only upgraded, nothing the operator or Flux has seen is ahead
\* of the chart asked for, so that once the flat block is dropped, or is about to
\* be, no chart is left that reads it.
UpgradeInv ==
    orderly =>
        /\ release.spec \in Charts => Position(release.spec) <= latest
        /\ agent # Absent => Position(agent.chart) <= Position(Target)
        /\ release.installed # Absent => Position(release.installed) <= Position(Target)
        /\ UsesNestedKubeAgentValues(tkaVersion) => NestedAskedFor
        /\ doc # Absent => doc.nested # Absent /\ (doc.flat = Absent => NestedAskedFor)
        /\ agent # Absent /\ agent.block # Absent => referenced /\ doc # Absent

-----------------------------------------------------------------------------
(* The histories.                                                           *)

\* A chart is where Position says, and at no other place.
LEMMA PositionOf ==
    ASSUME NEW c \in Charts
    PROVE  /\ Position(c) \in 1..Len(ChartHistory)
           /\ ChartHistory[Position(c)] = c
BY DEF Charts, Position

LEMMA PositionAt ==
    ASSUME NEW i \in 1..Len(ChartHistory)
    PROVE  ChartHistory[i] \in Charts /\ Position(ChartHistory[i]) = i
<1>1. ChartHistory[i] \in Charts
  BY DEF Charts
<1>2. /\ Position(ChartHistory[i]) \in 1..Len(ChartHistory)
      /\ ChartHistory[Position(ChartHistory[i])] = ChartHistory[i]
  BY <1>1, PositionOf
<1> QED BY <1>1, <1>2, HistoryAssumption

\* The constants of the histories.
LEMMA HistoryTypes ==
    /\ Len(ChartHistory) \in Nat /\ Len(TeleportHistory) \in Nat
    /\ NestedFrom \in 1..Len(ChartHistory)
    /\ BundledAt[NestedFrom] \in 1..Len(TeleportHistory)
    /\ \A i \in 1..Len(ChartHistory) : ChartHistory[i] \in VersionString
    /\ \A i \in 1..Len(TeleportHistory) : TeleportHistory[i] \in VersionString
BY RolloutAssumption

\* UsesNestedKubeAgentValues takes no chart for a nested one that is older.
LEMMA NestedIsNew ==
    ASSUME NEW c \in Charts \cup LooseSpecs \cup {Absent}, UsesNestedKubeAgentValues(c)
    PROVE  c \in Charts /\ Position(c) >= NestedFrom
<1>1. Parses(c) /\ ~Below(c, Release(0, 11, 0))
  BY DEF UsesNestedKubeAgentValues, NestedSinceVersion
<1>2. c \in Charts
  BY <1>1, HistoryAssumption DEF Parses
<1>3. /\ Position(c) \in 1..Len(ChartHistory)
      /\ ChartHistory[Position(c)] = c
  BY <1>2, PositionOf
<1>4. Position(c) \notin 1..(NestedFrom - 1)
  BY <1>1, <1>3, HistoryAssumption
<1> QED BY <1>2, <1>3, <1>4, HistoryTypes

\* ResolveNestedTeleportVersionOverride lets only the Teleport that 0.11.0
\* bundles and newer ones through.
LEMMA ResolvedIsNotOlder ==
    ASSUME NEW v \in TeleportVersions, ResolveNestedTeleportVersionOverride(v) # Absent
    PROVE  /\ ResolveNestedTeleportVersionOverride(v) = v
           /\ NotOlder(v, NestedFrom)
<1>1. /\ Parses(v) /\ ~Below(v, Release(18, 7, 6))
      /\ ResolveNestedTeleportVersionOverride(v) = v
  BY DEF ResolveNestedTeleportVersionOverride, BundledTeleportVersion
<1>2. PICK i \in 1..Len(TeleportHistory) : TeleportHistory[i] = v
  BY <1>1, HistoryAssumption
<1>3. i \notin 1..(BundledAt[NestedFrom] - 1)
  BY <1>1, <1>2, HistoryAssumption
<1>4. i \in BundledAt[NestedFrom]..Len(TeleportHistory)
  BY <1>2, <1>3, HistoryTypes
<1> QED BY <1>1, <1>2, <1>4 DEF NotOlder

-----------------------------------------------------------------------------
(* The values.                                                              *)

LEMMA DataType ==
    ASSUME NEW version, TypeInv
    PROVE  LET data == GetConfigMapData(version)
           IN /\ data \in Documents
              /\ data.nested # Absent
              /\ SafeOverride(data.nested)
              /\ data.flat = Absent => UsesNestedKubeAgentValues(version)
<1> DEFINE data  == GetConfigMapData(version)
           over  == ResolveNestedTeleportVersionOverride(teleport)
           block(v) == [roles |-> KubeRoles(FALSE), authToken |-> "token",
                        proxyAddr |-> "proxy", kubeClusterName |-> RegisterName(Cluster),
                        teleportVersionOverride |-> v]
<1>1. data = [flat |-> IF UsesNestedKubeAgentValues(version) THEN Absent ELSE block(teleport),
              nested |-> block(over)]
  BY DEF GetConfigMapData, GetConfigmapDataFromTemplate, ValuesBlock
<1>2. teleport \in VersionString \cup {Absent} /\ teleport \in TeleportVersions
  BY HistoryAssumption DEF TypeInv
<1>3. over \in {teleport, Absent}
  BY DEF ResolveNestedTeleportVersionOverride
<1>4. KubeRoles(FALSE) \in RoleLists
  BY DEF RoleLists
<1>5. ASSUME NEW v \in VersionString \cup {Absent} PROVE block(v) \in Blocks
  BY <1>4 DEF Blocks
<1>6. block(over) \in Blocks /\ block(teleport) \in Blocks
  BY <1>2, <1>3, <1>5
<1>7. block(over).teleportVersionOverride = over
  OBVIOUS
<1>8. SafeOverride(block(over))
  BY <1>2, <1>7, ResolvedIsNotOlder DEF SafeOverride
<1> HIDE DEF block, over
<1> QED BY <1>1, <1>6, <1>8, AbsentIsNoDocument DEF Documents

LEMMA TargetType == ASSUME TypeInv PROVE Target \in Charts
BY PositionAt DEF TypeInv, Target

\* What is rendered: the block the chart reads, if the release refers to it.
LEMMA RenderedType ==
    ASSUME TypeInv, NEW a \in Rendered
    PROVE  /\ a \in Agents
           /\ a.chart = Target
           /\ a.nested \/ Position(Target) < NestedFrom
           /\ a.block # Absent => referenced /\ doc # Absent
           /\ referenced /\ doc # Absent =>
                 a.block = IF a.nested THEN doc.nested ELSE doc.flat
<1>1. PICK nested \in ReadsNested(Target) :
          a = [chart |-> Target, nested |-> nested, block |-> BlockRead(nested)]
  BY DEF Rendered
<1>2. /\ Target \in Charts
      /\ Position(Target) \in 1..Len(ChartHistory)
      /\ ChartHistory[Position(Target)] = Target
  BY TargetType, PositionOf
<1> DEFINE new == Position(Target) >= NestedFrom
<1>3. /\ nested \in BOOLEAN
      /\ Target \notin EitherLayout /\ new => nested
  <2> HIDE DEF new
  <2>1. CASE Target \in EitherLayout
    BY <1>1, <2>1 DEF ReadsNested
  <2>2. CASE Target \notin EitherLayout
    <3>1. nested = new
      BY <1>1, <2>2 DEF ReadsNested, new
    <3>2. new \in BOOLEAN
      BY DEF new
    <3> QED BY <2>2, <3>1, <3>2, Zenon
  <2> QED BY <2>1, <2>2
<1>4. nested \/ Position(Target) < NestedFrom
  <2>1. CASE Target \in EitherLayout
    <3>1. Position(Target) \notin NestedFrom..Len(ChartHistory)
      BY <1>2, <2>1, HistoryAssumption
    <3> QED BY <1>2, <3>1, HistoryTypes
  <2>2. CASE new
    BY <1>3, <2>2, <2>1
  <2>3. CASE ~new
    BY <1>2, <2>3, HistoryTypes
  <2> QED BY <1>3, <2>1, <2>2, <2>3
<1>5. /\ BlockRead(nested) \in Blocks \cup {Absent}
      /\ BlockRead(nested) # Absent => referenced /\ doc # Absent
      /\ referenced /\ doc # Absent =>
            BlockRead(nested) = IF nested THEN doc.nested ELSE doc.flat
  <2>1. doc # Absent => doc.nested \in Blocks \cup {Absent} /\ doc.flat \in Blocks \cup {Absent}
    BY DEF TypeInv, Documents
  <2> QED BY <1>3, <2>1 DEF TypeInv, BlockRead
<1> HIDE DEF Target
<1>6. a.chart = Target /\ a.nested = nested /\ a.block = BlockRead(nested)
  BY <1>1
<1>7. a \in Agents
  BY <1>1, <1>2, <1>3, <1>5 DEF Agents
<1> QED BY <1>4, <1>5, <1>6, <1>7

-----------------------------------------------------------------------------
(* Types.                                                                   *)

LEMMA FlatOnlyType ==
    ASSUME NEW v \in TeleportVersions
    PROVE  FlatOnly(v) \in Documents /\ FlatOnly(v).nested = Absent
<1> DEFINE block == [roles |-> KubeRoles(FALSE), authToken |-> "token",
                     proxyAddr |-> "proxy", kubeClusterName |-> RegisterName(Cluster),
                     teleportVersionOverride |-> v]
<1>1. v \in VersionString \cup {Absent}
  BY HistoryAssumption
<1>2. KubeRoles(FALSE) \in RoleLists
  BY DEF RoleLists
<1>3. block \in Blocks
  BY <1>1, <1>2 DEF Blocks
<1>4. FlatOnly(v) = [flat |-> block, nested |-> Absent]
  BY DEF FlatOnly, ValuesBlock
<1> HIDE DEF block
<1> QED BY <1>3, <1>4 DEF Documents

LEMMA TypeInit == Init => TypeInv
<1> SUFFICES ASSUME Init PROVE TypeInv
  OBVIOUS
<1>1. doc \in Documents \cup {Absent} /\ referenced \in BOOLEAN
  BY FlatOnlyType DEF Init
<1> QED BY <1>1 DEF Init, TypeInv

LEMMA LookedUpType ==
    ASSUME TypeInv
    PROVE  GetTeleportKubeAgentVersion \in Charts \cup LooseSpecs
BY DEF TypeInv, GetTeleportKubeAgentVersion, helmReleaseChartVersion

LEMMA TypeStep == TypeInv /\ [Next]_vars => TypeInv'
<1> SUFFICES ASSUME TypeInv, [Next]_vars PROVE TypeInv'
  OBVIOUS
<1>1. CASE LookUp
  BY <1>1, LookedUpType DEF LookUp, TypeInv, env
<1>2. CASE WriteValues
  <2>1. GetConfigMapData(tkaVersion) \in Documents
    BY DataType
  <2> QED BY <1>2, <2>1 DEF WriteValues, TypeInv, env
<1>3. CASE EnsureReference
  BY <1>3 DEF EnsureReference, TypeInv, env
<1>4. CASE Render
  <2>1. agent' \in Agents
    BY <1>4, RenderedType DEF Render
  <2> QED BY <1>4, <2>1 DEF Render, TypeInv
<1>5. CASE Report
  <2>1. agent.chart \in Charts
    BY <1>5 DEF Report, TypeInv, Agents
  <2> QED BY <1>5, <2>1 DEF Report, TypeInv
<1>6. CASE PublishChart
  BY <1>6, HistoryTypes DEF PublishChart, TypeInv
<1>7. CASE Restart
  BY <1>7 DEF Restart, TypeInv, env
<1>8. ASSUME NEW v \in Charts \cup LooseSpecs, AskFor(v) PROVE TypeInv'
  BY <1>8 DEF AskFor, TypeInv
<1>9. CASE UNCHANGED vars
  BY <1>9 DEF vars, env, TypeInv
<1> QED BY <1>1, <1>2, <1>3, <1>4, <1>5, <1>6, <1>7, <1>8, <1>9 DEF Next, Reconcile

-----------------------------------------------------------------------------
(* The floor.                                                               *)

LEMMA OverrideInit == Init => OverrideInv
BY FlatOnlyType DEF Init, OverrideInv

LEMMA OverrideStep == TypeInv /\ OverrideInv /\ [Next]_vars => OverrideInv'
<1> SUFFICES ASSUME TypeInv, OverrideInv, [Next]_vars PROVE OverrideInv'
  OBVIOUS
<1>1. CASE WriteValues
  <2> DEFINE data == GetConfigMapData(tkaVersion)
  <2>1. SafeOverride(data.nested)
    BY DataType
  <2>2. doc' = data /\ agent' = agent
    BY <1>1 DEF WriteValues, env
  <2> HIDE DEF data
  <2> QED BY <2>1, <2>2 DEF OverrideInv, SafeOverride
<1>2. CASE Render
  <2>1. /\ agent'.chart = Target
        /\ agent'.nested \/ Position(Target) < NestedFrom
        /\ agent'.block # Absent => referenced /\ doc # Absent
        /\ referenced /\ doc # Absent =>
              agent'.block = IF agent'.nested THEN doc.nested ELSE doc.flat
    BY <1>2, RenderedType DEF Render
  <2>2. doc' = doc
    BY <1>2 DEF Render
  <2> QED BY <2>1, <2>2 DEF OverrideInv, SafeOverride
<1>3. CASE UNCHANGED <<doc, agent>>
  BY <1>3 DEF OverrideInv, SafeOverride
<1>4. LookUp \/ EnsureReference \/ Report \/ PublishChart \/ Restart
      \/ (\E v \in Charts \cup LooseSpecs : AskFor(v)) \/ UNCHANGED vars
      => UNCHANGED <<doc, agent>>
  BY DEF LookUp, EnsureReference, Report, PublishChart, Restart, AskFor, vars, env
<1> QED BY <1>1, <1>2, <1>3, <1>4 DEF Next, Reconcile

\* No nested chart is told to run a Teleport older than the one v0.11.0 bundles,
\* whatever the charts, what they bundle and the Teleport versions are, and however
\* renders, writes and restarts with another teleportVersion are interleaved.
THEOREM FloorHolds == Spec => []OverrideAtLeastFloor
<1>1. TypeInv /\ OverrideInv => OverrideAtLeastFloor
  <2> SUFFICES ASSUME TypeInv, OverrideInv, agent # Absent,
                      Position(agent.chart) >= NestedFrom, agent.block # Absent
               PROVE  SafeOverride(agent.block)
    BY DEF OverrideAtLeastFloor, Overridden, SafeOverride
  <2>1. agent.chart \in Charts
    BY DEF TypeInv, Agents
  <2>2. Position(agent.chart) \in Nat /\ NestedFrom \in Nat
    BY <2>1, PositionOf, HistoryTypes
  <2> QED BY <2>2 DEF OverrideInv
<1> QED BY <1>1, TypeInit, TypeStep, OverrideInit, OverrideStep, PTL DEF Spec

-----------------------------------------------------------------------------
(* Values are kept.                                                         *)

LEMMA UpgradeInit == Init => UpgradeInv
<1> SUFFICES ASSUME Init PROVE UpgradeInv
  OBVIOUS
<1>1. ~UsesNestedKubeAgentValues(tkaVersion)
  BY DEF Init, UsesNestedKubeAgentValues, Parses
<1> QED BY <1>1 DEF Init, UpgradeInv

\* The chart asked for only gets newer.
LEMMA TargetStep ==
    ASSUME TypeInv, UpgradeInv, [Next]_vars, orderly
    PROVE  /\ orderly'
           /\ release'.spec \in Charts => Position(release'.spec) <= latest'
           /\ Position(Target') >= Position(Target)
<1>0. /\ Target \in Charts
      /\ Position(Target) \in 1..Len(ChartHistory)
      /\ latest \in 1..Len(ChartHistory)
      /\ Len(ChartHistory) \in Nat
  BY TargetType, PositionOf, HistoryTypes DEF TypeInv
<1>1. Position(Target) <= latest
  BY <1>0, PositionAt DEF UpgradeInv, Target, TypeInv
<1>2. CASE UNCHANGED <<release, latest, orderly>>
  BY <1>2, <1>0 DEF Target, UpgradeInv
<1>3. CASE Report
  <2>1. release'.spec = release.spec /\ latest' = latest /\ orderly' = orderly
    BY <1>3 DEF Report, TypeInv
  <2> QED BY <2>1, <1>0 DEF Target, UpgradeInv
<1>4. CASE PublishChart
  <2>1. release' = release /\ latest' = latest + 1 /\ orderly' = orderly
        /\ latest' \in 1..Len(ChartHistory)
    BY <1>0, <1>4 DEF PublishChart
  <2>2. CASE release.spec \in Charts
    <3>1. Position(release.spec) \in Nat /\ Position(release.spec) <= latest
      BY <2>2, PositionOf DEF UpgradeInv
    <3> QED BY <2>1, <2>2, <3>1, <1>0 DEF Target
  <2>3. CASE release.spec \notin Charts
    <3>1. Target' = ChartHistory[latest'] /\ Target = ChartHistory[latest]
      BY <2>1, <2>3 DEF Target
    <3>2. Position(Target') = latest' /\ Position(Target) = latest
      BY <1>0, <2>1, <3>1, PositionAt
    <3> QED BY <1>0, <2>1, <2>3, <3>2
  <2> QED BY <2>2, <2>3
<1>5. ASSUME NEW v \in Charts \cup LooseSpecs, AskFor(v)
      PROVE  /\ orderly'
             /\ release'.spec \in Charts => Position(release'.spec) <= latest'
             /\ Position(Target') >= Position(Target)
  <2>1. /\ release'.spec = v /\ latest' = latest /\ orderly' = orderly
        /\ v \in Charts => Position(v) <= latest /\ Position(v) >= Position(Target)
    BY <1>5 DEF AskFor, TypeInv
  <2>2. CASE v \in Charts
    BY <2>1, <2>2 DEF Target
  <2>3. CASE v \notin Charts
    <3>1. Target' = ChartHistory[latest]
      BY <2>1, <2>3 DEF Target
    <3>2. Position(Target') = latest
      BY <1>0, <3>1, PositionAt
    <3> QED BY <1>0, <1>1, <2>1, <2>3, <3>2
  <2> QED BY <2>2, <2>3
<1>6. LookUp \/ WriteValues \/ EnsureReference \/ Render \/ Restart \/ UNCHANGED vars
      => UNCHANGED <<release, latest, orderly>>
  BY DEF LookUp, WriteValues, EnsureReference, Render, Restart, vars, env
<1> QED BY <1>2, <1>3, <1>4, <1>5, <1>6 DEF Next, Reconcile

LEMMA UpgradeStep == TypeInv /\ UpgradeInv /\ [Next]_vars => UpgradeInv'
<1> SUFFICES ASSUME TypeInv, UpgradeInv, [Next]_vars, orderly' PROVE UpgradeInv'
  BY DEF UpgradeInv
<1>0. orderly' = orderly
  BY DEF Next, Reconcile, LookUp, WriteValues, EnsureReference, Render, Report, PublishChart,
         Restart, AskFor, vars, env
<1>1. /\ orderly
      /\ release'.spec \in Charts => Position(release'.spec) <= latest'
      /\ Position(Target') >= Position(Target)
  BY <1>0, TargetStep
<1>2. /\ Target \in Charts /\ Target' \in Charts
      /\ Position(Target) \in Nat /\ Position(Target') \in Nat
      /\ NestedFrom \in Nat
  <2>1. TypeInv'
    BY TypeStep
  <2>2. Target \in Charts
    BY TargetType
  <2>3. Target' \in Charts
    BY <2>1, PositionAt DEF TypeInv, Target
  <2> QED BY <2>2, <2>3, PositionOf, HistoryTypes
<1>3. NestedAskedFor => NestedAskedFor'
  BY <1>1, <1>2 DEF NestedAskedFor
<1>4. /\ agent # Absent => /\ Position(agent.chart) \in Nat
                           /\ Position(agent.chart) <= Position(Target)
                           /\ Position(agent.chart) <= Position(Target')
      /\ release.installed # Absent => /\ Position(release.installed) \in Nat
                                       /\ Position(release.installed) <= Position(Target)
                                       /\ Position(release.installed) <= Position(Target')
  <2>1. agent # Absent => agent.chart \in Charts
    BY DEF TypeInv, Agents
  <2>2. release.installed # Absent => release.installed \in Charts
    BY DEF TypeInv
  <2> QED BY <1>1, <1>2, <2>1, <2>2, PositionOf DEF UpgradeInv
<1> DEFINE t == Position(Target')
           ok == NestedAskedFor'
           Goal ==
              /\ agent' # Absent => Position(agent'.chart) <= t
              /\ release'.installed # Absent => Position(release'.installed) <= t
              /\ UsesNestedKubeAgentValues(tkaVersion') => ok
              /\ doc' # Absent => doc'.nested # Absent /\ (doc'.flat = Absent => ok)
              /\ agent' # Absent /\ agent'.block # Absent => referenced' /\ doc' # Absent
<1>5. SUFFICES Goal
  BY <1>1 DEF UpgradeInv
<1>6. /\ doc # Absent => doc.nested # Absent /\ (doc.flat = Absent => ok)
      /\ UsesNestedKubeAgentValues(tkaVersion) => ok
      /\ agent # Absent /\ agent.block # Absent => referenced /\ doc # Absent
  BY <1>1, <1>3 DEF UpgradeInv
<1> DEFINE up == Position(agent.chart) <= t
           upi == Position(release.installed) <= t
<1>7. (agent # Absent => up) /\ (release.installed # Absent => upi)
  BY <1>4
<1> HIDE DEF t, ok
<1>8. CASE LookUp
  <2>1. UsesNestedKubeAgentValues(tkaVersion') => NestedAskedFor
    <3> SUFFICES ASSUME UsesNestedKubeAgentValues(GetTeleportKubeAgentVersion)
                 PROVE  NestedAskedFor
      BY <1>8 DEF LookUp
    <3> DEFINE v == GetTeleportKubeAgentVersion
    <3>1. v \in Charts /\ Position(v) >= NestedFrom
      BY LookedUpType, NestedIsNew
    <3>2. Position(v) \in Nat
      BY <3>1, PositionOf
    <3>3. \/ release.installed # Absent /\ v = release.installed
          \/ v = release.spec
      BY DEF GetTeleportKubeAgentVersion, helmReleaseChartVersion
    <3>4. Position(v) <= Position(Target)
      <4> HIDE DEF v
      <4>1. CASE v = release.spec
        BY <1>2, <3>1, <4>1 DEF Target
      <4> QED BY <1>4, <3>3, <4>1
    <3> HIDE DEF v
    <3> QED BY <1>2, <3>1, <3>2, <3>4 DEF NestedAskedFor
  <2>2. UNCHANGED <<agent, release, doc, referenced>>
    BY <1>8 DEF LookUp, env
  <2> QED BY <1>3, <1>6, <1>7, <2>1, <2>2 DEF ok
<1>9. CASE WriteValues
  <2> DEFINE data == GetConfigMapData(tkaVersion)
  <2>1. data \in Documents /\ data.nested # Absent
        /\ (data.flat = Absent => UsesNestedKubeAgentValues(tkaVersion))
    BY DataType
  <2>2. doc' = data /\ tkaVersion' = Absent /\ UNCHANGED <<agent, release, referenced>>
    BY <1>9 DEF WriteValues, env
  <2> HIDE DEF data
  <2>3. doc' # Absent
    BY <2>1, <2>2, AbsentIsNoDocument
  <2>4. ~UsesNestedKubeAgentValues(Absent)
    BY DEF UsesNestedKubeAgentValues, Parses
  <2> QED BY <1>6, <1>7, <2>1, <2>2, <2>3, <2>4
<1>10. CASE EnsureReference
  <2>1. referenced' /\ UNCHANGED <<agent, release, doc, tkaVersion>>
    BY <1>10 DEF EnsureReference, env
  <2> QED BY <1>6, <1>7, <2>1
<1>11. CASE Render
  <2>1. /\ agent'.chart = Target
        /\ agent'.block # Absent => referenced /\ doc # Absent
    BY <1>11, RenderedType DEF Render
  <2>2. UNCHANGED <<release, doc, referenced, tkaVersion>>
    BY <1>11 DEF Render
  <2>3. Position(Target) <= t
    BY <1>1, <1>2 DEF t
  <2> QED BY <1>6, <1>7, <2>1, <2>2, <2>3
<1>12. CASE Report
  <2>1. agent # Absent /\ release'.installed = agent.chart
        /\ UNCHANGED <<agent, doc, referenced, tkaVersion>>
    BY <1>12 DEF Report, TypeInv
  <2> QED BY <1>6, <1>7, <2>1
<1>13. CASE PublishChart
  <2>1. UNCHANGED <<agent, release, doc, referenced, tkaVersion>>
    BY <1>13 DEF PublishChart
  <2> QED BY <1>6, <1>7, <2>1
<1>14. CASE Restart
  <2>1. tkaVersion' = Absent /\ UNCHANGED <<agent, release, doc, referenced>>
    BY <1>14 DEF Restart, env
  <2>2. ~UsesNestedKubeAgentValues(Absent)
    BY DEF UsesNestedKubeAgentValues, Parses
  <2> QED BY <1>6, <1>7, <2>1, <2>2
<1>15. ASSUME NEW v \in Charts \cup LooseSpecs, AskFor(v) PROVE Goal
  <2>1. release'.installed = release.installed
        /\ UNCHANGED <<agent, doc, referenced, tkaVersion>>
    BY <1>15 DEF AskFor, TypeInv
  <2> QED BY <1>6, <1>7, <2>1
<1>16. CASE UNCHANGED vars
  <2>1. UNCHANGED <<agent, release, doc, referenced, tkaVersion>>
    BY <1>16 DEF vars, env
  <2> QED BY <1>6, <1>7, <2>1
<1> HIDE DEF Goal
<1> QED BY <1>8, <1>9, <1>10, <1>11, <1>12, <1>13, <1>14, <1>15, <1>16 DEF Next, Reconcile

\* While charts are only upgraded, an agent that has its values is never rendered
\* without them, whatever the history of charts and however the lookup of the
\* chart version, the write, the publication of a chart and Flux interleave.
THEOREM ValuesAreKept == Spec => AgentKeepsValues
<1> DEFINE Keeps == orderly /\ agent # Absent /\ agent.block # Absent => agent'.block # Absent
<1>1. TypeInv /\ UpgradeInv /\ [Next]_vars => [Keeps]_vars
  <2> SUFFICES ASSUME TypeInv, UpgradeInv, [Next]_vars,
                      orderly, agent # Absent, agent.block # Absent
               PROVE  agent'.block # Absent
    OBVIOUS
  <2>1. CASE Render
    <3>1. /\ agent'.nested \/ Position(Target) < NestedFrom
          /\ referenced /\ doc # Absent =>
                agent'.block = IF agent'.nested THEN doc.nested ELSE doc.flat
      BY <2>1, RenderedType DEF Render
    <3>2. Position(Target) \in Nat /\ NestedFrom \in Nat
      BY TargetType, PositionOf, HistoryTypes
    <3> QED BY <3>1, <3>2 DEF UpgradeInv, NestedAskedFor
  <2>2. CASE agent' = agent
    BY <2>2
  <2>3. ~Render => agent' = agent
    BY DEF Next, Reconcile, LookUp, WriteValues, EnsureReference, Report, PublishChart,
           Restart, AskFor, vars, env
  <2> QED BY <2>1, <2>2, <2>3
<1>2. Spec => [][Keeps]_vars
  BY <1>1, TypeInit, TypeStep, UpgradeInit, UpgradeStep, PTL DEF Spec
<1> QED BY <1>2 DEF AgentKeepsValues

=============================================================================
