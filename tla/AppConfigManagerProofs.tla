------------------------ MODULE AppConfigManagerProofs ------------------------
(***************************************************************************)
(* TeleportAppConfigManager implements ReferenceList, and what it has      *)
(* deleted stays deleted, for every set of clusters, every bound on the    *)
(* lists and every number of changes by others.                            *)
(*                                                                         *)
(* The lists are filtered by a loop.  What it computes is proved by        *)
(* induction, which is taken from the least element of a set of numbers    *)
(* (WFMin): a set says which lists have the property, and so no operator   *)
(* has to be passed to a theorem.                                          *)
(***************************************************************************)
EXTENDS AppConfigManager, SequenceTheorems, WellFoundedInduction, TLAPS

-----------------------------------------------------------------------------
(* Induction.                                                               *)

Less == {p \in Nat \X Nat : p[1] < p[2]}

LEMMA LessWellFounded == IsWellFoundedOn(Less, Nat)
BY NatLessThanWellFounded DEF OpToRel, Less

LEMMA NatSetInduction ==
    ASSUME NEW T, 0 \in T, \A n \in Nat : n \in T => n + 1 \in T
    PROVE  \A n \in Nat : n \in T
<1> DEFINE Out == {n \in Nat : n \notin T}
<1> SUFFICES ASSUME Out # {} PROVE FALSE
  OBVIOUS
<1>1. Out \subseteq Nat
  OBVIOUS
<1> HIDE DEF Out
<1>2. PICK x \in Out : \A y \in Out : ~(<<y, x>> \in Less)
  BY <1>1, LessWellFounded, WFMin
<1> USE DEF Out
<1>3. x \in Nat /\ x # 0
  BY <1>2
<1>4. x - 1 \in Nat /\ <<x - 1, x>> \in Less
  BY <1>3 DEF Less
<1>5. x - 1 \in T
  BY <1>2, <1>4
<1> QED BY <1>2, <1>3, <1>4, <1>5

LEMMA SeqSetInduction ==
    ASSUME NEW E, NEW T, <<>> \in T,
           \A s \in Seq(E), e \in E : s \in T => Append(s, e) \in T
    PROVE  \A s \in Seq(E) : s \in T
<1> DEFINE N == {n \in Nat : \A s \in Seq(E) : Len(s) = n => s \in T}
<1>1. 0 \in N
  OBVIOUS
<1>2. ASSUME NEW n \in Nat, n \in N PROVE n + 1 \in N
  <2> SUFFICES ASSUME NEW s \in Seq(E), Len(s) = n + 1 PROVE s \in T
    OBVIOUS
  <2> DEFINE r == SubSeq(s, 1, n)
  <2>1. r \in Seq(E) /\ Len(r) = n /\ s[n + 1] \in E
    OBVIOUS
  <2>2. s = Append(r, s[n + 1])
    OBVIOUS
  <2>3. r \in T
    BY <1>2, <2>1
  <2> HIDE DEF r
  <2> QED BY <2>1, <2>2, <2>3
<1> HIDE DEF N
<1>3. \A n \in Nat : n \in N
  BY <1>1, <1>2, NatSetInduction
<1> QED BY <1>3 DEF N

-----------------------------------------------------------------------------
(* The loop of removeValuesReference.                                       *)

\* f is the list built so far, after each of the first n elements.
Loop(f, s, S, n) ==
    f = [i \in 0..n |->
            IF i = 0 THEN <<>>
            ELSE IF s[i] \in S THEN Append(f[i - 1], s[i])
            ELSE f[i - 1]]

LEMMA LoopExists ==
    ASSUME NEW s, NEW S
    PROVE  \A n \in Nat : \E f : Loop(f, s, S, n)
<1> DEFINE T == {n \in Nat : \E f : Loop(f, s, S, n)}
<1>1. 0 \in T
  <2> DEFINE f == [i \in 0..0 |-> <<>>]
  <2>1. Loop(f, s, S, 0)
    BY DEF Loop
  <2> QED BY <2>1
<1>2. ASSUME NEW n \in Nat, n \in T PROVE n + 1 \in T
  <2>1. PICK f : Loop(f, s, S, n)
    BY <1>2
  <2> DEFINE last == IF s[n + 1] \in S THEN Append(f[n], s[n + 1]) ELSE f[n]
             g == [i \in 0..(n + 1) |-> IF i = n + 1 THEN last ELSE f[i]]
  <2>2. \A i \in 0..n : g[i] = f[i]
    OBVIOUS
  <2>3. \A i \in 0..n : f[i] = IF i = 0 THEN <<>>
                               ELSE IF s[i] \in S THEN Append(f[i - 1], s[i])
                               ELSE f[i - 1]
    BY <2>1 DEF Loop
  <2>4. ASSUME NEW i \in 0..(n + 1)
        PROVE  g[i] = IF i = 0 THEN <<>>
                      ELSE IF s[i] \in S THEN Append(g[i - 1], s[i])
                      ELSE g[i - 1]
    <3>1. CASE i = n + 1
      BY <3>1, <2>2
    <3>2. CASE i \in 0..n
      BY <3>2, <2>2, <2>3
    <3> QED BY <3>1, <3>2
  <2>5. Loop(g, s, S, n + 1)
    BY <2>4 DEF Loop
  <2> QED BY <2>5
<1> HIDE DEF T
<1>3. \A n \in Nat : n \in T
  BY <1>1, <1>2, NatSetInduction
<1> QED BY <1>3 DEF T

LEMMA FilterLoop ==
    ASSUME NEW E, NEW s \in Seq(E), NEW S
    PROVE  \E f : Loop(f, s, S, Len(s)) /\ Filter(s, S) = f[Len(s)]
<1> DEFINE h == CHOOSE f : Loop(f, s, S, Len(s))
<1>1. Len(s) \in Nat
  OBVIOUS
<1>2. \E f : Loop(f, s, S, Len(s))
  BY <1>1, LoopExists, Zenon
<1>3. Loop(h, s, S, Len(s))
  BY <1>2, Zenon
<1>4. Filter(s, S) = h[Len(s)]
  BY Zenon DEF Filter, Loop
<1> HIDE DEF h
<1> QED BY <1>3, <1>4

LEMMA FilterEmpty == ASSUME NEW S PROVE Filter(<<>>, S) = <<>>
<1>1. <<>> \in Seq({}) /\ Len(<<>>) = 0
  OBVIOUS
<1>2. PICK f : Loop(f, <<>>, S, 0) /\ Filter(<<>>, S) = f[0]
  BY <1>1, FilterLoop
<1> QED BY <1>2 DEF Loop

LEMMA FilterAppend ==
    ASSUME NEW E, NEW s \in Seq(E), NEW e \in E, NEW S
    PROVE  Filter(Append(s, e), S) = IF e \in S THEN Append(Filter(s, S), e) ELSE Filter(s, S)
<1> DEFINE t == Append(s, e)
           n == Len(s)
<1>1. /\ t \in Seq(E) /\ Len(t) = n + 1 /\ n \in Nat
      /\ t[n + 1] = e
      /\ \A i \in 1..n : t[i] = s[i]
  OBVIOUS
<1>2. PICK f : Loop(f, s, S, n) /\ Filter(s, S) = f[n]
  BY FilterLoop
<1>3. PICK g : Loop(g, t, S, n + 1) /\ Filter(t, S) = g[n + 1]
  BY <1>1, FilterLoop
<1> HIDE DEF t, n
<1>4. \A i \in 0..n : f[i] = IF i = 0 THEN <<>>
                             ELSE IF s[i] \in S THEN Append(f[i - 1], s[i])
                             ELSE f[i - 1]
  BY <1>2 DEF Loop
<1>5. \A i \in 0..(n + 1) : g[i] = IF i = 0 THEN <<>>
                                   ELSE IF t[i] \in S THEN Append(g[i - 1], t[i])
                                   ELSE g[i - 1]
  BY <1>3 DEF Loop
<1> DEFINE T == {i \in Nat : i <= n => f[i] = g[i]}
<1>6. 0 \in T
  BY <1>1, <1>4, <1>5
<1>7. ASSUME NEW i \in Nat, i \in T PROVE i + 1 \in T
  <2> SUFFICES ASSUME i + 1 <= n PROVE f[i + 1] = g[i + 1]
    OBVIOUS
  <2>1. i + 1 \in 1..n /\ i + 1 \in 0..n /\ i + 1 \in 0..(n + 1) /\ (i + 1) - 1 = i /\ i + 1 # 0
    BY <1>1
  <2>2. f[i] = g[i]
    BY <1>1, <1>7
  <2>3. f[i + 1] = IF s[i + 1] \in S THEN Append(f[i], s[i + 1]) ELSE f[i]
    BY <1>4, <2>1
  <2>4. g[i + 1] = IF t[i + 1] \in S THEN Append(g[i], t[i + 1]) ELSE g[i]
    BY <1>5, <2>1
  <2> QED BY <1>1, <2>1, <2>2, <2>3, <2>4
<1> HIDE DEF T
<1>8. \A i \in Nat : i \in T
  BY <1>6, <1>7, NatSetInduction
<1>9. f[n] = g[n]
  BY <1>1, <1>8 DEF T
<1>10. g[n + 1] = IF e \in S THEN Append(g[n], e) ELSE g[n]
  BY <1>1, <1>5
<1> QED BY <1>2, <1>3, <1>9, <1>10 DEF t

LEMMA FilterType ==
    ASSUME NEW E, NEW S
    PROVE  \A s \in Seq(E) : Filter(s, S) \in Seq(E)
<1> DEFINE T == {s \in Seq(E) : Filter(s, S) \in Seq(E)}
<1>1. <<>> \in T
  <2>1. <<>> \in Seq(E) /\ Filter(<<>>, S) = <<>>
    BY FilterEmpty
  <2> QED BY <2>1
<1>2. ASSUME NEW s \in Seq(E), NEW e \in E, s \in T PROVE Append(s, e) \in T
  <2> DEFINE b == Filter(s, S)
  <2>1. Filter(Append(s, e), S) = IF e \in S THEN Append(b, e) ELSE b
    BY FilterAppend
  <2>2. b \in Seq(E)
    BY <1>2
  <2> HIDE DEF b
  <2>3. Append(b, e) \in Seq(E) /\ Append(s, e) \in Seq(E)
    BY <2>2
  <2> QED BY <2>1, <2>2, <2>3
<1> HIDE DEF T
<1>3. \A s \in Seq(E) : s \in T
  BY <1>1, <1>2, SeqSetInduction
<1> QED BY <1>3 DEF T

LEMMA HasAppend ==
    ASSUME NEW E, NEW s \in Seq(E), NEW e \in E, NEW x
    PROVE  Has(Append(s, e), x) <=> Has(s, x) \/ x = e
<1> DEFINE t == Append(s, e)
<1>1. /\ Len(t) = Len(s) + 1 /\ Len(s) \in Nat
      /\ t[Len(s) + 1] = e
      /\ \A i \in 1..Len(s) : t[i] = s[i]
  OBVIOUS
<1> HIDE DEF t
<1>2. Has(t, x) => Has(s, x) \/ x = e
  <2> SUFFICES ASSUME NEW i \in 1..Len(t), t[i] = x PROVE Has(s, x) \/ x = e
    BY DEF Has
  <2>1. CASE i = Len(s) + 1
    BY <1>1, <2>1
  <2>2. CASE i \in 1..Len(s)
    BY <1>1, <2>2 DEF Has
  <2> QED BY <1>1, <2>1, <2>2
<1>3. Has(s, x) => Has(t, x)
  <2> SUFFICES ASSUME NEW i \in 1..Len(s), s[i] = x PROVE Has(t, x)
    BY DEF Has
  <2> QED BY <1>1 DEF Has
<1>4. Has(t, e)
  BY <1>1 DEF Has
<1> QED BY <1>2, <1>3, <1>4 DEF t

\* What is left are the elements in the set, and all of them.
LEMMA FilterHas ==
    ASSUME NEW E, NEW S, NEW x
    PROVE  \A s \in Seq(E) : Has(Filter(s, S), x) <=> Has(s, x) /\ x \in S
<1> DEFINE T == {s \in Seq(E) : Has(Filter(s, S), x) <=> Has(s, x) /\ x \in S}
<1>1. <<>> \in T
  BY FilterEmpty DEF Has
<1>2. ASSUME NEW s \in Seq(E), NEW e \in E, s \in T PROVE Append(s, e) \in T
  <2>1. Filter(s, S) \in Seq(E)
    BY FilterType
  <2>2. Has(Append(s, e), x) <=> Has(s, x) \/ x = e
    BY HasAppend
  <2>3. Has(Append(Filter(s, S), e), x) <=> Has(Filter(s, S), x) \/ x = e
    BY <2>1, HasAppend
  <2>4. Filter(Append(s, e), S) = IF e \in S THEN Append(Filter(s, S), e) ELSE Filter(s, S)
    BY FilterAppend
  <2>5. Append(s, e) \in Seq(E)
    OBVIOUS
  <2> QED BY <1>2, <2>2, <2>3, <2>4, <2>5
<1> HIDE DEF T
<1>3. \A s \in Seq(E) : s \in T
  BY <1>1, <1>2, SeqSetInduction
<1> QED BY <1>3 DEF T

\* Two lists are filtered one after the other.
LEMMA FilterConcat ==
    ASSUME NEW E, NEW S, NEW s \in Seq(E)
    PROVE  \A t \in Seq(E) : Filter(s \o t, S) = Filter(s, S) \o Filter(t, S)
<1> DEFINE T == {t \in Seq(E) : Filter(s \o t, S) = Filter(s, S) \o Filter(t, S)}
<1>0. Filter(s, S) \in Seq(E)
  BY FilterType
<1>1. <<>> \in T
  <2>1. s \o <<>> = s /\ <<>> \in Seq(E)
    OBVIOUS
  <2>2. Filter(s, S) \o <<>> = Filter(s, S)
    BY <1>0
  <2>3. Filter(s \o <<>>, S) = Filter(s, S) \o Filter(<<>>, S)
    BY <2>1, <2>2, FilterEmpty, Zenon
  <2> QED BY <2>1, <2>3
<1>2. ASSUME NEW t \in Seq(E), NEW e \in E, t \in T PROVE Append(t, e) \in T
  <2> DEFINE a == Filter(s, S)
             b == Filter(t, S)
  <2>1. a \in Seq(E) /\ b \in Seq(E)
    BY FilterType
  <2>2. s \o Append(t, e) = Append(s \o t, e) /\ s \o t \in Seq(E)
    OBVIOUS
  <2>3. Filter(s \o Append(t, e), S) = IF e \in S THEN Append(a \o b, e) ELSE a \o b
    <3>1. Filter(s \o t, S) = a \o b
      BY <1>2
    <3> DEFINE st == s \o t
    <3>2. st \in Seq(E)
      BY <2>2
    <3> HIDE DEF st
    <3>3. Filter(Append(st, e), S) = IF e \in S THEN Append(Filter(st, S), e) ELSE Filter(st, S)
      BY <3>2, FilterAppend
    <3> QED BY <2>2, <3>1, <3>3, Zenon DEF st
  <2>4. Filter(Append(t, e), S) = IF e \in S THEN Append(b, e) ELSE b
    BY FilterAppend
  <2> HIDE DEF a, b
  <2>5. a \o Append(b, e) = Append(a \o b, e)
    BY <2>1
  <2>6. Append(t, e) \in Seq(E)
    OBVIOUS
  <2> QED BY <2>3, <2>4, <2>5, <2>6 DEF a
<1> HIDE DEF T
<1>3. \A t \in Seq(E) : t \in T
  BY <1>1, <1>2, SeqSetInduction
<1> QED BY <1>3 DEF T

\* A list with nothing of the set in it leaves nothing.
LEMMA FilterNone ==
    ASSUME NEW E, NEW S, NEW s \in Seq(E), \A i \in 1..Len(s) : s[i] \notin S
    PROVE  Filter(s, S) = <<>>
<1> DEFINE t == Filter(s, S)
<1>1. t \in Seq(E)
  BY FilterType
<1>2. \A x : ~Has(t, x)
  <2> SUFFICES ASSUME NEW x, Has(t, x) PROVE FALSE
    OBVIOUS
  <2>1. Has(s, x) /\ x \in S
    BY FilterHas
  <2> QED BY <2>1 DEF Has
<1> HIDE DEF t
<1>3. Len(t) = 0
  <2> SUFFICES ASSUME Len(t) # 0 PROVE FALSE
    OBVIOUS
  <2>1. 1 \in 1..Len(t)
    BY <1>1
  <2>2. Has(t, t[1])
    BY <2>1 DEF Has
  <2> QED BY <1>2, <2>2
<1>4. t = <<>>
  BY <1>1, <1>3
<1> QED BY <1>4 DEF t

LEMMA FilterOne ==
    ASSUME NEW e, NEW S, e \notin S PROVE Filter(<<e>>, S) = <<>>
<1> DEFINE s == <<e>>
<1>1. s \in Seq({e}) /\ \A i \in 1..Len(s) : s[i] = e
  OBVIOUS
<1> HIDE DEF s
<1>2. Filter(s, S) = <<>>
  BY <1>1, FilterNone
<1> QED BY <1>2 DEF s

-----------------------------------------------------------------------------
(* The invariants.                                                          *)

Releases == [refs : Seq(Entries) \cup {Absent}]

\* What the variables hold.
TypeInv ==
    /\ release \in [Kinds -> Releases \cup {Absent}]
    /\ cachedApp \in Releases \cup {Absent}
    /\ wanted \subseteq Names
    /\ forgotten \subseteq Names
    /\ pc \in {"idle", "detectHelmRelease", "detectApp", "get", "update"}
    /\ pc # "idle" => cur \in Names /\ op \in {"ensure", "delete"}
    /\ pc \in {"get", "update"} => manager \in Kinds
    /\ pc \in {"idle", "detectHelmRelease", "detectApp"} => manager = "none"
    /\ pc = "update" => seen \in Releases

\* The HelmRelease, if there is one, was deployed while the call was under way
\* or before any EnsureConfig got to it.
NoReference ==
    release["HelmRelease"] # Absent =>
        \A n \in Names : ~Contains(release["HelmRelease"].refs, desired(n))

\* A call that is not for the HelmRelease found none, and nobody has put a
\* reference into one since; no call is for a cluster that is forgotten; and an
\* update of EnsureConfig has something to add.
CallInv ==
    /\ pc = "detectApp" \/ manager = "App" => NoReference
    /\ pc # "idle" => cur \notin forgotten
    /\ pc = "update" /\ op = "ensure" => ~Contains(seen.refs, desired(cur))

-----------------------------------------------------------------------------
(* The lists.                                                               *)

OwnEntries == {desired(n) : n \in Names}
Refs == Seq(Entries) \cup {Absent}

LEMMA EntryTypes ==
    /\ \A n \in Names : desired(n) \in Entries /\ desired(n) \in OwnEntries
    /\ \A e \in ForeignEntries : e \in Entries /\ e \notin OwnEntries
<1>1. ASSUME NEW n \in Names PROVE desired(n) \in Entries /\ desired(n) \in OwnEntries
  BY DEF Entries, OwnEntries
<1>2. ASSUME NEW e \in ForeignEntries PROVE e \in Entries /\ e \notin OwnEntries
  <2>1. e \in Entries
    BY DEF Entries
  <2>2. e.exact = FALSE
    BY DEF ForeignEntries
  <2>3. \A n \in Names : desired(n).exact = TRUE
    BY DEF desired
  <2> QED BY <2>1, <2>2, <2>3 DEF OwnEntries
<1> QED BY <1>1, <1>2

LEMMA DesiredDiffer ==
    ASSUME NEW n, NEW m, desired(n) = desired(m) PROVE n = m
BY DEF desired

LEMMA ElementsType ==
    ASSUME NEW refs \in Refs
    PROVE  Elements(refs) \in Seq(Entries) /\ Elements(refs) # Absent
<1>1. <<>> \in Seq(Entries)
  OBVIOUS
<1> QED BY <1>1, AbsentIsNoList DEF Elements, Refs

LEMMA StoredType ==
    ASSUME NEW k \in Kinds, NEW s \in Seq(Entries)
    PROVE  Stored(k, s) \in Refs /\ Elements(Stored(k, s)) = s
BY AbsentIsNoList DEF Stored, Refs, Elements

\* EnsureConfig: what appendValuesReference adds was not there.
LEMMA AppendedReference ==
    ASSUME NEW refs \in Refs, NEW n \in Names
    PROVE  LET new == appendValuesReference(refs, desired(n))
           IN /\ new # refs => ~Contains(refs, desired(n))
              /\ ~Contains(refs, desired(n)) =>
                    /\ new = Append(Elements(refs), desired(n))
                    /\ new \in Seq(Entries)
                    /\ \A e : Has(new, e) <=> Contains(refs, e) \/ e = desired(n)
<1> DEFINE s == Elements(refs)
           d == desired(n)
           new == appendValuesReference(refs, d)
<1>1. s \in Seq(Entries) /\ d \in Entries
  BY ElementsType, EntryTypes
<1>2. new # refs => ~Contains(refs, d)
  BY DEF appendValuesReference
<1>3. ~Contains(refs, d) => new = Append(s, d)
  BY DEF appendValuesReference
<1>4. \A e : Contains(refs, e) <=> Has(s, e)
  BY DEF Contains
<1> HIDE DEF s, d, new
<1>5. Append(s, d) \in Seq(Entries) /\ \A e : Has(Append(s, d), e) <=> Has(s, e) \/ e = d
  BY <1>1, HasAppend
<1> QED BY <1>2, <1>3, <1>4, <1>5 DEF s, d, new

\* DeleteConfig: what removeValuesReference takes out is not there any more,
\* everything else still is.
LEMMA RemovedReference ==
    ASSUME NEW refs \in Refs, NEW n \in Names
    PROVE  LET new == removeValuesReference(refs, desired(n))
           IN /\ new \in Seq(Entries)
              /\ new = Filter(Elements(refs), Entries \ {desired(n)})
              /\ ~Has(new, desired(n))
              /\ \A e : Has(new, e) => Contains(refs, e)
<1> DEFINE s == Elements(refs)
           d == desired(n)
           new == Filter(s, Entries \ {d})
<1>1. s \in Seq(Entries)
  BY ElementsType
<1>2. \A e : Contains(refs, e) <=> Has(s, e)
  BY DEF Contains
<1> HIDE DEF s, d
<1>3. new \in Seq(Entries)
  BY <1>1, FilterType
<1>4. \A e : Has(new, e) <=> Has(s, e) /\ e \in Entries \ {d}
  BY <1>1, FilterHas
<1> HIDE DEF new
<1>5. removeValuesReference(refs, desired(n)) = new
  BY DEF removeValuesReference, s, d, new
<1> QED BY <1>2, <1>3, <1>4, <1>5 DEF s, d, new

\* What is deployed has no entry of the operator.
LEMMA NewReleaseType ==
    ASSUME NEW new \in NewReleases
    PROVE  /\ new \in Releases /\ new # Absent
           /\ Filter(Elements(new.refs), OwnEntries) = <<>>
           /\ \A n \in Names : ~Contains(new.refs, desired(n))
<1>1. /\ new = [refs |-> new.refs]
      /\ new.refs \in {Absent, <<>>} \/ \E e \in ForeignEntries : new.refs = <<e>>
  BY DEF NewReleases
<1>2. <<>> \in Seq(Entries) /\ \A e \in ForeignEntries : <<e>> \in Seq(Entries)
  BY EntryTypes
<1>3. new.refs \in Refs
  BY <1>1, <1>2 DEF Refs
<1>4. new \in Releases /\ new # Absent
  BY <1>1, <1>3, AbsentIsNoList DEF Releases, Refs
<1>5. Filter(Elements(new.refs), OwnEntries) = <<>>
  <2>1. CASE new.refs \in {Absent, <<>>}
    BY <2>1, FilterEmpty DEF Elements
  <2>2. ASSUME NEW e \in ForeignEntries, new.refs = <<e>>
        PROVE  Filter(Elements(new.refs), OwnEntries) = <<>>
    <3>1. Elements(new.refs) = <<e>>
      BY <1>2, <2>2, AbsentIsNoList DEF Elements
    <3> QED BY <3>1, FilterOne, EntryTypes
  <2> QED BY <1>1, <2>1, <2>2
<1>6. ASSUME NEW n \in Names PROVE ~Contains(new.refs, desired(n))
  <2>1. Elements(new.refs) \in Seq(Entries)
    BY <1>3, ElementsType
  <2>2. Has(<<>>, desired(n)) <=> Has(Elements(new.refs), desired(n)) /\ desired(n) \in OwnEntries
    BY <1>5, <2>1, FilterHas
  <2>3. ~Has(<<>>, desired(n))
    BY DEF Has
  <2> QED BY <2>2, <2>3, EntryTypes DEF Contains
<1> QED BY <1>4, <1>5, <1>6

\* Someone else's edit leaves the operator's entries as they are.
LEMMA EditsType ==
    ASSUME NEW s \in Seq(Entries), NEW t \in Edits(s)
    PROVE  /\ t \in Seq(Entries)
           /\ Filter(t, OwnEntries) = Filter(s, OwnEntries)
           /\ \A n \in Names : Has(t, desired(n)) <=> Has(s, desired(n))
<1> DEFINE F(u) == Filter(u, OwnEntries)
<1>0. ASSUME NEW u \in Seq(Entries) PROVE F(u) \in Seq(Entries)
  BY FilterType
<1>1. ASSUME NEW u \in Seq(Entries), NEW v \in Seq(Entries) PROVE F(u \o v) = F(u) \o F(v)
  BY FilterConcat
<1>2. ASSUME NEW e \in ForeignEntries PROVE F(<<e>>) = <<>> /\ <<e>> \in Seq(Entries)
  BY FilterOne, EntryTypes
<1> HIDE DEF F
<1>3. t \in Seq(Entries) /\ F(t) = F(s)
  <2>1. ASSUME NEW e \in ForeignEntries, t = <<e>> \o s
        PROVE  t \in Seq(Entries) /\ F(t) = F(s)
    <3>1. F(t) = F(<<e>>) \o F(s)
      BY <1>1, <1>2, <2>1
    <3>2. F(t) = <<>> \o F(s)
      BY <1>2, <3>1
    <3>3. <<>> \o F(s) = F(s)
      BY <1>0
    <3> QED BY <1>2, <2>1, <3>2, <3>3
  <2>2. ASSUME NEW e \in ForeignEntries, t = s \o <<e>>
        PROVE  t \in Seq(Entries) /\ F(t) = F(s)
    <3>1. F(t) = F(s) \o F(<<e>>)
      BY <1>1, <1>2, <2>2
    <3>2. F(t) = F(s) \o <<>>
      BY <1>2, <3>1
    <3>3. F(s) \o <<>> = F(s)
      BY <1>0
    <3> QED BY <1>2, <2>2, <3>2, <3>3
  <2>3. ASSUME NEW i \in 1..Len(s), s[i] \in ForeignEntries,
               t = SubSeq(s, 1, i - 1) \o SubSeq(s, i + 1, Len(s))
        PROVE  t \in Seq(Entries) /\ F(t) = F(s)
    <3> DEFINE a == SubSeq(s, 1, i - 1)
               b == SubSeq(s, i + 1, Len(s))
               m == <<s[i]>>
    <3>1. a \in Seq(Entries) /\ b \in Seq(Entries) /\ m \in Seq(Entries)
      OBVIOUS
    <3>2. s = (a \o m) \o b
      <4>1. SubSeq(s, 1, i) = a \o m
        BY SubSeqRecursiveSecond
      <4>2. SubSeq(s, 1, i) \o b = SubSeq(s, 1, Len(s))
        BY ConcatAdjacentSubSeq
      <4>3. SubSeq(s, 1, Len(s)) = s
        BY SubSeqFull
      <4> HIDE DEF a, b, m
      <4> QED BY <4>1, <4>2, <4>3, Zenon
    <3>3. t = a \o b
      BY <2>3
    <3>4. F(m) = <<>>
      BY <1>2, <2>3
    <3> HIDE DEF a, b, m
    <3>5. a \o m \in Seq(Entries) /\ a \o b \in Seq(Entries)
      BY <3>1
    <3>6. F(s) = F(a \o m) \o F(b) /\ F(a \o m) = F(a) \o F(m)
      BY <1>1, <3>1, <3>2, <3>5
    <3>7. F(a) \o <<>> = F(a)
      BY <1>0, <3>1
    <3>8. F(t) = F(a) \o F(b)
      BY <1>1, <3>1, <3>3
    <3> QED BY <3>3, <3>4, <3>5, <3>6, <3>7, <3>8, Zenon
  <2>4. \/ \E e \in ForeignEntries : t = <<e>> \o s \/ t = s \o <<e>>
        \/ \E i \in 1..Len(s) : /\ s[i] \in ForeignEntries
                                /\ t = SubSeq(s, 1, i - 1) \o SubSeq(s, i + 1, Len(s))
    BY DEF Edits
  <2> QED BY <2>1, <2>2, <2>3, <2>4
<1>4. ASSUME NEW n \in Names PROVE Has(t, desired(n)) <=> Has(s, desired(n))
  <2>1. desired(n) \in OwnEntries
    BY EntryTypes
  <2>2. Has(F(t), desired(n)) <=> Has(t, desired(n)) /\ desired(n) \in OwnEntries
    BY <1>3, FilterHas DEF F
  <2>3. Has(F(s), desired(n)) <=> Has(s, desired(n)) /\ desired(n) \in OwnEntries
    BY FilterHas DEF F
  <2> QED BY <1>3, <2>1, <2>2, <2>3
<1> QED BY <1>3, <1>4 DEF F

-----------------------------------------------------------------------------
(* Steps that change a release, and types.                                  *)

LEMMA ReleaseTypes ==
    /\ \A r \in Releases : r # Absent /\ r.refs \in Refs /\ r = [refs |-> r.refs]
    /\ \A refs \in Refs : [refs |-> refs] \in Releases /\ [refs |-> refs].refs = refs
BY AbsentIsNoList DEF Releases, Refs

\* What others do to a release.
LEMMA EditStep ==
    ASSUME TypeInv, NEW k \in Kinds, Edit(k)
    PROVE  /\ UNCHANGED <<cachedApp, wanted, forgotten, pc, cur, op, manager, seen>>
           /\ release' \in [Kinds -> Releases \cup {Absent}]
           /\ \A j \in Kinds \ {k} : release'[j] = release[j]
           /\ \/ release'[k] = Absent
              \/ release[k] = Absent /\ release'[k] \in NewReleases
              \/ /\ release[k] \in Releases /\ release'[k] \in Releases
                 /\ Elements(release'[k].refs) \in Edits(Elements(release[k].refs))
<1>1. UNCHANGED <<cachedApp, wanted, forgotten, pc, cur, op, manager, seen>>
  BY DEF Edit
<1>2. ASSUME NEW new \in Releases \cup {Absent}, release' = [release EXCEPT ![k] = new]
      PROVE  /\ release' \in [Kinds -> Releases \cup {Absent}]
             /\ \A j \in Kinds \ {k} : release'[j] = release[j]
             /\ release'[k] = new
  BY <1>2 DEF TypeInv
<1>3. CASE release[k] = Absent /\ \E new \in NewReleases : release' = [release EXCEPT ![k] = new]
  BY <1>1, <1>2, <1>3, NewReleaseType
<1>4. CASE release[k] # Absent /\ release' = [release EXCEPT ![k] = Absent]
  BY <1>1, <1>2, <1>4
<1>5. CASE /\ release[k] # Absent
           /\ \E refs \in Edits(Elements(release[k].refs)) :
                 release' = [release EXCEPT ![k].refs = Stored(k, refs)]
  <2>1. PICK s \in Edits(Elements(release[k].refs)) :
               release' = [release EXCEPT ![k].refs = Stored(k, s)]
    BY <1>5
  <2>2. release[k] \in Releases /\ release[k].refs \in Refs /\ release[k] = [refs |-> release[k].refs]
    BY <1>5, ReleaseTypes DEF TypeInv
  <2>3. s \in Seq(Entries)
    BY <2>1, <2>2, ElementsType, EditsType
  <2>4. Stored(k, s) \in Refs /\ Elements(Stored(k, s)) = s
    BY <2>3, StoredType
  <2> DEFINE st == Stored(k, s)
             new == [refs |-> st]
  <2>5. [release[k] EXCEPT !.refs = st] = new
    BY <2>2 DEF Releases
  <2>6. release' = [release EXCEPT ![k] = new]
    BY <2>1, <2>5
  <2>7. new \in Releases /\ new.refs = st
    BY <2>4, ReleaseTypes
  <2> HIDE DEF new
  <2>8. /\ release' \in [Kinds -> Releases \cup {Absent}]
        /\ \A j \in Kinds \ {k} : release'[j] = release[j]
        /\ release'[k] = new
    BY <1>2, <2>6, <2>7
  <2> QED BY <1>1, <2>1, <2>2, <2>4, <2>7, <2>8
<1> QED BY <1>3, <1>4, <1>5 DEF Edit

\* What the manager writes.
LEMMA WriteStep ==
    ASSUME TypeInv, CallInv, pc = "update", release[manager] = seen, Write
    PROVE  /\ Return
           /\ forgotten' = IF op = "delete" THEN forgotten \cup {cur} ELSE forgotten
           /\ UNCHANGED <<cachedApp, wanted, changes>>
           /\ manager \in Kinds /\ cur \in Names
           /\ release[manager] \in Releases
           /\ release' \in [Kinds -> Releases \cup {Absent}]
           /\ \A j \in Kinds \ {manager} : release'[j] = release[j]
           /\ release'[manager] \in Releases
           /\ LET old == Elements(release[manager].refs)
                  new == Elements(release'[manager].refs)
              IN \/ /\ op = "ensure" /\ ~Has(old, desired(cur))
                    /\ new = Append(old, desired(cur))
                    /\ \A e : Has(new, e) <=> Has(old, e) \/ e = desired(cur)
                 \/ /\ op = "delete"
                    /\ new = Filter(old, Entries \ {desired(cur)})
                    /\ ~Has(new, desired(cur))
                    /\ \A e : Has(new, e) => Has(old, e)
<1>1. /\ manager \in Kinds /\ cur \in Names /\ op \in {"ensure", "delete"}
      /\ seen \in Releases /\ seen.refs \in Refs
  BY ReleaseTypes DEF TypeInv
<1> DEFINE s == Updated
           old == Elements(seen.refs)
           d == desired(cur)
<1>2. /\ s \in Seq(Entries)
      /\ \/ /\ op = "ensure" /\ ~Has(old, d)
            /\ s = Append(old, d)
            /\ \A e : Has(s, e) <=> Has(old, e) \/ e = d
         \/ /\ op = "delete"
            /\ s = Filter(old, Entries \ {d})
            /\ ~Has(s, d)
            /\ \A e : Has(s, e) => Has(old, e)
  <2>1. CASE op = "ensure"
    <3>1. ~Contains(seen.refs, d)
      BY <2>1 DEF CallInv
    <3>2. s = appendValuesReference(seen.refs, d)
      BY <2>1 DEF Updated
    <3>3. /\ s = Append(old, d) /\ s \in Seq(Entries)
          /\ \A e : Has(s, e) <=> Contains(seen.refs, e) \/ e = d
      BY <1>1, <3>1, <3>2, AppendedReference
    <3> QED BY <2>1, <3>1, <3>3 DEF Contains
  <2>2. CASE op = "delete"
    <3>1. s = removeValuesReference(seen.refs, d)
      BY <2>2 DEF Updated
    <3>2. /\ s \in Seq(Entries) /\ s = Filter(old, Entries \ {d}) /\ ~Has(s, d)
          /\ \A e : Has(s, e) => Contains(seen.refs, e)
      BY <1>1, <3>1, RemovedReference
    <3> QED BY <2>2, <3>2 DEF Contains
  <2> QED BY <1>1, <2>1, <2>2
<1> DEFINE st == Stored(manager, s)
           new == [refs |-> st]
<1>3. st \in Refs /\ Elements(st) = s
  BY <1>1, <1>2, StoredType
<1>4. new \in Releases /\ new.refs = st
  BY <1>3, ReleaseTypes
<1>5. release' = [release EXCEPT ![manager] = new]
  BY DEF Write
<1> HIDE DEF new, st, s
<1>6. /\ release' \in [Kinds -> Releases \cup {Absent}]
      /\ \A j \in Kinds \ {manager} : release'[j] = release[j]
      /\ release'[manager] = new
  BY <1>1, <1>4, <1>5 DEF TypeInv
<1>7. /\ Return
      /\ forgotten' = IF op = "delete" THEN forgotten \cup {cur} ELSE forgotten
      /\ UNCHANGED <<cachedApp, wanted, changes>>
  BY DEF Write, ReturnNil
<1>8. Elements(release'[manager].refs) = s
  BY <1>3, <1>4, <1>6
<1> HIDE DEF d
<1> QED BY <1>1, <1>2, <1>4, <1>6, <1>7, <1>8 DEF d

LEMMA TypeInit == Init => TypeInv
<1> SUFFICES ASSUME Init PROVE TypeInv
  OBVIOUS
<1>1. release \in [Kinds -> Releases \cup {Absent}]
  <2>1. NewReleases \subseteq Releases
    BY NewReleaseType
  <2> QED BY <2>1 DEF Init
<1>2. cachedApp \in Releases \cup {Absent}
  BY <1>1 DEF Init, Kinds
<1> QED BY <1>1, <1>2 DEF Init, TypeInv

LEMMA GetType ==
    ASSUME TypeInv, NEW k \in Kinds PROVE Get(k) \in Releases \cup {Absent}
BY DEF TypeInv, Get

\* A call that ends.
Ends ==
    /\ Return
    /\ \/ UNCHANGED forgotten
       \/ op = "delete" /\ forgotten' = forgotten \cup {cur}

LEMMA EndsType ==
    ASSUME TypeInv, pc # "idle", Ends, UNCHANGED <<release, cachedApp, wanted>>
    PROVE  TypeInv'
<1>1. pc' = "idle" /\ manager' = "none"
  BY DEF Ends, Return
<1>2. forgotten' \subseteq Names
  BY DEF Ends, TypeInv
<1> QED BY <1>1, <1>2 DEF TypeInv

LEMMA EndsOf == Succeed \/ Fail => Ends /\ UNCHANGED <<release, cachedApp, wanted, changes>>
BY DEF Succeed, Fail, ReturnNil, Ends, others

LEMMA TypeStep == TypeInv /\ CallInv /\ [Next]_vars => TypeInv'
<1> SUFFICES ASSUME TypeInv, CallInv, [Next]_vars PROVE TypeInv'
  OBVIOUS
<1>1. ASSUME NEW n \in Names, Start(n) PROVE TypeInv'
  BY <1>1 DEF Start, TypeInv, others
<1>2. CASE DetectHelmRelease
  BY <1>2 DEF DetectHelmRelease, TypeInv, others, Kinds
<1>3. CASE DetectApp
  <2>1. CASE Succeed
    BY <1>3, <2>1, EndsOf, EndsType DEF DetectApp
  <2>2. CASE pc' = "get" /\ manager' = "App" /\ UNCHANGED <<others, forgotten, cur, op, seen>>
    BY <1>3, <2>2 DEF DetectApp, TypeInv, others, Kinds
  <2> QED BY <1>3, <2>1, <2>2 DEF DetectApp
<1>4. ASSUME pc = "get", Get(manager) # Absent, pc' = "update", seen' = Get(manager),
             UNCHANGED <<others, forgotten, cur, op, manager>>
      PROVE  TypeInv'
  <2>1. manager \in Kinds
    BY <1>4 DEF TypeInv
  <2>2. Get(manager) \in Releases
    BY <1>4, <2>1, GetType
  <2> QED BY <1>4, <2>1, <2>2 DEF TypeInv, others
<1>5. CASE EnsureConfig
  <2>1. CASE Succeed \/ Fail
    BY <1>5, <2>1, EndsOf, EndsType DEF EnsureConfig
  <2> QED BY <1>4, <1>5, <2>1 DEF EnsureConfig
<1>6. CASE DeleteConfig
  <2>1. CASE Succeed
    BY <1>6, <2>1, EndsOf, EndsType DEF DeleteConfig
  <2> QED BY <1>4, <1>6, <2>1 DEF DeleteConfig
<1>7. CASE Update
  <2>1. CASE release[manager] = seen /\ Write
    <3>1. /\ Return
          /\ forgotten' = IF op = "delete" THEN forgotten \cup {cur} ELSE forgotten
          /\ UNCHANGED <<cachedApp, wanted>>
          /\ cur \in Names
          /\ release' \in [Kinds -> Releases \cup {Absent}]
      BY <1>7, <2>1, WriteStep DEF Update
    <3>2. pc' = "idle" /\ manager' = "none"
      BY <3>1 DEF Return
    <3>3. forgotten' \subseteq Names
      BY <3>1 DEF TypeInv
    <3> QED BY <3>1, <3>2, <3>3 DEF TypeInv
  <2>2. CASE Fail
    BY <1>7, <2>2, EndsOf, EndsType DEF Update
  <2> QED BY <1>7, <2>1, <2>2 DEF Update
<1>8. CASE SyncApp
  <2>1. release["App"] \in Releases \cup {Absent}
    BY DEF TypeInv, Kinds
  <2> QED BY <1>8, <2>1 DEF SyncApp, TypeInv
<1>9. CASE CallFails
  <2>1. Ends /\ pc # "idle" /\ UNCHANGED <<release, cachedApp, wanted>>
    BY <1>9 DEF CallFails, Ends
  <2> QED BY <2>1, EndsType
<1>10. ASSUME NEW n \in Names, ClusterDeleted(n) PROVE TypeInv'
  BY <1>10 DEF ClusterDeleted, TypeInv
<1>11. ASSUME NEW k \in Kinds, Edit(k) PROVE TypeInv'
  BY <1>11, EditStep DEF TypeInv
<1>12. CASE UNCHANGED vars
  BY <1>12 DEF vars, others, TypeInv
<1> QED BY <1>1, <1>2, <1>3, <1>5, <1>6, <1>7, <1>8, <1>9, <1>10, <1>11, <1>12
        DEF Next, Manager

-----------------------------------------------------------------------------
(* Deleted stays deleted.                                                   *)

LEMMA CallInit == Init => CallInv /\ DeletedStaysDeleted
BY DEF Init, CallInv, DeletedStaysDeleted

\* Nobody but the manager puts an entry of the operator into the HelmRelease.
LEMMA KeptByOthers ==
    ASSUME TypeInv, NEW n \in Names,
           release' = release \/ \E k \in Kinds : Edit(k),
           release["HelmRelease"] # Absent => ~Contains(release["HelmRelease"].refs, desired(n))
    PROVE  release'["HelmRelease"] # Absent => ~Contains(release'["HelmRelease"].refs, desired(n))
<1>1. CASE release' = release
  BY <1>1
<1>2. ASSUME NEW k \in Kinds, Edit(k)
      PROVE  release'["HelmRelease"] # Absent => ~Contains(release'["HelmRelease"].refs, desired(n))
  <2> DEFINE h == "HelmRelease"
  <2>0. h \in Kinds
    BY DEF Kinds
  <2>1. CASE k # h
    <3>1. release'[h] = release[h]
      BY <1>2, <2>0, <2>1, EditStep
    <3> QED BY <3>1
  <2>2. CASE release'[h] = Absent
    BY <2>2
  <2>3. CASE release'[h] \in NewReleases
    BY <2>3, NewReleaseType
  <2>4. CASE /\ release[h] \in Releases /\ release'[h] \in Releases
             /\ Elements(release'[h].refs) \in Edits(Elements(release[h].refs))
    <3>1. Elements(release[h].refs) \in Seq(Entries) /\ release[h] # Absent
      BY <2>4, ReleaseTypes, ElementsType
    <3>2. Has(Elements(release'[h].refs), desired(n)) <=> Has(Elements(release[h].refs), desired(n))
      BY <2>4, <3>1, EditsType
    <3> QED BY <3>1, <3>2 DEF Contains
  <2>5. k = h => \/ release'[h] = Absent \/ release'[h] \in NewReleases
                 \/ /\ release[h] \in Releases /\ release'[h] \in Releases
                    /\ Elements(release'[h].refs) \in Edits(Elements(release[h].refs))
    BY <1>2, EditStep
  <2> QED BY <2>1, <2>2, <2>3, <2>4, <2>5
<1> QED BY <1>1, <1>2

\* The clusters that are forgotten and the calls for the App, when the manager
\* leaves the releases alone.
LEMMA DeletedFrame ==
    ASSUME TypeInv, CallInv, DeletedStaysDeleted,
           release' = release \/ \E k \in Kinds : Edit(k)
    PROVE  /\ forgotten' = forgotten => DeletedStaysDeleted'
           /\ NoReference => NoReference'
           /\ /\ cur \in Names
              /\ release["HelmRelease"] # Absent =>
                    ~Contains(release["HelmRelease"].refs, desired(cur))
              /\ forgotten' = forgotten \cup {cur}
              => DeletedStaysDeleted'
<1> DEFINE Clean(n) == release["HelmRelease"] # Absent =>
                          ~Contains(release["HelmRelease"].refs, desired(n))
           CleanNext(n) == release'["HelmRelease"] # Absent =>
                          ~Contains(release'["HelmRelease"].refs, desired(n))
<1>1. ASSUME NEW n \in Names, Clean(n) PROVE CleanNext(n)
  BY <1>1, KeptByOthers
<1>2. \A n \in forgotten : n \in Names /\ Clean(n)
  BY DEF TypeInv, DeletedStaysDeleted
<1>3. (\A n \in forgotten' : CleanNext(n)) => DeletedStaysDeleted'
  BY DEF DeletedStaysDeleted
<1>4. NoReference => \A n \in Names : Clean(n)
  BY DEF NoReference
<1>5. (\A n \in Names : CleanNext(n)) => NoReference'
  BY DEF NoReference
<1>6. (release["HelmRelease"] # Absent =>
         ~Contains(release["HelmRelease"].refs, desired(cur))) => Clean(cur)
  OBVIOUS
<1> HIDE DEF Clean, CleanNext
<1> QED BY <1>1, <1>2, <1>3, <1>4, <1>5, <1>6

LEMMA CallStep ==
    TypeInv /\ CallInv /\ DeletedStaysDeleted /\ [Next]_vars
    => CallInv' /\ DeletedStaysDeleted'
<1> DEFINE h == "HelmRelease"
           Clean(n) == release[h] # Absent => ~Contains(release[h].refs, desired(n))
<1> SUFFICES ASSUME TypeInv, CallInv, DeletedStaysDeleted, [Next]_vars
             PROVE  CallInv' /\ DeletedStaysDeleted'
  OBVIOUS
<1>0. h \in Kinds /\ h # "App"
  BY DEF Kinds
<1>1. Return => CallInv'
  BY DEF Return, CallInv
<1>2. ASSUME pc # "idle", Succeed \/ Fail, op = "delete" /\ Succeed => Clean(cur)
      PROVE  CallInv' /\ DeletedStaysDeleted'
  <2>1. /\ Return /\ release' = release
        /\ \/ forgotten' = forgotten
           \/ /\ op = "delete" /\ Succeed
              /\ forgotten' = forgotten \cup {cur}
    BY <1>2 DEF Succeed, Fail, ReturnNil, others
  <2>2. cur \in Names
    BY <1>2 DEF TypeInv
  <2>3. DeletedStaysDeleted'
    BY <1>2, <2>1, <2>2, DeletedFrame
  <2> QED BY <1>1, <2>1, <2>3
<1>3. NoReference /\ cur \in Names => Clean(cur)
  BY DEF NoReference
<1> HIDE DEF Clean
<1>4. ASSUME NEW n \in Names, Start(n) PROVE CallInv' /\ DeletedStaysDeleted'
  <2>1. /\ n \notin forgotten /\ cur' = n /\ pc' = "detectHelmRelease"
        /\ release' = release /\ forgotten' = forgotten /\ manager' = manager /\ pc = "idle"
    BY <1>4 DEF Start, others
  <2>2. manager = "none"
    BY <2>1 DEF TypeInv
  <2>3. DeletedStaysDeleted'
    BY <2>1, DeletedFrame
  <2> QED BY <2>1, <2>2, <2>3 DEF CallInv
<1>5. CASE DetectHelmRelease
  <2>1. /\ pc = "detectHelmRelease" /\ manager = "none"
        /\ \/ release[h] # Absent /\ pc' = "get" /\ manager' = h
           \/ release[h] = Absent /\ pc' = "detectApp" /\ manager' = "none"
        /\ UNCHANGED <<release, forgotten, cur, op, seen>>
    BY <1>5 DEF DetectHelmRelease, TypeInv, others, Get
  <2>2. DeletedStaysDeleted'
    BY <2>1, DeletedFrame
  <2>3. release[h] = Absent => NoReference'
    BY <2>1 DEF NoReference
  <2>4. cur' \notin forgotten'
    BY <2>1 DEF CallInv
  <2> QED BY <1>0, <2>1, <2>2, <2>3, <2>4 DEF CallInv
<1>6. CASE DetectApp
  <2>0. pc = "detectApp" /\ NoReference /\ cur \in Names /\ cur \notin forgotten
    BY <1>6 DEF DetectApp, CallInv, TypeInv
  <2>1. CASE Succeed
    BY <1>2, <1>3, <2>0, <2>1
  <2>2. CASE pc' = "get" /\ manager' = "App" /\ UNCHANGED <<others, forgotten, cur, op, seen>>
    <3>1. release' = release /\ forgotten' = forgotten
      BY <2>2 DEF others
    <3>2. NoReference' /\ DeletedStaysDeleted'
      BY <2>0, <3>1, DeletedFrame
    <3> QED BY <2>0, <2>2, <3>2 DEF CallInv
  <2> QED BY <1>6, <2>1, <2>2 DEF DetectApp
<1>7. ASSUME pc = "get", Get(manager) # Absent, pc' = "update", seen' = Get(manager),
             UNCHANGED <<others, forgotten, cur, op, manager>>,
             op = "ensure" =>
                appendValuesReference(Get(manager).refs, desired(cur)) # Get(manager).refs
      PROVE  CallInv' /\ DeletedStaysDeleted'
  <2>1. manager \in Kinds /\ cur \in Names
    BY <1>7 DEF TypeInv
  <2>2. Get(manager).refs \in Refs
    BY <1>7, <2>1, GetType, ReleaseTypes
  <2>3. op = "ensure" => ~Contains(Get(manager).refs, desired(cur))
    BY <1>7, <2>1, <2>2, AppendedReference
  <2>4. release' = release
    BY <1>7 DEF others
  <2>5. DeletedStaysDeleted' /\ (NoReference => NoReference')
    BY <1>7, <2>4, DeletedFrame
  <2>6. cur' \notin forgotten' /\ (manager' = "App" => NoReference')
    BY <1>7, <2>5 DEF CallInv
  <2>7. pc' = "update" /\ op' = "ensure" => ~Contains(seen'.refs, desired(cur'))
    BY <1>7, <2>3
  <2> QED BY <1>7, <2>5, <2>6, <2>7 DEF CallInv
<1>8. CASE EnsureConfig
  <2>1. pc = "get" /\ op = "ensure"
    BY <1>8 DEF EnsureConfig
  <2>2. CASE Succeed \/ Fail
    BY <1>2, <2>1, <2>2
  <2> QED BY <1>7, <1>8, <2>1, <2>2 DEF EnsureConfig
<1>9. CASE DeleteConfig
  <2>1. pc = "get" /\ op = "delete" /\ cur \in Names /\ manager \in Kinds
    BY <1>9 DEF DeleteConfig, TypeInv
  <2>2. CASE Succeed /\ manager = "App"
    BY <1>2, <1>3, <2>1, <2>2 DEF CallInv
  <2>3. CASE Succeed /\ manager = h
    <3>1. Get(manager) = release[h]
      BY <1>0, <2>3 DEF Get
    <3>2. \/ release[h] = Absent
          \/ /\ release[h] # Absent
             /\ removeValuesReference(release[h].refs, desired(cur)) = release[h].refs
          \/ pc' = "update"
      BY <1>0, <1>9, <2>3, <3>1 DEF DeleteConfig
    <3>3. pc' = "idle"
      BY <2>3 DEF Succeed, ReturnNil, Return
    <3>4. Clean(cur)
      <4>1. CASE release[h] = Absent
        BY <4>1 DEF Clean
      <4>2. CASE release[h] # Absent
                 /\ removeValuesReference(release[h].refs, desired(cur)) = release[h].refs
        <5> DEFINE refs == release[h].refs
        <5>1. refs \in Refs
          BY <1>0, <4>2, ReleaseTypes DEF TypeInv
        <5>2. refs \in Seq(Entries) /\ ~Has(refs, desired(cur))
          BY <2>1, <4>2, <5>1, RemovedReference
        <5>3. Elements(refs) = refs
          BY <5>2, AbsentIsNoList DEF Elements
        <5> QED BY <5>2, <5>3 DEF Clean, Contains
      <4> QED BY <3>2, <3>3, <4>1, <4>2
    <3> QED BY <1>2, <2>1, <2>3, <3>4
  <2>4. CASE ~Succeed
    BY <1>7, <1>9, <2>1, <2>4 DEF DeleteConfig
  <2> QED BY <2>1, <2>2, <2>3, <2>4 DEF Kinds
<1>10. CASE Update
  <2>1. CASE release[manager] = seen /\ Write
    <3> DEFINE old == Elements(release[manager].refs)
               new == Elements(release'[manager].refs)
    <3>1. /\ Return
          /\ forgotten' = IF op = "delete" THEN forgotten \cup {cur} ELSE forgotten
          /\ manager \in Kinds /\ cur \in Names
          /\ release[manager] \in Releases
          /\ \A j \in Kinds \ {manager} : release'[j] = release[j]
          /\ release'[manager] \in Releases
          /\ \/ op = "ensure" /\ \A e : Has(new, e) <=> Has(old, e) \/ e = desired(cur)
             \/ op = "delete" /\ ~Has(new, desired(cur)) /\ \A e : Has(new, e) => Has(old, e)
      BY <1>10, <2>1, WriteStep DEF Update
    <3>2. cur \notin forgotten
      BY <1>10 DEF Update, CallInv
    <3>3. DeletedStaysDeleted'
      <4> SUFFICES ASSUME NEW n \in forgotten', release'[h] # Absent
                   PROVE  ~Contains(release'[h].refs, desired(n))
        BY DEF DeletedStaysDeleted
      <4>1. CASE manager = h
        <5> HIDE DEF old, new
        <5>1. ~Has(new, desired(n))
          <6>1. n \in forgotten => ~Has(old, desired(n))
            BY <3>1, <4>1, ReleaseTypes DEF DeletedStaysDeleted, Contains, old
          <6>2. n \in forgotten => desired(n) # desired(cur)
            BY <3>2, DesiredDiffer
          <6> QED BY <3>1, <6>1, <6>2
        <5> QED BY <4>1, <5>1 DEF Contains, new
      <4>2. CASE manager = "App"
        <5>1. release'[h] = release[h]
          BY <1>0, <3>1, <4>2
        <5>2. NoReference
          BY <4>2 DEF CallInv
        <5>3. n \in Names
          BY <3>1 DEF TypeInv
        <5> QED BY <5>1, <5>2, <5>3 DEF NoReference
      <4> QED BY <3>1, <4>1, <4>2 DEF Kinds
    <3> QED BY <1>1, <3>1, <3>3
  <2>2. CASE Fail
    <3>1. Return /\ release' = release /\ forgotten' = forgotten
      BY <2>2 DEF Fail, others
    <3> QED BY <1>1, <3>1, DeletedFrame
  <2> QED BY <1>10, <2>1, <2>2 DEF Update
<1>11. CASE CallFails
  <2>1. Return /\ release' = release /\ forgotten' = forgotten
    BY <1>11 DEF CallFails
  <2> QED BY <1>1, <2>1, DeletedFrame
<1>12. ASSUME release' = release \/ \E k \in Kinds : Edit(k),
              UNCHANGED <<forgotten, pc, cur, op, manager, seen>>
       PROVE  CallInv' /\ DeletedStaysDeleted'
  <2>1. DeletedStaysDeleted' /\ (NoReference => NoReference')
    BY <1>12, DeletedFrame
  <2> QED BY <1>12, <2>1 DEF CallInv
<1>13. ASSUME NEW n \in Names, ClusterDeleted(n) PROVE CallInv' /\ DeletedStaysDeleted'
  BY <1>12, <1>13 DEF ClusterDeleted
<1>14. CASE SyncApp
  BY <1>12, <1>14 DEF SyncApp
<1>15. ASSUME NEW k \in Kinds, Edit(k) PROVE CallInv' /\ DeletedStaysDeleted'
  BY <1>12, <1>15, EditStep
<1>16. CASE UNCHANGED vars
  BY <1>12, <1>16 DEF vars, others
<1> QED BY <1>4, <1>5, <1>6, <1>8, <1>9, <1>10, <1>11, <1>13, <1>14, <1>15, <1>16
        DEF Next, Manager

\* A HelmRelease never refers to a cluster again once DeleteConfig has returned
\* without error for it, however many clusters share the list and whatever others
\* deploy, uninstall and edit between the calls.
THEOREM DeletedForGood == Spec => []DeletedStaysDeleted
BY TypeInit, CallInit, TypeStep, CallStep, PTL DEF Spec

-----------------------------------------------------------------------------
(* The lists implement ReferenceList.                                       *)

LEMMA OwnIs == \A refs : Lists!Own(refs) = Filter(refs, OwnEntries)
BY Zenon DEF Lists!Own, Lists!Filter, Filter, OwnEntries

LEMMA WithoutIs == \A refs, e : Lists!Without(refs, e) = Filter(refs, Entries \ {e})
BY Zenon DEF Lists!Without, Lists!Filter, Filter

LEMMA HasIs == \A refs, e : Lists!Has(refs, e) <=> Has(refs, e)
BY Zenon DEF Lists!Has, Has

LEMMA ListsInit == TypeInv /\ Init => Lists!ListInit
<1> SUFFICES ASSUME TypeInv, Init PROVE Lists!ListInit
  OBVIOUS
<1>1. ASSUME NEW k \in Kinds, release[k] # Absent
      PROVE  Lists!Own(Elements(release[k].refs)) = <<>>
  <2>1. release[k] \in NewReleases
    BY <1>1 DEF Init
  <2> QED BY <2>1, NewReleaseType, OwnIs
<1> QED BY <1>1 DEF Lists!ListInit, References

\* The lists of the releases, before or after a step.
LEMMA ReferencesAre ==
    ASSUME NEW r \in [Kinds -> Releases \cup {Absent}], NEW l,
           l = [k \in Kinds |-> IF r[k] = Absent THEN Absent ELSE Elements(r[k].refs)]
    PROVE  /\ l = [k \in Kinds |-> l[k]]
           /\ \A k \in Kinds : /\ r[k] = Absent => l[k] = Absent
                               /\ r[k] # Absent => /\ l[k] = Elements(r[k].refs)
                                                  /\ l[k] # Absent /\ l[k] \in Seq(Entries)
<1>1. ASSUME NEW k \in Kinds, r[k] # Absent
      PROVE  /\ l[k] = Elements(r[k].refs)
             /\ l[k] # Absent /\ l[k] \in Seq(Entries)
  <2>1. r[k].refs \in Refs
    BY <1>1, ReleaseTypes
  <2>2. l[k] = Elements(r[k].refs)
    BY <1>1
  <2> QED BY <2>1, <2>2, ElementsType
<1> QED BY <1>1

LEMMA ListsStep ==
    TypeInv /\ TypeInv' /\ CallInv /\ [Next]_vars => [Lists!ListNext]_References
<1> SUFFICES ASSUME TypeInv, TypeInv', CallInv, [Next]_vars
             PROVE  Lists!ListNext \/ UNCHANGED References
  OBVIOUS
<1> DEFINE L == References
           M == References'
<1>1. /\ L = [k \in Kinds |-> L[k]]
      /\ \A k \in Kinds : /\ release[k] = Absent => L[k] = Absent
                          /\ release[k] # Absent =>
                                /\ L[k] = Elements(release[k].refs)
                                /\ L[k] # Absent /\ L[k] \in Seq(Entries)
  BY ReferencesAre DEF TypeInv, References
<1>2. /\ M = [k \in Kinds |-> M[k]]
      /\ \A k \in Kinds : /\ release'[k] = Absent => M[k] = Absent
                          /\ release'[k] # Absent =>
                                /\ M[k] = Elements(release'[k].refs)
                                /\ M[k] # Absent /\ M[k] \in Seq(Entries)
  BY ReferencesAre DEF TypeInv, References
<1>3. ASSUME NEW k \in Kinds, \A j \in Kinds \ {k} : release'[j] = release[j]
      PROVE  \A j \in Kinds \ {k} : M[j] = L[j]
  BY <1>3 DEF References
<1>4. CASE release' = release
  BY <1>4 DEF References
<1>5. ASSUME NEW k \in Kinds, Edit(k) PROVE Lists!ListNext
  <2>1. \A j \in Kinds \ {k} : M[j] = L[j]
    BY <1>3, <1>5, EditStep
  <2>2. \/ M[k] = Absent
        \/ L[k] = Absent /\ Lists!Own(M[k]) = <<>>
        \/ L[k] # Absent /\ Lists!Own(M[k]) = Lists!Own(L[k])
    <3>1. CASE release'[k] = Absent
      BY <1>2, <3>1
    <3>2. CASE release[k] = Absent /\ release'[k] \in NewReleases
      <4>1. release'[k] # Absent /\ Filter(Elements(release'[k].refs), OwnEntries) = <<>>
        BY <3>2, NewReleaseType
      <4> QED BY <1>1, <1>2, <3>2, <4>1, OwnIs
    <3>3. CASE /\ release[k] \in Releases /\ release'[k] \in Releases
               /\ Elements(release'[k].refs) \in Edits(Elements(release[k].refs))
      <4>1. L[k] = Elements(release[k].refs) /\ M[k] = Elements(release'[k].refs)
            /\ L[k] # Absent /\ L[k] \in Seq(Entries)
        BY <1>1, <1>2, <3>3, ReleaseTypes
      <4>2. Filter(M[k], OwnEntries) = Filter(L[k], OwnEntries)
        BY <3>3, <4>1, EditsType
      <4> QED BY <4>1, <4>2, OwnIs
    <3> QED BY <1>5, <3>1, <3>2, <3>3, EditStep
  <2>3. Lists!Others(k)
    BY <2>1, <2>2 DEF Lists!Others
  <2> QED BY <2>3 DEF Lists!ListNext
<1>6. CASE pc = "update" /\ release[manager] = seen /\ Write
  <2> DEFINE d == desired(cur)
  <2>1. /\ manager \in Kinds /\ cur \in Names
        /\ release[manager] \in Releases /\ release'[manager] \in Releases
        /\ \A j \in Kinds \ {manager} : release'[j] = release[j]
        /\ LET old == Elements(release[manager].refs)
               new == Elements(release'[manager].refs)
           IN \/ ~Has(old, d) /\ new = Append(old, d)
              \/ new = Filter(old, Entries \ {d})
    BY <1>6, WriteStep
  <2>2. \A j \in Kinds \ {manager} : M[j] = L[j]
    BY <1>3, <2>1
  <2>3. L[manager] = Elements(release[manager].refs) /\ L[manager] # Absent
        /\ M[manager] = Elements(release'[manager].refs)
    BY <1>1, <1>2, <2>1, ReleaseTypes
  <2>4. \/ ~Has(L[manager], d) /\ M[manager] = Append(L[manager], d)
        \/ M[manager] = Filter(L[manager], Entries \ {d})
    BY <2>1, <2>3
  <2> HIDE DEF L, M
  <2>5. ASSUME NEW x, M[manager] = x PROVE M = [L EXCEPT ![manager] = x]
    BY <1>1, <1>2, <2>1, <2>2, <2>5
  <2>6. CASE ~Has(L[manager], d) /\ M[manager] = Append(L[manager], d)
    <3>1. Lists!Ensure(manager, cur)
      BY <2>3, <2>5, <2>6, HasIs DEF Lists!Ensure, L, M
    <3> QED BY <2>1, <3>1 DEF Lists!ListNext
  <2>7. CASE M[manager] = Filter(L[manager], Entries \ {d})
    <3>1. Lists!Forget(manager, cur)
      BY <2>3, <2>5, <2>7, WithoutIs DEF Lists!Forget, L, M
    <3> QED BY <2>1, <3>1 DEF Lists!ListNext
  <2> QED BY <2>4, <2>6, <2>7
<1>7. \/ release' = release
      \/ \E k \in Kinds : Edit(k)
      \/ pc = "update" /\ release[manager] = seen /\ Write
  BY DEF Next, Manager, Start, DetectHelmRelease, DetectApp, EnsureConfig, DeleteConfig,
         Update, SyncApp, CallFails, ClusterDeleted, Succeed, Fail, others, vars
<1> QED BY <1>4, <1>5, <1>6, <1>7

\* The lists of references only change the way ReferenceList allows.
THEOREM ReferenceListImplemented == Spec => ImplementsReferenceList
<1>1. TypeInv /\ CallInv /\ DeletedStaysDeleted /\ [Next]_vars
      => [Lists!ListNext]_References
  BY TypeStep, ListsStep
<1>2. Init => Lists!ListInit
  BY TypeInit, ListsInit
<1>3. Spec => Lists!ListInit /\ [][Lists!ListNext]_References
  BY <1>1, <1>2, TypeInit, CallInit, TypeStep, CallStep, PTL DEF Spec
<1> QED BY <1>3 DEF ImplementsReferenceList, Lists!ListSpec

=============================================================================
