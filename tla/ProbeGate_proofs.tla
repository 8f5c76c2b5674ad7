--------------------------- MODULE ProbeGate_proofs ---------------------------
(***************************************************************************)
(* Proofs about the gates, for any names, networks, assets, targets and    *)
(* engagements, and any number of changes.                                 *)
(***************************************************************************)
EXTENDS ProbeGate, TLAPS

LEMMA NamesAreOrdered ==
  /\ \A n \in Hostnames : n \in NamesAbove[n] /\ NamesAbove[n] \subseteq Hostnames
  /\ \A n \in Hostnames : \A m \in NamesAbove[n] : NamesAbove[m] \subseteq NamesAbove[n]
BY ProbeGateAssumption

\* A name that is under a name of `domains` is a hostname under that one.
LEMMA UnderOne ==
  ASSUME NEW name, NEW domains, UnderDomain(name, domains)
  PROVE  /\ name \in Hostnames
         /\ \E d \in domains \cap Hostnames : d \in NamesAbove[name] /\ UnderDomain(name, {d})
BY NamesAreOrdered DEF UnderDomain

LEMMA UnderIt == \A name, d : UnderDomain(name, {d}) => name \in Hostnames /\ d \in Hostnames
BY NamesAreOrdered DEF UnderDomain

\* What is under a name is under whatever that name is under.
LEMMA UnderTransitive ==
  ASSUME NEW name, NEW d, UnderDomain(name, {d}), NEW t, UnderDomain(d, {t})
  PROVE  UnderDomain(name, {t})
BY NamesAreOrdered DEF UnderDomain

LEMMA KindsOfValues ==
  /\ \A h \in Hostnames : h \notin Addresses /\ h \notin Ranges /\ Net(h) = {}
  /\ \A v \in Addresses : v \notin Hostnames /\ v \notin Ranges /\ Net(v) = {v}
  /\ \A n \in Ranges : Net(n) = NetOf[n]
BY ProbeGateAssumption DEF Net

-----------------------------------------------------------------------------
(* The type invariant                                                       *)

LEMMA GateTypeInit == GateInit => GateTypeOK
<1> SUFFICES ASSUME GateInit PROVE GateTypeOK
  OBVIOUS
<1>1. verified \subseteq declared /\ declared \subseteq Values /\ links \subseteq (declared \cap Hostnames) \X AssetIds
  BY DEF GateInit
<1>2. /\ dealOf \in [Values -> Deals \cup {NoDeal}] /\ posture \in [Deals -> Postures]
      /\ parent \in [AssetIds -> Hostnames \cup {NoParent}] /\ class \in [AssetIds -> ProbeClasses]
  BY DEF GateInit, Postures, Restricting, ProbeClasses
<1> QED BY <1>1, <1>2 DEF GateTypeOK

LEMMA GateTypeStep == GateTypeOK /\ [GateNext]_gateVars => GateTypeOK'
<1> SUFFICES ASSUME GateTypeOK, [GateNext]_gateVars PROVE GateTypeOK'
  OBVIOUS
<1> USE DEF GateTypeOK
<1>1. ASSUME NEW v \in Values, NEW g \in Deals \cup {NoDeal}, Declare(v, g)
      PROVE  GateTypeOK'
  BY <1>1 DEF Declare
<1>2. ASSUME NEW v \in Values, NEW g \in Deals \cup {NoDeal}, Move(v, g)
      PROVE  GateTypeOK'
  BY <1>2 DEF Move
<1>3. ASSUME NEW v \in Values, VerifyTarget(v)
      PROVE  GateTypeOK'
  BY <1>3 DEF VerifyTarget
<1>4. ASSUME NEW v \in Values, Undeclare(v)
      PROVE  GateTypeOK'
  <2>1. links' \subseteq (declared' \cap Hostnames) \X AssetIds
    BY <1>4 DEF Undeclare
  <2>2. parent' \in [AssetIds -> Hostnames \cup {NoParent}] /\ class' \in [AssetIds -> ProbeClasses]
    BY <1>4 DEF Undeclare, ProbeClasses
  <2>3. /\ verified' \subseteq declared' /\ declared' \subseteq Values
        /\ dealOf' \in [Values -> Deals \cup {NoDeal}] /\ posture' \in [Deals -> Postures]
    BY <1>4 DEF Undeclare
  <2> QED BY <2>1, <2>2, <2>3
<1>5. ASSUME NEW t \in Hostnames, NEW a \in AssetIds, NEW p \in Hostnames, Discover(t, a, p)
      PROVE  GateTypeOK'
  BY <1>5 DEF Discover
<1>6. ASSUME NEW a \in AssetIds, NEW c \in ProbeClasses \ {"unprojected"}, Reproject(a, c)
      PROVE  GateTypeOK'
  BY <1>6 DEF Reproject
<1>7. ASSUME NEW g \in Deals, NEW p \in Postures, Transition(g, p)
      PROVE  GateTypeOK'
  BY <1>7 DEF Transition
<1>8. CASE UNCHANGED gateVars
  BY <1>8 DEF gateVars
<1> QED BY <1>1, <1>2, <1>3, <1>4, <1>5, <1>6, <1>7, <1>8 DEF GateNext

\* Links are between declared domains and assets; an asset's parent is a name.
THEOREM GateTypesAlways == GateSpec => []GateTypeOK
BY GateTypeInit, GateTypeStep, PTL DEF GateSpec

-----------------------------------------------------------------------------
(* The gates agree                                                          *)

\* The scope admits an entry only through a target that covers it.
LEMMA EntryCovered ==
  ASSUME NEW e \in Values, NEW pool, EntryInScope(e, pool)
  PROVE  \/ e \in Hostnames /\ \E t \in pool : UnderDomain(e, {t})
         \/ e \in Ranges /\ \E t \in pool \cap Ranges : NetOf[e] \subseteq NetOf[t]
         \/ e \in Addresses /\ \E t \in pool : e \in Net(t)
         \/ e \in Addresses /\ \E a \in AssetIds : Assets[a] = e /\ \E t \in pool : UnderDomain(parent[a], {t})
BY UnderOne DEF EntryInScope, ValueInScope

LEMMA ScopeNeedsTargetHolds == ScopeNeedsTarget
<1> SUFFICES ASSUME NEW mode \in AuthModes \ {"disabled"}, NEW a \in ScopedIds(Values, mode)
             PROVE  \E t \in Pool(mode) :
                      \/ FallsUnder(a, t)
                      \/ \E d \in declared : <<d, a>> \in links /\ UnderDomain(d, {t})
  BY DEF ScopeNeedsTarget
<1> DEFINE pool == Pool(mode)
<1> DEFINE admitted == {e \in Values : EntryInScope(e, Pool(mode))}
<1>1. a \in AssetsUnder(admitted) /\ a \in AssetIds
  BY DEF ScopedIds, AssetsUnder
<1>2. PICK entry \in admitted :
        \/ entry \in Hostnames /\ entry \in declared /\ <<entry, a>> \in links
        \/ UnderDomain(Assets[a], {entry})
        \/ UnderDomain(parent[a], {entry})
        \/ IsAddress(a) /\ Assets[a] \in Net(entry)
  <2> HIDE DEF admitted
  <2>1. \A name : UnderDomain(name, admitted) => \E e \in admitted : UnderDomain(name, {e})
    BY UnderOne
  <2> QED BY <1>1, <2>1 DEF AssetsUnder
<1>a. EntryInScope(entry, pool) /\ entry \in Values
  OBVIOUS
<1> HIDE DEF admitted
<1>3. CASE entry \in Hostnames
  <2>1. PICK t \in pool : UnderDomain(entry, {t})
    BY <1>a, <1>3, EntryCovered, KindsOfValues
  <2>2. t \in Hostnames
    BY <2>1, UnderIt
  <2>3. CASE entry \in declared /\ <<entry, a>> \in links
    BY <2>1, <2>3
  <2>4. CASE UnderDomain(Assets[a], {entry}) \/ UnderDomain(parent[a], {entry})
    BY <2>1, <2>2, <2>4, UnderTransitive DEF FallsUnder
  <2>5. ~(Assets[a] \in Net(entry))
    BY <1>3, KindsOfValues
  <2> QED BY <1>2, <2>3, <2>4, <2>5
<1>4. CASE entry \notin Hostnames
  <2>1. IsAddress(a) /\ Assets[a] \in Net(entry)
    BY <1>2, <1>4, UnderIt
  <2>2. CASE entry \in Ranges
    <3>1. PICK t \in pool \cap Ranges : NetOf[entry] \subseteq NetOf[t]
      BY <1>a, <2>2, EntryCovered, KindsOfValues
    <3>2. Assets[a] \in Net(t)
      BY <2>1, <2>2, <3>1, KindsOfValues
    <3> QED BY <2>1, <3>1, <3>2 DEF FallsUnder
  <2>3. CASE entry \in Addresses
    <3>1. Assets[a] = entry
      BY <2>1, <2>3, KindsOfValues
    <3>2. CASE \E t \in pool : entry \in Net(t)
      BY <2>1, <3>1, <3>2 DEF FallsUnder
    <3>3. CASE \E b \in AssetIds : Assets[b] = entry /\ \E t \in pool : UnderDomain(parent[b], {t})
      <4>1. PICK b \in AssetIds : Assets[b] = entry /\ \E t \in pool : UnderDomain(parent[b], {t})
        BY <3>3
      <4>2. b = a
        BY <2>1, <3>1, <4>1, <1>1, ProbeGateAssumption DEF AssetIds, IsAddress
      <4>3. PICK t \in pool : UnderDomain(parent[a], {t})
        BY <4>1, <4>2
      <4>4. t \in Hostnames
        BY <4>3, UnderIt
      <4> QED BY <4>3, <4>4 DEF FallsUnder
    <3>4. entry \notin Hostnames /\ entry \notin Ranges
      BY <2>3, KindsOfValues
    <3>5. \/ \E t \in pool : entry \in Net(t)
          \/ \E b \in AssetIds : Assets[b] = entry /\ \E t \in pool : UnderDomain(parent[b], {t})
      BY <1>a, <3>4, EntryCovered
    <3> QED BY <3>2, <3>3, <3>5
  <2> QED BY <1>a, <1>4, <2>2, <2>3 DEF Values
<1> QED BY <1>3, <1>4

\* A target of the pool is in its own scope.
LEMMA PoolInScope ==
  ASSUME NEW pool, NEW t \in pool, t \in Values
  PROVE  EntryInScope(t, pool)
<1>1. CASE t \in Hostnames
  BY <1>1, NamesAreOrdered, KindsOfValues DEF EntryInScope, ValueInScope, UnderDomain
<1>2. CASE t \in Addresses
  BY <1>2, KindsOfValues DEF EntryInScope, ValueInScope
<1>3. CASE t \in Ranges
  BY <1>3 DEF EntryInScope
<1> QED BY <1>1, <1>2, <1>3 DEF Values

LEMMA DiscoveredIsInScopeHolds == GateTypeOK => DiscoveredIsInScope
<1> SUFFICES ASSUME GateTypeOK, NEW a \in AssetIds, NEW mode \in AuthModes \ {"disabled"},
                    IsScanAuthorised(Assets[a], mode)
             PROVE  a \in ScopedIds({Assets[a]}, mode) /\ a \in ScopedIds(declared, mode)
  BY DEF DiscoveredIsInScope
<1> DEFINE pool == Pool(mode)
           v == Assets[a]
<1>1. ValueInScope(v, pool) /\ v \in Hostnames \cup Addresses /\ v \in Values
  BY ProbeGateAssumption DEF IsScanAuthorised, AssetIds, Values
<1>2. EntryInScope(v, pool)
  BY <1>1, KindsOfValues DEF EntryInScope
<1>3. pool \subseteq declared /\ pool \subseteq Values
  BY DEF Pool, GateTypeOK
<1>4. a \in ScopedIds({v}, mode)
  <2>1. CASE v \in Hostnames
    BY <1>2, <2>1, NamesAreOrdered, KindsOfValues DEF ScopedIds, AssetsUnder, UnderDomain, IsAddress
  <2>2. CASE v \in Addresses
    BY <1>2, <2>2, KindsOfValues DEF ScopedIds, AssetsUnder, IsAddress
  <2> QED BY <1>1, <2>1, <2>2
\* the target of the pool that covers the value is declared and in scope itself
<1>5. ASSUME NEW t \in pool, \/ ~IsAddress(a) /\ UnderDomain(v, {t})
                             \/ IsAddress(a) /\ UnderDomain(parent[a], {t})
                             \/ IsAddress(a) /\ v \in Net(t)
      PROVE  a \in ScopedIds(declared, mode)
  <2> DEFINE entries == {e \in declared : EntryInScope(e, Pool(mode))}
  <2>1. t \in entries
    BY <1>3, PoolInScope
  <2>2. \A name : UnderDomain(name, {t}) => UnderDomain(name, entries)
    BY <2>1 DEF UnderDomain
  <2>3. a \in AssetsUnder(entries)
    BY <1>5, <2>1, <2>2 DEF AssetsUnder
  <2> QED BY <2>3 DEF ScopedIds
<1>6. a \in ScopedIds(declared, mode)
  <2>1. CASE v \in Hostnames
    <3>1. PICK t \in pool : UnderDomain(v, {t})
      BY <1>2, <2>1, <1>1, EntryCovered, KindsOfValues
    <3> QED BY <3>1, <2>1, <1>5, KindsOfValues DEF IsAddress
  <2>2. CASE v \in Addresses
    <3>1. CASE \E t \in pool : v \in Net(t)
      BY <3>1, <2>2, <1>5 DEF IsAddress
    <3>2. CASE \E b \in AssetIds : Assets[b] = v /\ \E t \in pool : UnderDomain(parent[b], {t})
      <4>1. PICK b \in AssetIds : Assets[b] = v /\ \E t \in pool : UnderDomain(parent[b], {t})
        BY <3>2
      <4>2. b = a
        BY <2>2, <4>1, ProbeGateAssumption DEF AssetIds
      <4>3. PICK t \in pool : UnderDomain(parent[a], {t})
        BY <4>1, <4>2
      <4> QED BY <4>3, <2>2, <1>5 DEF IsAddress
    <3>3. v \notin Hostnames /\ v \notin Ranges
      BY <2>2, KindsOfValues
    <3>4. \/ \E t \in pool : v \in Net(t)
          \/ \E b \in AssetIds : Assets[b] = v /\ \E t \in pool : UnderDomain(parent[b], {t})
      BY <1>1, <1>2, <3>3, EntryCovered
    <3> QED BY <3>1, <3>2, <3>4
  <2> QED BY <1>1, <2>1, <2>2
<1> QED BY <1>4, <1>6

LEMMA ReadersSeeHolds == ReadersSeeWhatRunsReach
<1> SUFFICES ASSUME NEW t \in declared, NEW a \in AssetsUnder({t}) PROVE FallsUnder(a, t)
  BY DEF ReadersSeeWhatRunsReach
<1>1. \A name : UnderDomain(name, {t}) => t \in Hostnames
  BY UnderIt
<1> QED BY <1>1 DEF AssetsUnder, FallsUnder

\* Neither gate lets through what the other would not, and who may read a run's
\* targets may read what it reaches, for any targets, links and parents, and any
\* order in which they came and went (target_service.py, probe_authorisation.py).
THEOREM GatesAgreeAlways == GateSpec => []GatesAgree
<1>1. GateTypeOK => GatesAgree
  BY ScopeNeedsTargetHolds, DiscoveredIsInScopeHolds, ReadersSeeHolds DEF GatesAgree
<1> QED BY <1>1, GateTypesAlways, PTL

-----------------------------------------------------------------------------
(* The posture                                                              *)

LEMMA DenialHolds == DenialBindsEveryPath
<1> SUFFICES ASSUME NEW t \in declared, NEW noise \in Noises, ~DiscoveryAllowed(t, noise),
                    NEW a \in AssetIds, NEW gate \in GateModes, <<t, a>> \in links
             PROVE  /\ ~OwnershipProbe({a} \cup PassiveIds, gate, noise)
                    /\ \A mode \in AuthModes, how \in Addressing :
                         a \notin Permitted(Values, mode, gate, how, noise)
  BY DEF DenialBindsEveryPath
<1>1. PassiveOnly(t) /\ noise # "quiet"
  BY DEF DiscoveryAllowed, ObserverPermitted
<1>2. a \in PassiveIds
  BY <1>1 DEF PassiveIds
<1>3. ~PostureCap(a, noise)
  BY <1>1, <1>2 DEF PostureCap, ObserverPermitted
<1>4. ~OwnershipProbe({a} \cup PassiveIds, gate, noise)
  BY <1>1, <1>2 DEF OwnershipProbe, ObserverPermitted
<1>5. ASSUME NEW mode \in AuthModes, NEW how \in Addressing
      PROVE  a \notin Permitted(Values, mode, gate, how, noise)
  BY <1>3 DEF Permitted, Composed
<1> QED BY <1>4, <1>5

\* A posture's denial binds every path to an asset, in the rollout mode too
\* (authorise_discovery, authorise_probes, authorise_ownership_probe).
THEOREM DenialBindsAlways == GateSpec => []DenialBindsEveryPath
BY DenialHolds, PTL

\* What a discovery batch links and what a posture turns into never frees an
\* asset for a loud observer: one restricting target is enough
\* (_resolve_engagements).
THEOREM LinksNeverFree == GateSpec => LinkNeverFrees
<1> DEFINE Restrains ==
      \/ links \subseteq links' /\ links # links'
      \/ \E g \in Deals : posture'[g] # posture[g] /\ posture'[g] \in Restricting
<1>1. ASSUME GateTypeOK, GateNext, Restrains
      PROVE  PassiveIds \subseteq PassiveIds'
  <2>1. ASSUME NEW v \in Values, NEW g \in Deals \cup {NoDeal},
               Declare(v, g) \/ Move(v, g) \/ VerifyTarget(v) \/ Undeclare(v)
        PROVE  FALSE
    <3>1. posture' = posture /\ links' \subseteq links
      BY <2>1 DEF Declare, Move, VerifyTarget, Undeclare
    <3> QED BY <3>1, <1>1
  <2>2. ASSUME NEW t \in Hostnames, NEW a \in AssetIds, NEW p \in Hostnames, Discover(t, a, p)
        PROVE  PassiveIds \subseteq PassiveIds'
    BY <2>2 DEF Discover, PassiveIds, PassiveOnly
  <2>3. ASSUME NEW a \in AssetIds, NEW c \in ProbeClasses, Reproject(a, c)
        PROVE  PassiveIds \subseteq PassiveIds'
    BY <2>3 DEF Reproject, PassiveIds, PassiveOnly
  <2>4. ASSUME NEW g \in Deals, NEW p \in Postures, Transition(g, p)
        PROVE  PassiveIds \subseteq PassiveIds'
    <3>1. p \in Restricting /\ posture' = [posture EXCEPT ![g] = p]
      BY <2>4, <1>1 DEF Transition, GateTypeOK
    <3>2. UNCHANGED <<declared, dealOf, links>>
      BY <2>4 DEF Transition
    <3>3. ASSUME NEW t \in declared, PassiveOnly(t) PROVE PassiveOnly(t)'
      <4>1. dealOf[t] \in Deals
        BY <3>3, <1>1 DEF GateTypeOK, PassiveOnly
      <4> QED BY <4>1, <3>1, <3>2, <3>3, <1>1 DEF PassiveOnly, GateTypeOK
    <3> QED BY <3>2, <3>3 DEF PassiveIds
  <2> QED BY <1>1, <2>1, <2>2, <2>3, <2>4 DEF GateNext
<1>2. GateTypeOK /\ [GateNext]_gateVars => [Restrains => PassiveIds \subseteq PassiveIds']_gateVars
  BY <1>1
<1> QED BY <1>2, GateTypesAlways, PTL DEF GateSpec, LinkNeverFrees
=============================================================================
