------------------------------ MODULE ProbeGate ------------------------------
(* Which assets a connector may send traffic to. The discovery gate answers   *)
(* for a value (target_service.is_scan_authorised, authorise_discovery), the  *)
(* probe gate for the assets of a stage (probe_authorisation.authorise_probes *)
(* over target_scope), and the ownership probe for the assets it would touch  *)
(* (authorise_ownership_probe). They read the same declared targets, links,   *)
(* projected classes and engagements, which change under them.                *)
EXTENDS Naturals, FiniteSets

CONSTANTS
  Hostnames,     \* domains and names; a declared one is a domain target
  Addresses,
  Ranges,        \* CIDRs of more than one address
  NamesAbove,    \* hostname -> itself and the domains it is a subdomain of
  NetOf,         \* range -> its addresses
  Assets,        \* asset -> the hostname or address it is the row of
  Deals,         \* engagements
  NoDeal, NoParent,
  MaxChanges     \* bound: changes in a behaviour

Values == Hostnames \cup Addresses \cup Ranges

\* A value is of one kind, "is a subdomain of" is a partial order, and an address
\* has one asset (assets_canonical is unique in type and value).
ASSUME ProbeGateAssumption ==
  /\ Hostnames \cap Addresses = {} /\ Hostnames \cap Ranges = {} /\ Addresses \cap Ranges = {}
  /\ NamesAbove \in [Hostnames -> SUBSET Hostnames]
  /\ \A n \in Hostnames :
       n \in NamesAbove[n] /\ \A above \in NamesAbove[n] : NamesAbove[above] \subseteq NamesAbove[n]
  /\ NetOf \in [Ranges -> SUBSET Addresses]
  /\ Assets \in [DOMAIN Assets -> Hostnames \cup Addresses]
  /\ \A a, b \in DOMAIN Assets : Assets[a] = Assets[b] /\ Assets[a] \in Addresses => a = b
  /\ NoDeal \notin Deals /\ NoParent \notin Hostnames /\ MaxChanges \in Nat

VARIABLES
  declared,   \* the values that have a target row
  verified,   \* those marked verified
  dealOf,     \* target value -> its engagement
  posture,    \* engagement -> posture
  links,      \* target_asset_links: <<domain target, asset>>
  parent,     \* assets_canonical.parent_value: the name an address resolved from
  class,      \* the projected probe_class; an asset nobody found has none
  changes

gateVars == <<declared, verified, dealOf, posture, links, parent, class, changes>>

AssetIds == DOMAIN Assets
IsAddress(a) == Assets[a] \in Addresses
Restricting == {"pre_close", "abandoned"}
Postures == Restricting \cup {"day_0", "integrated"}
ProbeClasses == {"unprojected", "no_probe", "name_only", "direct_addressable"}
AuthModes == {"disabled", "acknowledge", "strict"}
GateModes == {"log_only", "enforce"}
\* What an observer row can say: how it addresses a host ("none": a connector
\* without a usable declaration) and how loud it is (a missing row is loud).
Addressing == {"none", "ip", "name", "ip_handshake"}
Noises == {"quiet", "loud"}

(****************************** Names and networks ****************************)

Net(v) == IF v \in Ranges THEN NetOf[v] ELSE {v} \cap Addresses

\* _matches_domain_suffix, _domain_suffix_clause
UnderDomain(name, domains) ==
  name \in Hostnames /\ NamesAbove[name] \cap domains # {}

\* authorised_target_pool
Pool(mode) == IF mode = "acknowledge" THEN declared ELSE verified

\* value_in_target_scope: a hostname under a domain of the pool; an address
\* inside a network of it, or whose asset resolved from a name under a domain.
ValueInScope(v, pool) ==
  \/ v \in Hostnames /\ UnderDomain(v, pool)
  \/ /\ v \in Addresses
     /\ \/ \E n \in pool : v \in Net(n)
        \/ \E a \in AssetIds : Assets[a] = v /\ UnderDomain(parent[a], pool)

\* entry_in_target_scope: a range needs one declared range around all of it.
EntryInScope(e, pool) ==
  IF e \in Ranges THEN \E n \in pool \cap Ranges : NetOf[e] \subseteq NetOf[n]
  ELSE ValueInScope(e, pool)

\* target_scoped_asset_ids: linked to a target named in the scope, or by its own
\* name, or an address by the name it resolved from, or by its network.
AssetsUnder(entries) ==
  {a \in AssetIds :
     \/ \E t \in entries \cap declared \cap Hostnames : <<t, a>> \in links
     \/ ~IsAddress(a) /\ UnderDomain(Assets[a], entries)
     \/ IsAddress(a) /\ UnderDomain(parent[a], entries)
     \/ IsAddress(a) /\ \E n \in entries : Assets[a] \in Net(n)}

\* _resolve_scoped_ids: the scope is narrowed to what the pool covers first.
ScopedIds(scope, mode) ==
  AssetsUnder({e \in scope : EntryInScope(e, Pool(mode))})

\* is_scan_authorised
IsScanAuthorised(v, mode) == mode = "disabled" \/ ValueInScope(v, Pool(mode))

\* broken variant: without the links
FallsUnderByName(a, t) ==
  \/ t \in Hostnames /\ (UnderDomain(Assets[a], {t}) \/ UnderDomain(parent[a], {t}))
  \/ IsAddress(a) /\ Assets[a] \in Net(t)

\* asset_falls_under, the rule of who may read an asset.
FallsUnder(a, t) ==
  \/ <<t, a>> \in links
  \/ t \in Hostnames /\ (UnderDomain(Assets[a], {t}) \/ UnderDomain(parent[a], {t}))
  \/ IsAddress(a) /\ Assets[a] \in Net(t)

(********************************** The gates *********************************)

\* posture.is_passive_only, posture.passive_only_filter
PassiveOnly(t) == dealOf[t] # NoDeal /\ posture[dealOf[t]] \in Restricting

\* posture.observer_permitted
ObserverPermitted(passive, noise) == ~passive \/ noise = "quiet"

\* _resolve_engagements: one restricting target is enough.
PassiveIds == {a \in AssetIds : \E t \in declared : <<t, a>> \in links /\ PassiveOnly(t)}

\* authorise_discovery
DiscoveryAllowed(t, noise) == ObserverPermitted(PassiveOnly(t), noise)

\* _scope_cap, _probe_class_cap, _posture_cap
ScopeCap(a, scope, mode) == mode = "disabled" \/ a \in ScopedIds(scope, mode)
ClassModes(a) ==
  CASE class[a] = "name_only" -> {"name", "ip_handshake"}
    [] class[a] = "direct_addressable" -> {"ip", "name", "ip_handshake"}
    [] OTHER -> {}
PostureCap(a, noise) == ObserverPermitted(a \in PassiveIds, noise)

\* _resolve_authorised_names
AuthorisedNames(a) ==
  IF IsAddress(a) THEN {parent[a]} \ {NoParent} ELSE {Assets[a]}

\* _compose: all three caps, the observer's way of addressing among the modes
\* that are left, and a name to address it by when it needs one.
Composed(a, scope, mode, how, noise) ==
  /\ ScopeCap(a, scope, mode) /\ ClassModes(a) # {} /\ PostureCap(a, noise)
  /\ how \in ClassModes(a)
  /\ how = "name" => AuthorisedNames(a) # {}

\* broken variant: the rollout mode lets everything through
PermittedLogOnlyAll(scope, mode, gate, how, noise) ==
  IF how = "none" THEN {}
  ELSE IF gate = "enforce"
    THEN {a \in AssetIds : Composed(a, scope, mode, how, noise)}
  ELSE AssetIds
\* authorise_probes: an undeclared observer gets nothing; log_only lets all
\* through but what the posture denies.
Permitted(scope, mode, gate, how, noise) ==
  IF how = "none" THEN {}
  ELSE IF gate = "enforce"
    THEN {a \in AssetIds : Composed(a, scope, mode, how, noise)}
  ELSE {a \in AssetIds : PostureCap(a, noise)}

\* authorise_ownership_probe
OwnershipProbe(ids, gate, noise) ==
  /\ ObserverPermitted(ids \cap PassiveIds # {}, noise)
  /\ gate = "enforce" => \A a \in ids : class[a] # "no_probe"

(********************************* The changes ********************************)

\* Only rows older than the automatic verification may be unverified.
GateInit ==
  /\ declared \in SUBSET Values /\ Cardinality(declared) <= 1
  /\ verified = {} /\ links = {}
  /\ dealOf = [v \in Values |-> NoDeal]
  /\ posture = [g \in Deals |-> "pre_close"]
  /\ parent = [a \in AssetIds |-> NoParent]
  /\ class = [a \in AssetIds |-> "unprojected"]
  /\ changes = 0

Change == changes < MaxChanges /\ changes' = changes + 1

\* ensure_pending, ensure_connector_verified and a claimed candidate: every new
\* target is verified, and in an engagement or in the estate.
Declare(v, g) ==
  /\ Change /\ v \notin declared
  /\ declared' = declared \cup {v}
  /\ verified' = verified \cup {v}
  /\ dealOf' = [dealOf EXCEPT ![v] = g]
  /\ UNCHANGED <<posture, links, parent, class>>

\* acknowledge, attempt_txt_verification, ensure_connector_verified
VerifyTarget(v) ==
  /\ Change /\ v \in declared \ verified
  /\ verified' = verified \cup {v}
  /\ UNCHANGED <<declared, dealOf, posture, links, parent, class>>

\* patch_target
Move(v, g) ==
  /\ Change /\ v \in declared /\ g # dealOf[v]
  /\ dealOf' = [dealOf EXCEPT ![v] = g]
  /\ UNCHANGED <<declared, verified, posture, links, parent, class>>

\* _soft_cascade_target_assets: the assets only this target found, and the
\* addresses that resolved from their names, linked elsewhere or not.
Forgotten(v) ==
  LET orphans == {a \in AssetIds : /\ <<v, a>> \in links
                                   /\ \A t \in declared : <<t, a>> \in links => t = v}
  IN orphans \cup {a \in AssetIds : parent[a] \in {Assets[b] : b \in orphans}}

\* delete_target. An asset that is deleted is as if it had never been found; the
\* links of the others to this target go with it.
Undeclare(v) ==
  /\ Change /\ v \in declared
  /\ declared' = declared \ {v} /\ verified' = verified \ {v}
  /\ dealOf' = [dealOf EXCEPT ![v] = NoDeal]
  /\ links' = {l \in links : l[1] # v /\ l[2] \notin Forgotten(v)}
  /\ parent' = [a \in AssetIds |-> IF a \in Forgotten(v) THEN NoParent ELSE parent[a]]
  /\ class' = [a \in AssetIds |-> IF a \in Forgotten(v) THEN "unprojected" ELSE class[a]]
  /\ UNCHANGED posture

\* A domain's discovery batch (write_assets): the asset is linked to the domain
\* whatever its own name, and keeps the first parent it was given.
Discover(t, a, p) ==
  /\ Change /\ t \in declared \cap Hostnames /\ <<t, a>> \notin links
  /\ links' = links \cup {<<t, a>>}
  /\ parent' = IF IsAddress(a) /\ parent[a] = NoParent
                 THEN [parent EXCEPT ![a] = p] ELSE parent
  /\ UNCHANGED <<declared, verified, dealOf, posture, class>>

\* project (module AssetClaims).
Reproject(a, c) ==
  /\ Change /\ c # class[a]
  /\ class' = [class EXCEPT ![a] = c]
  /\ UNCHANGED <<declared, verified, dealOf, posture, links, parent>>

\* transition_engagement (module Organizations).
Transition(g, p) ==
  /\ Change /\ p # posture[g]
  /\ posture' = [posture EXCEPT ![g] = p]
  /\ UNCHANGED <<declared, verified, dealOf, links, parent, class>>

GateNext ==
  \/ \E v \in Values :
       \/ \E g \in Deals \cup {NoDeal} : Declare(v, g) \/ Move(v, g)
       \/ VerifyTarget(v) \/ Undeclare(v)
  \/ \E t \in Hostnames, a \in AssetIds, p \in Hostnames : Discover(t, a, p)
  \/ \E a \in AssetIds, c \in ProbeClasses \ {"unprojected"} : Reproject(a, c)
  \/ \E g \in Deals, p \in Postures : Transition(g, p)
GateSpec == GateInit /\ [][GateNext]_gateVars

(********************************* Properties *********************************)

\* The type invariant of the targets, links, parents and classes.
GateTypeOK ==
  /\ verified \subseteq declared /\ declared \subseteq Values
  /\ dealOf \in [Values -> Deals \cup {NoDeal}]
  /\ posture \in [Deals -> Postures]
  /\ links \subseteq (declared \cap Hostnames) \X AssetIds
  /\ parent \in [AssetIds -> Hostnames \cup {NoParent}]
  /\ class \in [AssetIds -> ProbeClasses]

\* A run's scope is frozen when it starts; even if it lists every value there is,
\* an asset is in scope only through a target that counts now: one that covers it,
\* or one that covers a target it was discovered for (planning#197).
ScopeNeedsTarget ==
  \A mode \in AuthModes \ {"disabled"} : \A a \in ScopedIds(Values, mode) :
    \E t \in Pool(mode) :
      \/ FallsUnder(a, t)
      \/ \E d \in declared : <<d, a>> \in links /\ UnderDomain(d, {t})

\* What the discovery gate authorises is in scope for the probe gate, when the run
\* was started for that value and when it was started for everything declared.
DiscoveredIsInScope ==
  \A a \in AssetIds, mode \in AuthModes \ {"disabled"} :
    IsScanAuthorised(Assets[a], mode) =>
      a \in ScopedIds({Assets[a]}, mode) \cap ScopedIds(declared, mode)

\* Whoever may read the targets of a run may read every asset it may reach
\* (planning#261).
ReadersSeeWhatRunsReach ==
  \A t \in declared : \A a \in AssetsUnder({t}) : FallsUnder(a, t)

\* The gates and the readers' scope answer alike over one pool of targets, whatever
\* targets came and went since the links and the parents were written: neither gate
\* lets through what the other would not (planning#197, target_service.py:315), and
\* who may read a run's targets may read what it reaches (planning#261).
GatesAgree == ScopeNeedsTarget /\ DiscoveredIsInScope /\ ReadersSeeWhatRunsReach

\* A posture's denial binds every path to the asset, in the rollout mode too
\* (planning#193, planning#205): when the discovery of a target is denied to a
\* connector, nothing linked to that target is probed by it, and no ownership
\* probe touches it.
DenialBindsEveryPath ==
  \A t \in declared, noise \in Noises :
    ~DiscoveryAllowed(t, noise) =>
      \A a \in AssetIds, gate \in GateModes :
        <<t, a>> \in links =>
          /\ ~OwnershipProbe({a} \cup PassiveIds, gate, noise)
          /\ \A mode \in AuthModes, how \in Addressing :
               a \notin Permitted(Values, mode, gate, how, noise)

\* A discovery batch, which may link an asset to a permissive target too, and a
\* posture that turns restrictive never free an asset for a loud observer.
LinkNeverFrees ==
  [][ ( \/ links \subseteq links' /\ links # links'
        \/ \E g \in Deals : posture'[g] # posture[g] /\ posture'[g] \in Restricting )
      => PassiveIds \subseteq PassiveIds']_gateVars
==============================================================================
