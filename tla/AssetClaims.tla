----------------------------- MODULE AssetClaims -----------------------------
(* What the observers claim about one asset (`asset_claims`), and the row     *)
(* `asset_state` that the projector folds those claims into. A batch of a     *)
(* scan (asset_writer.write_assets) locks the asset, replaces or merges the   *)
(* claims it brings, projects and commits. A run also projects without the    *)
(* lock (scan_executor: before the probe gate, and twice after the scan), and *)
(* the CPE normaliser, the tenancy rungs and the ownership check write single *)
(* claims in transactions of their own. Every query reads what is committed   *)
(* when it runs, so the reads of a projection may see different moments.      *)
EXTENDS Naturals, FiniteSets, FiniteSetsExt, Functions

CONSTANTS
  Ports,           \* port numbers
  ShodanPorts,     \* those Shodan may list
  Rungs,           \* the observers of _TENANCY_OBSERVERS, and reverse_ip
  PromotingRungs,  \* those of _PROMOTING_TIERS
  Workers,         \* runs that handle the asset at the same time
  NoWorker,
  ConfirmedGrace,  \* _CONFIRMED_PORT_GRACE_DAYS
  ShodanGrace,     \* _SHODAN_PORT_GRACE_DAYS
  MaxDay,          \* bound: the last day
  MaxInputs        \* bound: batches and single claims in a behaviour

ASSUME ClaimsAssumption ==
  /\ ShodanPorts \subseteq Ports
  /\ PromotingRungs \subseteq Rungs
  /\ NoWorker \notin Workers
  /\ {ConfirmedGrace, ShodanGrace, MaxInputs} \subseteq Nat /\ MaxDay \in Nat \ {0}
  /\ ConfirmedGrace > 0  \* services/projector.py:79

VARIABLES
  kind,       \* "address", "record", or "mx": an MX record a mail provider runs
  today,
  portClaims, \* observer -> its port_observation claim
  facts,      \* the other claims the projector reads
  covered,    \* an IP or CIDR target holds the asset's address
  assetRow,   \* the asset's asset_state
  rowLock,    \* who holds the asset's row FOR UPDATE
  jobs,       \* worker -> what it is doing, and what it has read
  inputs,
  sighted     \* history: the last day an observer was known to have seen a port

claimVars ==
  <<kind, today, portClaims, facts, covered, assetRow, rowLock, jobs, inputs, sighted>>

Observers == {"naabu", "probe", "shodan", "cpe"}
Empty == [x \in {} |-> x]
\* The function `old` with the values of `new` where `new` has one.
Over(new, old) ==
  [x \in DOMAIN new \cup DOMAIN old |-> IF x \in DOMAIN new THEN new[x] ELSE old[x]]

\* A claim's port entry; `seen` 0 is an entry without last_seen_at. A claim
\* whose `swept` is 0 has no usable sweep time: its pass was incomplete, or
\* its observer is not the sweep.
Entry(seen, l7, banner) == [seen |-> seen, l7 |-> l7, banner |-> banner]
Entries == [seen : 0..MaxDay, l7 : BOOLEAN, banner : BOOLEAN]
Claim(ports, swept) == [ports |-> ports, swept |-> swept]
NoClaim == Claim(Empty, 0)
NoClaims == [o \in Observers |-> NoClaim]

PortMaps(S) == UNION {[P -> S] : P \in SUBSET Ports}
PortClaimSet == [ports : PortMaps(Entries), swept : 0..MaxDay]
Opinions == {"none", "single", "not_single", "undetermined"}
Verdicts == {"none", "ours", "shared", "unresolved"}
\* third: a third_party_dependency claim; cloud: the day a confirmed
\* cloud_inventory claim was last observed, or 0.
Facts == [third : BOOLEAN, cloud : 0..MaxDay, verdict : Verdicts,
          rungs : [Rungs -> Opinions]]
NoFacts == [third |-> FALSE, cloud |-> 0, verdict |-> "none",
            rungs |-> [r \in Rungs |-> "none"]]
\* What a batch of a scan brings of the other claims: it withdraws none.
Bringing(third, cloud) == [third |-> third, cloud |-> cloud]
NoneBrought == Bringing(FALSE, 0)
WithBrought(new, old) ==
  [old EXCEPT !.third = @ \/ new.third, !.cloud = IF new.cloud > 0 THEN new.cloud ELSE @]
Classes == {"unprojected", "no_probe", "name_only", "direct_addressable"}
Estates == {"none", "proven_ours", "claimed_ours", "not_ours"}
RowPorts == PortMaps([src : SUBSET Observers, seen : 0..MaxDay,
                      l7 : BOOLEAN, banner : BOOLEAN])

Idle == [pc |-> "idle", at |-> 0, newPorts |-> Empty, newFacts |-> NoneBrought,
         prior |-> Empty, ports |-> NoClaims, facts |-> NoFacts, covered |-> FALSE]

(*************************** What the emitter writes **************************)

\* _merged_port_value: {**old, **new} per port.
MergedPorts(old, new) ==
  [p \in DOMAIN old \cup DOMAIN new |->
     IF p \notin DOMAIN new THEN old[p]
     ELSE IF p \notin DOMAIN old THEN new[p]
     ELSE Entry(IF new[p].seen = 0 THEN old[p].seen ELSE new[p].seen,
                new[p].l7 \/ old[p].l7, new[p].banner \/ old[p].banner)]

\* One observer's group of a patch: a complete pass replaces its claim, an
\* incomplete one merges into it.
Observed(o, ports, complete, swept) ==
  [q \in {o} |-> Claim(IF complete THEN ports ELSE MergedPorts(portClaims[o].ports, ports),
                      IF complete THEN swept ELSE 0)]

\* broken variant: the claim is dated by the batch and not by the sweep
SweepPatchDatedByBatch(found, hinted, complete, t) ==
  IF found # {} \/ complete
    THEN Observed("naabu", [p \in found |-> Entry(t, FALSE, FALSE)], complete, today)
    ELSE Empty

\* naabu's patch: the ports it found itself, the hinted ones it confirmed
\* (Shodan's by source), when it swept, and whether it finished. A complete
\* pass without any entry still claims the absence.
SweepPatch(found, hinted, complete, t) ==
  LET seen(P) == [p \in P |-> Entry(t, FALSE, FALSE)]
  IN Over(IF found # {} \/ (complete /\ hinted = {})
            THEN Observed("naabu", seen(found), complete, t) ELSE Empty,
          IF hinted # {}
            THEN Observed("shodan", seen(hinted), complete, 0) ELSE Empty)

\* httpx, banner_grab, tlsx: what answered, with or without a banner.
ProbePatch(P, withBanner, t) ==
  Observed("probe", [p \in P |-> Entry(t, TRUE, p \in withBanner)], TRUE, 0)

\* Shodan: each port with the time of an earlier crawl, or a bare number.
ShodanPatch(P, t) ==
  Observed("shodan", [p \in P |-> Entry(t, FALSE, FALSE)], TRUE, 0)

(************************** What the projector computes ***********************)

\* _merge_open_ports over every claim that lists p.
FoldedPort(ports, p) ==
  LET by == {o \in Observers : p \in DOMAIN ports[o].ports}
  IN [src |-> by,
      seen |-> Max({ports[o].ports[p].seen : o \in by}),
      l7 |-> \E o \in by : ports[o].ports[p].l7,
      banner |-> \E o \in by : ports[o].ports[p].banner]

ClaimedPorts(ports) == UNION {DOMAIN ports[o].ports : o \in Observers}

\* broken variant: only what a claim lists
WithCarriedNone(ports, prior) ==
  [p \in ClaimedPorts(ports) |-> FoldedPort(ports, p)]

\* _carry_forward_unclaimed_ports
WithCarried(ports, prior) ==
  [p \in ClaimedPorts(ports) \cup DOMAIN prior |->
     IF p \in ClaimedPorts(ports) THEN FoldedPort(ports, p) ELSE prior[p]]

\* _prune_stale_ports, for one entry.
Kept(e, cutoff, now) ==
  \/ e.seen = 0
  \/ e.seen >= cutoff
  \/ e.l7 /\ e.seen + ConfirmedGrace >= now
  \/ "shodan" \in e.src /\ e.seen + ShodanGrace >= now

ProjectedPorts(ports, prior, now) ==
  LET all == WithCarried(ports, prior)
      cutoff == ports["naabu"].swept
  IN IF cutoff = 0 THEN all
     ELSE Restrict(all, {p \in DOMAIN all : Kept(all[p], cutoff, now)})

\* _compose_tenancy: one dissent wins, silence and doubt promote nothing.
Tenancy(rungs) ==
  LET voting(v) == {r \in Rungs : rungs[r] = v}
  IN IF voting("not_single") # {} THEN "not_single"
     ELSE IF voting("single") \cap PromotingRungs # {} THEN "single"
     ELSE "undetermined"

EstateOf(f) ==
  CASE f.cloud > 0 -> "proven_ours"
    [] f.cloud = 0 /\ f.third -> "not_ours"
    [] f.cloud = 0 /\ ~f.third /\ f.verdict = "ours" -> "claimed_ours"
    [] f.cloud = 0 /\ ~f.third /\ f.verdict = "shared" -> "not_ours"
    [] OTHER -> "none"

\* broken variant: the connector's proof does not reach the class
ClassOfWithoutProof(f, held) ==
  IF f.third \/ kind = "mx" THEN "no_probe"
  ELSE IF kind = "address" /\ (held \/ (Tenancy(f.rungs) = "single" /\ f.verdict = "ours"))
  THEN "direct_addressable"
  ELSE "name_only"

\* The probe class: the third-party and provider vetoes come first, then the
\* connector's proof, then a target that holds the address, then an address
\* that is ours alone.
ClassOf(f, held) ==
  IF f.third \/ kind = "mx" THEN "no_probe"
  ELSE IF \/ f.cloud > 0
          \/ /\ kind = "address"
             /\ held \/ (Tenancy(f.rungs) = "single" /\ f.verdict = "ours")
  THEN "direct_addressable"
  ELSE "name_only"

(********************************** The steps *********************************)

ClaimsInit ==
  /\ kind \in {"address", "record", "mx"}
  /\ today = 1
  /\ portClaims = NoClaims
  /\ facts = NoFacts
  /\ covered \in BOOLEAN
  /\ assetRow = [ports |-> Empty, estate |-> "none", class |-> "unprojected"]
  /\ rowLock = NoWorker
  /\ jobs = [w \in Workers |-> Idle]
  /\ inputs = 0
  /\ sighted = [p \in Ports |-> 0]

Recent(t) == t \in {today - 1, today} /\ t > 0

\* broken variant: the asset is read without FOR UPDATE
StartBatchUnlocked(w, newPorts, newFacts) ==
  /\ jobs[w].pc = "idle" /\ inputs < MaxInputs
  /\ inputs' = inputs + 1
  /\ jobs' = [jobs EXCEPT ![w] = [Idle EXCEPT !.pc = "prior", !.at = today,
                   !.newPorts = newPorts, !.newFacts = newFacts]]
  /\ UNCHANGED <<kind, today, portClaims, facts, covered, assetRow, rowLock, sighted>>

\* _upsert_canonical_batch and emit_claims: the batch waits for the asset's
\* row, then writes the claims it brings. Nobody else sees them before it
\* commits.
StartBatch(w, newPorts, newFacts) ==
  /\ jobs[w].pc = "idle" /\ rowLock = NoWorker /\ inputs < MaxInputs
  /\ rowLock' = w
  /\ inputs' = inputs + 1
  /\ jobs' = [jobs EXCEPT ![w] = [Idle EXCEPT !.pc = "prior", !.at = today,
                   !.newPorts = newPorts, !.newFacts = newFacts]]
  /\ UNCHANGED <<kind, today, portClaims, facts, covered, assetRow, sighted>>

Sweep(w) ==
  \E found \in SUBSET Ports, complete \in BOOLEAN, t \in 1..MaxDay :
    \E hinted \in SUBSET (DOMAIN portClaims["shodan"].ports \ found) :
      /\ kind = "address" /\ Recent(t)
      /\ complete \/ found \cup hinted # {}
      /\ StartBatch(w, SweepPatch(found, hinted, complete, t), NoneBrought)

Probe(w) ==
  \E P \in SUBSET Ports \ {{}} :
    \E withBanner \in SUBSET P, t \in 1..MaxDay :
      /\ kind = "address" /\ Recent(t)
      /\ StartBatch(w, ProbePatch(P, withBanner, t), NoneBrought)

Shodan(w) ==
  \E P \in SUBSET ShodanPorts \ {{}}, t \in 0..MaxDay :
    /\ kind = "address" /\ t < today
    /\ StartBatch(w, ShodanPatch(P, t), NoneBrought)

\* _accumulate_third_party_claim, _accumulate_cloud_inventory_claim: a cloud
\* entry that is not confirmed brings no claim and withdraws none.
ThirdParty(w) == StartBatch(w, Empty, Bringing(TRUE, 0))
CloudProof(w) == StartBatch(w, Empty, Bringing(FALSE, today))

\* The batch fails and is rolled back, with its claims.
BatchFails(w) ==
  /\ rowLock = w
  /\ rowLock' = NoWorker
  /\ jobs' = [jobs EXCEPT ![w] = Idle]
  /\ UNCHANGED <<kind, today, portClaims, facts, covered, assetRow, inputs, sighted>>

\* A projection outside write_assets takes no lock.
Project(w) ==
  /\ jobs[w].pc = "idle"
  /\ jobs' = [jobs EXCEPT ![w] = [Idle EXCEPT !.pc = "prior", !.at = today]]
  /\ UNCHANGED <<kind, today, portClaims, facts, covered, assetRow, rowLock, inputs, sighted>>

\* The reads of one projection, in the code's order; a batch reads its own
\* claims over the committed ones. Ports and facts are two queries, and no
\* part of a row depends on both.
Reads(w, from, next) ==
  /\ jobs[w].pc = from
  /\ jobs' = [jobs EXCEPT ![w] = next]
  /\ UNCHANGED <<kind, today, portClaims, facts, covered, assetRow, rowLock, inputs, sighted>>
ReadPrior(w) ==
  Reads(w, "prior", [jobs[w] EXCEPT !.pc = "claims", !.prior = assetRow.ports])
ReadClaims(w) ==
  Reads(w, "claims", [jobs[w] EXCEPT !.pc = "targets",
                        !.ports = Over(jobs[w].newPorts, portClaims),
                        !.facts = WithBrought(jobs[w].newFacts, facts)])
ReadTargets(w) ==
  Reads(w, "targets", [jobs[w] EXCEPT !.pc = "write", !.covered = covered])

\* The upsert of asset_state and the commit, which publishes a batch's claims.
ProjectedRow(j) ==
  [ports |-> ProjectedPorts(j.ports, j.prior, j.at),
   estate |-> EstateOf(j.facts), class |-> ClassOf(j.facts, j.covered)]
\* broken variant: the lock outlives the batch
WriteAndHold(w) ==
  /\ jobs[w].pc = "write"
  /\ assetRow' = ProjectedRow(jobs[w])
  /\ portClaims' = Over(jobs[w].newPorts, portClaims)
  /\ facts' = WithBrought(jobs[w].newFacts, facts)
  /\ jobs' = [jobs EXCEPT ![w] = Idle]
  /\ UNCHANGED <<kind, today, covered, inputs, rowLock, sighted>>

Write(w) ==
  /\ jobs[w].pc = "write"
  /\ assetRow' = ProjectedRow(jobs[w])
  /\ portClaims' = Over(jobs[w].newPorts, portClaims)
  /\ facts' = WithBrought(jobs[w].newFacts, facts)
  /\ rowLock' = IF rowLock = w THEN NoWorker ELSE rowLock
  /\ jobs' = [jobs EXCEPT ![w] = Idle]
  /\ sighted' = [p \in Ports |-> Max({sighted[p]} \cup
                   {jobs[w].newPorts[o].ports[p].seen : o \in
                     {q \in DOMAIN jobs[w].newPorts : p \in DOMAIN jobs[w].newPorts[q].ports}})]
  /\ UNCHANGED <<kind, today, covered, inputs>>

\* enrich_cpe: the software of every port of the row that has a banner becomes
\* the normaliser's own claim, whole; a row without ports leaves it alone.
\* Its entries carry the port and the software, and no time.
CpeRead(w) ==
  /\ jobs[w].pc = "idle" /\ kind = "address" /\ DOMAIN assetRow.ports # {}
  /\ jobs' = [jobs EXCEPT ![w] = [Idle EXCEPT !.pc = "cpe",
                                     !.prior = assetRow.ports]]
  /\ UNCHANGED <<kind, today, portClaims, facts, covered, assetRow, rowLock, inputs, sighted>>
CpeWrite(w) ==
  LET software == {p \in DOMAIN jobs[w].prior : jobs[w].prior[p].banner}
  IN /\ jobs[w].pc = "cpe"
     /\ portClaims' = [portClaims EXCEPT !["cpe"] =
                         Claim([p \in software |-> Entry(0, FALSE, FALSE)], 0)]
     /\ jobs' = [jobs EXCEPT ![w] = Idle]
     /\ UNCHANGED <<kind, today, facts, covered, assetRow, rowLock, inputs, sighted>>

\* Single claims (upsert_single_claim), each in its own transaction: the
\* ownership verdict (shared_infra_verifier) and a tenancy rung.
SingleClaim(new) ==
  /\ inputs < MaxInputs
  /\ inputs' = inputs + 1
  /\ facts' = new
  /\ UNCHANGED <<kind, today, portClaims, covered, assetRow, rowLock, jobs, sighted>>
VerifyOwnership(v) == v # facts.verdict /\ SingleClaim([facts EXCEPT !.verdict = v])
Enrich(r, o) ==
  /\ kind = "address" /\ o # facts.rungs[r]
  /\ SingleClaim([facts EXCEPT !.rungs[r] = o])

\* A target that holds the address is added, or the last one is deleted: no
\* projection follows.
TargetChange ==
  /\ inputs < MaxInputs
  /\ inputs' = inputs + 1
  /\ covered' = ~covered
  /\ UNCHANGED <<kind, today, portClaims, facts, assetRow, rowLock, jobs, sighted>>

Tick ==
  /\ today < MaxDay
  /\ today' = today + 1
  /\ UNCHANGED <<kind, portClaims, facts, covered, assetRow, rowLock, jobs, inputs, sighted>>

Projects(w) ==
  BatchFails(w) \/ Project(w) \/ ReadPrior(w) \/ ReadClaims(w)
    \/ ReadTargets(w) \/ Write(w)
PortNext ==
  \/ \E w \in Workers : \/ Sweep(w) \/ Probe(w) \/ Shodan(w)
                        \/ CpeRead(w) \/ CpeWrite(w) \/ Projects(w)
  \/ Tick
FactNext ==
  \/ \E w \in Workers : ThirdParty(w) \/ CloudProof(w) \/ Projects(w)
  \/ \E v \in Verdicts \ {"none"} : VerifyOwnership(v)
  \/ \E r \in Rungs, o \in Opinions \ {"none"} : Enrich(r, o)
  \/ TargetChange \/ Tick
ClaimsNext == PortNext \/ FactNext
ClaimsSpec == ClaimsInit /\ [][ClaimsNext]_claimVars

(********************************* Properties *********************************)

\* The type invariant of the claims, the row and the workers.
ClaimsTypeOK ==
  /\ kind \in {"address", "record", "mx"}
  /\ today \in 1..MaxDay /\ inputs \in 0..MaxInputs
  /\ portClaims \in [Observers -> PortClaimSet]
  /\ facts \in Facts /\ covered \in BOOLEAN
  /\ sighted \in [Ports -> 0..MaxDay]
  /\ assetRow.ports \in RowPorts
  /\ assetRow.estate \in Estates /\ assetRow.class \in Classes
  /\ rowLock \in Workers \cup {NoWorker}
  /\ \A w \in Workers :
       /\ jobs[w].pc \in {"idle", "prior", "claims", "targets", "write", "cpe"}
       /\ rowLock = w => jobs[w].pc \notin {"idle", "cpe"}

\* An incomplete pass retires nothing, whoever else writes at the same time
\* (planning#169): naabu's claim only loses a port to a complete sweep.
PartialSweepKeeps ==
  [][\A p \in DOMAIN portClaims["naabu"].ports :
       p \in DOMAIN portClaims'["naabu"].ports \/ portClaims'["naabu"].swept > 0]_claimVars

\* What a sweep or a probe has just found open is in the row its own batch
\* commits, however long the batch took (planning#190).
FoundPortsShown ==
  [][\A o \in {"naabu", "probe"} :
       portClaims'[o] # portClaims[o] =>
         DOMAIN portClaims'[o].ports \subseteq DOMAIN assetRow'.ports]_claimVars

\* The flap guard (planning#69, planning#172): a batch does not retire a port
\* that a prober confirmed within the grace and that no claim lists any more.
ConfirmedSurvivesMiss ==
  [][\A w \in Workers, p \in DOMAIN assetRow.ports :
       ( /\ rowLock = w /\ rowLock' = NoWorker /\ assetRow' # assetRow
         /\ jobs[w].prior = assetRow.ports
         /\ assetRow.ports[p].l7 /\ assetRow.ports[p].seen + ConfirmedGrace >= jobs[w].at
         /\ p \notin ClaimedPorts(portClaims') )
       => p \in DOMAIN assetRow'.ports]_claimVars

\* One row tells one story, whatever changed while it was computed: nothing
\* proven ours by the connector is left at name_only, an asset known not to be
\* ours is addressed directly only because a target holds it, and what a
\* provider or a third party runs is never probed.
RowTellsOneStory ==
  /\ assetRow.estate = "proven_ours" =>
       assetRow.class \in {"direct_addressable", "no_probe"}
  /\ assetRow.estate = "not_ours" /\ assetRow.class = "direct_addressable" =>
       kind = "address"
  /\ kind = "mx" => assetRow.class \in {"unprojected", "no_probe"}
  /\ kind = "record" /\ assetRow.class = "direct_addressable" =>
       assetRow.estate = "proven_ours"

\* Violated: the stored ports are "the current truth (instead of accumulating
\* forever)" (services/projector.py:83): when nothing is in flight, a port that no claim lists is
\* there only if it was sighted within the longer grace of the last complete
\* sweep. The normaliser's claim carries no time: it can outlive the claims it
\* was read from, and then leave the row an entry that nothing can retire.
ClosedPortRetires ==
  LET swept == portClaims["naabu"].swept
  IN swept > 0 /\ (\A w \in Workers : jobs[w].pc = "idle") =>
       \A p \in DOMAIN assetRow.ports \ ClaimedPorts(portClaims) :
         sighted[p] + Max({ConfirmedGrace, ShodanGrace}) >= swept
==============================================================================
