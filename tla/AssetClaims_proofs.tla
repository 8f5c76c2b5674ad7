-------------------------- MODULE AssetClaims_proofs --------------------------
(* Proofs about AssetClaims, for any ports, observers' graces, rungs and      *)
(* workers: the types, what one row says of an asset, and what the batch that *)
(* holds the asset's row may assume of the claims it has read.                *)
EXTENDS AssetClaims, WellFoundedInduction, TLAPS

-----------------------------------------------------------------------------
(* Data: maxima, partial maps, and the operators on claims                   *)

LEMMA MaxOfDays ==
  ASSUME NEW n \in Nat, NEW S, S \subseteq 0..n, S # {}
  PROVE  Max(S) \in S /\ \A y \in S : Max(S) >= y
<1> DEFINE below == {i \in Nat : n - i \in S}
<1>1. PICK s \in S : TRUE
  OBVIOUS
<1>2. n - s \in below
  <2>1. s \in 0..n
    BY <1>1
  <2>2. n - s \in Nat /\ n - (n - s) = s
    BY <2>1
  <2> QED
    BY <1>1, <2>2
<1>3. PICK i \in below : \A k \in below : <<k, i>> \notin OpToRel(<, Nat)
  <2>1. below \subseteq Nat /\ below # {}
    BY <1>2
  <2> HIDE DEF below
  <2> QED
    BY <2>1, NatLessThanWellFounded, WFMin, Zenon
<1>4. \A y \in S : n - i >= y
  <2> SUFFICES ASSUME NEW y \in S PROVE n - i >= y
    OBVIOUS
  <2>1. y \in 0..n
    OBVIOUS
  <2>2. n - y \in Nat /\ n - (n - y) = y
    BY <2>1
  <2>3. n - y \in below
    BY <2>2
  <2>4. ~(n - y < i)
    BY <1>3, <2>2, <2>3 DEF OpToRel
  <2> QED
    BY <2>1, <2>2, <2>4
<1>5. \E x \in S : \A y \in S : x >= y
  BY <1>4
<1> QED
  BY <1>5 DEF Max

\* A set of port maps, from the outside and from the inside.
LEMMA MapOf ==
  ASSUME NEW S, NEW f \in PortMaps(S)
  PROVE  /\ DOMAIN f \subseteq Ports
         /\ f \in [DOMAIN f -> S]
BY DEF PortMaps

LEMMA IsMap ==
  ASSUME NEW S, NEW P \in SUBSET Ports, NEW f \in [P -> S]
  PROVE  f \in PortMaps(S)
BY DEF PortMaps

LEMMA EntryTyped ==
  ASSUME NEW t \in 0..MaxDay, NEW l7 \in BOOLEAN, NEW banner \in BOOLEAN
  PROVE  /\ Entry(t, l7, banner) \in Entries
         /\ Entry(t, l7, banner).seen = t
         /\ Entry(t, l7, banner).l7 = l7
BY DEF Entry, Entries

LEMMA ClaimTyped ==
  ASSUME NEW ports \in PortMaps(Entries), NEW swept \in 0..MaxDay
  PROVE  /\ Claim(ports, swept) \in PortClaimSet
         /\ Claim(ports, swept).ports = ports
         /\ Claim(ports, swept).swept = swept
BY DEF Claim, PortClaimSet

LEMMA ClaimFields ==
  ASSUME NEW c \in PortClaimSet
  PROVE  c.ports \in PortMaps(Entries) /\ c.swept \in 0..MaxDay
BY DEF PortClaimSet

LEMMA Nothing ==
  /\ Empty \in PortMaps(Entries) /\ Empty \in RowPorts /\ DOMAIN Empty = {}
  /\ NoClaim \in PortClaimSet /\ DOMAIN NoClaim.ports = {} /\ NoClaim.swept = 0
<1>1. DOMAIN Empty = {} /\ \A S : Empty \in [{} -> S]
  BY DEF Empty
<1>2. \A S : Empty \in PortMaps(S)
  BY <1>1, IsMap
<1>3. 0 \in 0..MaxDay
  BY ClaimsAssumption
<1> QED
  BY <1>1, <1>2, <1>3, ClaimTyped DEF NoClaim, RowPorts

\* What a batch brings: some observers' claims.
BroughtClaims == UNION {[O -> PortClaimSet] : O \in SUBSET Observers}

LEMMA BroughtOf ==
  ASSUME NEW new \in BroughtClaims
  PROVE  /\ DOMAIN new \subseteq Observers
         /\ \A o \in DOMAIN new : new[o] \in PortClaimSet
BY DEF BroughtClaims

LEMMA OverTyped ==
  ASSUME NEW new \in BroughtClaims, NEW old \in [Observers -> PortClaimSet]
  PROVE  /\ Over(new, old) \in [Observers -> PortClaimSet]
         /\ \A o \in Observers :
              Over(new, old)[o] = IF o \in DOMAIN new THEN new[o] ELSE old[o]
<1>1. DOMAIN new \cup DOMAIN old = Observers
  BY BroughtOf
<1> QED
  BY <1>1, BroughtOf DEF Over

LEMMA OverNothing ==
  ASSUME NEW old \in [Observers -> PortClaimSet], NEW new, DOMAIN new = {}
  PROVE  Over(new, old) = old
BY DEF Over

LEMMA MergedTyped ==
  ASSUME NEW old \in PortMaps(Entries), NEW new \in PortMaps(Entries)
  PROVE  /\ MergedPorts(old, new) \in PortMaps(Entries)
         /\ DOMAIN MergedPorts(old, new) = DOMAIN old \cup DOMAIN new
<1> DEFINE P == DOMAIN old \cup DOMAIN new
           m(p) == IF p \notin DOMAIN new THEN old[p]
                   ELSE IF p \notin DOMAIN old THEN new[p]
                   ELSE Entry(IF new[p].seen = 0 THEN old[p].seen ELSE new[p].seen,
                              new[p].l7 \/ old[p].l7, new[p].banner \/ old[p].banner)
<1>1. P \in SUBSET Ports
  BY MapOf
<1>2. ASSUME NEW p \in P PROVE m(p) \in Entries
  <2>1. CASE p \notin DOMAIN new \/ p \notin DOMAIN old
    BY <2>1, MapOf
  <2>2. CASE p \in DOMAIN new /\ p \in DOMAIN old
    <3>1. new[p] \in Entries /\ old[p] \in Entries
      BY <2>2, MapOf
    <3> DEFINE t == IF new[p].seen = 0 THEN old[p].seen ELSE new[p].seen
    <3>2. t \in 0..MaxDay
      BY <3>1 DEF Entries
    <3>3. (new[p].l7 \/ old[p].l7) \in BOOLEAN /\ (new[p].banner \/ old[p].banner) \in BOOLEAN
      OBVIOUS
    <3>4. Entry(t, new[p].l7 \/ old[p].l7, new[p].banner \/ old[p].banner) \in Entries
      <4> DEFINE l == new[p].l7 \/ old[p].l7
                 b == new[p].banner \/ old[p].banner
      <4> HIDE DEF t
      <4> QED
        BY <3>2, <3>3 DEF Entry, Entries
    <3> QED
      BY <2>2, <3>4
  <2> QED
    BY <2>1, <2>2
<1> HIDE DEF m
<1>3. [p \in P |-> m(p)] \in [P -> Entries]
  BY <1>2
<1>4. MergedPorts(old, new) = [p \in P |-> m(p)]
  BY DEF MergedPorts, m
<1> QED
  BY <1>1, <1>3, <1>4, IsMap

RowEntries == [src : SUBSET Observers, seen : 0..MaxDay, l7 : BOOLEAN, banner : BOOLEAN]

LEMMA RowEntryTyped ==
  ASSUME NEW src \in SUBSET Observers, NEW seen \in 0..MaxDay,
         NEW l7 \in BOOLEAN, NEW banner \in BOOLEAN
  PROVE  [src |-> src, seen |-> seen, l7 |-> l7, banner |-> banner] \in RowEntries
BY DEF RowEntries

LEMMA FoldedTyped ==
  ASSUME NEW ports \in [Observers -> PortClaimSet], NEW p \in ClaimedPorts(ports)
  PROVE  /\ FoldedPort(ports, p) \in RowEntries
         /\ \A o \in Observers : p \in DOMAIN ports[o].ports =>
              /\ FoldedPort(ports, p).seen >= ports[o].ports[p].seen
              /\ ports[o].ports[p].l7 => FoldedPort(ports, p).l7
         /\ \E o \in Observers : /\ p \in DOMAIN ports[o].ports
                                 /\ FoldedPort(ports, p).seen = ports[o].ports[p].seen
<1> DEFINE by == {o \in Observers : p \in DOMAIN ports[o].ports}
           days == {ports[o].ports[p].seen : o \in by}
           l == \E o \in by : ports[o].ports[p].l7
           b == \E o \in by : ports[o].ports[p].banner
<1>1. \A o \in by : ports[o].ports[p] \in Entries
  BY ClaimFields, MapOf
<1>2. by # {}
  BY DEF ClaimedPorts
<1>3. days \subseteq 0..MaxDay /\ days # {}
  BY <1>1, <1>2 DEF Entries
<1>4. Max(days) \in days /\ \A y \in days : Max(days) >= y
  <2>1. MaxDay \in Nat
    BY ClaimsAssumption
  <2> HIDE DEF days
  <2> QED
    BY <1>3, <2>1, MaxOfDays
<1>5. FoldedPort(ports, p) = [src |-> by, seen |-> Max(days), l7 |-> l, banner |-> b]
  BY DEF FoldedPort
<1>6. by \in SUBSET Observers /\ l \in BOOLEAN /\ b \in BOOLEAN
  OBVIOUS
<1>7. \A o \in by : ports[o].ports[p].seen \in days /\ (ports[o].ports[p].l7 => l)
  OBVIOUS
<1>8. \E o \in by : Max(days) = ports[o].ports[p].seen
  BY <1>4
<1>9. \A o \in Observers : p \in DOMAIN ports[o].ports <=> o \in by
  OBVIOUS
<1> HIDE DEF by, days, l, b
<1>10. FoldedPort(ports, p) \in RowEntries
  <2>1. Max(days) \in 0..MaxDay
    BY <1>3, <1>4
  <2> QED
    BY <2>1, <1>5, <1>6, RowEntryTyped
<1>11. FoldedPort(ports, p).seen = Max(days) /\ FoldedPort(ports, p).l7 = l
  BY <1>5
<1>12. ASSUME NEW o \in Observers, p \in DOMAIN ports[o].ports
       PROVE  /\ FoldedPort(ports, p).seen >= ports[o].ports[p].seen
              /\ ports[o].ports[p].l7 => FoldedPort(ports, p).l7
  BY <1>4, <1>7, <1>9, <1>11, <1>12
<1>13. PICK o \in by : Max(days) = ports[o].ports[p].seen
  BY <1>8
<1>14. o \in Observers /\ p \in DOMAIN ports[o].ports
         /\ FoldedPort(ports, p).seen = ports[o].ports[p].seen
  BY <1>13, <1>11 DEF by
<1> QED
  BY <1>10, <1>12, <1>14

LEMMA CarriedTyped ==
  ASSUME NEW ports \in [Observers -> PortClaimSet], NEW prior \in RowPorts
  PROVE  /\ WithCarried(ports, prior) \in RowPorts
         /\ DOMAIN WithCarried(ports, prior) = ClaimedPorts(ports) \cup DOMAIN prior
         /\ \A p \in ClaimedPorts(ports) : WithCarried(ports, prior)[p] = FoldedPort(ports, p)
         /\ \A p \in DOMAIN prior \ ClaimedPorts(ports) : WithCarried(ports, prior)[p] = prior[p]
<1> DEFINE P == ClaimedPorts(ports) \cup DOMAIN prior
<1>1. prior \in PortMaps(RowEntries)
  BY DEF RowPorts, RowEntries
<1>2. P \in SUBSET Ports
  <2>1. \A o \in Observers : DOMAIN ports[o].ports \subseteq Ports
    BY ClaimFields, MapOf
  <2> QED
    BY <1>1, <2>1, MapOf DEF ClaimedPorts
<1>3. \A p \in ClaimedPorts(ports) : FoldedPort(ports, p) \in RowEntries
  BY FoldedTyped
<1>4. \A p \in DOMAIN prior : prior[p] \in RowEntries
  BY <1>1, MapOf
<1>5. [p \in P |-> IF p \in ClaimedPorts(ports) THEN FoldedPort(ports, p) ELSE prior[p]]
        \in [P -> RowEntries]
  BY <1>3, <1>4
<1>6. WithCarried(ports, prior) \in PortMaps(RowEntries)
  BY <1>2, <1>5, IsMap DEF WithCarried
<1>7. WithCarried(ports, prior) \in RowPorts
  BY <1>6 DEF RowPorts, RowEntries
<1> QED
  BY <1>7 DEF WithCarried

LEMMA ProjectedTyped ==
  ASSUME NEW ports \in [Observers -> PortClaimSet], NEW prior \in RowPorts, NEW now
  PROVE  /\ ProjectedPorts(ports, prior, now) \in RowPorts
         /\ \A p \in DOMAIN WithCarried(ports, prior) :
              \/ ports["naabu"].swept = 0
              \/ Kept(WithCarried(ports, prior)[p], ports["naabu"].swept, now)
              => p \in DOMAIN ProjectedPorts(ports, prior, now)
<1> DEFINE all == WithCarried(ports, prior)
           kept == {p \in DOMAIN all : Kept(all[p], ports["naabu"].swept, now)}
<1>1. all \in PortMaps(RowEntries)
  BY CarriedTyped DEF RowPorts, RowEntries
<1>2. DOMAIN all \subseteq Ports /\ \A p \in DOMAIN all : all[p] \in RowEntries
  BY <1>1, MapOf
<1> HIDE DEF all
<1>3. Restrict(all, kept) \in [kept -> RowEntries] /\ kept \in SUBSET Ports
  BY <1>2 DEF Restrict
<1>4. Restrict(all, kept) \in PortMaps(RowEntries) /\ DOMAIN Restrict(all, kept) = kept
  BY <1>3, IsMap
<1>5. ProjectedPorts(ports, prior, now) =
        IF ports["naabu"].swept = 0 THEN all ELSE Restrict(all, kept)
  BY DEF ProjectedPorts, all
<1>6. ProjectedPorts(ports, prior, now) \in PortMaps(RowEntries)
  BY <1>1, <1>4, <1>5
<1>7. ASSUME NEW p \in DOMAIN all,
             ports["naabu"].swept = 0 \/ Kept(all[p], ports["naabu"].swept, now)
      PROVE  p \in DOMAIN ProjectedPorts(ports, prior, now)
  BY <1>4, <1>5, <1>7
<1> QED
  BY <1>6, <1>7 DEF RowPorts, RowEntries, all

LEMMA OneClaim ==
  ASSUME NEW o \in Observers, NEW c \in PortClaimSet
  PROVE  /\ [q \in {o} |-> c] \in BroughtClaims
         /\ DOMAIN [q \in {o} |-> c] = {o}
         /\ [q \in {o} |-> c][o] = c
<1>1. [q \in {o} |-> c] \in [{o} -> PortClaimSet] /\ {o} \in SUBSET Observers
  OBVIOUS
<1> QED
  BY <1>1 DEF BroughtClaims

LEMMA WholeClaim ==
  ASSUME NEW o \in Observers, NEW ports \in PortMaps(Entries), NEW swept \in 0..MaxDay
  PROVE  LET new == Observed(o, ports, TRUE, swept)
         IN /\ new \in BroughtClaims /\ DOMAIN new = {o}
            /\ new[o].ports = ports /\ new[o].swept = swept
<1> DEFINE c == Claim(ports, swept)
<1>1. Observed(o, ports, TRUE, swept) = [q \in {o} |-> c]
  BY DEF Observed
<1>2. c \in PortClaimSet /\ c.ports = ports /\ c.swept = swept
  BY ClaimTyped
<1> HIDE DEF c
<1> QED
  BY <1>1, <1>2, OneClaim

LEMMA PartClaim ==
  ASSUME portClaims \in [Observers -> PortClaimSet],
         NEW o \in Observers, NEW ports \in PortMaps(Entries), NEW swept
  PROVE  LET new == Observed(o, ports, FALSE, swept)
         IN /\ new \in BroughtClaims /\ DOMAIN new = {o}
            /\ DOMAIN portClaims[o].ports \subseteq DOMAIN new[o].ports
            /\ new[o].swept = 0
<1> DEFINE all == MergedPorts(portClaims[o].ports, ports)
<1>1. portClaims[o].ports \in PortMaps(Entries)
  BY ClaimFields
<1>2. all \in PortMaps(Entries) /\ DOMAIN portClaims[o].ports \subseteq DOMAIN all
  BY <1>1, MergedTyped
<1> DEFINE c == Claim(all, 0)
<1>3. Observed(o, ports, FALSE, swept) = [q \in {o} |-> c]
  BY DEF Observed
<1> HIDE DEF all
<1>4. 0 \in 0..MaxDay
  BY ClaimsAssumption
<1>5. c \in PortClaimSet /\ c.ports = all /\ c.swept = 0
  BY <1>2, <1>4, ClaimTyped
<1> HIDE DEF c
<1> QED
  BY <1>2, <1>3, <1>5, OneClaim

-----------------------------------------------------------------------------
(* The inductive invariant                                                   *)

BroughtFacts == [third : BOOLEAN, cloud : 0..MaxDay]
Jobs == [pc : {"idle", "prior", "claims", "targets", "write", "cpe"}, at : 0..MaxDay,
         newPorts : BroughtClaims, newFacts : BroughtFacts, prior : RowPorts,
         ports : [Observers -> PortClaimSet], facts : Facts, covered : BOOLEAN]

\* The normaliser's entries carry no time, in the table and in what was read.
Timeless(c) == \A p \in DOMAIN c.ports : c.ports[p].seen = 0
CpeTimeless ==
  /\ Timeless(portClaims["cpe"])
  /\ \A w \in Workers : Timeless(jobs[w].ports["cpe"])

\* What a batch of the day `at` brings: a complete sweep lists what it saw at
\* its own time; an incomplete one lists all that the table's claim lists; a
\* probe's ports are confirmed since yesterday.
Honest(new, at) ==
  /\ "cpe" \notin DOMAIN new
  /\ "naabu" \in DOMAIN new =>
       IF new["naabu"].swept > 0
         THEN \A p \in DOMAIN new["naabu"].ports :
                new["naabu"].ports[p].seen >= new["naabu"].swept
         ELSE DOMAIN portClaims["naabu"].ports \subseteq DOMAIN new["naabu"].ports
  /\ "probe" \in DOMAIN new =>
       \A p \in DOMAIN new["probe"].ports :
         new["probe"].ports[p].l7 /\ new["probe"].ports[p].seen + 1 >= at

\* Only the holder of the row brings claims, and what it has read of everyone
\* but the normaliser is what the table will hold when it commits.
BatchesInv ==
  \A w \in Workers :
    /\ Honest(jobs[w].newPorts, jobs[w].at)
    /\ rowLock # w => jobs[w].newPorts = Empty
    /\ rowLock = w /\ jobs[w].pc \in {"targets", "write"} =>
         \A o \in Observers \ {"cpe"} : jobs[w].ports[o] = Over(jobs[w].newPorts, portClaims)[o]

ClaimsInv == ClaimsTypeOK /\ jobs \in [Workers -> Jobs] /\ CpeTimeless /\ BatchesInv

-----------------------------------------------------------------------------
(* The batches that start are honest                                         *)

Starts(w) ==
  \E new \in BroughtClaims, brought \in BroughtFacts :
    Honest(new, today) /\ StartBatch(w, new, brought)

LEMMA TypesOf ==
  ASSUME ClaimsTypeOK
  PROVE  /\ portClaims \in [Observers -> PortClaimSet]
         /\ facts \in Facts /\ covered \in BOOLEAN /\ today \in 1..MaxDay
         /\ MaxDay \in Nat \ {0}
BY ClaimsAssumption DEF ClaimsTypeOK

LEMMA NothingBrought ==
  /\ Empty \in BroughtClaims /\ NoneBrought \in BroughtFacts
  /\ \A at : Honest(Empty, at)
<1>1. Empty \in [{} -> PortClaimSet] /\ {} \in SUBSET Observers
  BY DEF Empty
<1>2. Empty \in BroughtClaims
  BY <1>1 DEF BroughtClaims
<1>3. NoneBrought \in BroughtFacts
  BY ClaimsAssumption DEF NoneBrought, Bringing, BroughtFacts
<1> QED
  BY <1>2, <1>3, Nothing DEF Honest

LEMMA ProbeIsHonest ==
  ASSUME ClaimsTypeOK, NEW P \in SUBSET Ports, NEW withBanner \in SUBSET P,
         NEW t \in 1..MaxDay, Recent(t)
  PROVE  ProbePatch(P, withBanner, t) \in BroughtClaims /\ Honest(ProbePatch(P, withBanner, t), today)
<1> DEFINE ports == [p \in P |-> Entry(t, TRUE, p \in withBanner)]
<1>1. t \in 0..MaxDay
  BY TypesOf
<1>2. \A p \in P : /\ Entry(t, TRUE, p \in withBanner) \in Entries
                   /\ Entry(t, TRUE, p \in withBanner).seen = t
                   /\ Entry(t, TRUE, p \in withBanner).l7 = TRUE
  <2> TAKE p \in P
  <2> DEFINE b == p \in withBanner
  <2>1. b \in BOOLEAN /\ TRUE \in BOOLEAN
    OBVIOUS
  <2>2. Entry(t, TRUE, b) \in Entries
    BY <1>1, <2>1 DEF Entry, Entries
  <2> QED
    BY <2>2 DEF Entry
<1>3. ports \in PortMaps(Entries)
  BY <1>2, IsMap
<1>4. DOMAIN ports = P /\ \A p \in P : ports[p].seen = t /\ ports[p].l7
  BY <1>2
<1> DEFINE new == Observed("probe", ports, TRUE, 0)
<1>5. ProbePatch(P, withBanner, t) = new
  BY DEF ProbePatch
<1> HIDE DEF ports
<1>6. new \in BroughtClaims /\ DOMAIN new = {"probe"} /\ new["probe"].ports = ports
  <2>1. 0 \in 0..MaxDay /\ "probe" \in Observers
    BY TypesOf DEF Observers
  <2>2. new \in BroughtClaims /\ DOMAIN new = {"probe"}
    BY <2>1, <1>3, WholeClaim
  <2>3. new = [q \in {"probe"} |-> Claim(ports, 0)]
    BY DEF Observed
  <2>4. Claim(ports, 0).ports = ports
    BY DEF Claim
  <2> HIDE DEF new
  <2> QED
    BY ONLY <2>2, <2>3, <2>4
<1> HIDE DEF new
<1>7. t + 1 >= today
  BY TypesOf DEF Recent
<1>8. Honest(new, today)
  BY <1>4, <1>6, <1>7 DEF Honest
<1> QED
  BY <1>5, <1>6, <1>8

LEMMA ShodanIsHonest ==
  ASSUME ClaimsTypeOK, NEW P \in SUBSET Ports, NEW t \in 0..MaxDay
  PROVE  ShodanPatch(P, t) \in BroughtClaims /\ Honest(ShodanPatch(P, t), today)
<1> DEFINE ports == [p \in P |-> Entry(t, FALSE, FALSE)]
<1>1. ports \in PortMaps(Entries)
  BY EntryTyped, IsMap
<1> DEFINE new == Observed("shodan", ports, TRUE, 0)
<1>2. ShodanPatch(P, t) = new
  BY DEF ShodanPatch
<1> HIDE DEF ports
<1>3. new \in BroughtClaims /\ DOMAIN new = {"shodan"}
  <2>1. 0 \in 0..MaxDay /\ "shodan" \in Observers
    BY TypesOf DEF Observers
  <2> QED
    BY <2>1, <1>1, WholeClaim
<1> HIDE DEF new
<1>4. Honest(new, today)
  BY <1>3 DEF Honest
<1> QED
  BY <1>2, <1>3, <1>4

LEMMA SweepIsHonest ==
  ASSUME ClaimsTypeOK, NEW found \in SUBSET Ports, NEW hinted \in SUBSET Ports,
         NEW complete \in BOOLEAN, NEW t \in 1..MaxDay
  PROVE  /\ SweepPatch(found, hinted, complete, t) \in BroughtClaims
         /\ Honest(SweepPatch(found, hinted, complete, t), today)
<1> DEFINE seen(P) == [p \in P |-> Entry(t, FALSE, FALSE)]
           own == Observed("naabu", seen(found), complete, t)
           other == Observed("shodan", seen(hinted), complete, 0)
           mine == IF found # {} \/ (complete /\ hinted = {}) THEN own ELSE Empty
           theirs == IF hinted # {} THEN other ELSE Empty
<1>1. t \in 0..MaxDay /\ 0 \in 0..MaxDay /\ {"naabu", "shodan"} \subseteq Observers
  BY TypesOf DEF Observers
<1>2. \A P \in SUBSET Ports : seen(P) \in PortMaps(Entries)
  BY <1>1, EntryTyped, IsMap
<1>3. DOMAIN seen(found) = found /\ \A p \in found : seen(found)[p].seen = t
  BY <1>1, EntryTyped
<1>4. SweepPatch(found, hinted, complete, t) = Over(mine, theirs)
  BY DEF SweepPatch
<1> HIDE DEF seen
<1>5. /\ own \in BroughtClaims /\ DOMAIN own = {"naabu"}
      /\ complete => own["naabu"].ports = seen(found) /\ own["naabu"].swept = t
      /\ ~complete => /\ DOMAIN portClaims["naabu"].ports \subseteq DOMAIN own["naabu"].ports
                      /\ own["naabu"].swept = 0
  <2>1. seen(found) \in PortMaps(Entries)
    BY <1>2
  <2>2. CASE complete = TRUE
    <3> DEFINE ports == seen(found)
               whole == Observed("naabu", ports, TRUE, t)
    <3>1. /\ whole \in BroughtClaims /\ DOMAIN whole = {"naabu"}
          /\ whole["naabu"].ports = ports /\ whole["naabu"].swept = t
      <4>1. ports \in PortMaps(Entries) /\ "naabu" \in Observers /\ t \in 0..MaxDay
        BY <2>1, <1>1
      <4> DEFINE c == Claim(ports, t)
      <4> HIDE DEF ports
      <4>2. whole = [q \in {"naabu"} |-> c]
        BY DEF Observed
      <4>3. c \in PortClaimSet /\ c.ports = ports /\ c.swept = t
        BY <4>1, ClaimTyped
      <4> HIDE DEF c, whole
      <4> QED
        BY <4>1, <4>2, <4>3, OneClaim
    <3>2. own = whole
      BY <2>2
    <3> HIDE DEF whole
    <3> QED
      BY <3>1, <3>2, <2>2
  <2>3. CASE complete = FALSE
    <3> DEFINE ports == seen(found)
               part == Observed("naabu", ports, FALSE, t)
    <3>1. /\ part \in BroughtClaims /\ DOMAIN part = {"naabu"}
          /\ DOMAIN portClaims["naabu"].ports \subseteq DOMAIN part["naabu"].ports
          /\ part["naabu"].swept = 0
      <4>1. ports \in PortMaps(Entries) /\ "naabu" \in Observers
              /\ portClaims \in [Observers -> PortClaimSet]
        BY <2>1, <1>1, TypesOf
      <4> HIDE DEF ports
      <4> QED
        BY <4>1, PartClaim
    <3>2. own = part
      BY <2>3
    <3> HIDE DEF part
    <3> QED
      BY <3>1, <3>2, <2>3
  <2> QED
    BY <2>2, <2>3
<1>6. other \in BroughtClaims /\ DOMAIN other = {"shodan"}
  <2>1. seen(hinted) \in PortMaps(Entries)
    BY <1>2
  <2>2. CASE complete = TRUE
    BY <2>1, <2>2, <1>1, WholeClaim
  <2>3. CASE complete = FALSE
    BY <2>1, <2>3, <1>1, TypesOf, PartClaim
  <2> QED
    BY <2>2, <2>3
<1> HIDE DEF own, other
<1>7. /\ mine \in BroughtClaims /\ DOMAIN mine \in {{}, {"naabu"}}
      /\ "naabu" \in DOMAIN mine => mine = own
  BY <1>5, NothingBrought, Nothing
<1>8. theirs \in BroughtClaims /\ DOMAIN theirs \in {{}, {"shodan"}}
  BY <1>6, NothingBrought, Nothing
<1> HIDE DEF mine, theirs
<1> DEFINE new == Over(mine, theirs)
<1>9. /\ DOMAIN new = DOMAIN mine \cup DOMAIN theirs
      /\ \A o \in DOMAIN new : new[o] = IF o \in DOMAIN mine THEN mine[o] ELSE theirs[o]
      /\ new = [o \in DOMAIN new |-> new[o]]
  BY DEF Over
<1>10. new \in BroughtClaims
  <2>1. DOMAIN new \in SUBSET Observers /\ \A o \in DOMAIN new : new[o] \in PortClaimSet
    BY <1>7, <1>8, <1>9, BroughtOf
  <2> HIDE DEF new
  <2>2. new \in [DOMAIN new -> PortClaimSet]
    BY <1>9, <2>1
  <2> QED
    BY <2>1, <2>2 DEF BroughtClaims
<1>11. Honest(new, today)
  <2>1. "cpe" \notin DOMAIN new /\ "probe" \notin DOMAIN new
    BY <1>7, <1>8, <1>9
  <2>2. "naabu" \in DOMAIN new => new["naabu"] = own["naabu"]
    BY <1>7, <1>8, <1>9
  <2> HIDE DEF new
  <2>3. CASE complete
    BY <1>3, <1>5, <2>1, <2>2, <2>3 DEF Honest
  <2>4. CASE ~complete
    BY <1>5, <2>1, <2>2, <2>4 DEF Honest
  <2> QED
    BY <2>3, <2>4
<1> QED
  BY <1>4, <1>10, <1>11

LEMMA BatchesStartHonest ==
  ASSUME ClaimsTypeOK, NEW w \in Workers,
         Sweep(w) \/ Probe(w) \/ Shodan(w) \/ ThirdParty(w) \/ CloudProof(w)
  PROVE  Starts(w)
<1>1. CASE Sweep(w)
  <2>1. PICK found \in SUBSET Ports, complete \in BOOLEAN, t \in 1..MaxDay :
          \E hinted \in SUBSET (DOMAIN portClaims["shodan"].ports \ found) :
            StartBatch(w, SweepPatch(found, hinted, complete, t), NoneBrought)
    BY <1>1 DEF Sweep
  <2>2. PICK hinted \in SUBSET (DOMAIN portClaims["shodan"].ports \ found) :
          StartBatch(w, SweepPatch(found, hinted, complete, t), NoneBrought)
    BY <2>1
  <2>3. hinted \in SUBSET Ports
    BY TypesOf, ClaimFields, MapOf DEF Observers
  <2> QED
    BY <2>2, <2>3, SweepIsHonest, NothingBrought DEF Starts
<1>2. CASE Probe(w)
  <2>1. PICK P \in SUBSET Ports \ {{}} : \E withBanner \in SUBSET P, t \in 1..MaxDay :
          Recent(t) /\ StartBatch(w, ProbePatch(P, withBanner, t), NoneBrought)
    BY <1>2 DEF Probe
  <2> QED
    BY <2>1, ProbeIsHonest, NothingBrought DEF Starts
<1>3. CASE Shodan(w)
  <2>1. PICK P \in SUBSET ShodanPorts \ {{}}, t \in 0..MaxDay :
          StartBatch(w, ShodanPatch(P, t), NoneBrought)
    BY <1>3 DEF Shodan
  <2>2. P \in SUBSET Ports
    BY ClaimsAssumption
  <2> QED
    BY <2>1, <2>2, ShodanIsHonest, NothingBrought DEF Starts
<1>4. CASE ThirdParty(w)
  <2>1. Bringing(TRUE, 0) \in BroughtFacts
    BY ClaimsAssumption DEF Bringing, BroughtFacts
  <2> QED
    BY <1>4, <2>1, NothingBrought DEF Starts, ThirdParty
<1>5. CASE CloudProof(w)
  <2>1. Bringing(FALSE, today) \in BroughtFacts
    BY TypesOf DEF Bringing, BroughtFacts
  <2> QED
    BY <1>5, <2>1, NothingBrought DEF Starts, CloudProof
<1> QED
  BY <1>1, <1>2, <1>3, <1>4, <1>5

-----------------------------------------------------------------------------
(* What a projection computes                                                *)

LEMMA FactFields ==
  ASSUME NEW f \in Facts
  PROVE  /\ f.third \in BOOLEAN /\ f.cloud \in 0..MaxDay /\ f.verdict \in Verdicts
         /\ f.rungs \in [Rungs -> Opinions]
BY DEF Facts

LEMMA BroughtTyped ==
  ASSUME NEW brought \in BroughtFacts, NEW old \in Facts
  PROVE  WithBrought(brought, old) \in Facts
<1> DEFINE third == old.third \/ brought.third
           cloud == IF brought.cloud > 0 THEN brought.cloud ELSE old.cloud
<1>1. third \in BOOLEAN /\ cloud \in 0..MaxDay
  BY FactFields DEF BroughtFacts
<1>2. WithBrought(brought, old) = [old EXCEPT !.third = third, !.cloud = cloud]
  BY DEF WithBrought
<1> HIDE DEF third, cloud
<1> QED
  BY <1>1, <1>2 DEF Facts

\* The estate and the class of one row come from the same facts.
LEMMA RowStory ==
  ASSUME NEW f \in Facts, NEW held \in BOOLEAN, kind \in {"address", "record", "mx"}
  PROVE  /\ EstateOf(f) \in Estates
         /\ ClassOf(f, held) \in {"no_probe", "name_only", "direct_addressable"}
         /\ EstateOf(f) = "proven_ours" =>
              ClassOf(f, held) \in {"direct_addressable", "no_probe"}
         /\ EstateOf(f) = "not_ours" /\ ClassOf(f, held) = "direct_addressable" =>
              kind = "address"
         /\ kind = "mx" => ClassOf(f, held) = "no_probe"
         /\ kind = "record" /\ ClassOf(f, held) = "direct_addressable" =>
              EstateOf(f) = "proven_ours"
<1>1. f.third \in BOOLEAN /\ f.cloud \in Nat
  BY FactFields
<1>2. CASE f.cloud > 0
  <2>1. EstateOf(f) = "proven_ours"
    BY <1>1, <1>2 DEF EstateOf
  <2>2. ClassOf(f, held) = IF f.third \/ kind = "mx" THEN "no_probe" ELSE "direct_addressable"
    BY <1>2 DEF ClassOf
  <2> QED
    BY <2>1, <2>2 DEF Estates
<1>3. CASE f.cloud = 0
  <2>1. EstateOf(f) \in {"not_ours", "claimed_ours", "none"}
    BY <1>1, <1>3 DEF EstateOf
  <2>2. ClassOf(f, held) = IF f.third \/ kind = "mx" THEN "no_probe"
          ELSE IF kind = "address" /\ (held \/ (Tenancy(f.rungs) = "single" /\ f.verdict = "ours"))
          THEN "direct_addressable" ELSE "name_only"
    BY <1>3 DEF ClassOf
  <2> QED
    BY <2>1, <2>2 DEF Estates
<1> QED
  BY <1>1, <1>2, <1>3

LEMMA RowTyped ==
  ASSUME NEW j \in Jobs, kind \in {"address", "record", "mx"}
  PROVE  /\ ProjectedRow(j).ports = ProjectedPorts(j.ports, j.prior, j.at)
         /\ ProjectedRow(j).estate = EstateOf(j.facts)
         /\ ProjectedRow(j).class = ClassOf(j.facts, j.covered)
         /\ ProjectedRow(j).ports \in RowPorts
         /\ ProjectedRow(j).estate \in Estates /\ ProjectedRow(j).class \in Classes
<1>1. /\ j.ports \in [Observers -> PortClaimSet] /\ j.prior \in RowPorts
      /\ j.facts \in Facts /\ j.covered \in BOOLEAN
  BY DEF Jobs
<1>2. ProjectedPorts(j.ports, j.prior, j.at) \in RowPorts
  BY <1>1, ProjectedTyped
<1>3. EstateOf(j.facts) \in Estates /\ ClassOf(j.facts, j.covered) \in Classes
  BY <1>1, RowStory DEF Classes
<1> QED
  BY <1>2, <1>3 DEF ProjectedRow

LEMMA IdleTyped ==
  Idle \in Jobs /\ Idle.pc = "idle" /\ Idle.newPorts = Empty /\ Timeless(Idle.ports["cpe"])
<1>1. NoClaims \in [Observers -> PortClaimSet] /\ Timeless(NoClaims["cpe"])
  BY Nothing DEF NoClaims, Timeless, Observers
<1>2. NoFacts \in Facts
  BY ClaimsAssumption DEF NoFacts, Facts, Verdicts, Opinions
<1>3. 0 \in 0..MaxDay
  BY ClaimsAssumption
<1>4. Idle = [pc |-> "idle", at |-> 0, newPorts |-> Empty, newFacts |-> NoneBrought,
              prior |-> Empty, ports |-> NoClaims, facts |-> NoFacts, covered |-> FALSE]
  BY DEF Idle
<1> QED
  BY <1>1, <1>2, <1>3, <1>4, Nothing, NothingBrought DEF Jobs

-----------------------------------------------------------------------------
(* The steps                                                                 *)

LEMMA JobIs ==
  ASSUME ClaimsInv, NEW w \in Workers
  PROVE  /\ jobs[w] \in Jobs
         /\ Honest(jobs[w].newPorts, jobs[w].at)
         /\ jobs[w].newPorts \in BroughtClaims /\ jobs[w].newFacts \in BroughtFacts
         /\ jobs[w].ports \in [Observers -> PortClaimSet] /\ jobs[w].prior \in RowPorts
         /\ jobs[w].facts \in Facts /\ jobs[w].covered \in BOOLEAN /\ jobs[w].at \in 0..MaxDay
         /\ Timeless(jobs[w].ports["cpe"])
BY DEF ClaimsInv, BatchesInv, CpeTimeless, Jobs

\* A worker goes on with its job and the tables stay.
LEMMA JobStep ==
  ASSUME ClaimsInv, NEW w \in Workers, NEW j \in Jobs,
         jobs' = [jobs EXCEPT ![w] = j],
         UNCHANGED <<kind, today, portClaims, facts, covered, assetRow, sighted>>,
         inputs' \in 0..MaxInputs, rowLock' \in Workers \cup {NoWorker},
         \A v \in Workers \ {w} : rowLock' = v <=> rowLock = v,
         rowLock' = w => j.pc \notin {"idle", "cpe"},
         rowLock' # w => j.newPorts = Empty,
         Timeless(j.ports["cpe"]), Honest(j.newPorts, j.at),
         rowLock' = w /\ j.pc \in {"targets", "write"} =>
           \A o \in Observers \ {"cpe"} : j.ports[o] = Over(j.newPorts, portClaims)[o]
  PROVE  ClaimsInv'
<1>1. jobs' \in [Workers -> Jobs] /\ jobs'[w] = j /\ \A v \in Workers \ {w} : jobs'[v] = jobs[v]
  BY DEF ClaimsInv
<1>2. ClaimsTypeOK'
  <2>1. \A v \in Workers :
          /\ jobs'[v].pc \in {"idle", "prior", "claims", "targets", "write", "cpe"}
          /\ rowLock' = v => jobs'[v].pc \notin {"idle", "cpe"}
    BY <1>1 DEF ClaimsInv, ClaimsTypeOK, Jobs
  <2> QED
    BY <2>1 DEF ClaimsInv, ClaimsTypeOK
<1>3. CpeTimeless'
  BY <1>1 DEF ClaimsInv, CpeTimeless
<1>4. BatchesInv'
  <2>1. portClaims' = portClaims
    OBVIOUS
  <2>2. ASSUME NEW v \in Workers
        PROVE  /\ Honest(jobs'[v].newPorts, jobs'[v].at)
               /\ rowLock' # v => jobs'[v].newPorts = Empty
               /\ rowLock' = v /\ jobs'[v].pc \in {"targets", "write"} =>
                    \A o \in Observers \ {"cpe"} :
                      jobs'[v].ports[o] = Over(jobs'[v].newPorts, portClaims)[o]
    <3>1. CASE v = w
      BY <1>1, <3>1
    <3>2. CASE v # w
      BY <1>1, <3>2 DEF ClaimsInv, BatchesInv
    <3> QED
      BY <3>1, <3>2
  <2>3. ASSUME NEW v \in Workers
        PROVE  Honest(jobs[v].newPorts, jobs[v].at)'
    BY ONLY <2>1, <2>2, v \in Workers DEF Honest
  <2> QED
    BY ONLY <2>1, <2>2, <2>3 DEF BatchesInv
<1> QED
  BY <1>1, <1>2, <1>3, <1>4 DEF ClaimsInv

\* Nobody's job and nobody's claim of ports changes.
LEMMA RestStep ==
  ASSUME ClaimsInv, UNCHANGED <<kind, portClaims, assetRow, rowLock, jobs, sighted>>,
         today' \in 1..MaxDay, inputs' \in 0..MaxInputs, facts' \in Facts, covered' \in BOOLEAN
  PROVE  ClaimsInv'
<1>1. ClaimsTypeOK'
  BY DEF ClaimsInv, ClaimsTypeOK
<1>2. CpeTimeless' /\ BatchesInv'
  BY DEF ClaimsInv, CpeTimeless, BatchesInv, Honest
<1> QED
  BY <1>1, <1>2 DEF ClaimsInv

LEMMA StartStep ==
  ASSUME ClaimsInv, NEW w \in Workers, Starts(w)
  PROVE  ClaimsInv'
<1>1. PICK new \in BroughtClaims, brought \in BroughtFacts :
        Honest(new, today) /\ StartBatch(w, new, brought)
  BY DEF Starts
<1> DEFINE j == [Idle EXCEPT !.pc = "prior", !.at = today, !.newPorts = new, !.newFacts = brought]
<1>2. today \in 0..MaxDay
  BY TypesOf DEF ClaimsInv
<1>3. /\ j \in Jobs /\ j.pc = "prior" /\ j.newPorts = new /\ j.at = today
      /\ j.ports = Idle.ports
  BY <1>2, IdleTyped DEF Jobs
<1>4. jobs' = [jobs EXCEPT ![w] = j] /\ rowLock' = w /\ rowLock = NoWorker
  BY <1>1 DEF StartBatch
<1>5. inputs' \in 0..MaxInputs
  BY <1>1, ClaimsAssumption DEF StartBatch, ClaimsInv, ClaimsTypeOK
<1>6. UNCHANGED <<kind, today, portClaims, facts, covered, assetRow, sighted>>
  BY <1>1 DEF StartBatch
<1>7. \A v \in Workers \ {w} : rowLock' = v <=> rowLock = v
  BY <1>4, ClaimsAssumption
<1> HIDE DEF j
<1> QED
  BY <1>1, <1>3, <1>4, <1>5, <1>6, <1>7, IdleTyped, JobStep

\* A worker that holds nothing and brings nothing: a projection begins, the
\* normaliser reads the row, a batch is rolled back.
LEMMA PlainStep ==
  ASSUME ClaimsInv, NEW w \in Workers, CpeRead(w) \/ Project(w) \/ BatchFails(w)
  PROVE  ClaimsInv'
<1>1. inputs' \in 0..MaxInputs /\ UNCHANGED <<kind, today, portClaims, facts, covered, assetRow, sighted>>
  BY DEF ClaimsInv, ClaimsTypeOK, CpeRead, Project, BatchFails
<1>2. CASE CpeRead(w)
  <2> DEFINE j == [Idle EXCEPT !.pc = "cpe", !.prior = assetRow.ports]
  <2>1. assetRow.ports \in RowPorts
    BY DEF ClaimsInv, ClaimsTypeOK
  <2>2. j \in Jobs /\ j.pc = "cpe" /\ j.newPorts = Empty /\ j.ports = Idle.ports
    BY <2>1, IdleTyped DEF Jobs
  <2>3. jobs' = [jobs EXCEPT ![w] = j] /\ rowLock' = rowLock /\ jobs[w].pc = "idle"
    BY <1>2 DEF CpeRead
  <2>4. rowLock # w /\ rowLock \in Workers \cup {NoWorker}
    BY <2>3 DEF ClaimsInv, ClaimsTypeOK
  <2> HIDE DEF j
  <2> QED
    BY <1>1, <2>2, <2>3, <2>4, IdleTyped, NothingBrought, JobStep
<1>3. CASE Project(w)
  <2> DEFINE j == [Idle EXCEPT !.pc = "prior", !.at = today]
  <2>1. today \in 0..MaxDay
    BY TypesOf DEF ClaimsInv
  <2>2. j \in Jobs /\ j.pc = "prior" /\ j.newPorts = Empty /\ j.ports = Idle.ports
    BY <2>1, IdleTyped DEF Jobs
  <2>3. jobs' = [jobs EXCEPT ![w] = j] /\ rowLock' = rowLock /\ jobs[w].pc = "idle"
    BY <1>3 DEF Project
  <2>4. rowLock # w /\ rowLock \in Workers \cup {NoWorker}
    BY <2>3 DEF ClaimsInv, ClaimsTypeOK
  <2> HIDE DEF j
  <2> QED
    BY <1>1, <2>2, <2>3, <2>4, IdleTyped, NothingBrought, JobStep
<1>4. CASE BatchFails(w)
  <2>1. jobs' = [jobs EXCEPT ![w] = Idle] /\ rowLock = w /\ rowLock' = NoWorker
    BY <1>4 DEF BatchFails
  <2>2. rowLock' # w /\ \A v \in Workers \ {w} : rowLock' = v <=> rowLock = v
    BY <2>1, ClaimsAssumption
  <2> QED
    BY <1>1, <2>1, <2>2, IdleTyped, NothingBrought, JobStep
<1> QED
  BY <1>2, <1>3, <1>4

LEMMA ReadStep ==
  ASSUME ClaimsInv, NEW w \in Workers, ReadPrior(w) \/ ReadClaims(w) \/ ReadTargets(w)
  PROVE  ClaimsInv'
<1>1. /\ inputs' \in 0..MaxInputs /\ rowLock' = rowLock /\ rowLock' \in Workers \cup {NoWorker}
      /\ UNCHANGED <<kind, today, portClaims, facts, covered, assetRow, sighted>>
  BY DEF ClaimsInv, ClaimsTypeOK, ReadPrior, ReadClaims, ReadTargets, Reads
<1>2. /\ rowLock # w => jobs[w].newPorts = Empty
      /\ rowLock = w /\ jobs[w].pc = "targets" =>
           \A o \in Observers \ {"cpe"} : jobs[w].ports[o] = Over(jobs[w].newPorts, portClaims)[o]
  BY DEF ClaimsInv, BatchesInv
<1>3. /\ portClaims \in [Observers -> PortClaimSet] /\ facts \in Facts /\ covered \in BOOLEAN
      /\ assetRow.ports \in RowPorts
  BY DEF ClaimsInv, ClaimsTypeOK
<1>4. CASE ReadPrior(w)
  <2> DEFINE j == [jobs[w] EXCEPT !.pc = "claims", !.prior = assetRow.ports]
  <2>1. /\ j \in Jobs /\ j.pc = "claims" /\ j.newPorts = jobs[w].newPorts /\ j.at = jobs[w].at
        /\ j.ports = jobs[w].ports
    BY <1>3, JobIs DEF Jobs
  <2>2. jobs' = [jobs EXCEPT ![w] = j]
    BY <1>4 DEF ReadPrior, Reads
  <2> HIDE DEF j
  <2> QED
    BY <1>1, <1>2, <2>1, <2>2, JobIs, JobStep
<1>5. CASE ReadClaims(w)
  <2> DEFINE ports == Over(jobs[w].newPorts, portClaims)
             known == WithBrought(jobs[w].newFacts, facts)
             j == [jobs[w] EXCEPT !.pc = "targets", !.ports = ports, !.facts = known]
  <2>1. ports \in [Observers -> PortClaimSet] /\ known \in Facts
    BY <1>3, JobIs, OverTyped, BroughtTyped
  <2>2. Timeless(ports["cpe"])
    <3>1. "cpe" \notin DOMAIN jobs[w].newPorts
      BY JobIs DEF Honest
    <3>2. ports["cpe"] = portClaims["cpe"]
      BY <1>3, <3>1, JobIs, OverTyped DEF Observers
    <3> QED
      BY <3>2 DEF ClaimsInv, CpeTimeless
  <2>3. jobs' = [jobs EXCEPT ![w] = j]
    BY <1>5 DEF ReadClaims, Reads
  <2> HIDE DEF ports, known
  <2>4. /\ j \in Jobs /\ j.pc = "targets" /\ j.newPorts = jobs[w].newPorts /\ j.at = jobs[w].at
        /\ j.ports = ports
    BY <2>1, JobIs DEF Jobs
  <2>5. \A o \in Observers \ {"cpe"} : j.ports[o] = Over(j.newPorts, portClaims)[o]
    BY <2>4 DEF ports
  <2> HIDE DEF j
  <2> QED
    BY <1>1, <1>2, <2>2, <2>3, <2>4, <2>5, JobIs, JobStep
<1>6. CASE ReadTargets(w)
  <2> DEFINE j == [jobs[w] EXCEPT !.pc = "write", !.covered = covered]
  <2>1. /\ j \in Jobs /\ j.pc = "write" /\ j.newPorts = jobs[w].newPorts /\ j.at = jobs[w].at
        /\ j.ports = jobs[w].ports
    BY <1>3, JobIs DEF Jobs
  <2>2. jobs' = [jobs EXCEPT ![w] = j] /\ jobs[w].pc = "targets"
    BY <1>6 DEF ReadTargets, Reads
  <2> HIDE DEF j
  <2> QED
    BY <1>1, <1>2, <2>1, <2>2, JobIs, JobStep
<1> QED
  BY <1>4, <1>5, <1>6

\* What a commit does to the claims of ports: a batch's replace the table's,
\* and a projection without the lock changes none.
LEMMA Published ==
  ASSUME ClaimsInv, NEW w \in Workers, Write(w)
  PROVE  /\ portClaims' \in [Observers -> PortClaimSet]
         /\ \A o \in Observers :
              portClaims'[o] = IF o \in DOMAIN jobs[w].newPorts THEN jobs[w].newPorts[o]
                               ELSE portClaims[o]
         /\ "cpe" \notin DOMAIN jobs[w].newPorts
         /\ rowLock # w => portClaims' = portClaims
         /\ rowLock = w => \A o \in Observers \ {"cpe"} : jobs[w].ports[o] = portClaims'[o]
<1>1. portClaims \in [Observers -> PortClaimSet]
  BY DEF ClaimsInv, ClaimsTypeOK
<1>2. portClaims' = Over(jobs[w].newPorts, portClaims) /\ jobs[w].pc = "write"
  BY DEF Write
<1>3. "cpe" \notin DOMAIN jobs[w].newPorts
  BY JobIs DEF Honest
<1>4. rowLock # w => portClaims' = portClaims
  <2>1. rowLock # w => jobs[w].newPorts = Empty
    BY DEF ClaimsInv, BatchesInv
  <2> QED
    BY <1>1, <1>2, <2>1, Nothing, OverNothing
<1>5. rowLock = w => \A o \in Observers \ {"cpe"} : jobs[w].ports[o] = portClaims'[o]
  BY <1>2 DEF ClaimsInv, BatchesInv
<1> QED
  BY <1>1, <1>2, <1>3, <1>4, <1>5, JobIs, OverTyped

\* The last day an observer was known to have seen a port is a day.
LEMMA SightedTyped ==
  ASSUME ClaimsInv, NEW w \in Workers, Write(w)
  PROVE  sighted' \in [Ports -> 0..MaxDay]
<1> DEFINE new == jobs[w].newPorts
           days(p) == {sighted[p]} \cup
             {new[o].ports[p].seen : o \in {q \in DOMAIN new : p \in DOMAIN new[q].ports}}
<1>1. sighted' = [p \in Ports |-> Max(days(p))]
  BY DEF Write
<1>2. ASSUME NEW p \in Ports PROVE Max(days(p)) \in 0..MaxDay
  <2>1. \A o \in DOMAIN new : p \in DOMAIN new[o].ports => new[o].ports[p] \in Entries
    BY JobIs, BroughtOf, ClaimFields, MapOf
  <2>2. sighted[p] \in 0..MaxDay
    BY DEF ClaimsInv, ClaimsTypeOK
  <2>3. days(p) \subseteq 0..MaxDay /\ days(p) # {}
    BY <2>1, <2>2 DEF Entries
  <2> DEFINE D == days(p)
  <2>4. D \subseteq 0..MaxDay /\ D # {} /\ MaxDay \in Nat
    BY <2>3, ClaimsAssumption
  <2> HIDE DEF D
  <2>5. Max(D) \in D
    BY <2>4, MaxOfDays
  <2> QED
    BY <2>4, <2>5 DEF D
<1> HIDE DEF days
<1> QED
  BY <1>1, <1>2

LEMMA WriteStep ==
  ASSUME ClaimsInv, NEW w \in Workers, Write(w)
  PROVE  ClaimsInv'
<1>1. /\ jobs' = [jobs EXCEPT ![w] = Idle]
      /\ assetRow' = ProjectedRow(jobs[w])
      /\ facts' = WithBrought(jobs[w].newFacts, facts)
      /\ rowLock' = IF rowLock = w THEN NoWorker ELSE rowLock
      /\ UNCHANGED <<kind, today, covered, inputs>>
  BY DEF Write
<1>2. jobs' \in [Workers -> Jobs] /\ jobs'[w] = Idle /\ \A v \in Workers \ {w} : jobs'[v] = jobs[v]
  BY <1>1, IdleTyped DEF ClaimsInv
<1>3. rowLock' # w /\ \A v \in Workers \ {w} : rowLock' = v <=> rowLock = v
  BY <1>1, ClaimsAssumption
<1>4. ClaimsTypeOK'
  <2>1. facts' \in Facts
    <3>1. facts \in Facts
      BY DEF ClaimsInv, ClaimsTypeOK
    <3> QED
      BY <1>1, <3>1, JobIs, BroughtTyped
  <2>2. assetRow'.ports \in RowPorts /\ assetRow'.estate \in Estates /\ assetRow'.class \in Classes
    <3>1. kind \in {"address", "record", "mx"}
      BY DEF ClaimsInv, ClaimsTypeOK
    <3> QED
      BY <1>1, <3>1, JobIs, RowTyped
  <2>3. rowLock' \in Workers \cup {NoWorker}
    BY <1>1 DEF ClaimsInv, ClaimsTypeOK
  <2>4. \A v \in Workers :
          /\ jobs'[v].pc \in {"idle", "prior", "claims", "targets", "write", "cpe"}
          /\ rowLock' = v => jobs'[v].pc \notin {"idle", "cpe"}
    BY <1>2, <1>3, IdleTyped DEF ClaimsInv, ClaimsTypeOK
  <2> QED
    BY <1>1, <2>1, <2>2, <2>3, <2>4, Published, SightedTyped DEF ClaimsInv, ClaimsTypeOK
<1>5. CpeTimeless'
  <2>1. portClaims'["cpe"] = portClaims["cpe"]
    BY Published DEF Observers
  <2> QED
    BY <1>2, <2>1, IdleTyped DEF ClaimsInv, CpeTimeless
<1>6. BatchesInv'
  <2> SUFFICES ASSUME NEW v \in Workers
      PROVE  /\ Honest(jobs[v].newPorts, jobs[v].at)'
             /\ rowLock' # v => jobs'[v].newPorts = Empty
             /\ rowLock' = v /\ jobs'[v].pc \in {"targets", "write"} =>
                  \A o \in Observers \ {"cpe"} :
                    jobs'[v].ports[o] = Over(jobs'[v].newPorts, portClaims')[o]
    BY DEF BatchesInv
  <2>1. CASE v = w
    BY <1>2, <1>3, <2>1, IdleTyped, Nothing DEF Honest
  <2>2. CASE v # w /\ rowLock = w
    <3>1. jobs'[v] = jobs[v] /\ jobs[v].newPorts = Empty /\ rowLock' # v
      BY <1>2, <1>3, <2>2 DEF ClaimsInv, BatchesInv
    <3> QED
      BY <3>1, Nothing DEF Honest
  <2>3. CASE v # w /\ rowLock # w
    <3>1. jobs'[v] = jobs[v] /\ (rowLock' = v <=> rowLock = v) /\ portClaims' = portClaims
      BY <1>2, <1>3, <2>3, Published
    <3> QED
      BY <3>1 DEF ClaimsInv, BatchesInv, Honest
  <2> QED
    BY <2>1, <2>2, <2>3
<1> QED
  BY <1>2, <1>4, <1>5, <1>6 DEF ClaimsInv

\* The normaliser's write changes nobody else's claim and carries no time.
LEMMA Normalised ==
  ASSUME ClaimsInv, NEW w \in Workers, CpeWrite(w)
  PROVE  /\ portClaims' \in [Observers -> PortClaimSet]
         /\ \A o \in Observers \ {"cpe"} : portClaims'[o] = portClaims[o]
         /\ Timeless(portClaims'["cpe"])
<1> DEFINE software == {p \in DOMAIN jobs[w].prior : jobs[w].prior[p].banner}
           ports == [p \in software |-> Entry(0, FALSE, FALSE)]
           c == Claim(ports, 0)
<1>1. portClaims' = [portClaims EXCEPT !["cpe"] = c]
  BY DEF CpeWrite
<1>2. software \in SUBSET Ports
  BY JobIs, MapOf DEF RowPorts
<1>3. 0 \in 0..MaxDay
  BY ClaimsAssumption
<1> HIDE DEF software
<1>4. ports \in PortMaps(Entries) /\ \A p \in DOMAIN ports : ports[p].seen = 0
  BY <1>2, <1>3, EntryTyped, IsMap
<1> HIDE DEF ports
<1>5. c \in PortClaimSet /\ c.ports = ports
  BY <1>3, <1>4, ClaimTyped
<1>6. Timeless(c)
  BY <1>4, <1>5 DEF Timeless
<1> HIDE DEF c
<1>7. portClaims \in [Observers -> PortClaimSet] /\ "cpe" \in Observers
  BY DEF ClaimsInv, ClaimsTypeOK, Observers
<1> QED
  BY <1>1, <1>5, <1>6, <1>7

LEMMA CpeWriteStep ==
  ASSUME ClaimsInv, NEW w \in Workers, CpeWrite(w)
  PROVE  ClaimsInv'
<1>1. /\ jobs' = [jobs EXCEPT ![w] = Idle] /\ jobs[w].pc = "cpe"
      /\ UNCHANGED <<kind, today, facts, covered, assetRow, rowLock, inputs, sighted>>
  BY DEF CpeWrite
<1>2. jobs' \in [Workers -> Jobs] /\ jobs'[w] = Idle /\ \A v \in Workers \ {w} : jobs'[v] = jobs[v]
  BY <1>1, IdleTyped DEF ClaimsInv
<1>3. rowLock # w
  BY <1>1 DEF ClaimsInv, ClaimsTypeOK
<1>4. ClaimsTypeOK'
  <2>1. \A v \in Workers :
          /\ jobs'[v].pc \in {"idle", "prior", "claims", "targets", "write", "cpe"}
          /\ rowLock' = v => jobs'[v].pc \notin {"idle", "cpe"}
    BY <1>1, <1>2, <1>3, IdleTyped DEF ClaimsInv, ClaimsTypeOK
  <2> QED
    BY <1>1, <2>1, Normalised DEF ClaimsInv, ClaimsTypeOK
<1>5. CpeTimeless'
  BY <1>2, Normalised, IdleTyped DEF ClaimsInv, CpeTimeless
<1>6. BatchesInv'
  <2> SUFFICES ASSUME NEW v \in Workers
      PROVE  /\ Honest(jobs[v].newPorts, jobs[v].at)'
             /\ rowLock' # v => jobs'[v].newPorts = Empty
             /\ rowLock' = v /\ jobs'[v].pc \in {"targets", "write"} =>
                  \A o \in Observers \ {"cpe"} :
                    jobs'[v].ports[o] = Over(jobs'[v].newPorts, portClaims')[o]
    BY DEF BatchesInv
  <2>1. CASE v = w
    BY <1>1, <1>2, <1>3, <2>1, IdleTyped, Nothing DEF Honest
  <2>2. CASE v # w
    <3>1. jobs'[v] = jobs[v] /\ rowLock' = rowLock
      BY <1>1, <1>2, <2>2
    <3>2. portClaims'["naabu"] = portClaims["naabu"]
      BY Normalised DEF Observers
    <3>3. Honest(jobs[v].newPorts, jobs[v].at)'
      BY <3>1, <3>2, JobIs DEF Honest
    <3>4. \A o \in Observers \ {"cpe"} :
            Over(jobs[v].newPorts, portClaims')[o] = Over(jobs[v].newPorts, portClaims)[o]
      <4>1. portClaims \in [Observers -> PortClaimSet]
        BY DEF ClaimsInv, ClaimsTypeOK
      <4> QED
        BY <4>1, Normalised, JobIs, OverTyped
    <3> QED
      BY <3>1, <3>3, <3>4 DEF ClaimsInv, BatchesInv
  <2> QED
    BY <2>1, <2>2
<1> QED
  BY <1>2, <1>4, <1>5, <1>6 DEF ClaimsInv

LEMMA ClaimsInvInit == ClaimsInit => ClaimsInv
<1> SUFFICES ASSUME ClaimsInit PROVE ClaimsInv
  OBVIOUS
<1>1. /\ portClaims = NoClaims /\ facts = NoFacts /\ jobs = [w \in Workers |-> Idle]
      /\ rowLock = NoWorker /\ today = 1 /\ inputs = 0
      /\ assetRow = [ports |-> Empty, estate |-> "none", class |-> "unprojected"]
      /\ sighted = [p \in Ports |-> 0]
      /\ kind \in {"address", "record", "mx"} /\ covered \in BOOLEAN
  BY DEF ClaimsInit
<1>2. NoClaims \in [Observers -> PortClaimSet] /\ Timeless(NoClaims["cpe"])
  BY Nothing DEF NoClaims, Timeless, Observers
<1>3. NoFacts \in Facts
  BY ClaimsAssumption DEF NoFacts, Facts, Verdicts, Opinions
<1>4. 0 \in 0..MaxDay /\ 1 \in 1..MaxDay /\ 0 \in 0..MaxInputs
  BY ClaimsAssumption
<1>5. jobs \in [Workers -> Jobs] /\ \A w \in Workers : jobs[w] = Idle /\ rowLock # w
  BY <1>1, IdleTyped, ClaimsAssumption
<1>6. sighted \in [Ports -> 0..MaxDay]
  BY <1>1, <1>4
<1>7. assetRow.ports \in RowPorts /\ assetRow.estate \in Estates /\ assetRow.class \in Classes
  BY <1>1, Nothing DEF Estates, Classes
<1>8. ClaimsTypeOK
  BY <1>1, <1>2, <1>3, <1>4, <1>5, <1>6, <1>7, IdleTyped DEF ClaimsTypeOK
<1>9. CpeTimeless
  BY <1>1, <1>2, <1>5, IdleTyped DEF CpeTimeless
<1>10. BatchesInv
  BY <1>5, IdleTyped, Nothing DEF BatchesInv, Honest
<1> QED
  BY <1>5, <1>8, <1>9, <1>10 DEF ClaimsInv

\* Every step is a worker's or leaves the workers alone.
LEMMA Steps ==
  ASSUME ClaimsInv, [ClaimsNext]_claimVars
  PROVE  \/ \E w \in Workers :
              \/ Starts(w) \/ CpeRead(w) \/ Project(w) \/ BatchFails(w)
              \/ ReadPrior(w) \/ ReadClaims(w) \/ ReadTargets(w) \/ Write(w) \/ CpeWrite(w)
         \/ /\ UNCHANGED <<kind, portClaims, assetRow, rowLock, jobs, sighted>>
            /\ today' \in 1..MaxDay /\ inputs' \in 0..MaxInputs
            /\ facts' \in Facts /\ covered' \in BOOLEAN
<1> USE DEF ClaimsInv
<1>1. /\ today \in 1..MaxDay /\ inputs \in 0..MaxInputs /\ facts \in Facts /\ covered \in BOOLEAN
      /\ MaxDay \in Nat /\ MaxInputs \in Nat
  BY ClaimsAssumption DEF ClaimsTypeOK
<1>2. ASSUME NEW w \in Workers,
             \/ Sweep(w) \/ Probe(w) \/ Shodan(w) \/ ThirdParty(w) \/ CloudProof(w)
             \/ CpeRead(w) \/ CpeWrite(w) \/ Projects(w)
      PROVE  \/ Starts(w) \/ CpeRead(w) \/ Project(w) \/ BatchFails(w)
             \/ ReadPrior(w) \/ ReadClaims(w) \/ ReadTargets(w) \/ Write(w) \/ CpeWrite(w)
  BY <1>2, BatchesStartHonest DEF Projects
<1>3. ASSUME NEW v \in Verdicts, VerifyOwnership(v)
      PROVE  facts' \in Facts /\ inputs' \in 0..MaxInputs
               /\ UNCHANGED <<kind, today, portClaims, covered, assetRow, rowLock, jobs, sighted>>
  <2>1. [facts EXCEPT !.verdict = v] \in Facts
    BY <1>1 DEF Facts
  <2> QED
    BY <1>1, <1>3, <2>1 DEF VerifyOwnership, SingleClaim
<1>4. ASSUME NEW r \in Rungs, NEW o \in Opinions, Enrich(r, o)
      PROVE  facts' \in Facts /\ inputs' \in 0..MaxInputs
               /\ UNCHANGED <<kind, today, portClaims, covered, assetRow, rowLock, jobs, sighted>>
  <2>1. [facts EXCEPT !.rungs[r] = o] \in Facts
    BY <1>1 DEF Facts
  <2> QED
    BY <1>1, <1>4, <2>1 DEF Enrich, SingleClaim
<1>5. ASSUME TargetChange
      PROVE  covered' \in BOOLEAN /\ inputs' \in 0..MaxInputs
               /\ UNCHANGED <<kind, today, portClaims, facts, assetRow, rowLock, jobs, sighted>>
  BY <1>1, <1>5 DEF TargetChange
<1>6. ASSUME Tick
      PROVE  today' \in 1..MaxDay
               /\ UNCHANGED <<kind, portClaims, facts, covered, assetRow, rowLock, jobs, inputs, sighted>>
  BY <1>1, <1>6 DEF Tick
<1>7. CASE UNCHANGED claimVars
  BY <1>1, <1>7 DEF claimVars
<1>8. CASE PortNext
  BY <1>1, <1>2, <1>6, <1>8 DEF PortNext
<1>9. CASE FactNext
  BY <1>1, <1>2, <1>3, <1>4, <1>5, <1>6, <1>9 DEF FactNext
<1> QED
  BY <1>7, <1>8, <1>9 DEF ClaimsNext

LEMMA ClaimsInvStep == ClaimsInv /\ [ClaimsNext]_claimVars => ClaimsInv'
<1> SUFFICES ASSUME ClaimsInv, [ClaimsNext]_claimVars PROVE ClaimsInv'
  OBVIOUS
<1>1. ASSUME NEW w \in Workers,
             \/ Starts(w) \/ CpeRead(w) \/ Project(w) \/ BatchFails(w)
             \/ ReadPrior(w) \/ ReadClaims(w) \/ ReadTargets(w) \/ Write(w) \/ CpeWrite(w)
      PROVE  ClaimsInv'
  BY <1>1, StartStep, PlainStep, ReadStep, WriteStep, CpeWriteStep
<1> QED
  BY <1>1, Steps, RestStep

\* The inductive invariant: the batches that hold the row bring what Honest says,
\* and what they have read of the other observers stays true until they commit.
THEOREM ClaimsInvAlways == ClaimsSpec => []ClaimsInv
<1> QED
  BY ClaimsInvInit, ClaimsInvStep, PTL DEF ClaimsSpec

\* Every claim, row and job keeps its type, whatever the ports, the observers'
\* graces, the rungs and the workers.
THEOREM ClaimsTypesAlways == ClaimsSpec => []ClaimsTypeOK
<1>1. ClaimsInv => ClaimsTypeOK
  BY DEF ClaimsInv
<1> QED
  BY <1>1, ClaimsInvAlways, PTL

-----------------------------------------------------------------------------
(* The properties                                                            *)

\* What changes the row, and what changes the claims of ports.
LEMMA RowChange ==
  ASSUME ClaimsInv, [ClaimsNext]_claimVars, assetRow' # assetRow
  PROVE  \E w \in Workers : Write(w)
<1>1. \A w \in Workers : Starts(w) => UNCHANGED assetRow
  BY DEF Starts, StartBatch
<1>2. \A w \in Workers : CpeRead(w) \/ Project(w) \/ BatchFails(w) => UNCHANGED assetRow
  BY DEF CpeRead, Project, BatchFails
<1>3. \A w \in Workers : ReadPrior(w) \/ ReadClaims(w) \/ ReadTargets(w) => UNCHANGED assetRow
  BY DEF ReadPrior, ReadClaims, ReadTargets, Reads
<1>4. \A w \in Workers : CpeWrite(w) => UNCHANGED assetRow
  BY DEF CpeWrite
<1> QED
  BY <1>1, <1>2, <1>3, <1>4, Steps

LEMMA ClaimChange ==
  ASSUME ClaimsInv, [ClaimsNext]_claimVars, NEW o \in Observers \ {"cpe"},
         portClaims'[o] # portClaims[o]
  PROVE  \E w \in Workers : Write(w) /\ rowLock = w
<1>1. \A w \in Workers : Starts(w) => UNCHANGED portClaims
  BY DEF Starts, StartBatch
<1>2. \A w \in Workers : CpeRead(w) \/ Project(w) \/ BatchFails(w) => UNCHANGED portClaims
  BY DEF CpeRead, Project, BatchFails
<1>3. \A w \in Workers : ReadPrior(w) \/ ReadClaims(w) \/ ReadTargets(w) => UNCHANGED portClaims
  BY DEF ReadPrior, ReadClaims, ReadTargets, Reads
<1>4. \A w \in Workers : CpeWrite(w) => portClaims'[o] = portClaims[o]
  BY Normalised
<1>5. \A w \in Workers : Write(w) /\ rowLock # w => UNCHANGED portClaims
  BY Published
<1> QED
  BY <1>1, <1>2, <1>3, <1>4, <1>5, Steps

\* RowTellsOneStory for all kinds of assets, facts, workers and interleavings:
\* the estate and the class of a row were computed from one reading.
THEOREM RowsTellOneStory == ClaimsSpec => []RowTellsOneStory
<1>1. ClaimsInit => RowTellsOneStory
  BY DEF ClaimsInit, RowTellsOneStory
<1>2. ClaimsInv /\ RowTellsOneStory /\ [ClaimsNext]_claimVars => RowTellsOneStory'
  <2> SUFFICES ASSUME ClaimsInv, RowTellsOneStory, [ClaimsNext]_claimVars
      PROVE  RowTellsOneStory'
    OBVIOUS
  <2>1. kind' = kind /\ kind \in {"address", "record", "mx"}
    <3>1. ASSUME NEW w \in Workers,
                 \/ Starts(w) \/ CpeRead(w) \/ Project(w) \/ BatchFails(w) \/ ReadPrior(w)
                 \/ ReadClaims(w) \/ ReadTargets(w) \/ Write(w) \/ CpeWrite(w)
          PROVE  kind' = kind
      BY <3>1 DEF Starts, StartBatch, CpeRead, Project, BatchFails, ReadPrior, ReadClaims,
             ReadTargets, Reads, Write, CpeWrite
    <3>2. kind' = kind
      BY ONLY <3>1, Steps, ClaimsInv, [ClaimsNext]_claimVars
    <3> QED
      BY <3>2 DEF ClaimsInv, ClaimsTypeOK
  <2>2. CASE assetRow' = assetRow
    BY <2>1, <2>2 DEF RowTellsOneStory
  <2>3. CASE assetRow' # assetRow
    <3>1. PICK w \in Workers : Write(w)
      BY <2>3, RowChange
    <3>2. /\ assetRow'.estate = EstateOf(jobs[w].facts)
          /\ assetRow'.class = ClassOf(jobs[w].facts, jobs[w].covered)
      BY <2>1, <3>1, JobIs, RowTyped DEF Write
    <3> QED
      BY <2>1, <3>2, JobIs, RowStory DEF RowTellsOneStory
  <2> QED
    BY <2>2, <2>3
<1> QED
  BY <1>1, <1>2, ClaimsInvAlways, PTL DEF ClaimsSpec

\* PartialSweepKeeps for any number of batches and unlocked projections: what
\* an incomplete sweep merged its ports into is what the table still holds.
THEOREM PartialSweepsKeep == ClaimsSpec => PartialSweepKeeps
<1> DEFINE Keeps ==
      \A p \in DOMAIN portClaims["naabu"].ports :
        p \in DOMAIN portClaims'["naabu"].ports \/ portClaims'["naabu"].swept > 0
<1>1. ClaimsInv /\ [ClaimsNext]_claimVars => Keeps
  <2> SUFFICES ASSUME ClaimsInv, [ClaimsNext]_claimVars PROVE Keeps
    OBVIOUS
  <2>1. CASE portClaims'["naabu"] = portClaims["naabu"]
    BY <2>1
  <2>2. CASE portClaims'["naabu"] # portClaims["naabu"]
    <3>1. "naabu" \in Observers \ {"cpe"}
      BY DEF Observers
    <3>2. PICK w \in Workers : Write(w) /\ rowLock = w
      BY <2>2, <3>1, ClaimChange
    <3>3. /\ "naabu" \in DOMAIN jobs[w].newPorts
          /\ portClaims'["naabu"] = jobs[w].newPorts["naabu"]
      BY <2>2, <3>1, <3>2, Published
    <3>4. Honest(jobs[w].newPorts, jobs[w].at)
      BY JobIs
    <3> QED
      BY <3>3, <3>4 DEF Honest
  <2> QED
    BY <2>1, <2>2
<1>2. ClaimsInv /\ [ClaimsNext]_claimVars => [Keeps]_claimVars
  BY <1>1
<1> QED
  BY <1>2, ClaimsInvAlways, PTL DEF ClaimsSpec, PartialSweepKeeps

\* FoundPortsShown for any graces and workers: a sweep is not older than its own
\* ports, and a probe's confirmation is within the grace of its own day.
THEOREM FoundPortsAreShown == ClaimsSpec => FoundPortsShown
<1> DEFINE Shown ==
      \A o \in {"naabu", "probe"} :
        portClaims'[o] # portClaims[o] =>
          DOMAIN portClaims'[o].ports \subseteq DOMAIN assetRow'.ports
<1>1. ClaimsInv /\ [ClaimsNext]_claimVars => Shown
  <2> SUFFICES ASSUME ClaimsInv, [ClaimsNext]_claimVars,
                      NEW o \in {"naabu", "probe"}, portClaims'[o] # portClaims[o],
                      NEW p \in DOMAIN portClaims'[o].ports
      PROVE  p \in DOMAIN assetRow'.ports
    OBVIOUS
  <2>1. o \in Observers \ {"cpe"}
    BY DEF Observers
  <2>2. PICK w \in Workers : Write(w) /\ rowLock = w
    BY <2>1, ClaimChange
  <2> DEFINE j == jobs[w]
             c == j.newPorts[o]
             e == FoldedPort(j.ports, p)
  <2>3. o \in DOMAIN j.newPorts /\ portClaims'[o] = c /\ j.ports[o] = c
    BY <2>1, <2>2, Published
  <2>4. /\ j \in Jobs /\ j.ports \in [Observers -> PortClaimSet] /\ j.prior \in RowPorts
        /\ Honest(j.newPorts, j.at) /\ j.at \in 0..MaxDay
    BY JobIs
  <2>5. p \in ClaimedPorts(j.ports)
    BY <2>1, <2>3 DEF ClaimedPorts
  <2>6. /\ e \in RowEntries /\ e.seen >= c.ports[p].seen
        /\ c.ports[p].l7 => e.l7
    BY <2>1, <2>3, <2>4, <2>5, FoldedTyped
  <2>7. c.ports[p] \in Entries /\ c.swept \in 0..MaxDay
    BY <2>1, <2>3, <2>4, ClaimFields, MapOf
  <2>8. assetRow'.ports = ProjectedPorts(j.ports, j.prior, j.at)
    <3>1. kind \in {"address", "record", "mx"}
      BY DEF ClaimsInv, ClaimsTypeOK
    <3> QED
      BY <2>2, <2>4, <3>1, RowTyped DEF Write
  <2>9. j.ports["naabu"].swept = 0 \/ Kept(e, j.ports["naabu"].swept, j.at)
    <3>1. CASE o = "naabu"
      <4>1. c.swept > 0 => c.ports[p].seen >= c.swept
        BY <2>3, <2>4, <3>1 DEF Honest
      <4>2. c.swept > 0 => e.seen >= c.swept
        BY <2>6, <2>7, <4>1 DEF Entries, RowEntries
      <4> QED
        BY <2>3, <2>7, <3>1, <4>2 DEF Kept
    <3>2. CASE o = "probe"
      <4>1. c.ports[p].l7 /\ c.ports[p].seen + 1 >= j.at
        BY <2>3, <2>4, <3>2 DEF Honest
      <4>2. e.l7 /\ e.seen + ConfirmedGrace >= j.at
        BY <2>4, <2>6, <2>7, <4>1, ClaimsAssumption DEF Entries, RowEntries
      <4> QED
        BY <4>2 DEF Kept
    <3> QED
      BY <3>1, <3>2
  <2> DEFINE all == WithCarried(j.ports, j.prior)
  <2>10. p \in DOMAIN all /\ all[p] = e
    BY <2>4, <2>5, CarriedTyped, ZenonT(30)
  <2>11. p \in DOMAIN ProjectedPorts(j.ports, j.prior, j.at)
    <3> HIDE DEF j, e
    <3> QED
      BY <2>4, <2>9, <2>10, ProjectedTyped
  <2> QED
    BY <2>8, <2>11
<1>2. ClaimsInv /\ [ClaimsNext]_claimVars => [Shown]_claimVars
  BY <1>1
<1> QED
  BY <1>2, ClaimsInvAlways, PTL DEF ClaimsSpec, FoundPortsShown

\* ConfirmedSurvivesMiss for any graces and workers, although the normaliser
\* writes its claim between a batch's reads and its commit: an entry that only
\* the normaliser listed has no time to be judged by.
THEOREM ConfirmedSurvives == ClaimsSpec => ConfirmedSurvivesMiss
<1> DEFINE Survives ==
      \A w \in Workers, p \in DOMAIN assetRow.ports :
        ( /\ rowLock = w /\ rowLock' = NoWorker /\ assetRow' # assetRow
          /\ jobs[w].prior = assetRow.ports
          /\ assetRow.ports[p].l7 /\ assetRow.ports[p].seen + ConfirmedGrace >= jobs[w].at
          /\ p \notin ClaimedPorts(portClaims') )
        => p \in DOMAIN assetRow'.ports
<1>1. ClaimsInv /\ [ClaimsNext]_claimVars => Survives
  <2> SUFFICES ASSUME ClaimsInv, [ClaimsNext]_claimVars,
                      NEW w \in Workers, NEW p \in DOMAIN assetRow.ports,
                      rowLock = w, rowLock' = NoWorker, assetRow' # assetRow,
                      jobs[w].prior = assetRow.ports,
                      assetRow.ports[p].l7,
                      assetRow.ports[p].seen + ConfirmedGrace >= jobs[w].at,
                      p \notin ClaimedPorts(portClaims')
      PROVE  p \in DOMAIN assetRow'.ports
    OBVIOUS
  <2>1. Write(w)
    <3>1. PICK v \in Workers : Write(v)
      BY RowChange
    <3>2. v = w
      BY <3>1, ClaimsAssumption DEF Write
    <3> QED
      BY <3>1, <3>2
  <2> DEFINE j == jobs[w]
             all == WithCarried(j.ports, j.prior)
             cutoff == j.ports["naabu"].swept
  <2>2. /\ j \in Jobs /\ j.ports \in [Observers -> PortClaimSet] /\ j.prior \in RowPorts
        /\ Timeless(j.ports["cpe"])
    BY JobIs
  <2>3. \A o \in Observers \ {"cpe"} : p \notin DOMAIN j.ports[o].ports
    BY <2>1, Published DEF ClaimedPorts
  <2>4. p \in DOMAIN all
    <3>1. p \in DOMAIN j.prior
      OBVIOUS
    <3>2. DOMAIN all = ClaimedPorts(j.ports) \cup DOMAIN j.prior
      BY ONLY <2>2, CarriedTyped
    <3> HIDE DEF j, all
    <3> QED
      BY ONLY <3>1, <3>2
  <2>5. Kept(all[p], cutoff, j.at)
    <3>1. CASE p \in ClaimedPorts(j.ports)
      <4>1. PICK o \in Observers : /\ p \in DOMAIN j.ports[o].ports
                                   /\ FoldedPort(j.ports, p).seen = j.ports[o].ports[p].seen
        BY <2>2, <3>1, FoldedTyped
      <4>2. o = "cpe"
        BY <2>3, <4>1
      <4>3. FoldedPort(j.ports, p).seen = 0
        BY <2>2, <4>1, <4>2 DEF Timeless
      <4>4. all[p] = FoldedPort(j.ports, p)
        BY <2>2, <3>1, CarriedTyped
      <4> QED
        BY <4>3, <4>4 DEF Kept
    <3>2. CASE p \notin ClaimedPorts(j.ports)
      <4>1. p \in DOMAIN j.prior \ ClaimedPorts(j.ports) /\ j.prior[p] = assetRow.ports[p]
        BY <3>2
      <4>2. all[p] = j.prior[p]
        BY ONLY <2>2, <4>1, CarriedTyped
      <4> QED
        BY <4>1, <4>2 DEF Kept
    <3> QED
      BY <3>1, <3>2
  <2>6. assetRow'.ports = ProjectedPorts(j.ports, j.prior, j.at)
    <3>1. kind \in {"address", "record", "mx"}
      BY DEF ClaimsInv, ClaimsTypeOK
    <3> QED
      BY <2>1, <2>2, <3>1, RowTyped DEF Write
  <2> HIDE DEF j
  <2> QED
    BY <2>2, <2>4, <2>5, <2>6, ProjectedTyped
<1>2. ClaimsInv /\ [ClaimsNext]_claimVars => [Survives]_claimVars
  BY <1>1
<1> QED
  BY <1>2, ClaimsInvAlways, PTL DEF ClaimsSpec, ConfirmedSurvivesMiss
===============================================================================
