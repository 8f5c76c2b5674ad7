--------------------------- MODULE ScopeCandidates ---------------------------
(***************************************************************************)
(* Scope candidates (services/org_discovery/candidates.py, strength.py,    *)
(* connector_zones.py): signals propose a domain as an organization's, a   *)
(* person claims or rejects it, a connector account claims its own zones.  *)
(* A claim puts the domain's target where the organization's domains go.   *)
(***************************************************************************)
EXTENDS Organizations

CONSTANTS
  Candidates,    \* rows of scope_candidates, in use or not
  RootOf,        \* the organization a candidate is proposed for
  ValueOf,       \* its domain
  ConnectorRoots \* the organizations connector accounts are bound to

ASSUME CandidatesAssumption ==
  /\ RootOf \in [Candidates -> Entities]
  /\ ValueOf \in [Candidates -> Values]
  /\ ConnectorRoots \subseteq Entities

VARIABLES
  candidate,     \* status, the strong types weighed at a rejection, claim data
  signals,       \* committed scope_signals: candidate and type
  everRejected   \* candidates with a "rejected" event

candVars == <<candidate, signals, everRejected>>
scopeVars == <<orgVars, candVars>>

Absent == [status |-> "absent"]
Opened == [status |-> "open"]

\* SIGNALS: two strong types, and supporting ones by family.
StrongTypes == {"person_evidence", "connector_zone"}
FamilyOf == [mx_into_claimed |-> "mail", reverse_ip_dedicated |-> "hosting"]
SupportingTypes == DOMAIN FamilyOf

TypesOf(c) == {s.type : s \in {x \in signals : x.cand = c}}
StrongOf(c) == TypesOf(c) \cap StrongTypes
FamiliesOf(c) == {FamilyOf[t] : t \in TypesOf(c) \cap SupportingTypes}
Proposable(c) == StrongOf(c) # {} \/ Cardinality(FamiliesOf(c)) >= 2

\* record_signal with _maybe_unlock: a new strong signal of a type not weighed
\* at the rejection reopens a rejected candidate.
\* broken variant: only a person's evidence reopens
UnlocksForPersons(c, t) == t \in {"person_evidence"} \ (candidate[c].weighed \cup TypesOf(c))
Unlocks(c, t) == t \in StrongTypes \ (candidate[c].weighed \cup TypesOf(c))
\* broken variant: a status of its own for a reopened row
RecordedOffEnum(c, t) ==
  IF candidate[c].status = "absent" THEN Opened
  ELSE IF candidate[c].status = "rejected" /\ Unlocks(c, t) THEN [status |-> "reopened"]
  ELSE candidate[c]
Recorded(c, t) ==
  IF candidate[c].status = "absent" \/ (candidate[c].status = "rejected" /\ Unlocks(c, t))
    THEN Opened ELSE candidate[c]
Signal(c, t) == [cand |-> c, type |-> t]

InTree(c, via) == RootOf[c] \in Stops(via)

\* add_by_person, and what the generators and verifiers find: proposed for the
\* organization the named company falls under.
RecordSignal(d, c, t) ==
  /\ Start(d) /\ Free({Row(c)}, d)
  /\ InTree(c, RootOf[c])
  /\ candidate' = [candidate EXCEPT ![c] = Recorded(c, t)]
  /\ signals' = signals \cup {Signal(c, t)}
  /\ UNCHANGED <<relationship, engagement, target, request, everRejected>>

\* reject: under the candidate's lock.
Reject(d, c) ==
  /\ Start(d) /\ Free({Row(c)}, d)
  /\ candidate[c].status = "open"
  /\ candidate' = [candidate EXCEPT ![c] = [status |-> "rejected", weighed |-> StrongOf(c)]]
  /\ everRejected' = everRejected \cup {c}
  /\ UNCHANGED <<relationship, engagement, target, request, signals>>

-----------------------------------------------------------------------------
(* claim                                                                    *)

Walk(e) == <<Visited(e), [x \in Stops(e) |-> relationship[x]]>>

\* Every entity the walk met, the root, and its live engagements.
\* broken variant: the live engagements are not locked
ClaimRowsOfTree(c, visited) == {Row(x) : x \in visited \cup {RootOf[c]}}
ClaimRows(c, visited) ==
  {Row(x) : x \in visited \cup {RootOf[c]}} \cup UNION {ForUpdate(g) : g \in Live(RootOf[c])}

\* The candidate is locked and weighed, and the family tree above the chosen
\* company read.
ClaimRead(d, c, e) ==
  /\ Start(d) /\ Free({Row(c)}, d)
  /\ candidate[c].status = "open" /\ Proposable(c)
  /\ Goto(d, [op |-> "claim", at |-> "read", row |-> c, to |-> e,
              seen |-> Walk(e), locks |-> {Row(c)},
              wants |-> ClaimRows(c, Visited(e))])
  /\ UNCHANGED <<relationship, engagement, target, candVars>>

Destinations(e) ==
  CASE relationship[e] = "ours" -> {"estate"}
    [] relationship[e] = "ma_target" -> {g \in Live(e) : Live(e) = {g}}
    [] OTHER -> {}

\* Those rows are locked, then the walk is repeated and must find what it found
\* before.
ClaimLock(d) ==
  LET r == request[d]
      root == RootOf[r.row]
      rows == ClaimRows(r.row, r.seen[1])
  IN  /\ r.op = "claim" /\ r.at = "read" /\ Free(rows, d)
      /\ IF Destinations(root) # {} /\ r.seen = Walk(r.to) /\ root \in Stops(r.to)
           THEN \E at \in Destinations(root) :
                  Goto(d, [op |-> "claim", at |-> "locked", row |-> r.row, to |-> r.to, dest |-> at,
                           locks |-> (r.locks \cup rows) \ {KeyShare(g) : g \in Engagements},
                           wants |-> {Row(ValueOf[r.row])}])
           ELSE Done(d)
      /\ UNCHANGED <<relationship, engagement, target, calls, candVars>>

\* _attach_or_create_target: an existing target is taken only where it is and
\* for the entity it has; otherwise the claim is rolled back.
Attachable(v, at, e) ==
  \/ target[v].at = "none"
  \/ target[v].at = at /\ target[v].entity \in {NoEntity, e}

Claim(c, at, e, by) ==
  /\ target' = [target EXCEPT ![ValueOf[c]] = [at |-> at, entity |-> e]]
  /\ candidate' = [candidate EXCEPT ![c] = [status |-> "claimed", into |-> at, by |-> by]]

ClaimCommit(d) ==
  LET r == request[d]
  IN  /\ r.op = "claim" /\ r.at = "locked" /\ Free(r.wants, d)
      /\ Done(d)
      /\ IF Attachable(ValueOf[r.row], r.dest, r.to)
           THEN Claim(r.row, r.dest, r.to, "person")
           ELSE UNCHANGED <<target, candidate>>
      /\ UNCHANGED <<relationship, engagement, calls, signals, everRejected>>

-----------------------------------------------------------------------------
(* process_zone: an active zone of a connector account                      *)

\* instance_scope_key, deal_engagement: unlocked reads.
Clashes(c) ==
  LET t == target[ValueOf[c]]
  IN  \/ \E o \in Candidates \ {c} :
           /\ ValueOf[o] = ValueOf[c] /\ RootOf[o] # RootOf[c] /\ candidate[o].status = "claimed"
      \/ /\ t.at # "none"
         /\ \/ t.entity # NoEntity /\ t.entity # RootOf[c] /\ RootOf[c] \notin Stops(t.entity)
            \/ t.at \notin Destinations(RootOf[c])

\* The sync asks before each zone whether the account's deal is closed.
BindingAllowed(e) ==
  /\ Destinations(e) # {}
  /\ relationship[e] = "ma_target" => \A g \in Live(e) : engagement[g].posture \notin Restricting

\* A rejection outranks the connector: the signal is recorded and nothing else.
ZoneRejected(d, c) ==
  /\ Start(d) /\ Free({Row(c)}, d)
  /\ RootOf[c] \in ConnectorRoots /\ BindingAllowed(RootOf[c]) /\ ~Clashes(c)
  /\ c \in everRejected
  /\ candidate' = [candidate EXCEPT ![c] = Recorded(c, "connector_zone")]
  /\ signals' = signals \cup {Signal(c, "connector_zone")}
  /\ UNCHANGED <<relationship, engagement, target, request, everRejected>>

\* Otherwise the evidence is committed, and with it every lock is gone.
ZoneCheck(d, c) ==
  /\ Start(d)
  /\ RootOf[c] \in ConnectorRoots /\ BindingAllowed(RootOf[c]) /\ ~Clashes(c)
  /\ c \notin everRejected
  /\ Goto(d, [op |-> "zone", at |-> "checked", row |-> c, locks |-> {}, wants |-> {Row(ValueOf[c])}])
  /\ UNCHANGED <<relationship, engagement, target, candVars>>

\* The target is locked and checked again, then verified or created where the
\* organization's domains go.
ZoneTarget(d) ==
  LET r == request[d]
      v == ValueOf[r.row]
  IN  /\ r.op = "zone" /\ r.at = "checked" /\ Free(r.wants, d)
      /\ IF Clashes(r.row) \/ Destinations(RootOf[r.row]) = {}
           THEN Done(d)
           ELSE \E at \in Destinations(RootOf[r.row]) :
                  /\ target[v].at = "none" /\ at \in Engagements => Free({Key(at)}, d)
                  /\ Goto(d, [op |-> "zone", at |-> "verified", row |-> r.row, dest |-> at,
                              locks |-> {Row(v)} \cup IF target[v].at = "none" THEN {KeyShare(at)} ELSE {},
                              wants |-> {Row(r.row)}])
      /\ UNCHANGED <<relationship, engagement, target, calls, candVars>>

\* The signal, and the claim of a candidate that is open after it.  A rejected
\* one rolls the zone back.
ZoneClaim(d) ==
  LET r == request[d]
      after == Recorded(r.row, "connector_zone")
  IN  /\ r.op = "zone" /\ r.at = "verified" /\ Free(r.wants, d)
      /\ IF /\ InTree(r.row, RootOf[r.row])
            /\ after.status # "rejected"
            /\ after.status = "open" => Destinations(RootOf[r.row]) = {r.dest}
           THEN Goto(d, [op |-> "zone", at |-> "claimed", row |-> r.row, dest |-> r.dest,
                         claims |-> after.status = "open", locks |-> r.locks \cup r.wants, wants |-> {}])
           ELSE Done(d)
      /\ UNCHANGED <<relationship, engagement, target, calls, candVars>>

ZoneCommit(d) ==
  LET r == request[d]
      v == ValueOf[r.row]
      e == IF target[v].entity = NoEntity THEN RootOf[r.row] ELSE target[v].entity
  IN  /\ r.op = "zone" /\ r.at = "claimed"
      /\ Done(d)
      /\ signals' = signals \cup {Signal(r.row, "connector_zone")}
      /\ IF r.claims
           THEN Claim(r.row, r.dest, e, "connector")
           ELSE /\ target' = [target EXCEPT ![v] = [at |-> r.dest, entity |-> e]]
                /\ UNCHANGED candidate
      /\ UNCHANGED <<relationship, engagement, calls, everRejected>>

CandStep(d) ==
  \/ \E c \in Candidates, t \in {"person_evidence"} \cup SupportingTypes : RecordSignal(d, c, t)
  \/ \E c \in Candidates : Reject(d, c) \/ ZoneRejected(d, c) \/ ZoneCheck(d, c)
  \/ \E c \in Candidates, e \in Entities : ClaimRead(d, c, e)
  \/ ClaimLock(d) \/ ClaimCommit(d)
  \/ ZoneTarget(d) \/ ZoneClaim(d) \/ ZoneCommit(d)

\* A database as earlier requests may have left it: candidates not yet seen,
\* open, or rejected once.
InitialTypes == {{}, {"person_evidence"}, {"mx_into_claimed"}}
ScopeInit ==
  /\ OrgInit
  /\ \E types \in [Candidates -> InitialTypes], rejected \in SUBSET Candidates :
       /\ \A c \in rejected : types[c] = {"person_evidence"}
       /\ signals = UNION {{Signal(c, t) : t \in types[c]} : c \in Candidates}
       /\ candidate = [c \in Candidates |->
            IF types[c] = {} THEN Absent
            ELSE IF c \in rejected THEN [status |-> "rejected", weighed |-> types[c] \cap StrongTypes]
            ELSE Opened]
       /\ everRejected = rejected

ScopeNext == \E d \in Desks : (OrgStep(d) /\ UNCHANGED candVars) \/ CandStep(d)

ScopeSpec == ScopeInit /\ [][ScopeNext]_scopeVars

-----------------------------------------------------------------------------
(* Properties                                                               *)

\* The columns of targets, engagements and candidates hold what the database
\* allows; a claimed candidate names where it went.
ScopeTypeOK ==
  /\ OrgTypeOK
  /\ DOMAIN candidate = Candidates
  /\ \A c \in Candidates :
       \/ candidate[c] \in {Absent, Opened}
       \/ candidate[c] \in [status : {"rejected"}, weighed : SUBSET StrongTypes]
       \/ candidate[c] \in [status : {"claimed"}, into : Engagements \cup {"estate"},
                            by : {"person", "connector"}]
  /\ signals \subseteq [cand : Candidates, type : StrongTypes \cup SupportingTypes]
  /\ everRejected \subseteq Candidates

\* Strong evidence is never buried under a rejection: what is recorded of a
\* rejected candidate was weighed when it was rejected.
RejectedWeighedAll ==
  \A c \in Candidates : candidate[c].status = "rejected" => StrongOf(c) \subseteq candidate[c].weighed

ClaimedBy(who, c) ==
  candidate[c].status # "claimed" /\ candidate'[c].status = "claimed" /\ candidate'[c].by = who

\* The estate for our own company, a live engagement for an M&A target.
Homes(e) ==
  CASE relationship[e] = "ours" -> {"estate"}
    [] relationship[e] = "ma_target" -> Live(e)
    [] OTHER -> {}

\* A person's claim takes an open candidate and lands, at the moment of the
\* commit, in the estate of a company that is ours or in a live engagement of an
\* M&A target, although relationships, postures and the family tree may change
\* between the request's reads and its commit; and no claim, of a person or a
\* connector, moves a target that exists or takes it from the entity it has.
\* (That the engagement is still the only live one is not promised: a transition
\* that was loaded before its engagement was abandoned revives it without a lock
\* that the claim holds.)
ClaimLandsRight ==
  [][ /\ \A c \in Candidates : ClaimedBy("person", c) =>
           candidate[c].status = "open" /\ candidate'[c].into \in Homes(RootOf[c])
      /\ candidate' # candidate \/ signals' # signals =>
           \A v \in Values : target[v] # NoTarget =>
             /\ target'[v].at = target[v].at
             /\ target[v].entity # NoEntity => target'[v].entity = target[v].entity
    ]_scopeVars

\* Violated: "A person's rejection outranks the connector"
\* (services/org_discovery/connector_zones.py:14-16).
RejectionOutranksConnector ==
  [][\A c \in Candidates : ClaimedBy("connector", c) => c \notin everRejected]_candidate
=============================================================================
