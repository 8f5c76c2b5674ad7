---------------------------- MODULE Organizations ----------------------------
(***************************************************************************)
(* What an organization is to us (services/entity_relationship.py) and the *)
(* engagements that say what may be done to it (api/engagements.py), as    *)
(* concurrent API requests over one READ COMMITTED database.               *)
(*                                                                         *)
(* A request that reads only rows it holds locks on is one step.  The      *)
(* others are cut where another request's commit can fall between what     *)
(* they read and what they write.                                          *)
(***************************************************************************)
EXTENDS Naturals, FiniteSets

CONSTANTS
  Entities,      \* rows of org_entities
  Engagements,   \* ids of engagements, in use or not
  Values,        \* domains that can be targets
  Desks,         \* API requests that can be under way at a time
  Parents,       \* the confirmed family tree: an entity's direct parents
  NoEntity,
  MaxCalls       \* bound: requests in a behaviour

ASSUME OrganizationsAssumption ==
  /\ Parents \in [Entities -> SUBSET Entities]
  /\ NoEntity \notin Entities
  /\ Engagements \cap {"none", "estate"} = {}  \* ids are no words
  /\ MaxCalls \in Nat

VARIABLES
  relationship,  \* org_entities.relationship
  engagement,    \* posture and subject; posture "none": no row
  target,        \* where a target lives and whose it is; at "none": no row
  request,       \* what each request has read and locked so far
  calls          \* requests started: history

orgVars == <<relationship, engagement, target, request, calls>>

Restricting == {"pre_close", "abandoned"}
Postures == Restricting \cup {"day_0", "integrated"}
Relationships == {"unset", "ours", "ma_target"}
Idle == [op |-> "idle", locks |-> {}, wants |-> {}]

NoTarget == [at |-> "none", entity |-> NoEntity]

Exists(g) == engagement[g].posture # "none"
EngagementsOf(e) == {g \in Engagements : Exists(g) /\ engagement[g].subject = e}
Live(e) == {g \in EngagementsOf(e) : engagement[g].posture # "abandoned"}
Members(g) == {v \in Values : target[v].at = g}

\* resolve: up the confirmed tree, each path stopping at the nearest entity
\* that has a relationship.
Visited(e) ==
  LET level[n \in 0..Cardinality(Entities)] ==
        IF n = 0 THEN {e}
        ELSE UNION {Parents[x] : x \in {y \in level[n - 1] : relationship[y] = "unset"}}
  IN  UNION {level[n] : n \in DOMAIN level}
Stops(e) == {x \in Visited(e) : relationship[x] # "unset"}

\* Row locks are held from the statement that takes them to the commit.  A new
\* member only shares the key of its engagement's row, which an update of the
\* posture or the subject leaves alone; a delete and FOR UPDATE take it all.
Row(x) == <<"row", x>>
Key(g) == <<"key", g>>
KeyShare(g) == <<"key share", g>>
ForUpdate(g) == {Row(g), Key(g), KeyShare(g)}
Free(rows, d) == \A o \in Desks \ {d} : request[o].locks \cap rows = {}
Start(d) == request[d] = Idle /\ calls < MaxCalls /\ calls' = calls + 1
Goto(d, r) == request' = [request EXCEPT ![d] = r]
Done(d) == Goto(d, Idle)

-----------------------------------------------------------------------------
(* Requests that decide under the entity's lock                             *)

SetOurs(d, e) ==
  /\ Start(d) /\ Free({Row(e)}, d)
  /\ EngagementsOf(e) = {}
  /\ relationship' = [relationship EXCEPT ![e] = "ours"]
  /\ UNCHANGED <<engagement, target, request>>

\* An existing engagement of this entity or of none, or a new one.
SetMaTarget(d, e, g) ==
  /\ Start(d) /\ Free({Row(e)} \cup ForUpdate(g), d)
  /\ IF Exists(g)
       THEN /\ engagement[g].posture # "abandoned"
            /\ engagement[g].subject \in {NoEntity, e}
            /\ engagement' = [engagement EXCEPT ![g].subject = e]
       ELSE engagement' = [engagement EXCEPT ![g] = [posture |-> "pre_close", subject |-> e]]
  /\ relationship' = [relationship EXCEPT ![e] = "ma_target"]
  /\ UNCHANGED <<target, request>>

Clear(d, e) ==
  /\ Start(d) /\ Free({Row(e)}, d)
  /\ EngagementsOf(e) = {}
  /\ relationship' = [relationship EXCEPT ![e] = "unset"]
  /\ UNCHANGED <<engagement, target, request>>

CreateEngagement(d, g) ==
  /\ Start(d) /\ ~Exists(g)
  /\ engagement' = [engagement EXCEPT ![g] = [posture |-> "pre_close", subject |-> NoEntity]]
  /\ UNCHANGED <<relationship, target, request>>

-----------------------------------------------------------------------------
(* transition_engagement: the posture is read without a lock                *)

TransitionKind(from, to) ==
  CASE from = to -> "noop"
    [] from = "abandoned" -> "deny"
    [] <<from, to>> \in {<<"pre_close", "integrated">>, <<"integrated", "day_0">>} -> "deny"
    [] <<from, to>> = <<"pre_close", "day_0">> -> "needs_ref"
    [] <<from, to>> = <<"day_0", "integrated">> -> "ok_keep"
    [] OTHER -> "ok_clear"

TransitionLoad(d, g, to) ==
  /\ Start(d) /\ Exists(g)
  /\ TransitionKind(engagement[g].posture, to) \notin {"deny", "noop"}
  /\ Goto(d, [op |-> "transition", at |-> "loaded", row |-> g, to |-> to,
              seen |-> engagement[g].posture, locks |-> {}, wants |-> {Row(g)}])
  /\ UNCHANGED <<relationship, engagement, target>>

\* ck_engagements_authorisation_matches_posture: the authorisation columns are
\* set exactly in the widened postures.  A transition that keeps them, or clears
\* them when it read none, writes no column, so its commit needs a row that has
\* them already as the new posture wants them.
LeavesColumns(seen, to) ==
  LET kind == TransitionKind(seen, to)
  IN  kind = "ok_keep" \/ (kind = "ok_clear" /\ seen \in Restricting)
\* broken variant: no constraint
AuthorisationAny(seen, to, posture) == TRUE
AuthorisationMatches(seen, to, posture) ==
  LeavesColumns(seen, to) => (posture \in Restricting <=> to \in Restricting)

TransitionCommit(d) ==
  LET r == request[d]
      g == r.row
  IN  /\ r.op = "transition" /\ Free(r.wants, d)
      /\ Done(d)
      /\ IF Exists(g) /\ AuthorisationMatches(r.seen, r.to, engagement[g].posture)
           THEN engagement' = [engagement EXCEPT ![g].posture = r.to]
           ELSE UNCHANGED engagement
      /\ UNCHANGED <<relationship, target, calls>>

-----------------------------------------------------------------------------
(* patch_engagement and delete_engagement keep relationship in step through *)
(* on_subject_changed, which reads the entity that lost its engagement, and  *)
(* counts its engagements, without that entity's lock                       *)

\* The engagement is loaded, the new subject locked, the engagement flushed,
\* the old subject read.  A subject that is the loaded one again is no write.
\* broken variant: the new subject is not locked
SubjectUnlocked(g, e) == IF engagement[g].subject = e THEN {} ELSE {Row(g)}
SubjectLocks(g, e) == {Row(e)} \cup IF engagement[g].subject = e THEN {} ELSE {Row(g)}

PatchLoad(d, g, e) ==
  /\ Start(d) /\ Exists(g)
  /\ Goto(d, [op |-> "patch", at |-> "loaded", row |-> g, to |-> e,
              seen |-> engagement[g].subject, locks |-> {}, wants |-> SubjectLocks(g, e)])
  /\ UNCHANGED <<relationship, engagement, target>>

Orphaned(e, g) ==
  e # NoEntity /\ relationship[e] = "ma_target" /\ EngagementsOf(e) \ {g} = {}

PatchFlush(d) ==
  LET r == request[d]
      reset == r.seen # r.to /\ Orphaned(r.seen, r.row)
  IN  /\ r.op = "patch" /\ r.at = "loaded" /\ Free(r.wants, d)
      /\ IF relationship[r.to] = "ours" \/ (~Exists(r.row) /\ r.seen # r.to)
           THEN Done(d)
           ELSE Goto(d, [op |-> "patch", at |-> "flushed", row |-> r.row, to |-> r.to,
                         seen |-> r.seen, reset |-> reset, locks |-> r.wants,
                         wants |-> IF reset THEN {Row(r.seen)} ELSE {}])
      /\ UNCHANGED <<relationship, engagement, target, calls>>

PatchCommit(d) ==
  LET r == request[d]
      added == IF relationship[r.to] = "unset"
                 THEN [relationship EXCEPT ![r.to] = "ma_target"] ELSE relationship
  IN  /\ r.op = "patch" /\ r.at = "flushed"
      /\ Free(r.wants, d)
      /\ Done(d)
      /\ engagement' = IF r.seen = r.to THEN engagement
                       ELSE [engagement EXCEPT ![r.row].subject = r.to]
      /\ relationship' = IF r.reset THEN [added EXCEPT ![r.seen] = "unset"] ELSE added
      /\ UNCHANGED <<target, calls>>

DeleteLoad(d, g) ==
  /\ Start(d) /\ Exists(g) /\ Members(g) = {}
  /\ Goto(d, [op |-> "delete", at |-> "loaded", row |-> g,
              seen |-> engagement[g].subject, locks |-> {}, wants |-> ForUpdate(g)])
  /\ UNCHANGED <<relationship, engagement, target>>

\* fk targets.engagement_id ON DELETE RESTRICT: a member that appeared since
\* fails the statement.
\* broken variant: no ON DELETE RESTRICT
RestrictsNothing(g) == FALSE
Restricts(g) == Members(g) # {}

DeleteFlush(d) ==
  LET r == request[d]
      reset == Orphaned(r.seen, r.row)
  IN  /\ r.op = "delete" /\ r.at = "loaded" /\ Free(r.wants, d)
      /\ IF Restricts(r.row)
           THEN Done(d)
           ELSE Goto(d, [op |-> "delete", at |-> "flushed", row |-> r.row, seen |-> r.seen,
                         reset |-> reset, locks |-> r.wants \ {KeyShare(r.row)},
                         wants |-> IF reset THEN {Row(r.seen)} ELSE {}])
      /\ UNCHANGED <<relationship, engagement, target, calls>>

DeleteCommit(d) ==
  LET r == request[d]
  IN  /\ r.op = "delete" /\ r.at = "flushed"
      /\ Free(r.wants, d)
      /\ Done(d)
      /\ engagement' = [engagement EXCEPT ![r.row] = [posture |-> "none", subject |-> NoEntity]]
      /\ relationship' = IF r.reset THEN [relationship EXCEPT ![r.seen] = "unset"] ELSE relationship
      /\ UNCHANGED <<target, calls>>

\* Two requests that wait for each other's rows (the rows of one statement
\* are locked one by one): the database aborts one.
DeadlockVictim(d) ==
  /\ \E o \in Desks \ {d} :
       /\ request[d].wants \cap request[o].locks # {} \/ request[o].wants \cap request[d].locks # {}
       /\ request[d].wants \cap (request[o].locks \cup request[o].wants) # {}
       /\ request[o].wants \cap (request[d].locks \cup request[d].wants) # {}
  /\ Done(d)
  /\ UNCHANGED <<relationship, engagement, target, calls>>

-----------------------------------------------------------------------------
(* patch_target, the engagement half: a person moves a target.  The posture *)
(* is read without a lock; the foreign key holds the engagement's row.       *)
MoveTarget(d, v, to) ==
  /\ Start(d) /\ target[v].at # "none" /\ Free({Row(v)} \cup IF to = "estate" THEN {} ELSE {Key(to)}, d)
  /\ to \in Engagements => Exists(to) /\ engagement[to].posture # "abandoned"
  /\ target' = [target EXCEPT ![v].at = to]
  /\ UNCHANGED <<relationship, engagement, request>>

OrgStep(d) ==
  \/ \E e \in Entities : SetOurs(d, e) \/ Clear(d, e)
  \/ \E e \in Entities, g \in Engagements : SetMaTarget(d, e, g) \/ PatchLoad(d, g, e)
  \/ \E g \in Engagements : CreateEngagement(d, g) \/ DeleteLoad(d, g)
  \/ \E g \in Engagements, to \in Postures : TransitionLoad(d, g, to)
  \/ TransitionCommit(d)
  \/ PatchFlush(d) \/ PatchCommit(d)
  \/ DeleteFlush(d) \/ DeleteCommit(d)
  \/ DeadlockVictim(d)
  \/ \E v \in Values, to \in Engagements \cup {"estate"} : MoveTarget(d, v, to)
\* The engagements and relationships that earlier requests may have left.
OrgInit ==
  /\ relationship \in [Entities -> Relationships]
  /\ engagement \in [Engagements -> [posture : Postures \cup {"none"},
                                    subject : Entities \cup {NoEntity}]]
  /\ \A g \in Engagements : ~Exists(g) => engagement[g].subject = NoEntity
  /\ \A e \in Entities : relationship[e] = "ma_target" <=> EngagementsOf(e) # {}
  /\ target \in [Values -> {NoTarget} \cup [at : {"estate"}, entity : Entities \cup {NoEntity}]]
  /\ request = [d \in Desks |-> Idle]
  /\ calls = 0

-----------------------------------------------------------------------------
(* Properties                                                               *)

\* Every column holds a value the database allows, whatever the requests.
OrgTypeOK ==
  /\ relationship \in [Entities -> Relationships]
  /\ engagement \in [Engagements -> [posture : Postures \cup {"none"},
                                    subject : Entities \cup {NoEntity}]]
  /\ target \in [Values -> [at : Engagements \cup {"none", "estate"},
                            entity : Entities \cup {NoEntity}]]
  /\ calls \in 0..MaxCalls

\* A target is never left in an engagement that is gone, however requests that
\* move targets or claim candidates overlap with delete_engagement.
NoDanglingMember == \A v \in Values : target[v].at \in Engagements => Exists(target[v].at)

\* Our own company is never the subject of an engagement, whichever of set_ours
\* and the requests that give an engagement a subject comes first.
OursNeverSubject == \A e \in Entities : relationship[e] = "ours" => EngagementsOf(e) = {}

\* An engagement that restricts probing is widened only by a transition that
\* was checked for an authorisation reference, although transitions decide on a
\* posture that is stale by the time they commit.
WideningNeedsReference ==
  [][\A g \in Engagements :
       /\ engagement[g].posture \in Restricting
       /\ engagement'[g].posture \in {"day_0", "integrated"}
       => \E d \in Desks : /\ request[d].op = "transition"
                           /\ TransitionKind(request[d].seen, request[d].to) = "needs_ref"]_engagement
=============================================================================
