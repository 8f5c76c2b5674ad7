------------------------ MODULE ScopeCandidates_proofs ------------------------
(***************************************************************************)
(* Proofs about organizations, engagements and scope candidates, for any   *)
(* number of companies, engagements, domains, candidates and concurrent    *)
(* requests, and any family tree.                                          *)
(*                                                                         *)
(* The argument is about locks: what a request has locked no other request *)
(* writes (KeepsLocked), so what it found under its locks still holds when *)
(* it commits (RequestOK).                                                 *)
(***************************************************************************)
EXTENDS ScopeCandidates, TLAPS

-----------------------------------------------------------------------------
(* The inductive invariant                                                  *)

\* What each request has read and locked, and what the locks keep true of the
\* rows until it commits.
RequestOK(d) ==
  LET r == request[d]
  IN  \/ r = Idle
      \/ /\ r.op = "transition"
         /\ r.row \in Engagements /\ r.to \in Postures /\ r.seen \in Postures
         /\ TransitionKind(r.seen, r.to) \notin {"deny", "noop"}
         /\ r.locks = {} /\ r.wants = {Row(r.row)}
      \/ /\ r.op = "patch" /\ r.at = "loaded"
         /\ r.row \in Engagements /\ r.to \in Entities /\ r.seen \in Entities \cup {NoEntity}
         /\ r.locks = {} /\ Row(r.to) \in r.wants
         /\ r.seen # r.to => Row(r.row) \in r.wants
         /\ \A g \in Engagements : Key(g) \notin r.wants /\ KeyShare(g) \notin r.wants
      \/ /\ r.op = "patch" /\ r.at = "flushed"
         /\ r.row \in Engagements /\ r.to \in Entities
         /\ Row(r.to) \in r.locks /\ relationship[r.to] # "ours"
         /\ r.seen # r.to => Row(r.row) \in r.locks
         /\ r.reset => r.seen \in Entities /\ r.wants = {Row(r.seen)}
      \/ /\ r.op = "delete" /\ r.at = "loaded"
         /\ r.row \in Engagements /\ r.seen \in Entities \cup {NoEntity}
         /\ r.locks = {} /\ r.wants = ForUpdate(r.row)
      \/ /\ r.op = "delete" /\ r.at = "flushed"
         /\ r.row \in Engagements
         /\ r.locks = {Row(r.row), Key(r.row)} /\ Members(r.row) = {}
         /\ r.reset => r.seen \in Entities /\ r.wants = {Row(r.seen)}
      \/ /\ r.op = "claim" /\ r.at = "read"
         /\ r.row \in Candidates /\ r.to \in Entities
         /\ r.locks = {Row(r.row)} /\ candidate[r.row].status = "open"
      \/ /\ r.op = "claim" /\ r.at = "locked"
         /\ r.row \in Candidates /\ r.to \in Entities
         /\ {Row(r.row), Row(RootOf[r.row])} \subseteq r.locks
         /\ r.wants = {Row(ValueOf[r.row])}
         /\ candidate[r.row].status = "open" /\ r.dest \in Homes(RootOf[r.row])
         /\ r.dest \in Engagements => {Row(r.dest), Key(r.dest)} \subseteq r.locks
      \/ /\ r.op = "zone" /\ r.at = "checked"
         /\ r.row \in Candidates /\ r.locks = {} /\ r.wants = {Row(ValueOf[r.row])}
      \/ /\ r.op = "zone" /\ r.at \in {"verified", "claimed"}
         /\ r.row \in Candidates /\ Row(ValueOf[r.row]) \in r.locks
         /\ r.dest \in Engagements \cup {"estate"}
         /\ \/ target[ValueOf[r.row]].at = r.dest
            \/ /\ target[ValueOf[r.row]].at = "none"
               /\ r.dest \in Engagements => Exists(r.dest) /\ KeyShare(r.dest) \in r.locks
         /\ r.at = "verified" => r.wants = {Row(r.row)}
         /\ r.at = "claimed" =>
              /\ Row(r.row) \in r.locks
              /\ r.claims \/ candidate[r.row].status = "claimed"

\* A lock has one holder, but for the share of a key, which excludes the key.
Exclusive ==
  \A d, o \in Desks : d # o =>
    /\ \A l \in request[d].locks \cap request[o].locks : \E g \in Engagements \cup {"estate"} : l = KeyShare(g)
    /\ \A g \in Engagements : Key(g) \in request[d].locks => KeyShare(g) \notin request[o].locks

NoTargetIsNothing == \A v \in Values : target[v].at = "none" => target[v] = NoTarget

DesksInv ==
  /\ ScopeTypeOK /\ NoTargetIsNothing
  /\ DOMAIN request = Desks /\ \A d \in Desks : RequestOK(d)
  /\ Exclusive
  /\ OursNeverSubject /\ NoDanglingMember /\ RejectedWeighedAll

-----------------------------------------------------------------------------
(* Steps                                                                    *)

Step(d) == (OrgStep(d) /\ UNCHANGED candVars) \/ CandStep(d)

\* A step that changes at most what its own request has read and locked.
Reads(d) == UNCHANGED <<relationship, engagement, target, candVars>>

\* The steps that write rows.
OrgWrites(d) ==
  \/ \E e \in Entities : SetOurs(d, e) \/ Clear(d, e)
  \/ \E e \in Entities, g \in Engagements : SetMaTarget(d, e, g)
  \/ \E g \in Engagements : CreateEngagement(d, g)
  \/ TransitionCommit(d) \/ PatchCommit(d) \/ DeleteCommit(d)
  \/ \E v \in Values, to \in Engagements \cup {"estate"} : MoveTarget(d, v, to)
CandWrites(d) ==
  \/ \E c \in Candidates, t \in {"person_evidence"} \cup SupportingTypes : RecordSignal(d, c, t)
  \/ \E c \in Candidates : Reject(d, c) \/ ZoneRejected(d, c)
  \/ ClaimCommit(d) \/ ZoneCommit(d)

LEMMA StepCases ==
  ASSUME NEW d \in Desks, Step(d)
  PROVE  Reads(d) \/ (OrgWrites(d) /\ UNCHANGED candVars) \/ CandWrites(d)
<1>1. CASE OrgStep(d) /\ UNCHANGED candVars
  BY <1>1 DEF OrgStep, OrgWrites, Reads, TransitionLoad, PatchLoad, PatchFlush, DeleteLoad,
              DeleteFlush, DeadlockVictim
<1>2. CASE CandStep(d)
  BY <1>2 DEF CandStep, CandWrites, Reads, ZoneCheck, ClaimRead, ClaimLock, ZoneTarget,
              ZoneClaim, candVars
<1> QED BY <1>1, <1>2 DEF Step

\* The names of locks are distinct.
LEMMA LockNames ==
  /\ \A x, y : Row(x) # Key(y) /\ Row(x) # KeyShare(y) /\ Key(x) # KeyShare(y)
  /\ \A x, y : (Row(x) = Row(y) => x = y) /\ (Key(x) = Key(y) => x = y)
               /\ (KeyShare(x) = KeyShare(y) => x = y)
BY DEF Row, Key, KeyShare

LEMMA FreeMeansUnheld ==
  ASSUME NEW rows, NEW d, Free(rows, d), NEW o \in Desks \ {d}, NEW l \in rows
  PROVE  l \notin request[o].locks
BY DEF Free

\* Rows and keys are held by one request.
LEMMA HeldByOne ==
  ASSUME Exclusive, NEW d \in Desks, NEW o \in Desks \ {d}
  PROVE  /\ \A x : Row(x) \in request[d].locks => Row(x) \notin request[o].locks
         /\ \A x : Key(x) \in request[d].locks => Key(x) \notin request[o].locks
         /\ \A g \in Engagements : Key(g) \in request[d].locks => KeyShare(g) \notin request[o].locks
         /\ \A g \in Engagements : KeyShare(g) \in request[d].locks => Key(g) \notin request[o].locks
BY LockNames DEF Exclusive

\* A step leaves the other requests alone.
LEMMA OthersWait ==
  ASSUME DOMAIN request = Desks, NEW d \in Desks, Step(d)
  PROVE  DOMAIN request' = Desks /\ \A o \in Desks \ {d} : request'[o] = request[o]
<1>1. CASE OrgStep(d)
  BY <1>1 DEF OrgStep, SetOurs, Clear, SetMaTarget, CreateEngagement, TransitionLoad, TransitionCommit,
     PatchLoad, PatchFlush, PatchCommit, DeleteLoad, DeleteFlush, DeleteCommit, DeadlockVictim,
     MoveTarget, Done, Goto
<1>2. CASE CandStep(d)
  BY <1>2 DEF CandStep, RecordSignal, Reject, ClaimRead, ClaimLock, ClaimCommit, ZoneRejected,
     ZoneCheck, ZoneTarget, ZoneClaim, ZoneCommit, Done, Goto
<1> QED BY <1>1, <1>2 DEF Step

-----------------------------------------------------------------------------
(* What a request has locked, no step of another one writes.                *)

KeepsLocked(o) ==
  /\ \A e \in Entities : Row(e) \in request[o].locks => relationship'[e] = relationship[e]
  /\ \A g \in Engagements : Row(g) \in request[o].locks /\ Exists(g) => engagement'[g] = engagement[g]
  /\ \A g \in Engagements : KeyShare(g) \in request[o].locks /\ Exists(g) => Exists(g)'
  /\ \A g \in Engagements : Key(g) \in request[o].locks /\ Members(g) = {} => Members(g)' = {}
  /\ \A v \in Values : Row(v) \in request[o].locks => target'[v] = target[v]
  /\ \A c \in Candidates : Row(c) \in request[o].locks => candidate'[c] = candidate[c]

\* Who writes what.
WritesRelationship(d) ==
  \A e \in Entities : relationship'[e] # relationship[e] =>
    \A o \in Desks \ {d} : Row(e) \notin request[o].locks
WritesEngagement(d) ==
  \A g \in Engagements : Exists(g) =>
    /\ engagement'[g] # engagement[g] => \A o \in Desks \ {d} : Row(g) \notin request[o].locks
    /\ ~Exists(g)' => \A o \in Desks \ {d} : KeyShare(g) \notin request[o].locks
WritesTarget(d) ==
  \A v \in Values : target'[v] # target[v] =>
    /\ \A o \in Desks \ {d} : Row(v) \notin request[o].locks
    /\ target'[v].at \in Engagements /\ target'[v].at # target[v].at =>
         \A o \in Desks \ {d} : Key(target'[v].at) \notin request[o].locks
WritesCandidate(d) ==
  \A c \in Candidates : candidate'[c] # candidate[c] =>
    \A o \in Desks \ {d} : Row(c) \notin request[o].locks

LEMMA WritersKeepLocked ==
  ASSUME NEW d \in Desks, WritesRelationship(d), WritesEngagement(d), WritesTarget(d), WritesCandidate(d)
  PROVE  \A o \in Desks \ {d} : KeepsLocked(o)
<1> TAKE o \in Desks \ {d}
<1>1. \A e \in Entities : Row(e) \in request[o].locks => relationship'[e] = relationship[e]
  BY DEF WritesRelationship
<1>2. \A g \in Engagements : Row(g) \in request[o].locks /\ Exists(g) => engagement'[g] = engagement[g]
  BY DEF WritesEngagement
<1>3. \A g \in Engagements : KeyShare(g) \in request[o].locks /\ Exists(g) => Exists(g)'
  BY DEF WritesEngagement
<1>4. \A g \in Engagements : Key(g) \in request[o].locks /\ Members(g) = {} => Members(g)' = {}
  BY DEF WritesTarget, Members
<1>5. \A v \in Values : Row(v) \in request[o].locks => target'[v] = target[v]
  BY DEF WritesTarget
<1>6. \A c \in Candidates : Row(c) \in request[o].locks => candidate'[c] = candidate[c]
  BY DEF WritesCandidate
<1> QED BY <1>1, <1>2, <1>3, <1>4, <1>5, <1>6 DEF KeepsLocked

LEMMA OrgWritesFree ==
  ASSUME DesksInv, NEW d \in Desks, OrgWrites(d), UNCHANGED candVars
  PROVE  WritesRelationship(d) /\ WritesEngagement(d) /\ WritesTarget(d) /\ WritesCandidate(d)
<1> USE DEF WritesRelationship, WritesEngagement, WritesTarget, WritesCandidate
<1>t. OrgTypeOK /\ RequestOK(d) /\ Exclusive /\ DOMAIN request = Desks
  BY DEF DesksInv, ScopeTypeOK
<1>c. WritesCandidate(d)
  BY DEF candVars
<1>1. ASSUME NEW e \in Entities, SetOurs(d, e) \/ Clear(d, e)
      PROVE  WritesRelationship(d) /\ WritesEngagement(d) /\ WritesTarget(d)
  BY <1>1, <1>t, FreeMeansUnheld DEF SetOurs, Clear, OrgTypeOK, Exists
<1>2. ASSUME NEW e \in Entities, NEW g \in Engagements, SetMaTarget(d, e, g)
      PROVE  WritesRelationship(d) /\ WritesEngagement(d) /\ WritesTarget(d)
  <2>1. \A o \in Desks \ {d} : Row(e) \notin request[o].locks /\ Row(g) \notin request[o].locks
    BY <1>2, FreeMeansUnheld DEF SetMaTarget, ForUpdate
  <2>2. \A h \in Engagements : engagement'[h] # engagement[h] => h = g
    BY <1>2, <1>t DEF SetMaTarget, OrgTypeOK
  <2>3. \A h \in Engagements : Exists(h) => Exists(h)'
    BY <1>2, <1>t DEF SetMaTarget, OrgTypeOK, Exists
  <2>4. \A x \in Entities : relationship'[x] # relationship[x] => x = e
    BY <1>2, <1>t DEF SetMaTarget, OrgTypeOK
  <2> QED BY <2>1, <2>2, <2>3, <2>4, <1>2 DEF SetMaTarget
<1>3. ASSUME NEW g \in Engagements, CreateEngagement(d, g)
      PROVE  WritesRelationship(d) /\ WritesEngagement(d) /\ WritesTarget(d)
  BY <1>3, <1>t DEF CreateEngagement, OrgTypeOK, Exists
<1>4. CASE TransitionCommit(d)
  <2> DEFINE g == request[d].row
  <2>1. /\ g \in Engagements /\ request[d].wants = {Row(g)}
        /\ request[d].to \in Postures
    BY <1>4, <1>t DEF RequestOK, TransitionCommit, Idle
  <2>2. \A o \in Desks \ {d} : Row(g) \notin request[o].locks
    BY <1>4, <2>1, FreeMeansUnheld DEF TransitionCommit
  <2>3. \A h \in Engagements : engagement'[h] # engagement[h] => h = g
    BY <1>4, <1>t, <2>1 DEF TransitionCommit, OrgTypeOK
  <2>4. \A h \in Engagements : Exists(h) => Exists(h)'
    BY <1>4, <1>t, <2>1 DEF TransitionCommit, OrgTypeOK, Exists, Postures, Restricting
  <2> QED BY <2>2, <2>3, <2>4, <1>c, <1>4 DEF TransitionCommit
<1>5. CASE PatchCommit(d)
  <2> DEFINE r == request[d]
  <2>1. /\ r.row \in Engagements /\ r.to \in Entities /\ Row(r.to) \in r.locks
        /\ r.seen # r.to => Row(r.row) \in r.locks
        /\ r.reset => r.seen \in Entities /\ r.wants = {Row(r.seen)}
    BY <1>5, <1>t DEF RequestOK, PatchCommit, Idle
  <2>2. \A o \in Desks \ {d} : /\ Row(r.to) \notin request[o].locks
                               /\ r.seen # r.to => Row(r.row) \notin request[o].locks
    BY <2>1, <1>t, HeldByOne
  <2>3. r.reset => \A o \in Desks \ {d} : Row(r.seen) \notin request[o].locks
    BY <1>5, <2>1, FreeMeansUnheld DEF PatchCommit
  <2>4. \A h \in Engagements : engagement'[h] # engagement[h] => h = r.row /\ r.seen # r.to
    BY <1>5, <1>t, <2>1 DEF PatchCommit, OrgTypeOK
  <2>5. \A h \in Engagements : Exists(h) => Exists(h)'
    BY <1>5, <1>t, <2>1 DEF PatchCommit, OrgTypeOK, Exists
  <2>6. \A x \in Entities : relationship'[x] # relationship[x] => x = r.to \/ (r.reset /\ x = r.seen)
    BY <1>5, <1>t, <2>1 DEF PatchCommit, OrgTypeOK
  <2> QED BY <2>2, <2>3, <2>4, <2>5, <2>6, <1>c, <1>5 DEF PatchCommit
<1>6. CASE DeleteCommit(d)
  <2> DEFINE r == request[d]
  <2>1. /\ r.row \in Engagements /\ r.locks = {Row(r.row), Key(r.row)}
        /\ r.reset => r.seen \in Entities /\ r.wants = {Row(r.seen)}
    BY <1>6, <1>t DEF RequestOK, DeleteCommit, Idle
  <2>2. \A o \in Desks \ {d} : Row(r.row) \notin request[o].locks /\ KeyShare(r.row) \notin request[o].locks
    BY <2>1, <1>t, HeldByOne
  <2>3. r.reset => \A o \in Desks \ {d} : Row(r.seen) \notin request[o].locks
    BY <1>6, <2>1, FreeMeansUnheld DEF DeleteCommit
  <2>4. \A h \in Engagements : engagement'[h] # engagement[h] => h = r.row
    BY <1>6, <1>t, <2>1 DEF DeleteCommit, OrgTypeOK
  <2>6. \A x \in Entities : relationship'[x] # relationship[x] => r.reset /\ x = r.seen
    BY <1>6, <1>t, <2>1 DEF DeleteCommit, OrgTypeOK
  <2>7. \A h \in Engagements : Exists(h) /\ ~Exists(h)' => h = r.row
    BY <2>4 DEF Exists
  <2> QED BY <2>2, <2>3, <2>4, <2>6, <2>7, <1>c, <1>6 DEF DeleteCommit
<1>7. ASSUME NEW v \in Values, NEW to \in Engagements \cup {"estate"}, MoveTarget(d, v, to)
      PROVE  WritesRelationship(d) /\ WritesEngagement(d) /\ WritesTarget(d)
  <2>1. \A o \in Desks \ {d} : /\ Row(v) \notin request[o].locks
                               /\ to # "estate" => Key(to) \notin request[o].locks
    BY <1>7, FreeMeansUnheld DEF MoveTarget
  <2>2. \A w \in Values : target'[w] # target[w] => w = v /\ target'[w].at = to
    BY <1>7, <1>t DEF MoveTarget, OrgTypeOK
  <2>3. UNCHANGED <<relationship, engagement>>
    BY <1>7 DEF MoveTarget
  <2>4. "estate" \notin Engagements
    BY OrganizationsAssumption
  <2>5. \A h \in Engagements : Exists(h)' = Exists(h)
    BY <2>3 DEF Exists
  <2> QED BY <2>1, <2>2, <2>3, <2>4, <2>5
<1> QED BY <1>c, <1>1, <1>2, <1>3, <1>4, <1>5, <1>6, <1>7 DEF OrgWrites

LEMMA CandWritesFree ==
  ASSUME DesksInv, NEW d \in Desks, CandWrites(d)
  PROVE  WritesRelationship(d) /\ WritesEngagement(d) /\ WritesTarget(d) /\ WritesCandidate(d)
<1> USE DEF WritesRelationship, WritesEngagement, WritesTarget, WritesCandidate
<1> DEFINE r == request[d]
<1>t. ScopeTypeOK /\ OrgTypeOK /\ RequestOK(d) /\ Exclusive /\ DOMAIN request = Desks
  BY DEF DesksInv, ScopeTypeOK
<1>u. UNCHANGED <<relationship, engagement>>
  BY DEF CandWrites, RecordSignal, Reject, ZoneRejected, ClaimCommit, ZoneCommit
<1>v. WritesRelationship(d) /\ WritesEngagement(d)
  BY <1>u DEF Exists
<1>1. ASSUME NEW c \in Candidates, \/ \E t \in {"person_evidence"} \cup SupportingTypes : RecordSignal(d, c, t)
                                   \/ Reject(d, c) \/ ZoneRejected(d, c)
      PROVE  WritesTarget(d) /\ WritesCandidate(d)
  <2>1. \A o \in Desks \ {d} : Row(c) \notin request[o].locks
    BY <1>1, FreeMeansUnheld DEF RecordSignal, Reject, ZoneRejected
  <2>2. UNCHANGED target /\ \A x \in Candidates : candidate'[x] # candidate[x] => x = c
    BY <1>1, <1>t DEF RecordSignal, Reject, ZoneRejected, ScopeTypeOK
  <2> QED BY <2>1, <2>2
<1>2. CASE ClaimCommit(d)
  <2>1. /\ r.row \in Candidates /\ r.to \in Entities
        /\ Row(r.row) \in r.locks /\ r.wants = {Row(ValueOf[r.row])}
        /\ r.dest \in Engagements => Key(r.dest) \in r.locks
    BY <1>2, <1>t DEF RequestOK, ClaimCommit, Idle
  <2>2. \A o \in Desks \ {d} : /\ Row(ValueOf[r.row]) \notin request[o].locks
                               /\ Row(r.row) \notin request[o].locks
                               /\ r.dest \in Engagements => Key(r.dest) \notin request[o].locks
    BY <1>2, <1>t, <2>1, FreeMeansUnheld, HeldByOne DEF ClaimCommit
  <2>3. \A x \in Candidates : candidate'[x] # candidate[x] => x = r.row
    BY <1>2, <1>t, <2>1 DEF ClaimCommit, Claim, ScopeTypeOK
  <2>4. \A w \in Values : target'[w] # target[w] => w = ValueOf[r.row] /\ target'[w].at = r.dest
    BY <1>2, <1>t, <2>1, CandidatesAssumption DEF ClaimCommit, Claim, OrgTypeOK
  <2> QED BY <2>2, <2>3, <2>4, <1>v
<1>3. CASE ZoneCommit(d)
  <2>1. /\ r.row \in Candidates /\ Row(r.row) \in r.locks /\ Row(ValueOf[r.row]) \in r.locks
        /\ \/ target[ValueOf[r.row]].at = r.dest
           \/ r.dest \in Engagements => KeyShare(r.dest) \in r.locks
    BY <1>3, <1>t DEF RequestOK, ZoneCommit, Idle
  <2>2. \A o \in Desks \ {d} : /\ Row(ValueOf[r.row]) \notin request[o].locks
                               /\ Row(r.row) \notin request[o].locks
                               /\ r.dest \in Engagements /\ target[ValueOf[r.row]].at # r.dest =>
                                    Key(r.dest) \notin request[o].locks
    BY <1>t, <2>1, HeldByOne
  <2>3. \A x \in Candidates : candidate'[x] # candidate[x] => x = r.row
    BY <1>3, <1>t, <2>1 DEF ZoneCommit, Claim, ScopeTypeOK
  <2>4. \A w \in Values : target'[w] # target[w] => w = ValueOf[r.row] /\ target'[w].at = r.dest
    BY <1>3, <1>t, <2>1, CandidatesAssumption DEF ZoneCommit, Claim, OrgTypeOK
  <2> QED BY <2>2, <2>3, <2>4, <1>v
<1> QED BY <1>v, <1>1, <1>2, <1>3 DEF CandWrites

LEMMA LocksAreKept ==
  ASSUME DesksInv, NEW d \in Desks, Step(d)
  PROVE  \A o \in Desks \ {d} : KeepsLocked(o)
<1>t. ScopeTypeOK /\ OrgTypeOK
  BY DEF DesksInv, ScopeTypeOK
<1>1. CASE Reads(d)
  BY <1>1 DEF Reads, WritesRelationship, WritesEngagement, WritesTarget, WritesCandidate, Exists,
              candVars, KeepsLocked, Members
<1>2. CASE OrgWrites(d) /\ UNCHANGED candVars
  BY <1>2, OrgWritesFree, WritersKeepLocked
<1>3. CASE CandWrites(d)
  BY <1>3, CandWritesFree, WritersKeepLocked
<1> QED BY <1>1, <1>2, <1>3, StepCases

-----------------------------------------------------------------------------
(* Requests that wait while another one takes a step                        *)

LEMMA RequestKept ==
  ASSUME DesksInv, NEW o \in Desks, request'[o] = request[o], KeepsLocked(o)
  PROVE  RequestOK(o)'
<1> DEFINE r == request[o]
<1>1. request'[o] = r /\ KeepsLocked(o)
  OBVIOUS
<1>t. OrgTypeOK /\ NoDanglingMember /\ RequestOK(o)
  BY DEF DesksInv, ScopeTypeOK
<1>2. CASE r = Idle
  BY <1>2, <1>1 DEF RequestOK
<1>3. CASE r.op = "transition"
  BY <1>3, <1>1, <1>t DEF RequestOK, Idle, TransitionKind
<1>4. CASE r.op = "patch" /\ r.at = "loaded"
  BY <1>4, <1>1, <1>t DEF RequestOK, Idle
<1>5. CASE r.op = "patch" /\ r.at = "flushed"
  <2>1. r.to \in Entities /\ Row(r.to) \in r.locks
    BY <1>5, <1>t DEF RequestOK, Idle
  <2>2. relationship'[r.to] = relationship[r.to]
    BY <2>1, <1>1 DEF KeepsLocked
  <2> QED BY <1>5, <1>1, <1>t, <2>2 DEF RequestOK, Idle
<1>6. CASE r.op = "delete" /\ r.at = "loaded"
  BY <1>6, <1>1, <1>t DEF RequestOK, Idle
<1>7. CASE r.op = "delete" /\ r.at = "flushed"
  <2>1. r.row \in Engagements /\ Key(r.row) \in r.locks /\ Members(r.row) = {}
    BY <1>7, <1>t DEF RequestOK, Idle
  <2>2. Members(r.row)' = {}
    BY <2>1, <1>1 DEF KeepsLocked
  <2>3. (r.row)' = r.row
    BY <1>1
  <2> QED BY <1>7, <1>1, <1>t, <2>2, <2>3 DEF RequestOK, Idle, Members
<1>8. CASE r.op = "claim" /\ r.at = "read"
  <2>1. r.row \in Candidates /\ Row(r.row) \in r.locks
    BY <1>8, <1>t DEF RequestOK, Idle
  <2>2. candidate'[r.row] = candidate[r.row]
    BY <2>1, <1>1 DEF KeepsLocked
  <2> QED BY <1>8, <1>1, <1>t, <2>2 DEF RequestOK, Idle
<1>9. CASE r.op = "claim" /\ r.at = "locked"
  <2> DEFINE root == RootOf[r.row]
  <2>1. /\ r.row \in Candidates /\ Row(r.row) \in r.locks /\ Row(root) \in r.locks
        /\ root \in Entities
        /\ r.dest \in Homes(root)
        /\ r.dest \in Engagements => Row(r.dest) \in r.locks
    BY <1>9, <1>t, CandidatesAssumption DEF RequestOK, Idle
  <2>2. candidate'[r.row] = candidate[r.row] /\ relationship'[root] = relationship[root]
    BY <2>1, <1>1 DEF KeepsLocked
  <2>3. r.dest \in Live(root) => engagement'[r.dest] = engagement[r.dest]
    BY <2>1, <1>1 DEF KeepsLocked, Live, EngagementsOf
  <2>4. r.dest \in Homes(root)'
    <3>1. root' = root
      BY <1>1
    <3>2. CASE relationship[root] = "ours"
      BY <3>1, <3>2, <2>1, <2>2 DEF Homes
    <3>3. CASE relationship[root] = "ma_target"
      <4>1. r.dest \in Live(root)
        BY <3>3, <2>1 DEF Homes
      <4>2. r.dest \in Live(root)'
        BY <4>1, <2>3, <3>1 DEF Live, EngagementsOf, Exists
      <4> QED BY <4>2, <3>3, <2>2, <3>1 DEF Homes
    <3> QED BY <2>1, <3>2, <3>3 DEF Homes
  <2> QED BY <1>9, <1>1, <1>t, <2>2, <2>4 DEF RequestOK, Idle
<1>10. CASE r.op = "zone" /\ r.at = "checked"
  BY <1>10, <1>1, <1>t DEF RequestOK, Idle
<1>11. CASE r.op = "zone" /\ r.at \in {"verified", "claimed"}
  <2> DEFINE v == ValueOf[r.row]
  <2>1. /\ r.row \in Candidates /\ v \in Values /\ Row(v) \in r.locks
        /\ r.at = "claimed" => Row(r.row) \in r.locks
    BY <1>11, <1>t, CandidatesAssumption DEF RequestOK, Idle
  <2>2. target'[v] = target[v] /\ (r.at = "claimed" => candidate'[r.row] = candidate[r.row])
    BY <2>1, <1>1 DEF KeepsLocked
  <2>3. r.dest \in Engagements /\ Exists(r.dest) /\ KeyShare(r.dest) \in r.locks => Exists(r.dest)'
    BY <1>1 DEF KeepsLocked
  <2> QED BY <1>11, <1>1, <1>t, <2>2, <2>3 DEF RequestOK, Idle
<1> QED BY <1>t, <1>2, <1>3, <1>4, <1>5, <1>6, <1>7, <1>8, <1>9, <1>10, <1>11 DEF RequestOK

LEMMA OthersRequest ==
  ASSUME DesksInv, NEW d \in Desks, Step(d), NEW o \in Desks \ {d}
  PROVE  RequestOK(o)'
<1>1. request'[o] = request[o] /\ KeepsLocked(o)
  BY OthersWait, LocksAreKept DEF DesksInv
<1> QED BY <1>1, RequestKept

-----------------------------------------------------------------------------
(* The request that takes the step                                          *)

LEMMA OwnOrgRequest ==
  ASSUME DesksInv, NEW d \in Desks, OrgStep(d), UNCHANGED candVars
  PROVE  RequestOK(d)'
<1> DEFINE r == request[d]
<1>t. /\ ScopeTypeOK /\ OrgTypeOK /\ RequestOK(d) /\ DOMAIN request = Desks
      /\ \A g \in Engagements : engagement[g].posture \in Postures \cup {"none"}
      /\ \A g \in Engagements : engagement[g].subject \in Entities \cup {NoEntity}
  BY DEF DesksInv, ScopeTypeOK, OrgTypeOK
<1>0. request'[d] = Idle => RequestOK(d)'
  BY DEF RequestOK
<1>1. CASE UNCHANGED request /\ r = Idle
  BY <1>1 DEF RequestOK
<1>2. ASSUME NEW g \in Engagements, NEW to \in Postures, TransitionLoad(d, g, to)
      PROVE  RequestOK(d)'
  <2>1. request'[d] = [op |-> "transition", at |-> "loaded", row |-> g, to |-> to,
                       seen |-> engagement[g].posture, locks |-> {}, wants |-> {Row(g)}]
    BY <1>2, <1>t DEF TransitionLoad, Goto
  <2>2. /\ engagement[g].posture \in Postures
        /\ TransitionKind(engagement[g].posture, to) \notin {"deny", "noop"}
    BY <1>2, <1>t DEF TransitionLoad, Exists
  <2> QED BY <2>1, <2>2 DEF RequestOK
<1>3. CASE TransitionCommit(d) \/ PatchCommit(d) \/ DeleteCommit(d) \/ DeadlockVictim(d)
  BY <1>3, <1>t, <1>0 DEF TransitionCommit, PatchCommit, DeleteCommit, DeadlockVictim, Done, Goto
<1>4. ASSUME NEW g \in Engagements, NEW e \in Entities, PatchLoad(d, g, e)
      PROVE  RequestOK(d)'
  <2>1. request'[d] = [op |-> "patch", at |-> "loaded", row |-> g, to |-> e,
                       seen |-> engagement[g].subject, locks |-> {}, wants |-> SubjectLocks(g, e)]
    BY <1>4, <1>t DEF PatchLoad, Goto
  <2>2. /\ Row(e) \in SubjectLocks(g, e)
        /\ engagement[g].subject # e => Row(g) \in SubjectLocks(g, e)
        /\ \A h \in Engagements : Key(h) \notin SubjectLocks(g, e) /\ KeyShare(h) \notin SubjectLocks(g, e)
    BY LockNames DEF SubjectLocks
  <2> HIDE DEF SubjectLocks
  <2> QED BY <2>1, <2>2, <1>t DEF RequestOK
<1>5. CASE PatchFlush(d)
  <2>1. /\ r.op = "patch" /\ r.at = "loaded" /\ r.row \in Engagements /\ r.to \in Entities
        /\ Row(r.to) \in r.wants /\ (r.seen # r.to => Row(r.row) \in r.wants)
        /\ r.seen \in Entities \cup {NoEntity}
    BY <1>5, <1>t DEF RequestOK, PatchFlush, Idle
  <2> DEFINE reset == r.seen # r.to /\ Orphaned(r.seen, r.row)
             next == [op |-> "patch", at |-> "flushed", row |-> r.row, to |-> r.to,
                      seen |-> r.seen, reset |-> reset, locks |-> r.wants,
                      wants |-> IF reset THEN {Row(r.seen)} ELSE {}]
  <2>2. CASE request'[d] = next /\ relationship[r.to] # "ours"
    <3>1. reset => r.seen \in Entities
      BY <2>1 DEF Orphaned
    <3>2. relationship' = relationship
      BY <1>5 DEF PatchFlush
    <3>3. /\ request'[d].op = "patch" /\ request'[d].at = "flushed"
          /\ request'[d].row = r.row /\ request'[d].to = r.to /\ request'[d].seen = r.seen
          /\ request'[d].locks = r.wants
          /\ request'[d].reset => r.seen \in Entities /\ request'[d].wants = {Row(r.seen)}
      <4> HIDE DEF reset
      <4> QED BY <2>2, <3>1
    <3> QED BY <2>1, <2>2, <3>2, <3>3 DEF RequestOK
  <2>3. request'[d] = Idle \/ (request'[d] = next /\ relationship[r.to] # "ours")
    BY <1>5, <1>t DEF PatchFlush, Done, Goto
  <2> QED BY <2>2, <2>3, <1>0
<1>6. ASSUME NEW g \in Engagements, DeleteLoad(d, g)
      PROVE  RequestOK(d)'
  <2>1. request'[d] = [op |-> "delete", at |-> "loaded", row |-> g,
                       seen |-> engagement[g].subject, locks |-> {}, wants |-> ForUpdate(g)]
    BY <1>6, <1>t DEF DeleteLoad, Goto
  <2> QED BY <2>1, <1>t DEF RequestOK
<1>7. CASE DeleteFlush(d)
  <2>1. /\ r.op = "delete" /\ r.at = "loaded" /\ r.row \in Engagements
        /\ r.seen \in Entities \cup {NoEntity} /\ r.wants = ForUpdate(r.row)
    BY <1>7, <1>t DEF RequestOK, DeleteFlush, Idle
  <2> DEFINE reset == Orphaned(r.seen, r.row)
             next == [op |-> "delete", at |-> "flushed", row |-> r.row, seen |-> r.seen,
                      reset |-> reset, locks |-> r.wants \ {KeyShare(r.row)},
                      wants |-> IF reset THEN {Row(r.seen)} ELSE {}]
  <2>2. CASE request'[d] = next /\ Members(r.row) = {}
    <3>1. reset => r.seen \in Entities
      BY <2>1 DEF Orphaned
    <3>2. target' = target
      BY <1>7 DEF DeleteFlush
    <3>3. r.wants \ {KeyShare(r.row)} = {Row(r.row), Key(r.row)}
      BY <2>1, LockNames DEF ForUpdate
    <3>4. /\ request'[d].op = "delete" /\ request'[d].at = "flushed"
          /\ request'[d].row = r.row /\ request'[d].seen = r.seen
          /\ request'[d].locks = {Row(r.row), Key(r.row)}
          /\ request'[d].reset => r.seen \in Entities /\ request'[d].wants = {Row(r.seen)}
      <4> HIDE DEF reset
      <4> QED BY <2>2, <3>1, <3>3
    <3>5. Members(request[d].row)' = {}
      BY <2>2, <3>2, <3>4 DEF Members
    <3> QED BY <2>1, <3>4, <3>5 DEF RequestOK
  <2>3. request'[d] = Idle \/ (request'[d] = next /\ Members(r.row) = {})
    BY <1>7, <1>t DEF DeleteFlush, Restricts, Done, Goto
  <2> QED BY <2>2, <2>3, <1>0
<1>8. ASSUME \/ \E e \in Entities : SetOurs(d, e) \/ Clear(d, e)
             \/ \E e \in Entities, g \in Engagements : SetMaTarget(d, e, g)
             \/ \E g \in Engagements : CreateEngagement(d, g)
             \/ \E v \in Values, to \in Engagements \cup {"estate"} : MoveTarget(d, v, to)
      PROVE  RequestOK(d)'
  BY <1>8, <1>1 DEF SetOurs, Clear, SetMaTarget, CreateEngagement, MoveTarget, Start
<1> QED BY <1>2, <1>3, <1>4, <1>5, <1>6, <1>7, <1>8 DEF OrgStep

\* A claim or a check found where the organization's domains go.
LEMMA DestinationsAreHomes ==
  ASSUME NEW e, NEW at \in Destinations(e)
  PROVE  /\ at \in Homes(e) /\ at \in Engagements \cup {"estate"}
         /\ at \in Engagements => Exists(at)
         /\ Destinations(e) = {at}
<1>0. "estate" \notin Engagements
  BY OrganizationsAssumption
<1>1. CASE relationship[e] = "ours"
  BY <1>0, <1>1 DEF Destinations, Homes
<1>2. CASE relationship[e] = "ma_target"
  BY <1>2 DEF Destinations, Homes, Live, EngagementsOf
<1> QED BY <1>1, <1>2 DEF Destinations

LEMMA OwnCandRequest ==
  ASSUME DesksInv, NEW d \in Desks, CandStep(d)
  PROVE  RequestOK(d)'
<1> DEFINE r == request[d]
<1>t. /\ ScopeTypeOK /\ OrgTypeOK /\ RequestOK(d) /\ DOMAIN request = Desks
      /\ RootOf \in [Candidates -> Entities] /\ ValueOf \in [Candidates -> Values]
  BY CandidatesAssumption DEF DesksInv, ScopeTypeOK
<1>0. request'[d] = Idle => RequestOK(d)'
  BY DEF RequestOK
<1>1. ASSUME NEW c \in Candidates, \/ \E t \in {"person_evidence"} \cup SupportingTypes : RecordSignal(d, c, t)
                                   \/ Reject(d, c) \/ ZoneRejected(d, c)
      PROVE  RequestOK(d)'
  BY <1>0, <1>1 DEF RecordSignal, Reject, ZoneRejected, Start
<1>2. CASE ClaimCommit(d) \/ ZoneCommit(d)
  BY <1>2, <1>t, <1>0 DEF ClaimCommit, ZoneCommit, Done, Goto
<1>3. ASSUME NEW c \in Candidates, NEW e \in Entities, ClaimRead(d, c, e)
      PROVE  RequestOK(d)'
  <2>1. request'[d] = [op |-> "claim", at |-> "read", row |-> c, to |-> e,
                       seen |-> Walk(e), locks |-> {Row(c)}, wants |-> ClaimRows(c, Visited(e))]
    BY <1>3, <1>t DEF ClaimRead, Goto
  <2>2. candidate'[c].status = "open"
    BY <1>3 DEF ClaimRead, candVars
  <2> QED BY <2>1, <2>2 DEF RequestOK
<1>4. CASE ClaimLock(d)
  <2> DEFINE c == r.row
             root == RootOf[c]
             rows == ClaimRows(c, r.seen[1])
             locks == (r.locks \cup rows) \ {KeyShare(g) : g \in Engagements}
  <2>1. /\ r.op = "claim" /\ r.at = "read" /\ c \in Candidates /\ r.to \in Entities
        /\ r.locks = {Row(c)} /\ candidate[c].status = "open"
    BY <1>4, <1>t DEF RequestOK, ClaimLock, Idle
  <2>u. UNCHANGED <<relationship, engagement, candidate>>
    BY <1>4 DEF ClaimLock, candVars
  <2>2. ASSUME NEW at \in Destinations(root),
               request'[d] = [op |-> "claim", at |-> "locked", row |-> c, to |-> r.to, dest |-> at,
                              locks |-> locks, wants |-> {Row(ValueOf[c])}]
        PROVE  RequestOK(d)'
    <3>1. at \in Homes(root) /\ at \in Engagements \cup {"estate"}
      BY DestinationsAreHomes
    <3>2. {Row(c), Row(root)} \subseteq locks
      BY <2>1, LockNames DEF ClaimRows
    <3>3. at \in Engagements => {Row(at), Key(at)} \subseteq locks
      <4>1. HAVE at \in Engagements
      <4>2. at # "estate"
        BY <4>1, OrganizationsAssumption
      <4>3. at \in Live(root)
        BY <4>2 DEF Destinations
      <4>4. {Row(at), Key(at)} \subseteq rows
        BY <4>3 DEF ClaimRows, ForUpdate
      <4> QED BY <4>4, LockNames
    <3>4. (at \in Homes(root))' /\ candidate'[c].status = "open"
      BY <3>1, <2>u, <2>1, <2>2 DEF Homes, Live, EngagementsOf, Exists
    <3> HIDE DEF locks
    <3>5. /\ request'[d].op = "claim" /\ request'[d].at = "locked" /\ request'[d].row = c
          /\ request'[d].to = r.to /\ request'[d].dest = at /\ request'[d].locks = locks
          /\ request'[d].wants = {Row(ValueOf[c])}
      BY <2>2
    <3>6. at \in Homes(RootOf[request[d].row])'
      BY <3>1, <2>u, <3>5 DEF Homes, Live, EngagementsOf, Exists
    <3> QED BY <2>1, <3>2, <3>3, <3>4, <3>5, <3>6 DEF RequestOK
  <2>3. \/ request'[d] = Idle
        \/ \E at \in Destinations(root) :
             request'[d] = [op |-> "claim", at |-> "locked", row |-> c, to |-> r.to, dest |-> at,
                            locks |-> locks, wants |-> {Row(ValueOf[c])}]
    BY <1>4, <1>t DEF ClaimLock, Done, Goto
  <2> QED BY <2>2, <2>3, <1>0
<1>5. ASSUME NEW c \in Candidates, ZoneCheck(d, c)
      PROVE  RequestOK(d)'
  <2>1. request'[d] = [op |-> "zone", at |-> "checked", row |-> c, locks |-> {},
                       wants |-> {Row(ValueOf[c])}]
    BY <1>5, <1>t DEF ZoneCheck, Goto
  <2> QED BY <2>1 DEF RequestOK
<1>6. CASE ZoneTarget(d)
  <2> DEFINE c == r.row
             v == ValueOf[c]
             locks(at) == {Row(v)} \cup IF target[v].at = "none" THEN {KeyShare(at)} ELSE {}
  <2>1. r.op = "zone" /\ r.at = "checked" /\ c \in Candidates /\ v \in Values
    BY <1>6, <1>t DEF RequestOK, ZoneTarget, Idle
  <2>u. UNCHANGED <<relationship, engagement, target, candidate>>
    BY <1>6 DEF ZoneTarget, candVars
  <2>2. ASSUME NEW at \in Destinations(RootOf[c]), ~Clashes(c),
               request'[d] = [op |-> "zone", at |-> "verified", row |-> c, dest |-> at,
                              locks |-> locks(at), wants |-> {Row(c)}]
        PROVE  RequestOK(d)'
    <3>1. /\ at \in Engagements \cup {"estate"} /\ (at \in Engagements => Exists(at))
          /\ Destinations(RootOf[c]) = {at}
      BY DestinationsAreHomes
    <3>2. target[v].at \in {"none", at}
      BY <2>2, <3>1 DEF Clashes
    <3>3. Row(v) \in locks(at) /\ (target[v].at = "none" => KeyShare(at) \in locks(at))
      OBVIOUS
    <3> HIDE DEF locks
    <3>4. /\ request'[d].op = "zone" /\ request'[d].at = "verified" /\ request'[d].row = c
          /\ request'[d].dest = at /\ request'[d].locks = locks(at)
          /\ request'[d].wants = {Row(c)}
      BY <2>2
    <3>5. at \in Engagements => Exists(at)'
      BY <3>1, <2>u DEF Exists
    <3> QED BY <2>1, <2>u, <3>1, <3>2, <3>3, <3>4, <3>5 DEF RequestOK
  <2>3. \/ request'[d] = Idle
        \/ ~Clashes(c) /\ \E at \in Destinations(RootOf[c]) :
             request'[d] = [op |-> "zone", at |-> "verified", row |-> c, dest |-> at,
                            locks |-> locks(at), wants |-> {Row(c)}]
    BY <1>6, <1>t DEF ZoneTarget, Done, Goto
  <2> QED BY <2>2, <2>3, <1>0
<1>7. CASE ZoneClaim(d)
  <2> DEFINE c == r.row
             v == ValueOf[c]
             after == Recorded(c, "connector_zone")
  <2>1. /\ r.op = "zone" /\ r.at = "verified" /\ c \in Candidates /\ v \in Values
        /\ Row(v) \in r.locks /\ r.wants = {Row(c)}
        /\ r.dest \in Engagements \cup {"estate"}
        /\ \/ target[v].at = r.dest
           \/ /\ target[v].at = "none"
              /\ r.dest \in Engagements => Exists(r.dest) /\ KeyShare(r.dest) \in r.locks
    BY <1>7, <1>t DEF RequestOK, ZoneClaim, Idle
  <2>u. UNCHANGED <<relationship, engagement, target, candidate>>
    BY <1>7 DEF ZoneClaim, candVars
  <2>2. CASE /\ after.status # "rejected"
             /\ request'[d] = [op |-> "zone", at |-> "claimed", row |-> c, dest |-> r.dest,
                               claims |-> after.status = "open", locks |-> r.locks \cup r.wants,
                               wants |-> {}]
    <3>1. after.status = "open" \/ candidate[c].status = "claimed"
      <4>1. after = Opened \/ after = candidate[c]
        BY DEF Recorded
      <4>2. candidate[c].status \in {"absent", "open", "rejected", "claimed"}
        BY <1>t, <2>1 DEF ScopeTypeOK, Absent, Opened
      <4>3. candidate[c].status # "absent" \/ after = Opened
        BY DEF Recorded
      <4> QED BY <4>1, <4>2, <4>3, <2>2 DEF Opened
    <3>. HIDE DEF after
    <3>c. request'[d].claims = (after.status = "open")
      BY <2>2
    <3>d. request'[d].claims \/ candidate[c].status = "claimed"
      BY <3>1, <3>c
    <3>2. /\ request'[d].op = "zone" /\ request'[d].at = "claimed" /\ request'[d].row = c
          /\ request'[d].dest = r.dest /\ request'[d].locks = r.locks \cup {Row(c)}
      BY <2>2, <2>1
    <3>3. \A g \in Engagements : Exists(g) => Exists(g)'
      BY <2>u DEF Exists
    <3> QED BY <2>1, <2>u, <3>2, <3>3, <3>d DEF RequestOK
  <2>3. \/ request'[d] = Idle
        \/ /\ after.status # "rejected"
           /\ request'[d] = [op |-> "zone", at |-> "claimed", row |-> c, dest |-> r.dest,
                             claims |-> after.status = "open", locks |-> r.locks \cup r.wants,
                             wants |-> {}]
    BY <1>7, <1>t DEF ZoneClaim, Done, Goto
  <2> QED BY <2>2, <2>3, <1>0
<1> QED BY <1>1, <1>2, <1>3, <1>4, <1>5, <1>6, <1>7 DEF CandStep

LEMMA RequestsKept ==
  ASSUME DesksInv, NEW d \in Desks, Step(d)
  PROVE  DOMAIN request' = Desks /\ \A o \in Desks : RequestOK(o)'
BY OwnOrgRequest, OwnCandRequest, OthersRequest, OthersWait DEF Step, DesksInv

-----------------------------------------------------------------------------
(* Locks                                                                    *)

\* A request takes only what no other one holds, and a key only if nobody has a
\* share of it.
Takes(d, l) ==
  \/ l \in request[d].locks
  \/ /\ \A o \in Desks \ {d} : l \notin request[o].locks
     /\ \A g \in Engagements : l # KeyShare(g)
     /\ \A g \in Engagements : l = Key(g) =>
          \A o \in Desks \ {d} : KeyShare(g) \notin request[o].locks
  \/ \E at \in Engagements \cup {"estate"} :
       /\ l = KeyShare(at)
       /\ at \in Engagements => \A o \in Desks \ {d} : Key(at) \notin request[o].locks

LEMMA LocksTaken ==
  ASSUME DesksInv, NEW d \in Desks, Step(d), NEW l \in request'[d].locks
  PROVE  Takes(d, l)
<1> DEFINE r == request[d]
<1>t. /\ ScopeTypeOK /\ OrgTypeOK /\ RequestOK(d) /\ DOMAIN request = Desks
      /\ RootOf \in [Candidates -> Entities] /\ ValueOf \in [Candidates -> Values]
  BY CandidatesAssumption DEF DesksInv, ScopeTypeOK
<1>0. CASE request'[d] = r \/ request'[d].locks = {}
  BY <1>0 DEF Takes
\* the rows and keys that a request found free
<1>f. ASSUME NEW rows, Free(rows, d), l \in rows, \A g \in Engagements : l # KeyShare(g),
             \A g \in Engagements : l = Key(g) => KeyShare(g) \in rows
      PROVE  Takes(d, l)
  <2>1. \A o \in Desks \ {d} : l \notin request[o].locks
    BY <1>f, FreeMeansUnheld
  <2>2. ASSUME NEW g \in Engagements, l = Key(g)
        PROVE  \A o \in Desks \ {d} : KeyShare(g) \notin request[o].locks
    BY <1>f, <2>2, FreeMeansUnheld
  <2> QED BY <1>f, <2>1, <2>2 DEF Takes
<1>1. CASE PatchFlush(d)
  <2>1. r.op = "patch" /\ r.at = "loaded" /\ \A g \in Engagements : KeyShare(g) \notin r.wants
    BY <1>1, <1>t DEF RequestOK, PatchFlush, Idle
  <2>2. request'[d] = Idle \/ request'[d].locks = r.wants
    BY <1>1, <1>t DEF PatchFlush, Done, Goto
  <2>3. \A g \in Engagements : Key(g) \notin r.wants
    BY <1>1, <1>t, LockNames DEF RequestOK, PatchFlush, Idle
  <2> QED BY <1>0, <1>f, <1>1, <2>1, <2>2, <2>3 DEF PatchFlush, Idle
<1>2. CASE DeleteFlush(d)
  <2>1. r.op = "delete" /\ r.at = "loaded" /\ r.wants = ForUpdate(r.row)
    BY <1>2, <1>t DEF RequestOK, DeleteFlush, Idle
  <2>2. request'[d] = Idle \/ request'[d].locks = r.wants \ {KeyShare(r.row)}
    BY <1>2, <1>t DEF DeleteFlush, Done, Goto
  <2>3. CASE request'[d].locks = r.wants \ {KeyShare(r.row)}
    <3>1. l \in {Row(r.row), Key(r.row)}
      BY <2>1, <2>3 DEF ForUpdate
    <3>2. /\ \A g \in Engagements : l # KeyShare(g)
          /\ \A g \in Engagements : l = Key(g) => KeyShare(g) \in r.wants
      BY <2>1, <3>1, LockNames DEF ForUpdate
    <3>3. l \in r.wants
      BY <2>3
    <3> QED BY <1>f, <1>2, <3>2, <3>3 DEF DeleteFlush
  <2> QED BY <1>0, <2>2, <2>3 DEF Idle
<1>3. ASSUME NEW c \in Candidates, NEW e \in Entities, ClaimRead(d, c, e)
      PROVE  Takes(d, l)
  <2>1. l \in {Row(c)}
    BY <1>3, <1>t DEF ClaimRead, Goto
  <2> QED BY <1>3, <1>f, <2>1, LockNames DEF ClaimRead
<1>4. CASE ClaimLock(d)
  <2> DEFINE rows == ClaimRows(r.row, r.seen[1])
  <2>1. \/ request'[d] = Idle
        \/ request'[d].locks = (r.locks \cup rows) \ {KeyShare(g) : g \in Engagements}
    BY <1>4, <1>t DEF ClaimLock, Done, Goto
  <2>2. ASSUME NEW g \in Engagements, Key(g) \in rows
        PROVE  KeyShare(g) \in rows
    <3>1. Key(g) \in UNION {ForUpdate(h) : h \in Live(RootOf[r.row])}
      BY <2>2, LockNames DEF ClaimRows
    <3>2. g \in Live(RootOf[r.row])
      BY <3>1, LockNames DEF ForUpdate
    <3> QED BY <3>2 DEF ClaimRows, ForUpdate
  <2>3. Free(rows, d)
    BY <1>4 DEF ClaimLock
  <2>4. CASE /\ l \in (r.locks \cup rows) \ {KeyShare(g) : g \in Engagements}
             /\ l \notin r.locks
    <3>1. l \in rows /\ \A g \in Engagements : l # KeyShare(g)
      BY <2>4
    <3> HIDE DEF rows
    <3> QED BY <3>1, <2>2, <2>3, <1>f
  <2>5. CASE l \in r.locks
    BY <2>5 DEF Takes
  <2> QED BY <1>0, <2>1, <2>4, <2>5 DEF Idle
<1>5. CASE ZoneTarget(d)
  <2> DEFINE v == ValueOf[r.row]
             locks(at) == {Row(v)} \cup IF target[v].at = "none" THEN {KeyShare(at)} ELSE {}
  <2>1. r.op = "zone" /\ r.at = "checked" /\ r.wants = {Row(v)}
    BY <1>5, <1>t DEF RequestOK, ZoneTarget, Idle
  <2>2. ASSUME NEW at \in Destinations(RootOf[r.row]),
               target[v].at = "none" /\ at \in Engagements => Free({Key(at)}, d),
               request'[d].locks = locks(at)
        PROVE  Takes(d, l)
    <3>1. CASE l = Row(v)
      BY <3>1, <1>5, <2>1, <1>f, LockNames DEF ZoneTarget
    <3>2. CASE l = KeyShare(at) /\ target[v].at = "none"
      <4>1. at \in Engagements => \A o \in Desks \ {d} : Key(at) \notin request[o].locks
        BY <2>2, <3>2, FreeMeansUnheld
      <4>2. at \in Engagements \cup {"estate"}
        BY DestinationsAreHomes
      <4> QED BY <4>1, <4>2, <3>2 DEF Takes
    <3>3. l \in locks(at)
      BY <2>2
    <3>4. l = Row(v) \/ (l = KeyShare(at) /\ target[v].at = "none")
      BY <3>3
    <3> QED BY <3>1, <3>2, <3>4
  <2>3. \/ request'[d] = Idle
        \/ \E at \in Destinations(RootOf[r.row]) :
             /\ target[v].at = "none" /\ at \in Engagements => Free({Key(at)}, d)
             /\ request'[d] = [op |-> "zone", at |-> "verified", row |-> r.row, dest |-> at,
                               locks |-> locks(at), wants |-> {Row(r.row)}]
    <3>1. CASE request' = [request EXCEPT ![d] = Idle]
      BY <3>1, <1>t
    <3>2. ASSUME NEW at \in Destinations(RootOf[r.row]),
                 target[v].at = "none" /\ at \in Engagements => Free({Key(at)}, d),
                 request' = [request EXCEPT ![d] =
                   [op |-> "zone", at |-> "verified", row |-> r.row, dest |-> at,
                    locks |-> locks(at), wants |-> {Row(r.row)}]]
          PROVE  request'[d] = [op |-> "zone", at |-> "verified", row |-> r.row, dest |-> at,
                                locks |-> locks(at), wants |-> {Row(r.row)}]
      BY <3>2, <1>t
    <3> QED BY <3>1, <3>2, <1>5 DEF ZoneTarget, Done, Goto
  <2>. HIDE DEF locks
  <2>4. CASE request'[d] = Idle
    BY <2>4, <1>0 DEF Idle
  <2>5. ASSUME NEW at \in Destinations(RootOf[r.row]),
               target[v].at = "none" /\ at \in Engagements => Free({Key(at)}, d),
               request'[d] = [op |-> "zone", at |-> "verified", row |-> r.row, dest |-> at,
                              locks |-> locks(at), wants |-> {Row(r.row)}]
        PROVE  Takes(d, l)
    <3>1. request'[d].locks = locks(at)
      BY <2>5
    <3> QED BY <2>2, <2>5, <3>1
  <2> QED BY <2>3, <2>4, <2>5
<1>6. CASE ZoneClaim(d)
  <2>1. r.op = "zone" /\ r.at = "verified" /\ r.wants = {Row(r.row)}
    BY <1>6, <1>t DEF RequestOK, ZoneClaim, Idle
  <2>2. request'[d] = Idle \/ request'[d].locks = r.locks \cup r.wants
    BY <1>6, <1>t DEF ZoneClaim, Done, Goto
  <2>3. CASE l = Row(r.row)
    BY <2>3, <2>1, <1>6, <1>f, LockNames DEF ZoneClaim
  <2>4. CASE l \in r.locks
    BY <2>4 DEF Takes
  <2> QED BY <1>0, <2>1, <2>2, <2>3, <2>4 DEF Idle
<1>7. CASE OrgWrites(d)
  <2>1. request' = request \/ request' = [request EXCEPT ![d] = Idle]
    BY <1>7 DEF OrgWrites, SetOurs, Clear, SetMaTarget, CreateEngagement, TransitionCommit,
       PatchCommit, DeleteCommit, MoveTarget, Done, Goto
  <2> QED BY <2>1, <1>0, <1>t DEF Idle
<1>8. CASE CandWrites(d)
  <2>1. request' = request \/ request' = [request EXCEPT ![d] = Idle]
    BY <1>8 DEF CandWrites, RecordSignal, Reject, ZoneRejected, ClaimCommit, ZoneCommit, Done, Goto
  <2> QED BY <2>1, <1>0, <1>t DEF Idle
<1>9. ASSUME \/ \E g \in Engagements, e \in Entities : PatchLoad(d, g, e)
             \/ \E g \in Engagements : DeleteLoad(d, g)
             \/ \E g \in Engagements, to \in Postures : TransitionLoad(d, g, to)
             \/ DeadlockVictim(d)
             \/ \E c \in Candidates : ZoneCheck(d, c)
      PROVE  Takes(d, l)
  BY <1>9, <1>0, <1>t DEF PatchLoad, DeleteLoad, TransitionLoad, DeadlockVictim, ZoneCheck, Done, Goto,
     Idle
<1>10. CASE OrgStep(d)
  BY <1>10, <1>1, <1>2, <1>7, <1>9 DEF OrgStep, OrgWrites
<1>11. CASE CandStep(d)
  BY <1>11, <1>3, <1>4, <1>5, <1>6, <1>8, <1>9 DEF CandStep, CandWrites
<1> QED BY <1>10, <1>11 DEF Step

LEMMA ExclusiveKept ==
  ASSUME DesksInv, NEW d \in Desks, Step(d)
  PROVE  Exclusive'
<1>1. \A o \in Desks \ {d} : request'[o] = request[o]
  BY OthersWait DEF DesksInv
<1>2. Exclusive
  BY DEF DesksInv
<1>3. ASSUME NEW o \in Desks \ {d}
      PROVE  /\ \A l \in request'[d].locks \cap request'[o].locks :
                  \E g \in Engagements \cup {"estate"} : l = KeyShare(g)
             /\ \A g \in Engagements : Key(g) \in request'[d].locks => KeyShare(g) \notin request'[o].locks
             /\ \A g \in Engagements : Key(g) \in request'[o].locks => KeyShare(g) \notin request'[d].locks
  <2>1. ASSUME NEW l \in request'[d].locks, l \in request'[o].locks
        PROVE  \E g \in Engagements \cup {"estate"} : l = KeyShare(g)
    <3>1. Takes(d, l)
      BY LocksTaken
    <3> QED BY <3>1, <2>1, <1>1, <1>2, <1>3 DEF Takes, Exclusive
  <2>2. ASSUME NEW g \in Engagements, Key(g) \in request'[d].locks
        PROVE  KeyShare(g) \notin request'[o].locks
    <3>1. Takes(d, Key(g))
      BY LocksTaken, <2>2
    <3> QED BY <3>1, <1>1, <1>2, <1>3, LockNames DEF Takes, Exclusive
  <2>3. ASSUME NEW g \in Engagements, Key(g) \in request'[o].locks, KeyShare(g) \in request'[d].locks
        PROVE  FALSE
    <3>1. Takes(d, KeyShare(g))
      BY LocksTaken, <2>3
    <3>2. KeyShare(g) \in request[d].locks => Key(g) \notin request[o].locks
      BY <1>2, HeldByOne
    <3> QED BY <3>1, <3>2, <2>3, <1>1, LockNames DEF Takes
  <2> QED BY <2>1, <2>2, <2>3
<1>4. ASSUME NEW p \in Desks, NEW o \in Desks, p # o
      PROVE  /\ \A l \in request'[p].locks \cap request'[o].locks :
                  \E g \in Engagements \cup {"estate"} : l = KeyShare(g)
             /\ \A g \in Engagements : Key(g) \in request'[p].locks => KeyShare(g) \notin request'[o].locks
  <2>1. CASE p = d
    BY <2>1, <1>3, <1>4
  <2>2. CASE o = d
    BY <2>2, <1>3, <1>4
  <2>3. CASE p # d /\ o # d
    BY <2>3, <1>1, <1>2, <1>4 DEF Exclusive
  <2> QED BY <2>1, <2>2, <2>3
<1> QED BY <1>4 DEF Exclusive

-----------------------------------------------------------------------------
(* Rows                                                                     *)

LEMMA OrgTypesKept ==
  ASSUME DesksInv, NEW d \in Desks, Step(d)
  PROVE  OrgTypeOK' /\ NoTargetIsNothing'
<1> DEFINE r == request[d]
<1>t. /\ ScopeTypeOK /\ OrgTypeOK /\ RequestOK(d) /\ NoTargetIsNothing
      /\ RootOf \in [Candidates -> Entities] /\ ValueOf \in [Candidates -> Values]
      /\ MaxCalls \in Nat /\ "none" \notin Engagements
  BY CandidatesAssumption, OrganizationsAssumption DEF DesksInv, ScopeTypeOK
<1> DEFINE TargetRow == [at : Engagements \cup {"none", "estate"}, entity : Entities \cup {NoEntity}]
           EngagementRow == [posture : Postures \cup {"none"}, subject : Entities \cup {NoEntity}]
<1>1. calls' \in 0..MaxCalls
  <2>1. calls' = calls \/ (calls < MaxCalls /\ calls' = calls + 1)
    <3>1. CASE OrgStep(d)
      BY <3>1 DEF OrgStep, SetOurs, Clear, SetMaTarget, CreateEngagement, TransitionLoad,
         TransitionCommit, PatchLoad, PatchFlush, PatchCommit, DeleteLoad, DeleteFlush, DeleteCommit,
         DeadlockVictim, MoveTarget, Start
    <3>2. CASE CandStep(d)
      BY <3>2 DEF CandStep, RecordSignal, Reject, ClaimRead, ClaimLock, ClaimCommit, ZoneRejected,
         ZoneCheck, ZoneTarget, ZoneClaim, ZoneCommit, Start
    <3> QED BY <3>1, <3>2 DEF Step
  <2> QED BY <2>1, <1>t DEF OrgTypeOK
<1>2. relationship' \in [Entities -> Relationships]
  <2>1. CASE relationship' = relationship
    BY <2>1, <1>t DEF OrgTypeOK
  <2>2. ASSUME NEW e \in Entities, SetOurs(d, e) \/ Clear(d, e)
        PROVE  relationship' \in [Entities -> Relationships]
    BY <2>2, <1>t DEF SetOurs, Clear, OrgTypeOK, Relationships
  <2>3. ASSUME NEW e \in Entities, NEW g \in Engagements, SetMaTarget(d, e, g)
        PROVE  relationship' \in [Entities -> Relationships]
    BY <2>3, <1>t DEF SetMaTarget, OrgTypeOK, Relationships
  <2>4. CASE PatchCommit(d)
    BY <2>4, <1>t DEF PatchCommit, OrgTypeOK, Relationships
  <2>5. CASE DeleteCommit(d)
    BY <2>5, <1>t DEF DeleteCommit, OrgTypeOK, Relationships
  <2>6. CASE OrgWrites(d)
    BY <2>1, <2>2, <2>3, <2>4, <2>5, <2>6 DEF OrgWrites, CreateEngagement, TransitionCommit, MoveTarget
  <2>7. CASE CandWrites(d)
    BY <2>1, <2>7 DEF CandWrites, RecordSignal, Reject, ZoneRejected, ClaimCommit, ZoneCommit
  <2> QED BY <2>1, <2>6, <2>7, StepCases DEF Reads
<1>3. engagement' \in [Engagements -> EngagementRow]
  <2>0. engagement \in [Engagements -> EngagementRow]
    BY <1>t DEF OrgTypeOK
  <2>a. \A g \in Engagements, p \in Postures \cup {"none"}, e \in Entities \cup {NoEntity} :
          [engagement EXCEPT ![g] = [posture |-> p, subject |-> e]] \in [Engagements -> EngagementRow]
    BY <2>0
  <2>b. \A g \in Engagements, p \in Postures \cup {"none"} :
          [engagement EXCEPT ![g].posture = p] \in [Engagements -> EngagementRow]
    BY <2>0
  <2>c. \A g \in Engagements, e \in Entities \cup {NoEntity} :
          [engagement EXCEPT ![g].subject = e] \in [Engagements -> EngagementRow]
    BY <2>0
  <2>1. CASE engagement' = engagement
    BY <2>1, <2>0
  <2>2. ASSUME NEW e \in Entities, NEW g \in Engagements, SetMaTarget(d, e, g)
        PROVE  engagement' \in [Engagements -> EngagementRow]
    <3>1. "pre_close" \in Postures
      BY DEF Postures, Restricting
    <3>2. \/ engagement' = [engagement EXCEPT ![g].subject = e]
          \/ engagement' = [engagement EXCEPT ![g] = [posture |-> "pre_close", subject |-> e]]
      BY <2>2 DEF SetMaTarget
    <3>3. CASE engagement' = [engagement EXCEPT ![g].subject = e]
      BY <3>3, <2>c
    <3> QED BY <2>a, <3>1, <3>2, <3>3
  <2>3. ASSUME NEW g \in Engagements, CreateEngagement(d, g)
        PROVE  engagement' \in [Engagements -> EngagementRow]
    <3>1. "pre_close" \in Postures \cup {"none"} /\ NoEntity \in Entities \cup {NoEntity}
      BY DEF Postures, Restricting
    <3>2. engagement' = [engagement EXCEPT ![g] = [posture |-> "pre_close", subject |-> NoEntity]]
      BY <2>3 DEF CreateEngagement
    <3> QED BY <2>a, <3>1, <3>2
  <2>4. CASE TransitionCommit(d)
    <3>1. r.row \in Engagements /\ r.to \in Postures
      BY <2>4, <1>t DEF RequestOK, TransitionCommit, Idle
    <3>2. \/ engagement' = engagement
          \/ engagement' = [engagement EXCEPT ![r.row].posture = r.to]
      BY <2>4 DEF TransitionCommit
    <3> QED BY <2>b, <2>1, <3>1, <3>2
  <2>5. CASE PatchCommit(d)
    <3>1. r.row \in Engagements /\ r.to \in Entities
      BY <2>5, <1>t DEF RequestOK, PatchCommit, Idle
    <3>2. \/ engagement' = engagement
          \/ engagement' = [engagement EXCEPT ![r.row].subject = r.to]
      BY <2>5 DEF PatchCommit
    <3> QED BY <2>c, <2>1, <3>1, <3>2
  <2>6. CASE DeleteCommit(d)
    <3>1. r.row \in Engagements
      BY <2>6, <1>t DEF RequestOK, DeleteCommit, Idle
    <3>2. engagement' = [engagement EXCEPT ![r.row] = [posture |-> "none", subject |-> NoEntity]]
      BY <2>6 DEF DeleteCommit
    <3>3. "none" \in Postures \cup {"none"} /\ NoEntity \in Entities \cup {NoEntity}
      OBVIOUS
    <3> QED BY <2>a, <3>1, <3>2, <3>3
  <2>7. CASE OrgWrites(d)
    BY <2>1, <2>2, <2>3, <2>4, <2>5, <2>6, <2>7 DEF OrgWrites, SetOurs, Clear, MoveTarget
  <2>8. CASE CandWrites(d)
    BY <2>1, <2>8 DEF CandWrites, RecordSignal, Reject, ZoneRejected, ClaimCommit, ZoneCommit
  <2> QED BY <2>1, <2>7, <2>8, StepCases DEF Reads
<1>4. target' \in [Values -> TargetRow] /\ NoTargetIsNothing'
  <2>0. target \in [Values -> TargetRow] /\ NoTargetIsNothing
    BY <1>t DEF OrgTypeOK
  <2>a. ASSUME NEW v \in Values, NEW at \in Engagements \cup {"estate"}, NEW e \in Entities \cup {NoEntity},
               \/ target' = [target EXCEPT ![v] = [at |-> at, entity |-> e]]
               \/ target' = [target EXCEPT ![v].at = at]
        PROVE  target' \in [Values -> TargetRow] /\ NoTargetIsNothing'
    <3>1. target' \in [Values -> TargetRow]
      BY <2>0, <2>a
    <3>2. target'[v].at = at /\ \A w \in Values \ {v} : target'[w] = target[w]
      BY <2>0, <2>a
    <3>3. at # "none"
      BY <1>t
    <3> QED BY <2>0, <3>1, <3>2, <3>3 DEF NoTargetIsNothing
  <2>1. CASE target' = target
    BY <2>1, <2>0 DEF NoTargetIsNothing
  <2>2. ASSUME NEW v \in Values, NEW to \in Engagements \cup {"estate"}, MoveTarget(d, v, to)
        PROVE  target' \in [Values -> TargetRow] /\ NoTargetIsNothing'
    <3>1. target' = [target EXCEPT ![v].at = to]
      BY <2>2 DEF MoveTarget
    <3>2. NoEntity \in Entities \cup {NoEntity}
      OBVIOUS
    <3> QED BY <2>a, <3>1, <3>2
  <2>3. CASE ClaimCommit(d)
    <3>1. /\ r.row \in Candidates /\ r.to \in Entities /\ ValueOf[r.row] \in Values
          /\ r.dest \in Homes(RootOf[r.row])
      BY <2>3, <1>t DEF RequestOK, ClaimCommit, Idle
    <3>2. r.dest \in Engagements \cup {"estate"}
      BY <3>1 DEF Homes, Live, EngagementsOf
    <3>3. target' = target \/ target' = [target EXCEPT ![ValueOf[r.row]] = [at |-> r.dest, entity |-> r.to]]
      BY <2>3 DEF ClaimCommit, Claim
    <3> QED BY <2>a, <2>1, <3>1, <3>2, <3>3
  <2>4. CASE ZoneCommit(d)
    <3> DEFINE v == ValueOf[r.row]
               e == IF target[v].entity = NoEntity THEN RootOf[r.row] ELSE target[v].entity
    <3>1. r.row \in Candidates /\ v \in Values /\ r.dest \in Engagements \cup {"estate"}
      BY <2>4, <1>t DEF RequestOK, ZoneCommit, Idle
    <3>2. e \in Entities \cup {NoEntity}
      BY <2>0, <3>1, <1>t
    <3>3. target' = [target EXCEPT ![v] = [at |-> r.dest, entity |-> e]]
      BY <2>4 DEF ZoneCommit, Claim
    <3> HIDE DEF e, v
    <3> QED BY <2>a, <3>1, <3>2, <3>3
  <2>5. CASE OrgWrites(d)
    BY <2>1, <2>2, <2>5 DEF OrgWrites, SetOurs, Clear, SetMaTarget, CreateEngagement, TransitionCommit,
       PatchCommit, DeleteCommit
  <2>6. CASE CandWrites(d)
    BY <2>1, <2>3, <2>4, <2>6 DEF CandWrites, RecordSignal, Reject, ZoneRejected
  <2> QED BY <2>1, <2>5, <2>6, StepCases DEF Reads
<1> QED BY <1>1, <1>2, <1>3, <1>4 DEF OrgTypeOK

CandidateRow(x) ==
  \/ x \in {Absent, Opened}
  \/ x \in [status : {"rejected"}, weighed : SUBSET StrongTypes]
  \/ x \in [status : {"claimed"}, into : Engagements \cup {"estate"}, by : {"person", "connector"}]

LEMMA CandTypesKept ==
  ASSUME DesksInv, NEW d \in Desks, Step(d)
  PROVE  ScopeTypeOK'
<1> DEFINE r == request[d]
<1>t. /\ ScopeTypeOK /\ RequestOK(d)
      /\ DOMAIN candidate = Candidates /\ \A c \in Candidates : CandidateRow(candidate[c])
      /\ signals \subseteq [cand : Candidates, type : StrongTypes \cup SupportingTypes]
      /\ everRejected \subseteq Candidates
  BY DEF DesksInv, ScopeTypeOK, CandidateRow
<1>0. OrgTypeOK'
  BY OrgTypesKept
<1> DEFINE CandOK == /\ DOMAIN candidate' = Candidates /\ \A c \in Candidates : CandidateRow(candidate'[c])
                     /\ signals' \subseteq [cand : Candidates, type : StrongTypes \cup SupportingTypes]
                     /\ everRejected' \subseteq Candidates
<1> SUFFICES CandOK
  BY <1>0 DEF ScopeTypeOK, CandidateRow
<1>a. ASSUME NEW c \in Candidates, NEW x, CandidateRow(x), candidate' = [candidate EXCEPT ![c] = x]
      PROVE  DOMAIN candidate' = Candidates /\ \A b \in Candidates : CandidateRow(candidate'[b])
  BY <1>a, <1>t
<1>b. ASSUME NEW c \in Candidates, NEW t \in StrongTypes \cup SupportingTypes
      PROVE  /\ CandidateRow(Recorded(c, t))
             /\ Signal(c, t) \in [cand : Candidates, type : StrongTypes \cup SupportingTypes]
  <2>1. Recorded(c, t) \in {Opened, candidate[c]}
    BY DEF Recorded
  <2>2. CandidateRow(Opened)
    BY DEF CandidateRow
  <2> QED BY <2>1, <2>2, <1>t DEF Signal
<1>1. CASE UNCHANGED candVars
  BY <1>1, <1>t DEF candVars
<1>2. ASSUME NEW c \in Candidates, NEW t \in {"person_evidence"} \cup SupportingTypes, RecordSignal(d, c, t)
      PROVE  CandOK
  <2>1. t \in StrongTypes \cup SupportingTypes
    BY DEF StrongTypes
  <2> QED BY <1>2, <1>a, <1>b, <1>t, <2>1 DEF RecordSignal
<1>3. ASSUME NEW c \in Candidates, Reject(d, c)
      PROVE  CandOK
  <2>1. CandidateRow([status |-> "rejected", weighed |-> StrongOf(c)])
    BY DEF CandidateRow, StrongOf
  <2> QED BY <1>3, <1>a, <1>t, <2>1 DEF Reject
<1>4. ASSUME NEW c \in Candidates, ZoneRejected(d, c)
      PROVE  CandOK
  <2>1. "connector_zone" \in StrongTypes \cup SupportingTypes
    BY DEF StrongTypes
  <2> QED BY <1>4, <1>a, <1>b, <1>t, <2>1 DEF ZoneRejected
<1>5. CASE ClaimCommit(d)
  <2>1. r.row \in Candidates /\ r.dest \in Homes(RootOf[r.row])
    BY <1>5, <1>t DEF RequestOK, ClaimCommit, Idle
  <2>2. r.dest \in Engagements \cup {"estate"}
    BY <2>1 DEF Homes, Live, EngagementsOf
  <2>3. CandidateRow([status |-> "claimed", into |-> r.dest, by |-> "person"])
    BY <2>2 DEF CandidateRow
  <2> QED BY <1>5, <1>a, <1>t, <2>1, <2>3 DEF ClaimCommit, Claim
<1>6. CASE ZoneCommit(d)
  <2>1. r.row \in Candidates /\ r.dest \in Engagements \cup {"estate"}
    BY <1>6, <1>t DEF RequestOK, ZoneCommit, Idle
  <2>2. CandidateRow([status |-> "claimed", into |-> r.dest, by |-> "connector"])
    BY <2>1 DEF CandidateRow
  <2>3. "connector_zone" \in StrongTypes \cup SupportingTypes
    BY DEF StrongTypes
  <2>4. DOMAIN candidate' = Candidates /\ \A c \in Candidates : CandidateRow(candidate'[c])
    BY <1>6, <1>a, <1>t, <2>1, <2>2 DEF ZoneCommit, Claim
  <2> QED BY <1>6, <1>b, <1>t, <2>1, <2>3, <2>4 DEF ZoneCommit
<1>7. CASE CandWrites(d)
  BY <1>7, <1>2, <1>3, <1>4, <1>5, <1>6 DEF CandWrites
<1> QED BY <1>1, <1>7, StepCases DEF Reads, candVars

-----------------------------------------------------------------------------
(* The properties are kept                                                  *)

LEMMA OursKept ==
  ASSUME DesksInv, NEW d \in Desks, Step(d)
  PROVE  OursNeverSubject'
<1> DEFINE r == request[d]
<1>t. /\ ScopeTypeOK /\ OrgTypeOK /\ RequestOK(d) /\ OursNeverSubject /\ NoEntity \notin Entities
  BY OrganizationsAssumption DEF DesksInv, ScopeTypeOK
\* who is ours, and whose an engagement is
<1>0. CASE UNCHANGED <<relationship, engagement>>
  BY <1>0, <1>t DEF OursNeverSubject, EngagementsOf, Exists
<1>a. ASSUME \A e \in Entities : relationship'[e] = "ours" => relationship[e] = "ours",
             \A g \in Engagements, e \in Entities : Exists(g)' /\ engagement'[g].subject = e =>
               (Exists(g) /\ engagement[g].subject = e) \/ relationship'[e] # "ours"
      PROVE  OursNeverSubject'
  BY <1>a, <1>t DEF OursNeverSubject, EngagementsOf
<1>1. ASSUME NEW e \in Entities, SetOurs(d, e)
      PROVE  OursNeverSubject'
  <2>1. EngagementsOf(e) = {} /\ engagement' = engagement
    BY <1>1 DEF SetOurs
  <2>2. \A x \in Entities \ {e} : relationship'[x] = relationship[x]
    BY <1>1, <1>t DEF SetOurs, OrgTypeOK
  <2> QED BY <2>1, <2>2, <1>t DEF OursNeverSubject, EngagementsOf, Exists
<1>2. ASSUME NEW e \in Entities, Clear(d, e)
      PROVE  OursNeverSubject'
  <2>1. engagement' = engagement
    BY <1>2 DEF Clear
  <2>2. \A x \in Entities : relationship'[x] = "ours" => relationship[x] = "ours"
    BY <1>2, <1>t DEF Clear, OrgTypeOK
  <2> QED BY <2>1, <2>2, <1>a DEF Exists
<1>3. ASSUME NEW e \in Entities, NEW g \in Engagements, SetMaTarget(d, e, g)
      PROVE  OursNeverSubject'
  <2>1. relationship'[e] # "ours" /\ \A x \in Entities : relationship'[x] = "ours" => relationship[x] = "ours"
    BY <1>3, <1>t DEF SetMaTarget, OrgTypeOK
  <2>2. engagement'[g].subject = e /\ \A h \in Engagements \ {g} : engagement'[h] = engagement[h]
    BY <1>3, <1>t DEF SetMaTarget, OrgTypeOK
  <2> QED BY <2>1, <2>2, <1>a DEF Exists
<1>4. ASSUME NEW g \in Engagements, CreateEngagement(d, g)
      PROVE  OursNeverSubject'
  <2>1. relationship' = relationship
    BY <1>4 DEF CreateEngagement
  <2>2. engagement'[g].subject = NoEntity /\ \A h \in Engagements \ {g} : engagement'[h] = engagement[h]
    BY <1>4, <1>t DEF CreateEngagement, OrgTypeOK
  <2> QED BY <2>1, <2>2, <1>a, <1>t DEF Exists
<1>5. CASE TransitionCommit(d)
  <2>1. relationship' = relationship
    BY <1>5 DEF TransitionCommit
  <2>2. \A h \in Engagements : /\ engagement'[h].subject = engagement[h].subject
                               /\ Exists(h)' => Exists(h)
    BY <1>5, <1>t DEF TransitionCommit, OrgTypeOK, Exists
  <2> QED BY <2>1, <2>2, <1>a
<1>6. CASE PatchCommit(d)
  <2>1. /\ r.row \in Engagements /\ r.to \in Entities /\ relationship[r.to] # "ours"
        /\ r.reset => r.seen \in Entities
    BY <1>6, <1>t DEF RequestOK, PatchCommit, Idle
  <2>2. \A x \in Entities : relationship'[x] = "ours" => relationship[x] = "ours"
    BY <1>6, <1>t, <2>1 DEF PatchCommit, OrgTypeOK
  <2>3. \A h \in Engagements : /\ Exists(h)' => Exists(h)
                               /\ engagement'[h].subject \in {engagement[h].subject, r.to}
    BY <1>6, <1>t, <2>1 DEF PatchCommit, OrgTypeOK, Exists
  <2> QED BY <2>1, <2>2, <2>3, <1>a
<1>7. CASE DeleteCommit(d)
  <2>1. /\ r.row \in Engagements /\ (r.reset => r.seen \in Entities)
    BY <1>7, <1>t DEF RequestOK, DeleteCommit, Idle
  <2>2. \A x \in Entities : relationship'[x] = "ours" => relationship[x] = "ours"
    BY <1>7, <1>t, <2>1 DEF DeleteCommit, OrgTypeOK
  <2>3. /\ engagement'[r.row].posture = "none"
        /\ \A h \in Engagements \ {r.row} : engagement'[h] = engagement[h]
    BY <1>7, <1>t, <2>1 DEF DeleteCommit, OrgTypeOK
  <2>4. \A h \in Engagements : Exists(h)' => Exists(h) /\ engagement'[h] = engagement[h]
    BY <2>3 DEF Exists
  <2> QED BY <2>2, <2>4, <1>a
<1>8. CASE OrgWrites(d)
  BY <1>8, <1>0, <1>1, <1>2, <1>3, <1>4, <1>5, <1>6, <1>7 DEF OrgWrites, MoveTarget
<1>9. CASE CandWrites(d)
  BY <1>9, <1>0 DEF CandWrites, RecordSignal, Reject, ZoneRejected, ClaimCommit, ZoneCommit
<1> QED BY <1>0, <1>8, <1>9, StepCases DEF Reads

LEMMA MembersKept ==
  ASSUME DesksInv, NEW d \in Desks, Step(d)
  PROVE  NoDanglingMember'
<1> DEFINE r == request[d]
<1>t. /\ ScopeTypeOK /\ OrgTypeOK /\ RequestOK(d) /\ NoDanglingMember /\ "estate" \notin Engagements
      /\ RootOf \in [Candidates -> Entities] /\ ValueOf \in [Candidates -> Values]
  BY OrganizationsAssumption, CandidatesAssumption DEF DesksInv, ScopeTypeOK
<1>a. ASSUME \A g \in Engagements : Exists(g) => Exists(g)',
             \A v \in Values : \/ target'[v].at = target[v].at
                               \/ target'[v].at \in Engagements => Exists(target'[v].at)
      PROVE  NoDanglingMember'
  BY <1>a, <1>t DEF NoDanglingMember
<1>0. CASE UNCHANGED <<engagement, target>>
  BY <1>0, <1>a DEF Exists
<1>1. ASSUME \/ \E e \in Entities, g \in Engagements : SetMaTarget(d, e, g)
             \/ \E g \in Engagements : CreateEngagement(d, g)
             \/ TransitionCommit(d) \/ PatchCommit(d)
      PROVE  NoDanglingMember'
  <2>1. target' = target
    BY <1>1 DEF SetMaTarget, CreateEngagement, TransitionCommit, PatchCommit
  <2>2. ASSUME NEW e \in Entities, NEW g \in Engagements, SetMaTarget(d, e, g)
        PROVE  \A h \in Engagements : Exists(h) => Exists(h)'
    BY <2>2, <1>t DEF SetMaTarget, OrgTypeOK, Exists
  <2>3. ASSUME NEW g \in Engagements, CreateEngagement(d, g)
        PROVE  \A h \in Engagements : Exists(h) => Exists(h)'
    BY <2>3, <1>t DEF CreateEngagement, OrgTypeOK, Exists
  <2>4. ASSUME TransitionCommit(d)
        PROVE  \A h \in Engagements : Exists(h) => Exists(h)'
    <3>1. r.to \in Postures
      BY <2>4, <1>t DEF RequestOK, TransitionCommit, Idle
    <3> QED BY <2>4, <3>1, <1>t DEF TransitionCommit, OrgTypeOK, Exists, Postures, Restricting
  <2>5. ASSUME PatchCommit(d)
        PROVE  \A h \in Engagements : Exists(h) => Exists(h)'
    BY <2>5, <1>t DEF PatchCommit, OrgTypeOK, Exists
  <2> QED BY <1>1, <2>1, <2>2, <2>3, <2>4, <2>5, <1>a
<1>2. CASE DeleteCommit(d)
  <2>1. r.row \in Engagements /\ Members(r.row) = {}
    BY <1>2, <1>t DEF RequestOK, DeleteCommit, Idle
  <2>2. target' = target /\ \A g \in Engagements \ {r.row} : engagement'[g] = engagement[g]
    BY <1>2, <1>t, <2>1 DEF DeleteCommit, OrgTypeOK
  <2>3. \A v \in Values : target[v].at # r.row
    BY <2>1 DEF Members
  <2>4. \A v \in Values : target'[v].at \in Engagements =>
          target'[v].at \in Engagements \ {r.row} /\ Exists(target'[v].at)
    BY <2>2, <2>3, <1>t DEF NoDanglingMember
  <2> QED BY <2>2, <2>4 DEF NoDanglingMember, Exists
<1>3. ASSUME NEW v \in Values, NEW to \in Engagements \cup {"estate"}, MoveTarget(d, v, to)
      PROVE  NoDanglingMember'
  <2>1. /\ engagement' = engagement /\ (to \in Engagements => Exists(to))
        /\ \A w \in Values : target'[w].at \in {target[w].at, to}
    BY <1>3, <1>t DEF MoveTarget, OrgTypeOK
  <2> QED BY <2>1, <1>a DEF Exists
<1>4. CASE ClaimCommit(d)
  <2>1. r.row \in Candidates /\ r.dest \in Homes(RootOf[r.row])
    BY <1>4, <1>t DEF RequestOK, ClaimCommit, Idle
  <2>2. r.dest \in Engagements => Exists(r.dest)
    BY <2>1, <1>t DEF Homes, Live, EngagementsOf
  <2>3. engagement' = engagement /\ \A w \in Values : target'[w].at \in {target[w].at, r.dest}
    BY <1>4, <1>t, <2>1 DEF ClaimCommit, Claim, OrgTypeOK
  <2> QED BY <2>2, <2>3, <1>a DEF Exists
<1>5. CASE ZoneCommit(d)
  <2>1. /\ r.row \in Candidates /\ ValueOf[r.row] \in Values
        /\ \/ target[ValueOf[r.row]].at = r.dest
           \/ r.dest \in Engagements => Exists(r.dest)
    BY <1>5, <1>t DEF RequestOK, ZoneCommit, Idle
  <2>2. r.dest \in Engagements => Exists(r.dest)
    BY <2>1, <1>t DEF NoDanglingMember
  <2>3. engagement' = engagement /\ \A w \in Values : target'[w].at \in {target[w].at, r.dest}
    BY <1>5, <1>t, <2>1 DEF ZoneCommit, Claim, OrgTypeOK
  <2> QED BY <2>2, <2>3, <1>a DEF Exists
<1>6. CASE OrgWrites(d)
  BY <1>6, <1>0, <1>1, <1>2, <1>3 DEF OrgWrites, SetOurs, Clear
<1>7. CASE CandWrites(d)
  BY <1>7, <1>0, <1>4, <1>5 DEF CandWrites, RecordSignal, Reject, ZoneRejected
<1> QED BY <1>0, <1>6, <1>7, StepCases DEF Reads

\* A signal is evidence for its own candidate only.
LEMMA TypesGrow ==
  ASSUME NEW c, NEW t, NEW b, signals' = signals \cup {Signal(c, t)}
  PROVE  TypesOf(b)' = TypesOf(b) \cup IF b = c THEN {t} ELSE {}
<1> DEFINE new == IF b = c THEN {t} ELSE {}
<1>1. ASSUME NEW s \in signals', s.cand = b
      PROVE  s.type \in TypesOf(b) \cup new
  <2>1. CASE s \in signals
    BY <1>1, <2>1 DEF TypesOf
  <2>2. CASE s = Signal(c, t)
    BY <1>1, <2>2 DEF Signal
  <2> QED BY <2>1, <2>2
<1>2. TypesOf(b) \subseteq TypesOf(b)'
  BY DEF TypesOf
<1>3. new \subseteq TypesOf(b)'
  <2>1. Signal(c, t) \in signals' /\ Signal(c, t).cand = c /\ Signal(c, t).type = t
    BY DEF Signal
  <2>2. b = c => t \in TypesOf(b)'
    BY <2>1 DEF TypesOf
  <2> QED BY <2>2
<1>4. TypesOf(b)' \subseteq TypesOf(b) \cup new
  BY <1>1 DEF TypesOf
<1> QED BY <1>2, <1>3, <1>4

LEMMA WeighedKept ==
  ASSUME DesksInv, NEW d \in Desks, Step(d)
  PROVE  RejectedWeighedAll'
<1> DEFINE r == request[d]
<1>t. /\ ScopeTypeOK /\ RequestOK(d) /\ RejectedWeighedAll /\ DOMAIN candidate = Candidates
  BY DEF DesksInv, ScopeTypeOK
<1>0. CASE UNCHANGED candVars
  BY <1>0, <1>t DEF candVars, RejectedWeighedAll, StrongOf, TypesOf
\* a signal of c, and nothing written but c's row
<1>a. ASSUME NEW c \in Candidates, NEW t, signals' = signals \cup {Signal(c, t)},
             \A b \in Candidates \ {c} : candidate'[b] = candidate[b],
             candidate'[c].status = "rejected" =>
               /\ candidate'[c] = candidate[c]
               /\ t \in StrongTypes => t \in candidate[c].weighed \cup TypesOf(c)
      PROVE  RejectedWeighedAll'
  <2>1. ASSUME NEW b \in Candidates, candidate'[b].status = "rejected"
        PROVE  StrongOf(b)' \subseteq candidate'[b].weighed
    <3>1. TypesOf(b)' = TypesOf(b) \cup IF b = c THEN {t} ELSE {}
      BY <1>a, TypesGrow
    <3>2. candidate'[b] = candidate[b] /\ StrongOf(b) \subseteq candidate[b].weighed
      BY <1>a, <1>t, <2>1 DEF RejectedWeighedAll
    <3>3. StrongOf(b)' = TypesOf(b)' \cap StrongTypes
      BY DEF StrongOf
    <3>4. CASE b = c
      BY <3>1, <3>2, <3>3, <3>4, <1>a, <2>1 DEF StrongOf
    <3>5. CASE b # c
      BY <3>1, <3>2, <3>3, <3>5 DEF StrongOf
    <3> QED BY <3>4, <3>5
  <2> QED BY <2>1 DEF RejectedWeighedAll
\* what record_signal writes
<1>b. ASSUME NEW c \in Candidates, NEW t, signals' = signals \cup {Signal(c, t)},
             candidate' = [candidate EXCEPT ![c] = Recorded(c, t)]
      PROVE  RejectedWeighedAll'
  <2>1. /\ candidate'[c] = Recorded(c, t)
        /\ \A b \in Candidates \ {c} : candidate'[b] = candidate[b]
    BY <1>b, <1>t
  <2>2. Recorded(c, t).status = "rejected" =>
          /\ Recorded(c, t) = candidate[c]
          /\ t \in StrongTypes => t \in candidate[c].weighed \cup TypesOf(c)
    BY DEF Recorded, Unlocks, Opened
  <2> QED BY <2>1, <2>2, <1>a, <1>b
<1>1. ASSUME NEW c \in Candidates, NEW t \in {"person_evidence"} \cup SupportingTypes, RecordSignal(d, c, t)
      PROVE  RejectedWeighedAll'
  BY <1>1, <1>b DEF RecordSignal
<1>2. ASSUME NEW c \in Candidates, ZoneRejected(d, c)
      PROVE  RejectedWeighedAll'
  BY <1>2, <1>b DEF ZoneRejected
<1>3. ASSUME NEW c \in Candidates, Reject(d, c)
      PROVE  RejectedWeighedAll'
  <2>1. signals' = signals /\ \A b : StrongOf(b)' = StrongOf(b)
    BY <1>3 DEF Reject, StrongOf, TypesOf
  <2>2. /\ candidate'[c].weighed = StrongOf(c)
        /\ \A b \in Candidates \ {c} : candidate'[b] = candidate[b]
    BY <1>3, <1>t DEF Reject
  <2> QED BY <2>1, <2>2, <1>t DEF RejectedWeighedAll
<1>4. CASE ClaimCommit(d)
  <2>1. r.row \in Candidates
    BY <1>4, <1>t DEF RequestOK, ClaimCommit, Idle
  <2>2. \A b : StrongOf(b)' = StrongOf(b)
    BY <1>4 DEF ClaimCommit, StrongOf, TypesOf
  <2>3. \A b \in Candidates : candidate'[b] = candidate[b] \/ candidate'[b].status = "claimed"
    BY <1>4, <1>t, <2>1 DEF ClaimCommit, Claim
  <2> QED BY <2>2, <2>3, <1>t DEF RejectedWeighedAll
<1>5. CASE ZoneCommit(d)
  <2>1. r.row \in Candidates /\ (r.claims \/ candidate[r.row].status = "claimed")
    BY <1>5, <1>t DEF RequestOK, ZoneCommit, Idle
  <2>2. candidate'[r.row].status = "claimed" /\ \A b \in Candidates \ {r.row} : candidate'[b] = candidate[b]
    BY <1>5, <1>t, <2>1 DEF ZoneCommit, Claim
  <2>3. signals' = signals \cup {Signal(r.row, "connector_zone")}
    BY <1>5 DEF ZoneCommit
  <2> QED BY <2>1, <2>2, <2>3, <1>a
<1>6. CASE CandWrites(d)
  BY <1>6, <1>1, <1>2, <1>3, <1>4, <1>5 DEF CandWrites
<1> QED BY <1>0, <1>6, StepCases DEF Reads, candVars

-----------------------------------------------------------------------------
(* The invariant                                                            *)

LEMMA DesksInvInit == ScopeInit => DesksInv
<1> SUFFICES ASSUME ScopeInit PROVE DesksInv
  OBVIOUS
<1>t. MaxCalls \in Nat /\ "estate" \notin Engagements /\ "none" \notin Engagements
  BY OrganizationsAssumption
<1>1. OrgTypeOK
  <2>1. target \in [Values -> [at : Engagements \cup {"none", "estate"}, entity : Entities \cup {NoEntity}]]
    BY DEF ScopeInit, OrgInit, NoTarget
  <2> QED BY <2>1, <1>t DEF ScopeInit, OrgInit, OrgTypeOK
<1>2. PICK types \in [Candidates -> InitialTypes], rejected \in SUBSET Candidates :
        /\ \A c \in rejected : types[c] = {"person_evidence"}
        /\ signals = UNION {{Signal(c, t) : t \in types[c]} : c \in Candidates}
        /\ candidate = [c \in Candidates |->
             IF types[c] = {} THEN Absent
             ELSE IF c \in rejected THEN [status |-> "rejected", weighed |-> types[c] \cap StrongTypes]
             ELSE Opened]
        /\ everRejected = rejected
  BY DEF ScopeInit
<1>3. \A c \in Candidates : types[c] \subseteq StrongTypes \cup SupportingTypes
  <2>1. "person_evidence" \in StrongTypes /\ "mx_into_claimed" \in SupportingTypes
    BY DEF StrongTypes, SupportingTypes, FamilyOf
  <2> QED BY <2>1 DEF InitialTypes
<1>4. \A c \in Candidates : TypesOf(c) \subseteq types[c]
  <2>1. ASSUME NEW c \in Candidates, NEW s \in signals, s.cand = c
        PROVE  s.type \in types[c]
    <3>1. PICK b \in Candidates : \E t \in types[b] : s = Signal(b, t)
      BY <1>2
    <3> QED BY <3>1, <2>1 DEF Signal
  <2> QED BY <2>1 DEF TypesOf
<1>5. ScopeTypeOK
  <2>1. signals \subseteq [cand : Candidates, type : StrongTypes \cup SupportingTypes]
    <3>1. ASSUME NEW s \in signals
          PROVE  s \in [cand : Candidates, type : StrongTypes \cup SupportingTypes]
      <4>1. PICK b \in Candidates : \E t \in types[b] : s = Signal(b, t)
        BY <1>2
      <4> QED BY <4>1, <1>3 DEF Signal
    <3> QED BY <3>1
  <2>2. DOMAIN candidate = Candidates
    BY <1>2
  <2>3. ASSUME NEW c \in Candidates
        PROVE  \/ candidate[c] \in {Absent, Opened}
               \/ candidate[c] \in [status : {"rejected"}, weighed : SUBSET StrongTypes]
    BY <1>2
  <2>4. everRejected \subseteq Candidates
    BY <1>2
  <2> QED BY <1>1, <2>1, <2>2, <2>3, <2>4 DEF ScopeTypeOK
<1>6. RejectedWeighedAll
  <2>1. ASSUME NEW c \in Candidates, candidate[c].status = "rejected"
        PROVE  candidate[c].weighed = types[c] \cap StrongTypes
    <3>1. candidate[c] # Absent /\ candidate[c] # Opened
      BY <2>1 DEF Absent, Opened
    <3>2. candidate[c] = [status |-> "rejected", weighed |-> types[c] \cap StrongTypes]
      BY <1>2, <3>1
    <3> QED BY <3>2
  <2> QED BY <2>1, <1>4 DEF RejectedWeighedAll, StrongOf
<1>7. OursNeverSubject
  <2>1. \A e \in Entities : relationship[e] = "ma_target" <=> EngagementsOf(e) # {}
    BY DEF ScopeInit, OrgInit
  <2> QED BY <2>1 DEF OursNeverSubject
<1>8. NoDanglingMember /\ NoTargetIsNothing
  <2>1. \A v \in Values : target[v] = NoTarget \/ target[v].at = "estate"
    BY DEF ScopeInit, OrgInit
  <2>2. \A v \in Values : target[v].at \in {"none", "estate"} /\ (target[v].at = "none" => target[v] = NoTarget)
    BY <2>1 DEF NoTarget
  <2> QED BY <2>2, <1>t DEF NoDanglingMember, NoTargetIsNothing
<1>9. /\ DOMAIN request = Desks
      /\ \A d \in Desks : request[d] = Idle
  BY DEF ScopeInit, OrgInit
<1>10. Exclusive /\ \A d \in Desks : RequestOK(d)
  BY <1>9 DEF Exclusive, RequestOK, Idle
<1> QED BY <1>5, <1>6, <1>7, <1>8, <1>9, <1>10 DEF DesksInv

LEMMA DesksInvStep == DesksInv /\ [ScopeNext]_scopeVars => DesksInv'
<1> SUFFICES ASSUME DesksInv, [ScopeNext]_scopeVars PROVE DesksInv'
  OBVIOUS
<1>1. CASE UNCHANGED scopeVars
  <2>1. /\ UNCHANGED <<relationship, engagement, target, request, calls>>
        /\ UNCHANGED <<candidate, signals, everRejected>>
    BY <1>1 DEF scopeVars, orgVars, candVars
  <2>2. ScopeTypeOK' /\ NoTargetIsNothing'
    BY <2>1 DEF DesksInv, ScopeTypeOK, OrgTypeOK, NoTargetIsNothing
  <2>3. DOMAIN request' = Desks /\ Exclusive'
    BY <2>1 DEF DesksInv, Exclusive
  <2>4. OursNeverSubject' /\ NoDanglingMember'
    BY <2>1 DEF DesksInv, OursNeverSubject, NoDanglingMember, EngagementsOf, Exists
  <2>5. RejectedWeighedAll'
    BY <2>1 DEF DesksInv, RejectedWeighedAll, StrongOf, TypesOf
  <2>6. ASSUME NEW d \in Desks
        PROVE  RequestOK(d)'
    <3>1. KeepsLocked(d)
      BY <2>1 DEF KeepsLocked, Exists, Members
    <3> QED BY <2>1, <3>1, RequestKept
  <2> QED BY <2>2, <2>3, <2>4, <2>5, <2>6 DEF DesksInv
<1>2. ASSUME NEW d \in Desks, Step(d)
      PROVE  DesksInv'
  BY <1>2, RequestsKept, ExclusiveKept, OrgTypesKept, CandTypesKept, OursKept, MembersKept, WeighedKept
     DEF DesksInv
<1> QED BY <1>1, <1>2 DEF ScopeNext, Step

\* The inductive invariant of the desks: the types, what a request may assume of
\* the rows it has locked, and the three invariants below.
THEOREM DesksInvAlways == ScopeSpec => []DesksInv
BY DesksInvInit, DesksInvStep, PTL DEF ScopeSpec

-----------------------------------------------------------------------------
(* The theorems                                                             *)

\* The columns of targets, engagements and candidates always hold what the
\* database allows.
THEOREM ScopeTypesAlways == ScopeSpec => []ScopeTypeOK
<1>1. DesksInv => ScopeTypeOK
  BY DEF DesksInv
<1> QED BY <1>1, DesksInvAlways, PTL

\* Our own company is never the subject of an engagement: set_ours, and every
\* request that gives an engagement a subject, holds the company's row lock from
\* its check to its commit (services/entity_relationship.py).
THEOREM OursNeverSubjectAlways == ScopeSpec => []OursNeverSubject
<1>1. DesksInv => OursNeverSubject
  BY DEF DesksInv
<1> QED BY <1>1, DesksInvAlways, PTL

\* No target is ever left in an engagement that is gone: delete_engagement takes
\* the row and its key, and whoever puts a target in holds one or shares the other.
THEOREM NoDanglingMemberAlways == ScopeSpec => []NoDanglingMember
<1>1. DesksInv => NoDanglingMember
  BY DEF DesksInv
<1> QED BY <1>1, DesksInvAlways, PTL

\* No strong evidence is buried under a rejection, whoever records it while a
\* person rejects (record_signal, reject, process_zone).
THEOREM RejectedWeighedAllAlways == ScopeSpec => []RejectedWeighedAll
<1>1. DesksInv => RejectedWeighedAll
  BY DEF DesksInv
<1> QED BY <1>1, DesksInvAlways, PTL

\* The posture of an engagement that stays is changed by the commit of a
\* transition only, to the posture that request asks for.
LEMMA PostureChange ==
  ASSUME DesksInv, NEW d \in Desks, Step(d), NEW g \in Engagements, Exists(g),
         engagement'[g].posture \notin {engagement[g].posture, "none"}
  PROVE  LET r == request[d]
         IN  /\ TransitionCommit(d) /\ r.op = "transition" /\ g = r.row
             /\ r.to \in Postures /\ r.seen \in Postures
             /\ TransitionKind(r.seen, r.to) \notin {"deny", "noop"}
             /\ engagement'[g].posture = r.to
             /\ AuthorisationMatches(r.seen, r.to, engagement[g].posture)
<1> DEFINE r == request[d]
<1>t. OrgTypeOK /\ RequestOK(d) /\ Exists(g)
  BY DEF DesksInv, ScopeTypeOK
<1>1. TransitionCommit(d)
  <2>1. CASE OrgWrites(d)
    <3>1. ASSUME NEW e \in Entities, NEW h \in Engagements, SetMaTarget(d, e, h)
          PROVE  engagement'[g].posture = engagement[g].posture
      BY <3>1, <1>t DEF SetMaTarget, OrgTypeOK
    <3>2. ASSUME NEW h \in Engagements, CreateEngagement(d, h)
          PROVE  engagement'[g] = engagement[g]
      BY <3>2, <1>t DEF CreateEngagement, OrgTypeOK
    <3>3. ASSUME PatchCommit(d)
          PROVE  engagement'[g].posture = engagement[g].posture
      BY <3>3, <1>t DEF PatchCommit, OrgTypeOK
    <3>4. ASSUME DeleteCommit(d)
          PROVE  engagement'[g].posture \in {engagement[g].posture, "none"}
      BY <3>4, <1>t DEF DeleteCommit, OrgTypeOK
    <3> QED BY <2>1, <3>1, <3>2, <3>3, <3>4, <1>t DEF OrgWrites, SetOurs, Clear, MoveTarget
  <2>2. CASE CandWrites(d)
    BY <2>2, <1>t DEF CandWrites, RecordSignal, Reject, ZoneRejected, ClaimCommit, ZoneCommit
  <2> QED BY <2>1, <2>2, <1>t, StepCases DEF Reads
<1>2. /\ r.op = "transition" /\ r.row \in Engagements /\ r.to \in Postures /\ r.seen \in Postures
      /\ TransitionKind(r.seen, r.to) \notin {"deny", "noop"}
  BY <1>1, <1>t DEF RequestOK, TransitionCommit, Idle
<1>3. /\ g = r.row /\ engagement'[g].posture = r.to
      /\ AuthorisationMatches(r.seen, r.to, engagement[g].posture)
  BY <1>1, <1>2, <1>t DEF TransitionCommit, OrgTypeOK
<1> QED BY <1>1, <1>2, <1>3

\* A posture that restricts probing is widened only by a transition that asked
\* for an authorisation reference, however stale the posture it decided on: the
\* table has no other way, and a transition that clears or keeps the columns
\* does not fit the row (ck_engagements_authorisation_matches_posture).
THEOREM WideningIsReferenced == ScopeSpec => WideningNeedsReference
<1> DEFINE Widening ==
      \A g \in Engagements :
        /\ engagement[g].posture \in Restricting
        /\ engagement'[g].posture \in {"day_0", "integrated"}
        => \E d \in Desks : /\ request[d].op = "transition"
                            /\ TransitionKind(request[d].seen, request[d].to) = "needs_ref"
<1>1. ASSUME DesksInv, NEW d \in Desks, Step(d), NEW g \in Engagements,
             engagement[g].posture \in Restricting, engagement'[g].posture \in {"day_0", "integrated"}
      PROVE  \E o \in Desks : /\ request[o].op = "transition"
                              /\ TransitionKind(request[o].seen, request[o].to) = "needs_ref"
  <2> DEFINE r == request[d]
  <2>1. Exists(g) /\ engagement'[g].posture \notin {engagement[g].posture, "none"}
    BY <1>1 DEF Restricting, Exists
  <2>2. /\ r.op = "transition" /\ r.to \in Postures /\ r.seen \in Postures
        /\ TransitionKind(r.seen, r.to) \notin {"deny", "noop"}
        /\ engagement'[g].posture = r.to
        /\ AuthorisationMatches(r.seen, r.to, engagement[g].posture)
    BY <1>1, <2>1, PostureChange
  <2>3. r.to \in {"day_0", "integrated"} /\ r.to \notin Restricting
    BY <1>1, <2>2 DEF Restricting
  <2>4. ~LeavesColumns(r.seen, r.to)
    BY <1>1, <2>2, <2>3 DEF AuthorisationMatches
  <2>5. r.seen \in {"pre_close", "abandoned", "day_0", "integrated"}
    BY <2>2 DEF Postures, Restricting
  <2>6. TransitionKind(r.seen, r.to) = "needs_ref"
    BY <2>2, <2>3, <2>4, <2>5 DEF LeavesColumns, TransitionKind, Restricting
  <2> QED BY <2>2, <2>6
<1>2. DesksInv /\ [ScopeNext]_scopeVars => [Widening]_engagement
  BY <1>1 DEF ScopeNext, Step, scopeVars, orgVars
<1> QED BY <1>2, DesksInvAlways, PTL DEF ScopeSpec, WideningNeedsReference

\* What the request that takes a step goes on with.
LEMMA NextRequest ==
  ASSUME DesksInv, NEW d \in Desks, Step(d)
  PROVE  LET r == request'[d]
         IN  \/ r = Idle
             \/ \E g \in Engagements, to \in Postures : TransitionLoad(d, g, to) /\ r.row = g
             \/ r.op \in {"patch", "delete", "claim"}
             \/ r.op = "zone" /\ r.at \in {"checked", "verified"}
             \/ /\ ZoneClaim(d) /\ r.op = "zone" /\ r.row = request[d].row
                /\ r.claims = (Recorded(r.row, "connector_zone").status = "open")
<1> DEFINE r == request'[d]
           Next(x) == \/ x.op \in {"patch", "delete", "claim"}
                      \/ x.op = "zone" /\ x.at \in {"checked", "verified"}
<1>0. DOMAIN request = Desks
  BY DEF DesksInv
<1>1. \A x : Goto(d, x) => r = x
  BY <1>0 DEF Goto
<1>2. (UNCHANGED request /\ request[d] = Idle) \/ Done(d) => r = Idle
  BY <1>1 DEF Done
<1>3. ASSUME NEW h \in Engagements, NEW to \in Postures, TransitionLoad(d, h, to)
      PROVE  r.row = h
  BY <1>1, <1>3 DEF TransitionLoad
<1>4. CASE \/ \E e \in Entities : SetOurs(d, e) \/ Clear(d, e)
           \/ \E e \in Entities, h \in Engagements : SetMaTarget(d, e, h)
           \/ \E h \in Engagements : CreateEngagement(d, h)
           \/ TransitionCommit(d) \/ PatchCommit(d) \/ DeleteCommit(d) \/ DeadlockVictim(d)
           \/ \E v \in Values, to \in Engagements \cup {"estate"} : MoveTarget(d, v, to)
  BY <1>2, <1>4 DEF Start, SetOurs, Clear, SetMaTarget, CreateEngagement,
     TransitionCommit, PatchCommit, DeleteCommit, DeadlockVictim, MoveTarget
<1>5. ASSUME NEW h \in Engagements, NEW e \in Entities, PatchLoad(d, h, e) PROVE Next(r)
  BY <1>1, <1>5 DEF PatchLoad
<1>6. ASSUME NEW h \in Engagements, DeleteLoad(d, h) PROVE Next(r)
  BY <1>1, <1>6 DEF DeleteLoad
<1>7. ASSUME PatchFlush(d) PROVE r = Idle \/ Next(r)
  BY <1>1, <1>2, <1>7 DEF PatchFlush
<1>8. ASSUME DeleteFlush(d) PROVE r = Idle \/ Next(r)
  BY <1>1, <1>2, <1>8 DEF DeleteFlush
<1>9. CASE OrgStep(d)
  BY <1>3, <1>4, <1>5, <1>6, <1>7, <1>8, <1>9 DEF OrgStep
<1>10. CASE CandStep(d)
  <2>1. CASE \/ \E c \in Candidates, t \in {"person_evidence"} \cup SupportingTypes :
                  RecordSignal(d, c, t)
             \/ \E c \in Candidates : Reject(d, c) \/ ZoneRejected(d, c)
             \/ ClaimCommit(d) \/ ZoneCommit(d)
    BY <1>2, <2>1 DEF Start, RecordSignal, Reject, ZoneRejected, ClaimCommit, ZoneCommit
  <2>2. ASSUME NEW c \in Candidates, ZoneCheck(d, c) PROVE Next(r)
    BY <1>1, <2>2 DEF ZoneCheck
  <2>3. ASSUME NEW c \in Candidates, NEW e \in Entities, ClaimRead(d, c, e) PROVE Next(r)
    BY <1>1, <2>3 DEF ClaimRead
  <2>4. ASSUME ClaimLock(d), ~Done(d) PROVE Next(r)
    <3>1. PICK at, locks, wants :
            Goto(d, [op |-> "claim", at |-> "locked", row |-> request[d].row,
                     to |-> request[d].to, dest |-> at, locks |-> locks, wants |-> wants])
      BY <2>4 DEF ClaimLock
    <3>2. r = [op |-> "claim", at |-> "locked", row |-> request[d].row,
               to |-> request[d].to, dest |-> at, locks |-> locks, wants |-> wants]
      BY <1>1, <3>1
    <3> QED BY <3>2
  <2>5. ASSUME ZoneTarget(d), ~Done(d) PROVE Next(r)
    <3>1. PICK at, locks, wants :
            Goto(d, [op |-> "zone", at |-> "verified", row |-> request[d].row,
                     dest |-> at, locks |-> locks, wants |-> wants])
      BY <2>5 DEF ZoneTarget
    <3>2. r = [op |-> "zone", at |-> "verified", row |-> request[d].row,
               dest |-> at, locks |-> locks, wants |-> wants]
      BY <1>1, <3>1
    <3> QED BY <3>2
  <2>6. ASSUME ZoneClaim(d), ~Done(d)
        PROVE  /\ r.op = "zone" /\ r.row = request[d].row
               /\ r.claims = (Recorded(r.row, "connector_zone").status = "open")
    BY <1>1, <2>6 DEF ZoneClaim
  <2> QED BY <1>2, <1>10, <2>1, <2>2, <2>3, <2>4, <2>5, <2>6 DEF CandStep
<1> QED BY <1>9, <1>10 DEF Step

\* An abandoned deal that no open request wants elsewhere.
Undecided(g) == \A d \in Desks : request[d].op = "transition" => request[d].row # g
FallenThrough(g) == engagement[g].posture = "abandoned" /\ Undecided(g)
\* It stays abandoned, with nobody left to revive it, until it is deleted.
AbandonedIsFinal ==
  [][\A g \in Engagements :
       FallenThrough(g) => FallenThrough(g)' \/ engagement'[g].posture = "none"]_scopeVars

\* "abandoned is TERMINAL (no transition out)" (services/posture.py:135): so it is
\* from the moment on that no transition loaded before it is open, whatever
\* else is requested, until the engagement is deleted.
THEOREM AbandonedIsFinalOnceQuiet == ScopeSpec => AbandonedIsFinal
<1>1. ASSUME DesksInv, NEW d \in Desks, Step(d), NEW g \in Engagements, FallenThrough(g),
             engagement'[g].posture # "none"
      PROVE  FallenThrough(g)'
  <2>1. engagement'[g].posture = "abandoned"
    BY <1>1, PostureChange DEF FallenThrough, Undecided, Exists
  <2>2. request'[d].op = "transition" => request'[d].row # g
    <3>1. ASSUME NEW h \in Engagements, NEW to \in Postures, TransitionLoad(d, h, to)
          PROVE  h # g
      BY <1>1, <3>1 DEF FallenThrough, TransitionLoad, TransitionKind
    <3>2. Idle.op # "transition"
      BY DEF Idle
    <3> QED BY <1>1, <3>1, <3>2, NextRequest
  <2>3. \A o \in Desks \ {d} : request'[o] = request[o]
    BY <1>1, OthersWait DEF DesksInv
  <2> QED BY <1>1, <2>1, <2>2, <2>3 DEF FallenThrough, Undecided
<1>2. ASSUME UNCHANGED scopeVars, NEW g \in Engagements, FallenThrough(g)
      PROVE  FallenThrough(g)'
  BY <1>2 DEF FallenThrough, Undecided, scopeVars, orgVars
<1>3. DesksInv /\ [ScopeNext]_scopeVars =>
        [\A g \in Engagements :
           FallenThrough(g) => FallenThrough(g)' \/ engagement'[g].posture = "none"]_scopeVars
  BY <1>1 DEF ScopeNext, Step
<1> QED BY <1>3, DesksInvAlways, PTL DEF ScopeSpec, AbandonedIsFinal

\* A zone is claimed only while a signal of its kind, at this moment, would leave
\* the candidate open.
ZoneHeld(o) ==
  LET r == request[o]
  IN  r.op = "zone" /\ r.at = "claimed" /\ r.claims => Recorded(r.row, "connector_zone") = Opened

\* What is recorded of a candidate waits for whoever has its row.
LEMMA LockedTypes ==
  ASSUME DesksInv, NEW d \in Desks, Step(d), NEW o \in Desks \ {d}, NEW c \in Candidates,
         Row(c) \in request[o].locks
  PROVE  TypesOf(c)' = TypesOf(c)
<1> DEFINE r == request[d]
<1>t. RequestOK(d) /\ Exclusive
  BY DEF DesksInv
<1>1. CASE signals' = signals
  BY <1>1 DEF TypesOf
<1>2. ASSUME NEW b \in Candidates, NEW t, b # c, signals' = signals \cup {Signal(b, t)}
      PROVE  TypesOf(c)' = TypesOf(c)
  <2>1. TypesOf(c)' = TypesOf(c) \cup IF c = b THEN {t} ELSE {}
    BY <1>2, TypesGrow
  <2> QED BY <1>2, <2>1
<1>3. ASSUME NEW b \in Candidates, Free({Row(b)}, d)
      PROVE  b # c
  BY <1>3, FreeMeansUnheld
<1>4. ASSUME NEW b \in Candidates, NEW t, RecordSignal(d, b, t)
      PROVE  TypesOf(c)' = TypesOf(c)
  BY <1>4, <1>2, <1>3 DEF RecordSignal
<1>5. ASSUME NEW b \in Candidates, ZoneRejected(d, b)
      PROVE  TypesOf(c)' = TypesOf(c)
  BY <1>5, <1>2, <1>3 DEF ZoneRejected
<1>6. CASE ZoneCommit(d)
  <2>1. r.row \in Candidates /\ Row(r.row) \in r.locks
    BY <1>6, <1>t DEF RequestOK, ZoneCommit, Idle
  <2>2. r.row # c
    BY <2>1, <1>t, HeldByOne
  <2> QED BY <1>6, <2>1, <2>2, <1>2 DEF ZoneCommit
<1>7. CASE CandWrites(d)
  BY <1>7, <1>1, <1>4, <1>5, <1>6 DEF CandWrites, Reject, ClaimCommit
<1> QED BY <1>1, <1>7, StepCases DEF Reads, candVars

LEMMA ZoneHeldKept ==
  ASSUME DesksInv, NEW d \in Desks, Step(d), \A o \in Desks : ZoneHeld(o)
  PROVE  \A o \in Desks : ZoneHeld(o)'
<1>1. ZoneHeld(d)'
  <2> DEFINE r == request'[d]
  <2>1. ASSUME r.op = "zone", r.at = "claimed", r.claims
        PROVE  /\ UNCHANGED candVars
               /\ Recorded(r.row, "connector_zone").status = "open"
    <3>1. Idle.op # "zone" /\ \A h \in Engagements, to \in Postures : TransitionLoad(d, h, to) => r.op # "zone"
      <4>1. ASSUME NEW h \in Engagements, NEW to \in Postures, TransitionLoad(d, h, to)
            PROVE  r.op # "zone"
        BY <4>1 DEF TransitionLoad, Goto, DesksInv
      <4> QED BY <4>1 DEF Idle
    <3>2. ZoneClaim(d) /\ r.claims = (Recorded(r.row, "connector_zone").status = "open")
      BY <2>1, <3>1, NextRequest
    <3> QED BY <2>1, <3>2 DEF ZoneClaim
  <2>2. ASSUME NEW c, Recorded(c, "connector_zone").status = "open", UNCHANGED candVars, c \in Candidates
        PROVE  Recorded(c, "connector_zone")' = Opened
    <3>1. Recorded(c, "connector_zone") = Opened
      BY <2>2 DEF DesksInv, ScopeTypeOK, Recorded, Absent, Opened
    <3> QED BY <3>1, <2>2 DEF candVars, Recorded, Unlocks, TypesOf
  <2>3. r.op = "zone" => r.row \in Candidates
    BY DesksInvStep DEF DesksInv, RequestOK, Idle, ScopeNext, Step
  <2> QED BY <2>1, <2>2, <2>3 DEF ZoneHeld
<1>2. ASSUME NEW o \in Desks \ {d}
      PROVE  ZoneHeld(o)'
  <2> DEFINE r == request[o]
  <2>1. request'[o] = r
    BY OthersWait DEF DesksInv
  <2>2. ASSUME r.op = "zone", r.at = "claimed", r.claims, NEW c \in Candidates, c = r.row
        PROVE  Recorded(c, "connector_zone")' = Recorded(c, "connector_zone")
    <3>1. Row(c) \in r.locks
      BY <2>2 DEF DesksInv, RequestOK, Idle
    <3>2. TypesOf(c)' = TypesOf(c)
      BY <3>1, LockedTypes
    <3>3. candidate'[c] = candidate[c]
      BY <3>1, LocksAreKept DEF KeepsLocked
    <3> QED BY <3>2, <3>3 DEF Recorded, Unlocks
  <2>3. r.op = "zone" => r.row \in Candidates
    BY DEF DesksInv, RequestOK, Idle
  <2> QED BY <2>1, <2>2, <2>3 DEF ZoneHeld
<1> QED BY <1>1, <1>2

\* A rejection that weighed a connector's signal, or came after one.
WeighedRejectionStands ==
  [][\A c \in Candidates :
       ClaimedBy("connector", c) /\ candidate[c].status = "rejected"
         => "connector_zone" \notin candidate[c].weighed \cup TypesOf(c)]_scopeVars

\* "It can unlock a candidate only the way any new Strong signal does"
\* (services/org_discovery/connector_zones.py:14-16): a connector claims a candidate
\* over a rejection that committed after it had asked, but never when the
\* rejection had weighed a signal of the connector's kind or one is on record.
THEOREM WeighedRejectionsStand == ScopeSpec => WeighedRejectionStands
<1> DEFINE Held == \A o \in Desks : ZoneHeld(o)
           Stands == \A c \in Candidates :
                       ClaimedBy("connector", c) /\ candidate[c].status = "rejected"
                         => "connector_zone" \notin candidate[c].weighed \cup TypesOf(c)
<1>1. ScopeInit => Held
  BY DEF ScopeInit, OrgInit, ZoneHeld, Idle
<1>2. DesksInv /\ Held /\ [ScopeNext]_scopeVars => Held'
  <2>1. ASSUME Held, UNCHANGED scopeVars
        PROVE  Held'
    BY <2>1 DEF scopeVars, orgVars, candVars, ZoneHeld, Recorded, Unlocks, TypesOf
  <2> QED BY <2>1, ZoneHeldKept DEF ScopeNext, Step
<1>3. ASSUME DesksInv, Held, NEW d \in Desks, Step(d), NEW c \in Candidates,
             ClaimedBy("connector", c), candidate[c].status = "rejected"
      PROVE  "connector_zone" \notin candidate[c].weighed \cup TypesOf(c)
  <2> DEFINE r == request[d]
  <2>1. ZoneCommit(d) /\ r.claims /\ r.row = c
    <3>t. DOMAIN candidate = Candidates /\ RequestOK(d)
      BY <1>3 DEF DesksInv, ScopeTypeOK
    <3>0. candidate'[c].status = "claimed" /\ candidate'[c].by = "connector" /\ candidate'[c] # candidate[c]
      BY <1>3 DEF ClaimedBy
    <3>1. ASSUME NEW b \in Candidates, \/ \E t \in {"person_evidence"} \cup SupportingTypes : RecordSignal(d, b, t)
                                       \/ Reject(d, b) \/ ZoneRejected(d, b)
          PROVE  FALSE
      <4>1. \A t : Recorded(b, t) = candidate[b] \/ Recorded(b, t).status # "claimed"
        BY DEF Recorded, Opened
      <4> QED BY <3>0, <3>1, <3>t, <4>1 DEF RecordSignal, Reject, ZoneRejected
    <3>2. CASE ClaimCommit(d)
      <4>1. r.row \in Candidates
        BY <3>2, <3>t DEF RequestOK, ClaimCommit, Idle
      <4>2. \A b \in Candidates : candidate'[b] = candidate[b] \/ candidate'[b].by = "person"
        BY <3>2, <3>t, <4>1 DEF ClaimCommit, Claim
      <4> QED BY <3>0, <4>2
    <3>3. ASSUME ZoneCommit(d)
          PROVE  r.claims /\ r.row = c
      BY <3>0, <3>3, <3>t DEF ZoneCommit, Claim
    <3>4. CandWrites(d)
      BY <1>3, <3>0, StepCases DEF Reads, candVars
    <3> QED BY <3>1, <3>2, <3>3, <3>4 DEF CandWrites
  <2>2. Recorded(c, "connector_zone") = Opened
    BY <1>3, <2>1 DEF ZoneHeld, ZoneCommit
  <2> QED BY <1>3, <2>2 DEF Recorded, Unlocks, Opened
<1>4. DesksInv /\ Held /\ [ScopeNext]_scopeVars => [Stands]_scopeVars
  BY <1>3 DEF ScopeNext, Step
<1> QED BY <1>1, <1>2, <1>4, DesksInvAlways, PTL DEF ScopeSpec, WeighedRejectionStands

\* A person's claim lands in the estate of our own company or in a live
\* engagement of its organization, whatever committed since the claim read them
\* (it holds their locks), and no claim takes a target from where it is or from
\* the entity it has (candidates.py claim, connector_zones.py process_zone).
THEOREM ClaimsLandRight == ScopeSpec => ClaimLandsRight
<1> DEFINE
      Lands == \A c \in Candidates : ClaimedBy("person", c) =>
                 candidate[c].status = "open" /\ candidate'[c].into \in Homes(RootOf[c])
      TakesNothing == candidate' # candidate \/ signals' # signals =>
                        \A v \in Values : target[v] # NoTarget =>
                          /\ target'[v].at = target[v].at
                          /\ target[v].entity # NoEntity => target'[v].entity = target[v].entity
<1>1. ASSUME DesksInv, NEW d \in Desks, Step(d)
      PROVE  Lands /\ TakesNothing
  <2> DEFINE r == request[d]
  <2>t. /\ ScopeTypeOK /\ OrgTypeOK /\ RequestOK(d) /\ NoTargetIsNothing /\ DOMAIN candidate = Candidates
        /\ RootOf \in [Candidates -> Entities] /\ ValueOf \in [Candidates -> Values]
    BY <1>1, CandidatesAssumption DEF DesksInv, ScopeTypeOK
  <2>0. CASE UNCHANGED candVars
    BY <2>0 DEF candVars, ClaimedBy
  <2>1. ASSUME NEW c \in Candidates, \/ \E t \in {"person_evidence"} \cup SupportingTypes : RecordSignal(d, c, t)
                                     \/ Reject(d, c) \/ ZoneRejected(d, c)
        PROVE  Lands /\ TakesNothing
    <3>1. target' = target
      BY <2>1 DEF RecordSignal, Reject, ZoneRejected
    <3>2. \A b \in Candidates : candidate'[b] = candidate[b] \/ candidate'[b].status # "claimed"
      <4>1. \A t : Recorded(c, t) = candidate[c] \/ Recorded(c, t).status # "claimed"
        BY DEF Recorded, Opened
      <4> QED BY <2>1, <2>t, <4>1 DEF RecordSignal, Reject, ZoneRejected
    <3> QED BY <3>1, <3>2 DEF ClaimedBy
  <2>2. CASE ClaimCommit(d)
    <3>1. /\ r.row \in Candidates /\ ValueOf[r.row] \in Values
          /\ candidate[r.row].status = "open" /\ r.dest \in Homes(RootOf[r.row])
      BY <2>2, <2>t DEF RequestOK, ClaimCommit, Idle
    <3>2. CASE UNCHANGED <<target, candidate>>
      BY <3>2, <2>2 DEF ClaimCommit, ClaimedBy
    <3>3. CASE Attachable(ValueOf[r.row], r.dest, r.to) /\ Claim(r.row, r.dest, r.to, "person")
      <4>1. /\ candidate'[r.row].into = r.dest
            /\ \A b \in Candidates \ {r.row} : candidate'[b] = candidate[b]
        BY <3>1, <3>3, <2>t DEF Claim
      <4>2. Lands
        BY <4>1, <3>1 DEF ClaimedBy
      <4>3. /\ target'[ValueOf[r.row]] = [at |-> r.dest, entity |-> r.to]
            /\ \A v \in Values \ {ValueOf[r.row]} : target'[v] = target[v]
        BY <3>1, <3>3, <2>t DEF Claim, OrgTypeOK
      <4>4. TakesNothing
        BY <4>3, <3>1, <3>3, <2>t DEF Attachable, NoTargetIsNothing
      <4> QED BY <4>2, <4>4
    <3> QED BY <3>2, <3>3, <2>2 DEF ClaimCommit
  <2>3. CASE ZoneCommit(d)
    <3> DEFINE v == ValueOf[r.row]
               e == IF target[v].entity = NoEntity THEN RootOf[r.row] ELSE target[v].entity
    <3>1. /\ r.row \in Candidates /\ v \in Values
          /\ target[v].at \in {r.dest, "none"}
      BY <2>3, <2>t DEF RequestOK, ZoneCommit, Idle
    <3>2. \A b \in Candidates : candidate'[b] = candidate[b] \/ candidate'[b].by = "connector"
      BY <2>3, <3>1, <2>t DEF ZoneCommit, Claim
    <3>3. Lands
      BY <3>2 DEF ClaimedBy
    <3>4. target' = [target EXCEPT ![v] = [at |-> r.dest, entity |-> e]]
      BY <2>3 DEF ZoneCommit, Claim
    <3>5. /\ target'[v].at = r.dest /\ target'[v].entity = e
          /\ \A w \in Values \ {v} : target'[w] = target[w]
      <4> HIDE DEF e, v
      <4> QED BY <3>1, <3>4, <2>t DEF OrgTypeOK
    <3>6. TakesNothing
      BY <3>1, <3>5, <2>t DEF NoTargetIsNothing
    <3> QED BY <3>3, <3>6
  <2>4. CASE CandWrites(d)
    BY <2>4, <2>1, <2>2, <2>3 DEF CandWrites
  <2> QED BY <1>1, <2>0, <2>4, StepCases DEF Reads, candVars
<1>2. DesksInv /\ [ScopeNext]_scopeVars => [Lands /\ TakesNothing]_scopeVars
  <2>1. ASSUME DesksInv, ScopeNext PROVE Lands /\ TakesNothing
    <3>1. PICK d \in Desks : Step(d)
      BY <2>1 DEF ScopeNext, Step
    <3> QED BY <2>1, <3>1, <1>1
  <2> QED BY <2>1
<1> QED BY <1>2, DesksInvAlways, PTL DEF ScopeSpec, ClaimLandsRight
=============================================================================
