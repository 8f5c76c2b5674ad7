--------------------------- MODULE CaptureS3_proofs ---------------------------
(***************************************************************************)
(* Proofs about CaptureS3, for every set of captures, candidates, requests *)
(* and workers, every timeout, margin and clock offset.                    *)
(***************************************************************************)
EXTENDS CaptureS3, FiniteSetTheorems, WellFoundedInduction, TLAPS

\* The idle requester, tick and worker have their types.
LEMMA IdleTypes ==
  /\ AnyCapture \in Captures
  /\ NoRow \in Row
  /\ IdleRequester \in Requester
  /\ IdleTick \in Tick
  /\ IdleWorker \in Worker
  /\ NoResult \in Result
<1>1. AnyCapture \in Captures
  BY CapturesAssumption DEF AnyCapture
<1>2. AnyCandidate \in Candidates
  BY CandidatesAssumption DEF AnyCandidate
<1> QED
  BY <1>1, <1>2 DEF NoRow, Row, IdleRequester, Asking, Requester, IdleTick,
     Pass, InHand, Tick, TickPoints, IdleWorker, Working, Worker, NoResult, Report, Result,
     Statuses, Reasons

\* What a requester is doing is a Requester.
LEMMA AskingType ==
  ASSUME NEW pc \in {"idle", "insert", "mint", "put", "fail"},
         NEW a \in Candidates, NEW c \in Captures
  PROVE  Asking(pc, a, c) \in Requester
  BY DEF Asking, Requester

\* What the tick is doing is a Tick, with a capture in hand and without.
LEMMA InHandType ==
  ASSUME NEW pc \in TickPoints,
         NEW at \in Int, NEW todo \in SUBSET Captures, NEW c \in Captures,
         NEW b \in BOOLEAN
  PROVE  InHand(pc, at, todo, c, b) \in Tick
  BY DEF InHand, Tick, TickPoints

\* A pass begun at any time, over any captures, is a Tick.
LEMMA PassType ==
  ASSUME NEW pc \in TickPoints,
         NEW at \in Int, NEW todo \in SUBSET Captures
  PROVE  Pass(pc, at, todo) \in Tick
  BY IdleTypes, InHandType DEF Pass

\* A pass that goes by no time of its own is a Tick.
LEMMA PlainPassType ==
  ASSUME NEW pc \in TickPoints,
         NEW todo \in SUBSET Captures
  PROVE  Pass(pc, 0, todo) \in Tick
<1>1. 0 \in Int
  OBVIOUS
<1> QED
  BY <1>1, PassType

\* What a worker is doing is a Worker.
LEMMA WorkingType ==
  ASSUME NEW pc \in {"poll", "claim", "won", "run", "shot", "result"},
         NEW c \in Captures, NEW b \in Bodies \union {"none"}, NEW s \in BOOLEAN
  PROVE  Working(pc, c, b, s) \in Worker
  BY DEF Working, Worker

\* What a result says is a Result.
LEMMA ReportType ==
  ASSUME NEW at \in Int, NEW b \in Bodies \union {"none"}, NEW s \in BOOLEAN
  PROVE  Report(at, b, s) \in Result
  BY DEF Report, Result

\* A new row is a row.
LEMMA NewRowType ==
  ASSUME NEW a \in Candidates, NEW b \in BOOLEAN, NEW at \in Int
  PROVE  NewRow(a, b, at) \in Row
  BY DEF NewRow, Row, Statuses, Reasons

\* The updates of a row give a row.
LEMMA RowTypes ==
  /\ \A rw \in Row, why \in Reasons, at \in Int : Failed(rw, why, at) \in Row
  /\ \A rw \in Row, at \in Int : Done(rw, at) \in Row
  /\ \A rw \in Row, b \in BOOLEAN : WithImage(rw, b) \in Row
  BY DEF Failed, Done, WithImage, Row, Statuses

\* What the records hold.
LEMMA FieldTypes ==
  ASSUME TypeOK
  PROVE  /\ \A r \in Requesters : req[r].cand \in Candidates /\ req[r].cid \in Captures
         /\ \A w \in Workers : /\ worker[w].cid \in Captures
                               /\ worker[w].body \in Bodies \union {"none"}
                               /\ worker[w].shot \in BOOLEAN
         /\ tick.at \in Int /\ tick.todo \in SUBSET Captures
         /\ tick.cid \in Captures /\ tick.image \in BOOLEAN
         /\ now \in Int /\ StoreNow \in Int
         /\ \A c \in Captures : row[c] \in Row /\ result[c].shot \in BOOLEAN
  BY TimeAssumption DEF TypeOK, Requester, Worker, Tick, StoreNow, Result

\* The fault counter stays within its bound.
LEMMA FaultTypes ==
  ASSUME TypeOK
  PROVE  /\ Fault => faults' \in 0..MaxFaults
         /\ NoFault => faults' \in 0..MaxFaults
  BY BoundAssumption DEF TypeOK, Fault, NoFault

\* Every variable keeps its type.
THEOREM Typing == Spec => []TypeOK
<1>1. Init => TypeOK
  BY IdleTypes, BoundAssumption, TimeAssumption DEF Init, TypeOK
<1>2. TypeOK /\ [Next]_vars => TypeOK'
  <2> SUFFICES ASSUME TypeOK, [Next]_vars PROVE TypeOK'
    OBVIOUS
  <2> USE DEF settingVars, jobVars, claimVars, resultVars, logVars
  <2>1. ASSUME Advance \/ SetQueueTimeout PROVE TypeOK'
    BY <2>1 DEF Advance, SetQueueTimeout, TypeOK
  <2>2. ASSUME NEW r \in Requesters, Request(r) PROVE TypeOK'
    <3>1. CASE RequestCheck(r)
      <4>1. PICK a \in Candidates :
                   req' = [req EXCEPT ![r] = Asking("insert", a, AnyCapture)]
        BY <3>1 DEF RequestCheck
      <4>2. Asking("insert", a, AnyCapture) \in Requester
        BY IdleTypes, AskingType
      <4> QED
        BY <3>1, <4>1, <4>2 DEF RequestCheck, TypeOK
    <3>2. CASE RequestRefused(r)
      BY <3>2, IdleTypes, AskingType, FieldTypes, FaultTypes
      DEF RequestRefused, TypeOK
    <3>3. CASE RequestInsert(r)
      <4>1. PICK c \in Captures :
                /\ row' = [row EXCEPT ![c] =
                             NewRow(req[r].cand, r \in AutoRequesters, now)]
                /\ req' = [req EXCEPT ![r] = Asking("mint", @.cand, c)]
        BY <3>3 DEF RequestInsert
      <4>2. NewRow(req[r].cand, r \in AutoRequesters, now) \in Row
        <5>1. (r \in AutoRequesters) \in BOOLEAN
          OBVIOUS
        <5> QED
          BY <5>1, FieldTypes, NewRowType, Zenon
      <4>3. Asking("mint", req[r].cand, c) \in Requester
        BY FieldTypes, AskingType
      <4>4. row' \in [Captures -> Row]
        BY <4>1, <4>2 DEF TypeOK
      <4>5. req' \in [Requesters -> Requester]
        BY <4>1, <4>3 DEF TypeOK
      <4> QED
        BY <3>3, <4>4, <4>5, FaultTypes DEF RequestInsert, TypeOK
    <3>4. CASE RequestConflict(r)
      BY <3>4, IdleTypes, AskingType, FieldTypes, FaultTypes
      DEF RequestConflict, TypeOK
    <3>5. CASE RequestMint(r)
      <4>1. now + qtimeout + RunMargin \in Int
        BY FieldTypes, TimeAssumption DEF TypeOK
      <4>2. Asking("put", req[r].cand, req[r].cid) \in Requester
        BY FieldTypes, AskingType
      <4> QED
        BY <3>5, <4>1, <4>2, FieldTypes DEF RequestMint, TypeOK
    <3>6. CASE RequestPut(r)
      <4>1. exp' \in [Captures -> Int]
        BY <3>6, FieldTypes DEF RequestPut, SignUrls, TypeOK
      <4> QED
        BY <3>6, <4>1, IdleTypes, FieldTypes DEF RequestPut, TypeOK
    <3>7. CASE RequestPutFails(r)
      <4>1. exp' \in [Captures -> Int]
        BY <3>7, FieldTypes DEF RequestPutFails, SignUrls, TypeOK
      <4>2. Asking("fail", req[r].cand, req[r].cid) \in Requester
        BY AskingType, FieldTypes
      <4> QED
        BY <3>7, <4>1, <4>2, FieldTypes, FaultTypes DEF RequestPutFails, TypeOK
    <3>8. CASE RequestFail(r)
      BY <3>8, IdleTypes, RowTypes, FieldTypes
      DEF RequestFail, TypeOK, Reasons
    <3> QED
      BY <2>2, <3>1, <3>2, <3>3, <3>4, <3>5, <3>6, <3>7, <3>8 DEF Request
  <2>3. ASSUME NEW w \in Workers, Work(w) PROVE TypeOK'
    <3>1. CASE WorkerGet(w)
      <4>1. PICK c \in jobs :
                worker' = [worker EXCEPT ![w] = Working("claim", c, "none", FALSE)]
        BY <3>1 DEF WorkerGet
      <4>2. Working("claim", c, "none", FALSE) \in Worker
        BY WorkingType DEF TypeOK
      <4> QED
        BY <3>1, <4>1, <4>2 DEF WorkerGet, TypeOK
    <3>2. CASE WorkerClaim(w)
      <4>1. Working("won", worker[w].cid, "none", FALSE) \in Worker
        BY FieldTypes, WorkingType
      <4>2. runs' \in [Captures -> Nat]
        BY <3>2, FieldTypes DEF WorkerClaim, TypeOK
      <4> QED
        BY <3>2, <4>1, <4>2, FieldTypes DEF WorkerClaim, PutClaim, TypeOK
    <3>3. CASE WorkerClaimFails(w)
      BY <3>3, IdleTypes, WorkingType, FieldTypes, FaultTypes
      DEF WorkerClaimFails, TypeOK, FaultIf
    <3>4. CASE WorkerClaimAnswerLost(w)
      BY <3>4, IdleTypes, WorkingType, FieldTypes, FaultTypes
      DEF WorkerClaimAnswerLost, TypeOK, PutClaim
    <3>5. CASE WorkerDeleteJob(w)
      BY <3>5, IdleTypes, WorkingType, FieldTypes, FaultTypes
      DEF WorkerDeleteJob, TypeOK
    <3>6. CASE WorkerRun(w)
      <4>1. PICK b \in Bodies, s \in BOOLEAN :
                worker' = [worker EXCEPT ![w] =
                  Working(IF s THEN "shot" ELSE "result", @.cid, b, s)]
        BY <3>6 DEF WorkerRun
      <4>2. Working(IF s THEN "shot" ELSE "result", worker[w].cid, b, s) \in Worker
        BY FieldTypes, WorkingType
      <4> QED
        BY <3>6, <4>1, <4>2, FieldTypes DEF WorkerRun, TypeOK
    <3>7. CASE WorkerUploadShot(w)
      BY <3>7, IdleTypes, WorkingType, FieldTypes, FaultTypes
      DEF WorkerUploadShot, TypeOK
    <3>8. CASE WorkerShotFails(w)
      BY <3>8, IdleTypes, WorkingType, FieldTypes, FaultTypes
      DEF WorkerShotFails, TypeOK, FaultIf
    <3>9. CASE WorkerUploadResult(w)
      BY <3>9, IdleTypes, ReportType, FieldTypes
      DEF WorkerUploadResult, TypeOK
    <3>10. CASE WorkerResultFails(w)
      BY <3>10, IdleTypes, WorkingType, FieldTypes, FaultTypes
      DEF WorkerResultFails, TypeOK, FaultIf
    <3>11. CASE WorkerCrash(w)
      BY <3>11, IdleTypes, WorkingType, FieldTypes, FaultTypes
      DEF WorkerCrash, TypeOK
    <3> QED
      BY <2>3, <3>1, <3>2, <3>3, <3>4, <3>5, <3>6, <3>7, <3>8, <3>9, <3>10, <3>11 DEF Work
  <2>4. ASSUME NEW c \in Captures,
                \/ IngestSkip(c) \/ IngestDiscard(c) \/ IngestInvalid(c)
                \/ IngestUnmarked(c) \/ IngestImage(c) \/ SweepClean(c)
         PROVE TypeOK'
    <3>1. CASE IngestSkip(c)
      BY <3>1, InHandType, PassType, PlainPassType, RowTypes, FieldTypes, FaultTypes
      DEF IngestSkip, TypeOK, TickPoints, FaultIf
    <3>2. CASE IngestDiscard(c)
      BY <3>2, InHandType, PassType, PlainPassType, RowTypes, FieldTypes, FaultTypes
      DEF IngestDiscard, TypeOK, TickPoints
    <3>3. CASE IngestInvalid(c)
      BY <3>3, InHandType, PassType, PlainPassType, RowTypes, FieldTypes, FaultTypes
      DEF IngestInvalid, TypeOK, TickPoints, DeleteImageQuiet, Reasons
    <3>4. CASE IngestUnmarked(c)
      BY <3>4, InHandType, PassType, PlainPassType, RowTypes, FieldTypes, FaultTypes
      DEF IngestUnmarked, TypeOK, TickPoints
    <3>5. CASE IngestImage(c)
      <4>1. PICK kept \in BOOLEAN :
                /\ images' = IF kept THEN images \union {c} ELSE images
                /\ tick' = InHand("commit", tick.at, tick.todo, c, kept)
        BY <3>5 DEF IngestImage
      <4>2. tick' \in Tick
        BY <4>1, FieldTypes, InHandType DEF TickPoints
      <4>3. faults' \in 0..MaxFaults
        BY <3>5, FaultTypes DEF IngestImage, FaultIf
      <4> QED
        BY <3>5, <4>1, <4>2, <4>3 DEF IngestImage, TypeOK
    <3>6. CASE SweepClean(c)
      <4>1. tick' \in Tick
        BY <3>6, FieldTypes, PlainPassType DEF TickPoints, SweepClean, TypeOK
      <4> QED
        BY <3>6, <4>1, IdleTypes, FaultTypes DEF SweepClean, TypeOK, Retire, FaultIf
    <3> QED
      BY <2>4, <3>1, <3>2, <3>3, <3>4, <3>5, <3>6
  <2>5. ASSUME \/ TickStart \/ IngestCommit \/ IngestError \/ IngestClean
              \/ IngestEnd \/ Sweep \/ SweepCommit \/ SweepFails \/ SweepEnd
              \/ SweepClaims \/ Prune \/ PruneRecord
         PROVE TypeOK'
    <3>1. CASE TickStart
      <4>1. tick' \in Tick
        BY <3>1, FieldTypes, PassType, PlainPassType DEF TickPoints, TickStart, TypeOK
      <4> QED
        BY <3>1, <4>1, FaultTypes DEF TickStart, TypeOK
    <3>2. CASE IngestCommit
      BY <3>2, InHandType, PassType, PlainPassType, RowTypes, FieldTypes, FaultTypes
      DEF IngestCommit, TypeOK, TickPoints, Verdict, Reasons
    <3>3. CASE IngestError
      <4>1. tick' \in Tick
        BY <3>3, FieldTypes, PassType DEF TickPoints, IngestError
      <4>2. Failed(row[tick.cid], "ingest_error", tick.at) \in Row
        BY FieldTypes, RowTypes DEF Reasons
      <4>3. row' \in [Captures -> Row]
        BY <3>3, <4>2, FieldTypes DEF IngestError, TypeOK
      <4> QED
        BY <3>3, <4>1, <4>3, FaultTypes DEF IngestError, DeleteImageQuiet, TypeOK
    <3>4. CASE IngestClean
      <4>1. tick' \in Tick
        BY <3>4, FieldTypes, PassType DEF TickPoints, IngestClean, TypeOK
      <4> QED
        BY <3>4, <4>1, IdleTypes, FieldTypes, FaultTypes DEF IngestClean, TypeOK, Retire, FaultIf
    <3>5. CASE IngestEnd
      <4>1. tick' \in Tick
        BY <3>5, FieldTypes, PlainPassType DEF TickPoints, IngestEnd, TypeOK
      <4> QED
        BY <3>5, <4>1, FaultTypes DEF IngestEnd, TypeOK
    <3>6. CASE Sweep
      <4>1. tick' \in Tick
        BY <3>6, FieldTypes, PassType DEF TickPoints, Sweep
      <4> QED
        BY <3>6, <4>1 DEF Sweep, TypeOK
    <3>7. CASE SweepFails
      <4>1. tick' \in Tick
        BY <3>7, FieldTypes, PlainPassType DEF TickPoints, SweepFails, TypeOK
      <4> QED
        BY <3>7, <4>1, FaultTypes DEF SweepFails, TypeOK
    <3>8. CASE SweepEnd
      <4>1. tick' \in Tick
        BY <3>8, FieldTypes, PlainPassType DEF TickPoints, SweepEnd, TypeOK
      <4> QED
        BY <3>8, <4>1, FaultTypes DEF SweepEnd, TypeOK
    <3>9. CASE SweepClaims
      <4>1. tick' \in Tick
        BY <3>9, PlainPassType DEF TickPoints, SweepClaims
      <4>2. PICK gone \in SUBSET claims :
                /\ claims' = claims \ gone
                /\ markedAt' = [c \in Captures |->
                                  IF c \in gone THEN 0 ELSE markedAt[c]]
        BY <3>9 DEF SweepClaims
      <4>3. faults' \in 0..MaxFaults
        BY <3>9, FaultTypes DEF SweepClaims, FaultIf
      <4> QED
        BY <3>9, <4>1, <4>2, <4>3 DEF SweepClaims, TypeOK
    <3>10. CASE Prune
      <4>1. PICK gone \in SUBSET Captures :
                /\ images' = images \ gone
                /\ tick' = Pass("record", 0, gone)
        BY <3>10 DEF Prune, Surplus
      <4>2. tick' \in Tick
        BY <4>1, PlainPassType DEF TickPoints
      <4>3. faults' \in 0..MaxFaults
        BY <3>10, FaultTypes DEF Prune, FaultIf
      <4> QED
        BY <3>10, <4>1, <4>2, <4>3 DEF Prune, TypeOK
    <3>11. CASE PruneRecord
      <4>1. \A c \in Captures : WithImage(row[c], FALSE) \in Row
        BY FieldTypes, RowTypes
      <4>2. row' \in [Captures -> Row]
        BY <3>11, <4>1, FieldTypes, Zenon DEF PruneRecord, TypeOK
      <4> QED
        BY <3>11, <4>2, IdleTypes, FaultTypes DEF PruneRecord, TypeOK
    <3>12. CASE SweepCommit
      <4>1. tick' \in Tick
        BY <3>12, FieldTypes, PlainPassType DEF TickPoints, SweepCommit
      <4>2. \A c \in Captures : Failed(row[c], "timeout", tick.at) \in Row
        BY FieldTypes, RowTypes DEF Reasons
      <4>3. row' \in [Captures -> Row]
        BY <3>12, <4>2, FieldTypes DEF SweepCommit
      <4> QED
        BY <3>12, <4>1, <4>3 DEF SweepCommit, TypeOK
    <3> QED
      BY <2>5, <3>1, <3>2, <3>3, <3>4, <3>5, <3>6, <3>7, <3>8, <3>9, <3>10, <3>11, <3>12
  <2>6. ASSUME NEW c \in Captures, ProxyFlush(c) PROVE TypeOK'
    BY <2>6 DEF ProxyFlush, TypeOK
  <2>7. CASE BackendCrash
    BY <2>7, IdleTypes, FaultTypes DEF BackendCrash, TypeOK
  <2>8. CASE UNCHANGED vars
    BY <2>8 DEF vars, TypeOK
  <2> QED
    BY <2>1, <2>2, <2>3, <2>4, <2>5, <2>6, <2>7, <2>8 DEF Next, TickStep
<1> QED
  BY <1>1, <1>2, PTL DEF Spec

-----------------------------------------------------------------------------
(* A job is run at most once.  The store's clock may lag the backend's by   *)
(* half of CLAIM_SKEW_S: a lag stamps a marker early and lets its URL live  *)
(* late, so it counts twice.                                                *)

SkewTolerated == ClaimSkew + 2 * StoreSkew >= 0

\* A request that has its row holds that row's id, alone.
Holding(r) == req[r].pc \in {"mint", "put", "fail"}
HeldRows == \A r \in Requesters : Holding(r) => row[req[r].cid].status # "none"
OneHolder ==
  \A r, s \in Requesters :
    Holding(r) /\ Holding(s) /\ req[r].cid = req[s].cid => r = s

\* Before its job is stored nobody knows of a capture.
Unissued(c) ==
  \/ row[c].status = "none"
  \/ \E r \in Requesters : req[r].pc \in {"mint", "put"} /\ req[r].cid = c
InHandOf(w, c) == worker[w].pc # "poll" /\ worker[w].cid = c
UnissuedUntouched ==
  \A c \in Captures : Unissued(c) =>
    /\ c \notin jobs /\ c \notin claims /\ runs[c] = 0
    /\ \A w \in Workers : ~InHandOf(w, c)

\* No URL outlives the longest timeout plus the margin, counted from now or,
\* once it is claimed, from its marker.
UrlsBounded ==
  /\ \A c \in Captures : exp[c] <= now + QTimeoutMax + RunMargin
  /\ \A c \in claims : exp[c] <= markedAt[c] - StoreSkew + QTimeoutMax + RunMargin

\* A job that has run cannot be claimed again.
ClaimSpent ==
  \A c \in Captures :
    \/ runs[c] = 0
    \/ runs[c] = 1 /\ (c \in claims \/ ~UrlLive(c))

RunInv == HeldRows /\ OneHolder /\ UnissuedUntouched /\ UrlsBounded /\ ClaimSpent

\* What the constructors put in the fields the invariant reads.
LEMMA Fields ==
  /\ \A pc, a, c : Asking(pc, a, c).pc = pc /\ Asking(pc, a, c).cid = c
  /\ \A pc, c, b, s : Working(pc, c, b, s).pc = pc /\ Working(pc, c, b, s).cid = c
  /\ IdleRequester.pc = "idle"
  /\ IdleWorker.pc = "poll"
  BY DEF Asking, Working, IdleRequester, IdleWorker

\* What the updates of a row leave in it.
LEMMA UpdateOf ==
  /\ \A why, at : \A rw \in Row :
       Failed(rw, why, at).status = "failed" /\ Failed(rw, why, at).reason = why
  /\ \A at : \A rw \in Row :
       Done(rw, at).status = "done" /\ Done(rw, at).reason = rw.reason
  /\ \A b : \A rw \in Row :
       /\ WithImage(rw, b).status = rw.status
       /\ WithImage(rw, b).reason = rw.reason
       /\ WithImage(rw, b).finished = rw.finished
       /\ WithImage(rw, b).cand = rw.cand
  /\ \A a, b, at :
       NewRow(a, b, at).status = "queued" /\ NewRow(a, b, at).cand = a
  BY DEF Failed, Done, WithImage, NewRow, Row

\* A step that leaves time, credentials, markers and runs alone, stores no
\* job, makes no row and takes nothing new in hand keeps the invariant.
LEMMA QuietStep ==
  ASSUME TypeOK, TypeOK', RunInv,
         now' = now, exp' = exp, claims' = claims, markedAt' = markedAt,
         runs' = runs, jobs' \subseteq jobs,
         \A c \in Captures : row'[c].status = "none" <=> row[c].status = "none",
         \A r \in Requesters :
            \/ req'[r] = req[r]
            \/ req'[r].pc \notin {"mint", "put", "fail"},
         \A w \in Workers :
            \/ worker'[w] = worker[w]
            \/ worker'[w].pc = "poll"
            \/ worker[w].pc # "poll" /\ worker'[w].cid = worker[w].cid
  PROVE  RunInv'
<1>1. \A r \in Requesters : Holding(r)' => Holding(r) /\ req'[r].cid = req[r].cid
  BY DEF Holding
<1>2. HeldRows' /\ OneHolder'
  BY <1>1, FieldTypes DEF RunInv, HeldRows, OneHolder
<1>3. \A c \in Captures : Unissued(c)' => Unissued(c)
  BY DEF Unissued
<1>4. \A w \in Workers, c \in Captures : InHandOf(w, c)' => InHandOf(w, c)
  BY DEF InHandOf
<1>5. UnissuedUntouched'
  BY <1>3, <1>4 DEF RunInv, UnissuedUntouched
<1>6. UrlsBounded' /\ ClaimSpent'
  BY DEF RunInv, UrlsBounded, ClaimSpent, UrlLive, StoreNow
<1> QED
  BY <1>2, <1>5, <1>6 DEF RunInv

\* Time only brings the expiry closer.
LEMMA AdvanceStep ==
  ASSUME TypeOK, RunInv, Advance
  PROVE  RunInv'
<1> USE DEF claimVars, jobVars, Advance
<1>1. HeldRows' /\ OneHolder' /\ UnissuedUntouched'
  BY DEF RunInv, HeldRows, OneHolder, UnissuedUntouched, Unissued, InHandOf, Holding
<1>2. UrlsBounded'
  BY TimeAssumption DEF RunInv, UrlsBounded, TypeOK
<1>3. ClaimSpent'
  BY TimeAssumption DEF RunInv, ClaimSpent, UrlLive, StoreNow, TypeOK
<1> QED
  BY <1>1, <1>2, <1>3 DEF RunInv

\* A new row has an id nobody has seen.
LEMMA InsertStep ==
  ASSUME TypeOK, RunInv, NEW r \in Requesters, RequestInsert(r)
  PROVE  RunInv'
<1> USE DEF claimVars, jobVars
<1>1. PICK c \in Captures :
         /\ row[c].status = "none"
         /\ row' = [row EXCEPT ![c] = NewRow(req[r].cand, r \in AutoRequesters, now)]
         /\ req' = [req EXCEPT ![r] = Asking("mint", @.cand, c)]
  BY DEF RequestInsert, Fresh
<1>2. row'[c].status # "none" /\ \A d \in Captures \ {c} : row'[d] = row[d]
  BY <1>1, UpdateOf DEF TypeOK
<1>3. /\ req'[r].pc = "mint" /\ req'[r].cid = c
      /\ \A s \in Requesters \ {r} : req'[s] = req[s]
  BY <1>1, Fields DEF TypeOK
<1>4. \A s \in Requesters : Holding(s) => req[s].cid # c
  BY <1>1 DEF RunInv, HeldRows
<1>5. HeldRows'
  BY <1>2, <1>3, <1>4, FieldTypes DEF RunInv, HeldRows, Holding
<1>6. OneHolder'
  BY <1>3, <1>4 DEF RunInv, OneHolder, Holding
<1>7. \A d \in Captures : Unissued(d)' => Unissued(d)
  BY <1>1, <1>2, <1>3 DEF Unissued
<1>8. UnissuedUntouched'
  BY <1>7 DEF RunInv, UnissuedUntouched, RequestInsert, InHandOf
<1>9. UrlsBounded' /\ ClaimSpent'
  BY DEF RunInv, UrlsBounded, ClaimSpent, UrlLive, StoreNow, RequestInsert
<1> QED
  BY <1>5, <1>6, <1>8, <1>9 DEF RunInv

\* The credential is minted before anybody can claim with it.
LEMMA MintStep ==
  ASSUME TypeOK, RunInv, NEW r \in Requesters, RequestMint(r)
  PROVE  RunInv'
<1> USE DEF claimVars, jobVars
<1> DEFINE c == req[r].cid
<1>1. c \in Captures
  BY FieldTypes
<1>2. /\ req'[r].pc = "put" /\ req'[r].cid = c
      /\ \A s \in Requesters \ {r} : req'[s] = req[s]
  BY Fields DEF RequestMint, TypeOK
<1>3. Unissued(c) /\ Holding(r)
  BY DEF Unissued, Holding, RequestMint
<1>4. c \notin claims /\ runs[c] = 0
  BY <1>1, <1>3 DEF RunInv, UnissuedUntouched
<1>5. HeldRows' /\ OneHolder'
  BY <1>2, <1>3 DEF RunInv, HeldRows, OneHolder, Holding, RequestMint
<1>6. \A d \in Captures : Unissued(d)' => Unissued(d)
  BY <1>2 DEF Unissued, RequestMint
<1>7. UnissuedUntouched'
  BY <1>6 DEF RunInv, UnissuedUntouched, InHandOf, RequestMint
<1>8. /\ exp'[c] <= now + QTimeoutMax + RunMargin
      /\ \A d \in Captures \ {c} : exp'[d] = exp[d]
  <2>1. now + qtimeout + RunMargin <= now + QTimeoutMax + RunMargin
    BY TimeAssumption DEF TypeOK
  <2>2. exp'[c] = now + qtimeout + RunMargin
    BY <1>1 DEF RequestMint, TypeOK
  <2> QED
    BY <2>1, <2>2 DEF RequestMint, TypeOK
<1>9. UrlsBounded'
  BY <1>4, <1>8 DEF RunInv, UrlsBounded, RequestMint, TypeOK
<1>10. ClaimSpent'
  BY <1>4, <1>8 DEF RunInv, ClaimSpent, UrlLive, StoreNow, RequestMint
<1> QED
  BY <1>5, <1>7, <1>9, <1>10 DEF RunInv

\* The URLs are signed and the job stored by the one request that holds the
\* row, before anybody can claim it.
LEMMA PutStep ==
  ASSUME TypeOK, RunInv, NEW r \in Requesters,
         RequestPut(r) \/ RequestPutFails(r)
  PROVE  RunInv'
<1> USE DEF claimVars, RequestPut, RequestPutFails
<1> DEFINE c == req[r].cid
<1>1. c \in Captures
  BY FieldTypes
<1>2. /\ req'[r].pc \in {"idle", "fail"}
      /\ req'[r].pc = "fail" => req'[r].cid = c
      /\ \A s \in Requesters \ {r} : req'[s] = req[s]
  BY Fields DEF TypeOK
<1>3. Holding(r) /\ Unissued(c)
  BY DEF Holding, Unissued
<1>4. c \notin claims /\ runs[c] = 0
  BY <1>1, <1>3 DEF RunInv, UnissuedUntouched
<1>5. HeldRows' /\ OneHolder'
  BY <1>2, <1>3 DEF RunInv, HeldRows, OneHolder, Holding
<1>6. \A d \in Captures : Unissued(d)' => Unissued(d) /\ d # c
  <2>1. row[c].status # "none"
    BY <1>3 DEF RunInv, HeldRows
  <2>2. \A s \in Requesters \ {r} : Holding(s) => req[s].cid # c
    BY <1>3 DEF RunInv, OneHolder
  <2> QED
    BY <1>2, <2>1, <2>2 DEF Unissued, Holding
<1>7. UnissuedUntouched'
  <2>1. /\ jobs' \subseteq jobs \union {c}
        /\ claims' = claims /\ runs' = runs /\ worker' = worker
    OBVIOUS
  <2> QED
    BY <1>6, <2>1 DEF RunInv, UnissuedUntouched, InHandOf
<1>8. /\ exp'[c] <= now + QTimeoutMax + RunMargin
      /\ \A d \in Captures \ {c} : exp'[d] = exp[d]
  <2>1. now + 1 <= now + QTimeoutMax + RunMargin
    BY TimeAssumption DEF TypeOK
  <2>2. exp'[c] = exp[c] \/ exp'[c] = now + 1
    BY <1>1 DEF SignUrls, TypeOK
  <2> QED
    BY <1>1, <2>1, <2>2 DEF SignUrls, TypeOK, RunInv, UrlsBounded
<1>9. UrlsBounded'
  BY <1>4, <1>8 DEF RunInv, UrlsBounded, TypeOK
<1>10. ClaimSpent'
  BY <1>4, <1>8 DEF RunInv, ClaimSpent, UrlLive, StoreNow
<1> QED
  BY <1>5, <1>7, <1>9, <1>10 DEF RunInv

\* A worker takes in hand only a job that is there.
LEMMA GetStep ==
  ASSUME TypeOK, RunInv, NEW w \in Workers, WorkerGet(w)
  PROVE  RunInv'
<1> USE DEF claimVars, jobVars
<1>1. PICK c \in jobs :
        worker' = [worker EXCEPT ![w] = Working("claim", c, "none", FALSE)]
  BY DEF WorkerGet
<1>2. /\ worker'[w].cid = c
      /\ \A v \in Workers \ {w} : worker'[v] = worker[v]
  <2> DEFINE held == Working("claim", c, "none", FALSE)
  <2>1. held.cid = c
    BY DEF Working
  <2>2. worker' = [worker EXCEPT ![w] = held]
    BY <1>1
  <2> HIDE DEF held
  <2> QED
    BY <2>1, <2>2 DEF TypeOK
<1>3. c \in Captures /\ ~Unissued(c)
  BY DEF RunInv, UnissuedUntouched, TypeOK
<1>4. UnissuedUntouched'
  <2>1. \A d \in Captures : Unissued(d)' => Unissued(d)
    BY DEF Unissued, WorkerGet
  <2>2. jobs' = jobs /\ claims' = claims /\ runs' = runs
    BY DEF WorkerGet
  <2> QED
    BY <1>2, <1>3, <2>1, <2>2 DEF RunInv, UnissuedUntouched, InHandOf
<1>5. HeldRows' /\ OneHolder' /\ UrlsBounded' /\ ClaimSpent'
  BY DEF RunInv, HeldRows, OneHolder, UrlsBounded, ClaimSpent, UrlLive,
     StoreNow, Holding, WorkerGet
<1> QED
  BY <1>4, <1>5 DEF RunInv

\* A claim is accepted only while nobody has run the job, and its marker is
\* stamped at the store's time.
LEMMA ClaimStep ==
  ASSUME TypeOK, RunInv, NEW w \in Workers,
         WorkerClaim(w) \/ WorkerClaimAnswerLost(w)
  PROVE  RunInv'
<1> USE DEF claimVars, jobVars
<1> DEFINE c == worker[w].cid
<1>1. c \in Captures
  BY FieldTypes
<1>2. /\ worker[w].pc = "claim" /\ UrlLive(c) /\ c \notin claims
      /\ claims' = claims \union {c}
      /\ markedAt' = [markedAt EXCEPT ![c] = StoreNow]
      /\ runs' = [runs EXCEPT ![c] = @ + 1] \/ runs' = runs
      /\ UNCHANGED <<now, row, jobs, exp, req>>
  BY DEF WorkerClaim, WorkerClaimAnswerLost, ClaimAccepted, PutClaim
<1>3. /\ worker'[w].pc # "poll" => worker'[w].cid = c
      /\ \A v \in Workers \ {w} : worker'[v] = worker[v]
  <2> DEFINE held == Working("won", c, "none", FALSE)
  <2>1. held.cid = c
    BY DEF Working
  <2>2. IdleWorker.pc = "poll"
    BY Fields
  <2>3. \/ worker' = [worker EXCEPT ![w] = held]
        \/ worker' = [worker EXCEPT ![w] = IdleWorker]
    BY DEF WorkerClaim, WorkerClaimAnswerLost, TypeOK
  <2> HIDE DEF held
  <2> QED
    BY <2>1, <2>2, <2>3 DEF TypeOK
<1>4. InHandOf(w, c) /\ ~Unissued(c)
  BY <1>1, <1>2 DEF RunInv, UnissuedUntouched, InHandOf
<1>5. runs[c] = 0
  BY <1>1, <1>2 DEF RunInv, ClaimSpent
<1>6. /\ runs'[c] \in {0, 1}
      /\ \A d \in Captures \ {c} : runs'[d] = runs[d]
  BY <1>1, <1>2, <1>5 DEF TypeOK
<1>7. HeldRows' /\ OneHolder'
  BY <1>2 DEF RunInv, HeldRows, OneHolder, Holding
<1>8. UnissuedUntouched'
  <2>1. \A d \in Captures : Unissued(d)' => Unissued(d) /\ d # c
    BY <1>2, <1>4 DEF Unissued
  <2> QED
    BY <1>2, <1>3, <1>6, <2>1 DEF RunInv, UnissuedUntouched, InHandOf
<1>9. UrlsBounded'
  <2>1. exp[c] <= (now + StoreSkew) - StoreSkew + QTimeoutMax + RunMargin
    BY <1>1, TimeAssumption DEF RunInv, UrlsBounded, TypeOK
  <2>2. /\ markedAt'[c] = now + StoreSkew
        /\ \A d \in Captures \ {c} : markedAt'[d] = markedAt[d]
    BY <1>1, <1>2 DEF TypeOK, StoreNow
  <2> QED
    BY <1>2, <2>1, <2>2 DEF RunInv, UrlsBounded, TypeOK
<1>10. ClaimSpent'
  BY <1>2, <1>6 DEF RunInv, ClaimSpent, UrlLive, StoreNow
<1> QED
  BY <1>7, <1>8, <1>9, <1>10 DEF RunInv

\* sweep_claims takes a marker away only when its URL has expired, as long as
\* the store's clock is within half the allowance.
LEMMA OldMarkerIsDead ==
  ASSUME SkewTolerated, TypeOK, RunInv, NEW c \in claims, MarkerOld(c)
  PROVE  ~UrlLive(c)
<1>1. exp[c] <= markedAt[c] - StoreSkew + QTimeoutMax + RunMargin
  BY DEF RunInv, UrlsBounded
<1>2. markedAt[c] < now - (QTimeoutMax + RunMargin + ClaimSkew)
  BY DEF MarkerOld, MarkerMaxAge
<1>3. exp[c] \in Int /\ markedAt[c] \in Int /\ now \in Int
  BY DEF TypeOK
<1> QED
  BY <1>1, <1>2, <1>3, TimeAssumption DEF SkewTolerated, UrlLive, StoreNow

\* sweep_claims removes markers of dead URLs only, so whoever ran a job or may
\* still claim it is still told apart.
LEMMA SweepClaimsStep ==
  ASSUME SkewTolerated, TypeOK, RunInv, SweepClaims
  PROVE  RunInv'
<1> USE DEF claimVars, jobVars
<1>1. PICK gone \in SUBSET {c \in claims : MarkerOld(c)} :
         /\ claims' = claims \ gone
         /\ markedAt' = [c \in Captures |-> IF c \in gone THEN 0 ELSE markedAt[c]]
  BY DEF SweepClaims
<1>2. \A c \in gone : ~UrlLive(c)
  BY OldMarkerIsDead
<1>3. \A c \in claims' : markedAt'[c] = markedAt[c]
  BY <1>1 DEF TypeOK
<1>4. HeldRows' /\ OneHolder'
  BY DEF RunInv, HeldRows, OneHolder, Holding, SweepClaims
<1>5. UnissuedUntouched'
  BY <1>1 DEF RunInv, UnissuedUntouched, Unissued, InHandOf, SweepClaims
<1>6. UrlsBounded'
  BY <1>1, <1>3 DEF RunInv, UrlsBounded, SweepClaims
<1>7. ClaimSpent'
  BY <1>1, <1>2 DEF RunInv, ClaimSpent, UrlLive, StoreNow, SweepClaims
<1> QED
  BY <1>4, <1>5, <1>6, <1>7 DEF RunInv

\* The requester's steps.
LEMMA RequestStep ==
  ASSUME TypeOK, TypeOK', RunInv, NEW r \in Requesters, Request(r)
  PROVE  RunInv'
<1> USE DEF claimVars, jobVars
<1>1. CASE RequestCheck(r)
  <2>1. PICK a \in Candidates : req' = [req EXCEPT ![r] = Asking("insert", a, AnyCapture)]
    BY <1>1 DEF RequestCheck
  <2>2. Asking("insert", a, AnyCapture).pc = "insert"
    BY DEF Asking
  <2>3. \A s \in Requesters : req'[s] = req[s] \/ req'[s].pc = "insert"
    BY <2>1, <2>2 DEF TypeOK
  <2> QED
    BY <1>1, <2>3, QuietStep DEF RequestCheck
<1>2. CASE RequestRefused(r) \/ RequestConflict(r)
  <2>1. \A s \in Requesters : req'[s] = req[s] \/ req'[s].pc = "idle"
    BY <1>2, Fields DEF RequestRefused, RequestConflict, TypeOK
  <2> QED
    BY <1>2, <2>1, QuietStep DEF RequestRefused, RequestConflict
<1>3. CASE RequestFail(r)
  <2>1. \A s \in Requesters : req'[s] = req[s] \/ req'[s].pc = "idle"
    BY <1>3, Fields DEF RequestFail, TypeOK
  <2>2. row[req[r].cid].status # "none"
    BY <1>3 DEF RunInv, HeldRows, Holding, RequestFail
  <2>3. \A c \in Captures : row'[c].status = "none" <=> row[c].status = "none"
    BY <1>3, <2>2, FieldTypes, UpdateOf DEF RequestFail, TypeOK
  <2> QED
    BY <1>3, <2>1, <2>3, QuietStep DEF RequestFail
<1> QED
  BY <1>1, <1>2, <1>3, InsertStep, MintStep, PutStep DEF Request

\* The worker's steps.
LEMMA WorkStep ==
  ASSUME TypeOK, TypeOK', RunInv, NEW w \in Workers, Work(w)
  PROVE  RunInv'
<1> USE DEF claimVars, jobVars
<1>1. ASSUME \/ WorkerClaimFails(w) \/ WorkerUploadResult(w)
             \/ WorkerResultFails(w) \/ WorkerCrash(w)
      PROVE  RunInv'
  <2>1. \A v \in Workers : worker'[v] = worker[v] \/ worker'[v].pc = "poll"
    BY <1>1, Fields DEF WorkerClaimFails, WorkerUploadResult,
       WorkerResultFails, WorkerCrash, TypeOK
  <2> QED
    BY <1>1, <2>1, QuietStep DEF WorkerClaimFails, WorkerUploadResult,
       WorkerResultFails, WorkerCrash
<1>2. ASSUME \/ WorkerDeleteJob(w) \/ WorkerRun(w)
             \/ WorkerUploadShot(w) \/ WorkerShotFails(w)
      PROVE  RunInv'
  <2>1. PICK pc, b, s :
          worker' = [worker EXCEPT ![w] = Working(pc, worker[w].cid, b, s)]
    BY <1>2 DEF WorkerDeleteJob, WorkerRun, WorkerUploadShot, WorkerShotFails
  <2>2. Working(pc, worker[w].cid, b, s).cid = worker[w].cid
    BY DEF Working
  <2>3. worker[w].pc # "poll"
    BY <1>2 DEF WorkerDeleteJob, WorkerRun, WorkerUploadShot, WorkerShotFails
  <2>4. \A v \in Workers :
          \/ worker'[v] = worker[v]
          \/ worker[v].pc # "poll" /\ worker'[v].cid = worker[v].cid
    BY <2>1, <2>2, <2>3 DEF TypeOK
  <2> QED
    BY <1>2, <2>4, QuietStep DEF WorkerDeleteJob, WorkerRun, WorkerUploadShot,
       WorkerShotFails
<1> QED
  BY <1>1, <1>2, GetStep, ClaimStep DEF Work

\* While a verdict is being committed only its own request can touch the row.
SpoolFailed(c) ==
  row[c].status = "failed" /\ row[c].reason = "spool_unavailable"
CommitInv ==
  /\ tick.pc = "commit" => Queued(tick.cid) \/ SpoolFailed(tick.cid)
  /\ tick.pc = "timeout" =>
       \A c \in tick.todo : Queued(c) \/ SpoolFailed(c)

SameVerdict(c) ==
  /\ row'[c].cand = row[c].cand
  /\ row'[c].status = row[c].status
  /\ row'[c].reason = row[c].reason
  /\ row'[c].finished = row[c].finished

\* What one step of the tick may do to a row.
TickMove(c) ==
  \/ SameVerdict(c)
  \/ Queued(c) /\ row'[c].status \in Terminal
  \/ SpoolFailed(c) /\ row'[c].status = "failed"

\* The tick resolves only queued rows, and rows whose request has refused them.
LEMMA TickRows ==
  ASSUME TypeOK, CommitInv, TickStep
  PROVE  \A c \in Captures : TickMove(c)
<1>1. ASSUME row' = row PROVE \A c \in Captures : TickMove(c)
  BY <1>1 DEF TickMove, SameVerdict
<1>2. ASSUME NEW c \in Captures,
             \/ IngestSkip(c) \/ IngestDiscard(c) \/ IngestInvalid(c)
             \/ IngestUnmarked(c) \/ IngestImage(c) \/ SweepClean(c)
      PROVE  \A d \in Captures : TickMove(d)
  <2>1. CASE IngestInvalid(c)
    <3>1. /\ Queued(c)
          /\ row' = [row EXCEPT ![c] = Failed(@, "invalid_result", tick.at)]
      BY <2>1 DEF IngestInvalid, Ingestible
    <3>2. Failed(row[c], "invalid_result", tick.at).status = "failed"
      BY FieldTypes, UpdateOf
    <3> QED
      BY <3>1, <3>2 DEF TickMove, SameVerdict, Terminal, TypeOK
  <2> QED
    BY <1>1, <1>2, <2>1 DEF IngestSkip, IngestDiscard, IngestUnmarked,
       IngestImage, SweepClean
<1>3. CASE IngestCommit
  <2> DEFINE c == tick.cid
  <2>1. c \in Captures /\ row[c] \in Row
    BY FieldTypes
  <2>2. /\ tick.pc = "commit"
        /\ row' = [row EXCEPT ![c] = Verdict(c)]
        /\ Verdict(c).status = "failed" <=> Verdict(c).reason # "none"
    BY <1>3 DEF IngestCommit, FailureFollowsStatus
  <2>3. \/ Verdict(c).status = "failed"
        \/ Verdict(c).status = "done" /\ Verdict(c).reason = row[c].reason
    <3>1. CASE result[c].body = "error"
      <4> DEFINE rw == Failed(row[c], "capture_error", tick.at)
      <4>1. rw \in Row /\ rw.status = "failed"
        <5>1. rw \in Row
          BY RowTypes, FieldTypes DEF Reasons
        <5> QED
          BY <5>1, <2>1, UpdateOf
      <4>2. Verdict(c) = WithImage(rw, tick.image)
        BY <3>1 DEF Verdict
      <4> HIDE DEF rw
      <4> QED
        BY <4>1, <4>2, UpdateOf
    <3>2. CASE result[c].body # "error"
      <4> DEFINE rw == Done(row[c], tick.at)
      <4>1. rw \in Row /\ rw.status = "done" /\ rw.reason = row[c].reason
        <5>1. rw \in Row
          BY RowTypes, FieldTypes
        <5>2. \A at : Done(row[c], at).status = "done"
          BY <2>1, UpdateOf
        <5>3. \A at : Done(row[c], at).reason = row[c].reason
          BY <2>1, UpdateOf
        <5> QED
          BY <5>1, <5>2, <5>3
      <4>2. Verdict(c) = WithImage(rw, tick.image)
        BY <3>2 DEF Verdict
      <4> HIDE DEF rw
      <4> QED
        BY <4>1, <4>2, UpdateOf
    <3> QED
      BY <3>1, <3>2
  <2>4. TickMove(c)
    BY <2>1, <2>2, <2>3 DEF TickMove, CommitInv, SpoolFailed, Terminal, TypeOK
  <2>5. \A d \in Captures \ {c} : row'[d] = row[d]
    BY <2>2 DEF TypeOK
  <2> QED
    BY <2>4, <2>5 DEF TickMove, SameVerdict
<1>4. CASE IngestError
  <2> DEFINE c == tick.cid
  <2>1. Failed(row[c], "ingest_error", tick.at).status = "failed"
    BY FieldTypes, UpdateOf
  <2>2. \/ row' = row
        \/ /\ Queued(c)
           /\ row' = [row EXCEPT ![c] = Failed(@, "ingest_error", tick.at)]
    BY <1>4 DEF IngestError
  <2> QED
    BY <2>1, <2>2, FieldTypes DEF TickMove, SameVerdict, Terminal, TypeOK
<1>5. CASE SweepCommit
  <2>1. \A c \in Captures : Failed(row[c], "timeout", tick.at).status = "failed"
    BY FieldTypes, UpdateOf
  <2>2. \A c \in Captures :
          row'[c] = IF c \in tick.todo THEN Failed(row[c], "timeout", tick.at)
                    ELSE row[c]
    BY <1>5 DEF SweepCommit
  <2>3. \A c \in tick.todo : Queued(c) \/ SpoolFailed(c)
    BY <1>5 DEF CommitInv, SweepCommit
  <2> QED
    BY <2>1, <2>2, <2>3 DEF TickMove, SameVerdict, Terminal
<1>6. CASE PruneRecord
  <2>1. \A c \in Captures : row'[c] = row[c] \/ row'[c] = WithImage(row[c], FALSE)
    BY <1>6 DEF PruneRecord
  <2>2. \A rw \in Row : /\ WithImage(rw, FALSE).status = rw.status
                         /\ WithImage(rw, FALSE).reason = rw.reason
                         /\ WithImage(rw, FALSE).finished = rw.finished
                         /\ WithImage(rw, FALSE).cand = rw.cand
    BY DEF WithImage, Row
  <2> QED
    BY <2>1, <2>2, FieldTypes DEF TickMove, SameVerdict
<1> QED
  BY <1>1, <1>2, <1>3, <1>4, <1>5, <1>6 DEF TickStep, TickStart, IngestClean,
     IngestEnd, Sweep, SweepFails, SweepEnd, SweepClaims, Prune

\* The tick's steps but for sweep_claims leave runs and credentials alone.
LEMMA TickStepQuiet ==
  ASSUME TypeOK, TypeOK', RunInv, CommitInv, TickStep, ~SweepClaims
  PROVE  RunInv'
<1>1. \A c \in Captures : row'[c].status = "none" <=> row[c].status = "none"
  BY TickRows DEF TickMove, SameVerdict, Queued, SpoolFailed, Terminal
<1>2. /\ now' = now /\ exp' = exp /\ claims' = claims /\ markedAt' = markedAt
      /\ runs' = runs /\ req' = req /\ worker' = worker
  BY DEF TickStep, TickStart, IngestSkip, IngestDiscard, IngestInvalid,
     IngestUnmarked, IngestImage, SweepClean, IngestCommit, IngestError,
     IngestClean, IngestEnd, Sweep, SweepCommit, SweepFails, SweepEnd, Prune,
     PruneRecord,
     jobVars, claimVars
<1>3. jobs' \subseteq jobs
  BY DEF TickStep, TickStart, IngestSkip, IngestDiscard, IngestInvalid,
     IngestUnmarked, IngestImage, SweepClean, IngestCommit, IngestError,
     IngestClean, IngestEnd, Sweep, SweepCommit, SweepFails, SweepEnd, Prune,
     PruneRecord,
     jobVars, Retire
<1> QED
  BY <1>1, <1>2, <1>3, QuietStep

\* A verdict is drawn from a queued row, and until it is committed only its
\* own request can touch the row.
LEMMA CommitStep ==
  ASSUME TypeOK, TypeOK', CommitInv, [Next]_vars
  PROVE  CommitInv'
<1>1. ASSUME tick' = tick, row' = row PROVE CommitInv'
  BY <1>1 DEF CommitInv, Queued, SpoolFailed
<1>2. ASSUME NEW r \in Requesters, Request(r) PROVE CommitInv'
  <2>1. CASE RequestInsert(r)
    <3>1. PICK c \in Captures : row[c].status = "none" /\ \A d \in Captures \ {c} : row'[d] = row[d]
      BY <2>1 DEF RequestInsert, Fresh, TypeOK
    <3> QED
      BY <2>1, <3>1, FieldTypes DEF RequestInsert, CommitInv, Queued, SpoolFailed
  <2>2. CASE RequestFail(r)
    <3> DEFINE c == req[r].cid
    <3>1. /\ Failed(row[c], "spool_unavailable", now).status = "failed"
          /\ Failed(row[c], "spool_unavailable", now).reason = "spool_unavailable"
      BY FieldTypes, UpdateOf
    <3>2. /\ tick' = tick
          /\ row' = [row EXCEPT ![c] = Failed(@, "spool_unavailable", now)]
      BY <2>2 DEF RequestFail
    <3> QED
      BY <3>1, <3>2, FieldTypes DEF CommitInv, Queued, SpoolFailed, TypeOK
  <2> QED
    BY <1>1, <1>2, <2>1, <2>2 DEF Request, RequestCheck, RequestRefused,
       RequestConflict, RequestMint, RequestPut, RequestPutFails
<1>3. ASSUME NEW w \in Workers, Work(w) PROVE CommitInv'
  BY <1>1, <1>3 DEF Work, WorkerGet, WorkerClaim, WorkerClaimFails,
     WorkerClaimAnswerLost, WorkerDeleteJob, WorkerRun, WorkerUploadShot,
     WorkerShotFails, WorkerUploadResult, WorkerResultFails, WorkerCrash
<1>4. ASSUME TickStep PROVE CommitInv'
  <2>1. ASSUME tick'.pc \notin {"commit", "timeout"} PROVE CommitInv'
    BY <2>1 DEF CommitInv
  <2>2. ASSUME NEW c \in Captures, IngestImage(c) PROVE CommitInv'
    <3>1. PICK b : tick' = InHand("commit", tick.at, tick.todo, c, b)
      BY <2>2 DEF IngestImage
    <3>2. tick'.pc = "commit" /\ tick'.cid = c
      BY <3>1 DEF InHand
    <3> QED
      BY <2>2, <3>2 DEF IngestImage, Ingestible, CommitInv, Queued
  <2>3. CASE IngestCommit
    BY <2>1, <2>3 DEF IngestCommit, InHand
  <2>4. \A pc, at, todo : Pass(pc, at, todo).pc = pc
    BY DEF Pass, InHand
  <2>5. ASSUME NEW c \in Captures,
               IngestDiscard(c) \/ IngestInvalid(c)
        PROVE  CommitInv'
    BY <2>1, <2>5 DEF IngestDiscard, IngestInvalid, InHand
  <2>6. ASSUME NEW c \in Captures,
               IngestSkip(c) \/ IngestUnmarked(c) \/ SweepClean(c)
        PROVE  CommitInv'
    BY <2>1, <2>4, <2>6 DEF IngestSkip, IngestUnmarked, SweepClean
  <2>7. ASSUME \/ TickStart \/ IngestError \/ IngestClean \/ IngestEnd
               \/ SweepCommit \/ SweepFails \/ SweepEnd \/ SweepClaims
        PROVE  CommitInv'
    BY <2>1, <2>4, <2>7 DEF TickStart, IngestError, IngestClean, IngestEnd, Sweep,
       SweepCommit, SweepFails, SweepEnd, SweepClaims
  <2>8. CASE Prune
    BY <2>1, <2>4, <2>8 DEF Prune
  <2>9. CASE PruneRecord
    <3>1. IdleTick.pc = "idle"
      BY DEF IdleTick, Pass, InHand
    <3> QED
      BY <2>1, <2>9, <3>1 DEF PruneRecord
  <2>10. CASE Sweep
    <3>1. tick' = Pass("timeout", now, {c \in Captures : Overdue(c)})
      BY <2>10 DEF Sweep
    <3>2. tick'.pc = "timeout" /\ tick'.todo = {c \in Captures : Overdue(c)}
      BY <3>1 DEF Pass, InHand
    <3> QED
      BY <2>10, <3>2 DEF Sweep, Overdue, Queued, CommitInv
  <2> QED
    BY <1>4, <2>2, <2>3, <2>5, <2>6, <2>7, <2>8, <2>9, <2>10 DEF TickStep
<1>5. CASE BackendCrash
  <2>1. IdleTick.pc = "idle"
    BY DEF IdleTick, Pass, InHand
  <2> QED
    BY <1>5, <2>1 DEF BackendCrash, CommitInv
<1> QED
  BY <1>1, <1>2, <1>3, <1>4, <1>5 DEF Next, Advance, SetQueueTimeout,
     ProxyFlush, vars

\* Until a verdict is committed its row is queued, or refused by its request.
THEOREM Committing == Spec => []CommitInv
<1>1. Init => CommitInv
  BY DEF Init, CommitInv, IdleTick, Pass, InHand
<1>2. TypeOK /\ TypeOK' /\ CommitInv /\ [Next]_vars => CommitInv'
  BY CommitStep
<1> QED
  BY <1>1, <1>2, Typing, PTL DEF Spec

\* A resolved row keeps its verdict, but for the race the request itself may
\* win with spool_unavailable.
THEOREM VerdictHolds == Spec => VerdictStands
<1> DEFINE Stands(c) ==
      row[c].status \in Terminal =>
        \/ SpoolRace(c) /\ row'[c].status = "failed"
        \/ SameVerdict(c)
<1>1. ASSUME TypeOK, CommitInv, [Next]_vars
      PROVE  \A c \in Captures : Stands(c)
  <2>1. ASSUME row' = row PROVE \A c \in Captures : Stands(c)
    BY <2>1 DEF SameVerdict
  <2>2. ASSUME NEW r \in Requesters, Request(r)
        PROVE  \A c \in Captures : Stands(c)
    <3>1. CASE RequestInsert(r)
      <4>1. PICK c \in Captures : /\ row[c].status = "none"
                                  /\ \A d \in Captures \ {c} : row'[d] = row[d]
        BY <3>1 DEF RequestInsert, Fresh, TypeOK
      <4> QED
        BY <4>1 DEF Terminal, SameVerdict
    <3>2. CASE RequestFail(r)
      <4> DEFINE c == req[r].cid
                 rw == Failed(row[c], "spool_unavailable", now)
      <4>1. rw.status = "failed" /\ rw.reason = "spool_unavailable"
        BY FieldTypes, <1>1, UpdateOf
      <4>2. row' = [row EXCEPT ![c] = rw]
        BY <3>2 DEF RequestFail
      <4> HIDE DEF rw
      <4> QED
        BY <1>1, <4>1, <4>2, FieldTypes DEF SameVerdict, SpoolRace, TypeOK
    <3> QED
      BY <2>1, <2>2, <3>1, <3>2 DEF Request, RequestCheck, RequestRefused,
         RequestConflict, RequestMint, RequestPut, RequestPutFails
  <2>3. ASSUME TickStep PROVE \A c \in Captures : Stands(c)
    BY <1>1, <2>3, TickRows DEF TickMove, SpoolRace, SpoolFailed, Terminal, Queued
  <2>4. ASSUME NEW w \in Workers, Work(w)
        PROVE  row' = row
    BY <2>4 DEF Work, WorkerGet, WorkerClaim, WorkerClaimFails,
       WorkerClaimAnswerLost, WorkerDeleteJob, WorkerRun, WorkerUploadShot,
       WorkerShotFails, WorkerUploadResult, WorkerResultFails, WorkerCrash
  <2> QED
    BY <1>1, <2>1, <2>2, <2>3, <2>4 DEF Next, Advance, SetQueueTimeout,
       ProxyFlush, BackendCrash, vars
<1>2. TypeOK /\ CommitInv /\ [Next]_vars =>
        [\A c \in Captures :
           row[c].status \in Terminal =>
             \/ SpoolRace(c) /\ row'[c].status = "failed"
             \/ /\ row'[c].status = row[c].status
                /\ row'[c].reason = row[c].reason
                /\ row'[c].finished = row[c].finished]_vars
  BY <1>1 DEF SameVerdict
<1> QED
  BY <1>2, Typing, Committing, PTL DEF Spec, VerdictStands

\* Two requests that both saw no queued row never queue one candidate twice.
THEOREM OneQueued == Spec => []OneQueuedPerCandidate
<1> DEFINE Kept(c) == Queued(c)' => Queued(c) /\ row'[c].cand = row[c].cand
<1>1. Init => OneQueuedPerCandidate
  BY DEF Init, OneQueuedPerCandidate, Queued, NoRow
<1>2. ASSUME TypeOK, CommitInv, OneQueuedPerCandidate, [Next]_vars
      PROVE  OneQueuedPerCandidate'
  <2>1. ASSUME \A c \in Captures : Kept(c)
        PROVE  OneQueuedPerCandidate'
    BY <1>2, <2>1 DEF OneQueuedPerCandidate
  <2>2. ASSUME row' = row PROVE OneQueuedPerCandidate'
    BY <2>1, <2>2 DEF Queued
  <2>3. ASSUME NEW r \in Requesters, Request(r) PROVE OneQueuedPerCandidate'
    <3>1. CASE RequestInsert(r)
      <4>1. PICK c \in Captures :
              row' = [row EXCEPT ![c] =
                        NewRow(req[r].cand, r \in AutoRequesters, now)]
        BY <3>1 DEF RequestInsert
      <4>2. row'[c].cand = req[r].cand
        BY <1>2, <4>1, UpdateOf DEF TypeOK
      <4>3. \A d \in Captures : Queued(d) => row[d].cand # req[r].cand
        BY <3>1 DEF RequestInsert, IndexAllows, QueuedFor
      <4>4. \A d \in Captures \ {c} : row'[d] = row[d]
        BY <1>2, <4>1 DEF TypeOK
      <4> QED
        BY <1>2, <4>2, <4>3, <4>4 DEF OneQueuedPerCandidate, Queued
    <3>2. CASE RequestFail(r)
      <4> DEFINE c == req[r].cid
      <4>1. Failed(row[c], "spool_unavailable", now).status = "failed"
        BY <1>2, FieldTypes, UpdateOf
      <4>2. row' = [row EXCEPT ![c] = Failed(@, "spool_unavailable", now)]
        BY <3>2 DEF RequestFail
      <4> QED
        BY <1>2, <2>1, <4>1, <4>2, FieldTypes DEF Queued, TypeOK
    <3> QED
      BY <2>2, <2>3, <3>1, <3>2 DEF Request, RequestCheck, RequestRefused,
         RequestConflict, RequestMint, RequestPut, RequestPutFails
  <2>4. ASSUME TickStep PROVE OneQueuedPerCandidate'
    BY <1>2, <2>1, <2>4, TickRows DEF TickMove, SameVerdict, Terminal, Queued
  <2>5. ASSUME NEW w \in Workers, Work(w)
        PROVE  row' = row
    BY <2>5 DEF Work, WorkerGet, WorkerClaim, WorkerClaimFails,
       WorkerClaimAnswerLost, WorkerDeleteJob, WorkerRun, WorkerUploadShot,
       WorkerShotFails, WorkerUploadResult, WorkerResultFails, WorkerCrash
  <2> QED
    BY <1>2, <2>2, <2>3, <2>4, <2>5 DEF Next, Advance, SetQueueTimeout,
       ProxyFlush, BackendCrash, vars
<1> QED
  BY <1>1, <1>2, Typing, Committing, PTL DEF Spec

-----------------------------------------------------------------------------
\* The inductive invariant behind the claims, under the tolerated skew.
THEOREM Running ==
  ASSUME SkewTolerated
  PROVE  Spec => []RunInv
<1>1. Init => RunInv
  <2> SUFFICES ASSUME Init PROVE RunInv
    OBVIOUS
  <2> USE DEF Init
  <2>1. HeldRows /\ OneHolder
    BY Fields DEF HeldRows, OneHolder, Holding
  <2>2. UnissuedUntouched
    BY Fields DEF UnissuedUntouched, InHandOf
  <2>3. UrlsBounded /\ ClaimSpent
    BY TimeAssumption DEF UrlsBounded, ClaimSpent
  <2> QED
    BY <2>1, <2>2, <2>3 DEF RunInv
<1>2. TypeOK /\ TypeOK' /\ CommitInv /\ RunInv /\ [Next]_vars => RunInv'
  <2> SUFFICES ASSUME TypeOK, TypeOK', CommitInv, RunInv, [Next]_vars
               PROVE  RunInv'
    OBVIOUS
  <2>1. ASSUME TickStep PROVE RunInv'
    BY <2>1, TickStepQuiet, SweepClaimsStep
  <2>2. ASSUME \/ SetQueueTimeout
               \/ \E c \in Captures : ProxyFlush(c)
               \/ UNCHANGED vars
        PROVE  RunInv'
    BY <2>2, QuietStep DEF SetQueueTimeout, ProxyFlush, vars, jobVars, claimVars
  <2>3. CASE BackendCrash
    <3>1. \A r \in Requesters : req'[r].pc = "idle"
      BY <2>3, Fields DEF BackendCrash
    <3> QED
      BY <2>3, <3>1, QuietStep DEF BackendCrash, jobVars, claimVars
  <2> QED
    BY <2>1, <2>2, <2>3, AdvanceStep, RequestStep, WorkStep DEF Next
<1> QED
  BY <1>1, <1>2, Typing, Committing, PTL DEF Spec

\* However many workers poll and however slow they are, with a store clock that
\* lags by no more than half of CLAIM_SKEW_S a job is run at most once.
THEOREM AtMostOnce ==
  ASSUME SkewTolerated
  PROVE  Spec => []AtMostOneRun
<1>1. TypeOK /\ RunInv => AtMostOneRun
  BY DEF RunInv, ClaimSpent, AtMostOneRun, TypeOK
<1> QED
  BY <1>1, Typing, Running, PTL

\* A claim marker is removed only once the store refuses its claim URL.
THEOREM MarkersOutliveUrls ==
  ASSUME SkewTolerated
  PROVE  Spec => MarkerOutlivesUrl
<1>1. ASSUME TypeOK, RunInv, [Next]_vars,
             NEW c \in Captures, c \in claims, c \notin claims'
      PROVE  ~UrlLive(c)
  <2>1. SweepClaims
    BY <1>1 DEF Next, Advance, SetQueueTimeout, ProxyFlush, BackendCrash, vars,
       claimVars, Request, RequestCheck, RequestRefused, RequestInsert,
       RequestConflict, RequestMint, RequestPut, RequestPutFails, RequestFail,
       Work, WorkerGet, WorkerClaim, PutClaim, WorkerClaimFails,
       WorkerClaimAnswerLost, WorkerDeleteJob, WorkerRun, WorkerUploadShot,
       WorkerShotFails, WorkerUploadResult, WorkerResultFails, WorkerCrash,
       TickStep, TickStart, IngestSkip, IngestDiscard, IngestInvalid,
       IngestUnmarked, IngestImage, SweepClean, IngestCommit, IngestError,
       IngestClean, IngestEnd, Sweep, SweepCommit, SweepFails, SweepEnd, Prune, PruneRecord
  <2> QED
    BY <1>1, <2>1, OldMarkerIsDead DEF SweepClaims
<1>2. TypeOK /\ RunInv /\ [Next]_vars =>
        [\A c \in Captures : c \in claims /\ c \notin claims' => ~UrlLive(c)]_vars
  BY <1>1
<1> QED
  BY <1>2, Typing, Running, PTL DEF Spec, MarkerOutlivesUrl

-----------------------------------------------------------------------------
(* Evidence.  Nobody holds an id whose row does not exist, and what the     *)
(* tick removes belongs to a row that is resolved.                          *)

Known(c) == row[c].status # "none"
Settled(c) == row[c].status \in Terminal
KnownRows ==
  /\ HeldRows
  /\ \A c \in jobs \union results : Known(c)
  /\ \A w \in Workers : worker[w].pc # "poll" => Known(worker[w].cid)
CleansSettled ==
  /\ tick.pc = "clean" => Settled(tick.cid)
  /\ tick.pc = "sweepclean" => \A c \in tick.todo : Settled(c)

\* Whatever reports on a capture, or is about to commit its verdict, was
\* preceded by a run.
Started(w) == worker[w].pc \in {"won", "run", "shot", "result"}
RanFirst ==
  /\ \A w \in Workers : Started(w) => runs[worker[w].cid] # 0
  /\ \A c \in results : runs[c] # 0
  /\ tick.pc = "commit" => runs[tick.cid] # 0

EvidenceInv == KnownRows /\ CleansSettled /\ RanFirst

\* What the updates of a row leave in its other fields.
LEMMA RestOf ==
  /\ \A why, at : \A rw \in Row :
       /\ Failed(rw, why, at).cand = rw.cand /\ Failed(rw, why, at).auto = rw.auto
       /\ Failed(rw, why, at).image = rw.image
       /\ Failed(rw, why, at).finished = at
  /\ \A at : \A rw \in Row :
       /\ Done(rw, at).cand = rw.cand /\ Done(rw, at).auto = rw.auto
       /\ Done(rw, at).finished = at
  /\ \A b : \A rw \in Row :
       WithImage(rw, b).auto = rw.auto /\ WithImage(rw, b).image = b
  /\ \A a, b, at :
       /\ NewRow(a, b, at).auto = b
       /\ NewRow(a, b, at).image = FALSE
       /\ NewRow(a, b, at).finished = 0
  BY DEF Failed, Done, WithImage, NewRow, Row

\* The places of the tick.
LEMMA PassFields ==
  /\ \A pc, at, todo : /\ Pass(pc, at, todo).pc = pc
                       /\ Pass(pc, at, todo).at = at
                       /\ Pass(pc, at, todo).todo = todo
  /\ \A pc, at, todo, c, b : /\ InHand(pc, at, todo, c, b).pc = pc
                             /\ InHand(pc, at, todo, c, b).at = at
                             /\ InHand(pc, at, todo, c, b).todo = todo
                             /\ InHand(pc, at, todo, c, b).cid = c
                             /\ InHand(pc, at, todo, c, b).image = b
  /\ IdleTick.pc = "idle" /\ IdleTick.at = 0
  BY DEF Pass, InHand, IdleTick

\* The row that IngestCommit writes.
LEMMA VerdictFields ==
  ASSUME TypeOK, NEW c \in Captures
  PROVE  /\ Verdict(c).cand = row[c].cand /\ Verdict(c).auto = row[c].auto
         /\ Verdict(c).finished = tick.at /\ Verdict(c).image = tick.image
         /\ \/ Verdict(c).status = "failed" /\ Verdict(c).reason = "capture_error"
            \/ Verdict(c).status = "done" /\ Verdict(c).reason = row[c].reason
<1>1. row[c] \in Row /\ tick.at \in Int
  BY FieldTypes
<1>2. CASE result[c].body = "error"
  <2> DEFINE rw == Failed(row[c], "capture_error", tick.at)
  <2>1. rw \in Row
    BY <1>1, RowTypes DEF Reasons
  <2>2. /\ rw.cand = row[c].cand /\ rw.auto = row[c].auto /\ rw.finished = tick.at
        /\ rw.status = "failed" /\ rw.reason = "capture_error"
    BY <1>1, RestOf, UpdateOf
  <2>3. Verdict(c) = WithImage(rw, tick.image)
    BY <1>2 DEF Verdict
  <2> HIDE DEF rw
  <2> QED
    BY <2>1, <2>2, <2>3, RestOf, UpdateOf
<1>3. CASE result[c].body # "error"
  <2> DEFINE rw == Done(row[c], tick.at)
  <2>1. rw \in Row
    BY <1>1, RowTypes
  <2>2. /\ rw.cand = row[c].cand /\ rw.auto = row[c].auto /\ rw.finished = tick.at
        /\ rw.status = "done" /\ rw.reason = row[c].reason
    <3>1. \A at : /\ Done(row[c], at).cand = row[c].cand
                  /\ Done(row[c], at).auto = row[c].auto
                  /\ Done(row[c], at).finished = at
      BY <1>1, RestOf
    <3>2. \A at : /\ Done(row[c], at).status = "done"
                  /\ Done(row[c], at).reason = row[c].reason
      BY <1>1, UpdateOf
    <3> QED
      BY <3>1, <3>2
  <2>3. Verdict(c) = WithImage(rw, tick.image)
    BY <1>3 DEF Verdict
  <2> HIDE DEF rw
  <2> QED
    BY <2>1, <2>2, <2>3, RestOf, UpdateOf
<1> QED
  BY <1>2, <1>3

\* What a step of the tick may do to the rest of a row.
ImageMove(c) ==
  \/ row'[c].image = row[c].image
  \/ IngestCommit /\ c = tick.cid /\ row'[c].image = tick.image
  \/ PruneRecord /\ c \in tick.todo /\ ~row'[c].image
RestMove(c) ==
  /\ row'[c].cand = row[c].cand /\ row'[c].auto = row[c].auto
  /\ row'[c].finished \in {row[c].finished, tick.at}
  /\ ImageMove(c)

\* The tick moves no row to another candidate; it dates a row by the time its
\* pass began, and touches images only in a commit and in a record.
LEMMA TickRest ==
  ASSUME TypeOK, TickStep
  PROVE  \A c \in Captures : RestMove(c)
<1>1. ASSUME row' = row PROVE \A c \in Captures : RestMove(c)
  BY <1>1 DEF RestMove, ImageMove
<1>2. ASSUME NEW S \in SUBSET Captures, NEW why,
             \A c \in Captures :
               row'[c] = IF c \in S THEN Failed(row[c], why, tick.at) ELSE row[c]
      PROVE  \A c \in Captures : RestMove(c)
  <2>1. ASSUME NEW c \in Captures, c \notin S PROVE RestMove(c)
    BY <1>2, <2>1 DEF RestMove, ImageMove
  <2>2. ASSUME NEW c \in Captures, c \in S PROVE RestMove(c)
    <3>1. row'[c] = Failed(row[c], why, tick.at) /\ row[c] \in Row
      BY <1>2, <2>2, FieldTypes
    <3> QED
      BY <3>1, RestOf DEF RestMove, ImageMove
  <2> QED
    BY <2>1, <2>2
<1>3. ASSUME NEW c \in Captures, NEW why,
             row' = [row EXCEPT ![c] = Failed(@, why, tick.at)]
      PROVE  \A d \in Captures : RestMove(d)
  <2>1. \A d \in Captures :
          row'[d] = IF d \in {c} THEN Failed(row[d], why, tick.at) ELSE row[d]
    BY <1>3 DEF TypeOK
  <2> QED
    BY <2>1, <1>2
<1>4. ASSUME NEW c \in Captures, IngestInvalid(c)
      PROVE  \A d \in Captures : RestMove(d)
  BY <1>3, <1>4 DEF IngestInvalid
<1>5. CASE IngestCommit
  <2>1. tick.cid \in Captures /\ row' = [row EXCEPT ![tick.cid] = Verdict(tick.cid)]
    BY <1>5, FieldTypes DEF IngestCommit
  <2>2. \A d \in Captures \ {tick.cid} : row'[d] = row[d]
    BY <2>1 DEF TypeOK
  <2>3. row'[tick.cid] = Verdict(tick.cid)
    BY <2>1 DEF TypeOK
  <2> QED
    BY <1>5, <2>1, <2>2, <2>3, VerdictFields DEF RestMove, ImageMove
<1>6. CASE IngestError
  <2>1. \/ row' = row
        \/ row' = [row EXCEPT ![tick.cid] = Failed(@, "ingest_error", tick.at)]
    BY <1>6 DEF IngestError
  <2> QED
    BY <2>1, <1>1, <1>3, FieldTypes
<1>7. CASE SweepCommit
  <2>1. \A c \in Captures :
          row'[c] = IF c \in tick.todo THEN Failed(row[c], "timeout", tick.at)
                    ELSE row[c]
    BY <1>7 DEF SweepCommit
  <2> QED
    BY <2>1, <1>2, FieldTypes
<1>8. CASE PruneRecord
  <2>1. \A c \in Captures :
          row'[c] = row[c] \/ (c \in tick.todo /\ row'[c] = WithImage(row[c], FALSE))
    BY <1>8 DEF PruneRecord
  <2>2. ASSUME NEW c \in Captures PROVE RestMove(c)
    <3>1. CASE row'[c] = row[c]
      BY <3>1 DEF RestMove, ImageMove
    <3>2. CASE c \in tick.todo /\ row'[c] = WithImage(row[c], FALSE)
      <4>1. row[c] \in Row
        BY FieldTypes
      <4>2. /\ WithImage(row[c], FALSE).cand = row[c].cand
            /\ WithImage(row[c], FALSE).finished = row[c].finished
        BY <4>1 DEF WithImage, Row
      <4>3. /\ WithImage(row[c], FALSE).auto = row[c].auto
            /\ WithImage(row[c], FALSE).image = FALSE
        BY <4>1 DEF WithImage, Row
      <4> QED
        BY <1>8, <3>2, <4>2, <4>3 DEF RestMove, ImageMove
    <3> QED
      BY <2>1, <3>1, <3>2
  <2> QED
    BY <2>2
<1>9. ASSUME \/ TickStart \/ IngestClean \/ IngestEnd \/ Sweep \/ SweepFails
             \/ SweepEnd \/ SweepClaims \/ Prune
             \/ \E c \in Captures : \/ IngestSkip(c) \/ IngestDiscard(c)
                                    \/ IngestUnmarked(c) \/ IngestImage(c)
                                    \/ SweepClean(c)
      PROVE  row' = row
  BY <1>9 DEF TickStart, IngestClean, IngestEnd, Sweep, SweepFails, SweepEnd,
     SweepClaims, Prune, IngestSkip, IngestDiscard, IngestUnmarked, IngestImage,
     SweepClean
<1> QED
  BY <1>1, <1>4, <1>5, <1>6, <1>7, <1>8, <1>9 DEF TickStep

\* A step that is not the tick's changes a row only when a request inserts one
\* under a fresh id, or fails its own.
LEMMA OtherRows ==
  ASSUME TypeOK, [Next]_vars, ~TickStep
  PROVE  \/ row' = row
         \/ \E r \in Requesters : RequestInsert(r) \/ RequestFail(r)
  BY DEF Next, Advance, SetQueueTimeout, ProxyFlush, BackendCrash, vars,
     Request, RequestCheck, RequestRefused, RequestConflict, RequestMint,
     RequestPut, RequestPutFails, Work, WorkerGet, WorkerClaim,
     WorkerClaimFails, WorkerClaimAnswerLost, WorkerDeleteJob, WorkerRun,
     WorkerUploadShot, WorkerShotFails, WorkerUploadResult, WorkerResultFails,
     WorkerCrash

\* The inserted row, and the failed one.
LEMMA InsertedRow ==
  ASSUME TypeOK, NEW r \in Requesters, RequestInsert(r)
  PROVE  \E c \in Captures :
           /\ row[c].status = "none"
           /\ row'[c] = NewRow(req[r].cand, r \in AutoRequesters, now)
           /\ \A d \in Captures \ {c} : row'[d] = row[d]
           /\ req'[r].pc = "mint" /\ req'[r].cid = c
           /\ \A s \in Requesters \ {r} : req'[s] = req[s]
<1>1. PICK c \in Captures :
         /\ row[c].status = "none"
         /\ row' = [row EXCEPT ![c] = NewRow(req[r].cand, r \in AutoRequesters, now)]
         /\ req' = [req EXCEPT ![r] = Asking("mint", @.cand, c)]
  BY DEF RequestInsert, Fresh
<1> QED
  BY <1>1, Fields DEF TypeOK
\* A refused row is failed as spool_unavailable, whatever it was.
LEMMA RefusedRow ==
  ASSUME TypeOK, NEW r \in Requesters, RequestFail(r)
  PROVE  /\ req[r].cid \in Captures
         /\ row'[req[r].cid] = Failed(row[req[r].cid], "spool_unavailable", now)
         /\ \A d \in Captures \ {req[r].cid} : row'[d] = row[d]
         /\ req'[r].pc = "idle"
         /\ \A s \in Requesters \ {r} : req'[s] = req[s]
<1>1. /\ row' = [row EXCEPT ![req[r].cid] = Failed(@, "spool_unavailable", now)]
      /\ req' = [req EXCEPT ![r] = IdleRequester]
  BY DEF RequestFail
<1>2. req[r].cid \in Captures
  BY FieldTypes
<1> QED
  BY <1>1, <1>2, Fields DEF TypeOK

\* A row that exists goes on existing, and a resolved one stays resolved.
LEMMA RowsLast ==
  ASSUME TypeOK, CommitInv, [Next]_vars
  PROVE  /\ \A c \in Captures : Known(c) => Known(c)'
         /\ \A c \in Captures : Settled(c) => Settled(c)'
<1> USE DEF Known, Settled, Terminal
<1>1. CASE TickStep
  BY <1>1, TickRows DEF TickMove, SameVerdict, SpoolFailed
<1>2. CASE row' = row
  BY <1>2
<1>3. ASSUME NEW r \in Requesters, RequestInsert(r)
      PROVE  \A c \in Captures :
               (Known(c) => Known(c)') /\ (Settled(c) => Settled(c)')
  BY <1>3, InsertedRow
<1>4. ASSUME NEW r \in Requesters, RequestFail(r)
      PROVE  \A c \in Captures :
               (Known(c) => Known(c)') /\ (Settled(c) => Settled(c)')
  <2>1. row'[req[r].cid].status = "failed"
    BY <1>4, RefusedRow, FieldTypes, UpdateOf
  <2> QED
    BY <1>4, <2>1, RefusedRow
<1> QED
  BY <1>1, <1>2, <1>3, <1>4, OtherRows

\* A job is put by the request that holds its row, a result by the worker that
\* ran its job; a worker takes its id from a job and keeps it, and is past the
\* claim only after a claim that started a run.
LEMMA Travels ==
  ASSUME TypeOK, [Next]_vars
  PROVE  /\ \A c \in jobs' : c \in jobs \/ \E r \in Requesters : Holding(r) /\ req[r].cid = c
         /\ \A c \in results' :
              c \in results \/ \E w \in Workers : worker[w].pc = "result" /\ worker[w].cid = c
         /\ \A w \in Workers : worker'[w].pc # "poll" =>
              \/ worker[w].pc # "poll" /\ worker'[w].cid = worker[w].cid
              \/ worker'[w].cid \in jobs
         /\ \A w \in Workers : Started(w)' =>
              /\ worker'[w].cid = worker[w].cid
              /\ Started(w) \/ WorkerClaim(w)
<1>1. ASSUME NEW c \in jobs' PROVE c \in jobs \/ \E r \in Requesters : Holding(r) /\ req[r].cid = c
  <2>1. ASSUME NEW r \in Requesters, Request(r)
        PROVE  jobs' \subseteq jobs \/ (Holding(r) /\ jobs' \subseteq jobs \union {req[r].cid})
    BY ONLY <2>1 DEF jobVars, Holding, Request, RequestCheck, RequestRefused, RequestInsert,
       RequestConflict, RequestMint, RequestPut, RequestPutFails, RequestFail
  <2>2. ASSUME NEW w \in Workers, Work(w) PROVE jobs' \subseteq jobs
    BY ONLY <2>2 DEF jobVars, Work, WorkerGet, WorkerClaim, WorkerClaimFails,
       WorkerClaimAnswerLost, WorkerDeleteJob, WorkerRun, WorkerUploadShot, WorkerShotFails,
       WorkerUploadResult, WorkerResultFails, WorkerCrash
  <2>3. ASSUME TickStep PROVE jobs' \subseteq jobs
    BY ONLY <2>3 DEF jobVars, Retire, TickStep, TickStart, IngestSkip, IngestDiscard,
       IngestInvalid, IngestUnmarked, IngestImage, SweepClean, IngestCommit, IngestError,
       IngestClean, IngestEnd, Sweep, SweepCommit, SweepFails, SweepEnd, SweepClaims,
       Prune, PruneRecord
  <2> QED
    BY ONLY <1>1, <2>1, <2>2, <2>3, [Next]_vars
       DEF Next, Advance, SetQueueTimeout, ProxyFlush, BackendCrash, vars, jobVars
<1>2. ASSUME NEW c \in results'
      PROVE  c \in results \/ \E w \in Workers : worker[w].pc = "result" /\ worker[w].cid = c
  <2>1. ASSUME NEW r \in Requesters, Request(r) PROVE results' = results
    BY ONLY <2>1 DEF resultVars, Request, RequestCheck, RequestRefused, RequestInsert,
       RequestConflict, RequestMint, RequestPut, RequestPutFails, RequestFail
  <2>2. ASSUME NEW w \in Workers, Work(w)
        PROVE  \/ results' \subseteq results
               \/ worker[w].pc = "result" /\ results' \subseteq results \union {worker[w].cid}
    BY ONLY <2>2 DEF resultVars, Work, WorkerGet, WorkerClaim, WorkerClaimFails,
       WorkerClaimAnswerLost, WorkerDeleteJob, WorkerRun, WorkerUploadShot, WorkerShotFails,
       WorkerUploadResult, WorkerResultFails, WorkerCrash
  <2>3. ASSUME TickStep PROVE results' \subseteq results
    BY ONLY <2>3 DEF resultVars, Retire, TickStep, TickStart, IngestSkip, IngestDiscard,
       IngestInvalid, IngestUnmarked, IngestImage, SweepClean, IngestCommit, IngestError,
       IngestClean, IngestEnd, Sweep, SweepCommit, SweepFails, SweepEnd, SweepClaims,
       Prune, PruneRecord
  <2> QED
    BY ONLY <1>2, <2>1, <2>2, <2>3, [Next]_vars
       DEF Next, Advance, SetQueueTimeout, ProxyFlush, BackendCrash, vars, resultVars
<1>3. ASSUME NEW w \in Workers, worker'[w].pc # "poll"
      PROVE  \/ worker[w].pc # "poll" /\ worker'[w].cid = worker[w].cid
             \/ worker'[w].cid \in jobs
  <2>1. CASE worker' = worker
    BY <1>3, <2>1
  <2>2. ASSUME NEW v \in Workers, Work(v), v # w PROVE worker'[w] = worker[w]
    BY <2>2 DEF Work, WorkerGet, WorkerClaim, WorkerClaimFails, WorkerClaimAnswerLost,
       WorkerDeleteJob, WorkerRun, WorkerUploadShot, WorkerShotFails,
       WorkerUploadResult, WorkerResultFails, WorkerCrash, TypeOK
  <2>3. CASE WorkerGet(w)
    <3>1. PICK c \in jobs : worker' = [worker EXCEPT ![w] = Working("claim", c, "none", FALSE)]
      BY <2>3 DEF WorkerGet
    <3>2. worker'[w].cid = c
      BY <3>1 DEF TypeOK, Working
    <3> QED
      BY <3>2
  <2>4. CASE WorkerClaimFails(w) \/ WorkerClaimAnswerLost(w) \/ WorkerUploadResult(w)
             \/ WorkerResultFails(w) \/ WorkerCrash(w)
    <3>1. worker' = [worker EXCEPT ![w] = IdleWorker]
      BY <2>4 DEF WorkerClaimFails, WorkerClaimAnswerLost, WorkerUploadResult,
         WorkerResultFails, WorkerCrash
    <3> QED
      BY <1>3, <3>1, Fields DEF TypeOK
  <2>5. CASE WorkerClaim(w) \/ WorkerDeleteJob(w) \/ WorkerRun(w)
             \/ WorkerUploadShot(w) \/ WorkerShotFails(w)
    <3>1. PICK pc, b, s :
            worker' = [worker EXCEPT ![w] = Working(pc, worker[w].cid, b, s)]
      BY <2>5 DEF WorkerClaim, WorkerDeleteJob, WorkerRun, WorkerUploadShot,
         WorkerShotFails
    <3>2. worker[w].pc # "poll"
      BY <2>5 DEF WorkerClaim, WorkerDeleteJob, WorkerRun, WorkerUploadShot,
         WorkerShotFails
    <3>3. Working(pc, worker[w].cid, b, s).cid = worker[w].cid
      BY DEF Working
    <3> QED
      BY <3>1, <3>2, <3>3 DEF TypeOK
  <2>6. CASE Work(w)
    BY <2>3, <2>4, <2>5, <2>6 DEF Work
  <2>7. worker' = worker \/ \E v \in Workers : Work(v)
    BY DEF Next, Advance, SetQueueTimeout, ProxyFlush, BackendCrash, vars,
       Request, RequestCheck, RequestRefused, RequestInsert, RequestConflict,
       RequestMint, RequestPut, RequestPutFails, RequestFail, TickStep,
       TickStart, IngestSkip, IngestDiscard, IngestInvalid, IngestUnmarked,
       IngestImage, SweepClean, IngestCommit, IngestError, IngestClean,
       IngestEnd, Sweep, SweepCommit, SweepFails, SweepEnd, SweepClaims,
       Prune, PruneRecord
  <2> QED
    BY <1>3, <2>1, <2>2, <2>6, <2>7
<1>4. ASSUME NEW w \in Workers, Started(w)'
      PROVE  /\ worker'[w].cid = worker[w].cid
             /\ Started(w) \/ WorkerClaim(w)
  <2>1. CASE worker' = worker
    BY <1>4, <2>1 DEF Started
  <2>2. ASSUME NEW v \in Workers, Work(v), v # w PROVE worker'[w] = worker[w]
    BY <2>2 DEF Work, WorkerGet, WorkerClaim, WorkerClaimFails, WorkerClaimAnswerLost,
       WorkerDeleteJob, WorkerRun, WorkerUploadShot, WorkerShotFails,
       WorkerUploadResult, WorkerResultFails, WorkerCrash, TypeOK
  <2>3. CASE WorkerGet(w)
    <3>1. PICK c \in jobs : worker' = [worker EXCEPT ![w] = Working("claim", c, "none", FALSE)]
      BY <2>3 DEF WorkerGet
    <3>2. worker'[w].pc = "claim"
      BY <3>1 DEF TypeOK, Working
    <3> QED
      BY <1>4, <3>2 DEF Started
  <2>4. CASE WorkerClaimFails(w) \/ WorkerClaimAnswerLost(w) \/ WorkerUploadResult(w)
             \/ WorkerResultFails(w) \/ WorkerCrash(w)
    <3>1. worker' = [worker EXCEPT ![w] = IdleWorker]
      BY <2>4 DEF WorkerClaimFails, WorkerClaimAnswerLost, WorkerUploadResult,
         WorkerResultFails, WorkerCrash
    <3>2. worker'[w].pc = "poll"
      BY <3>1, Fields DEF TypeOK
    <3> QED
      BY <1>4, <3>2 DEF Started
  <2>5. CASE WorkerClaim(w) \/ WorkerDeleteJob(w) \/ WorkerRun(w)
             \/ WorkerUploadShot(w) \/ WorkerShotFails(w)
    <3>1. PICK pc, b, s :
            worker' = [worker EXCEPT ![w] = Working(pc, worker[w].cid, b, s)]
      BY <2>5 DEF WorkerClaim, WorkerDeleteJob, WorkerRun, WorkerUploadShot,
         WorkerShotFails
    <3>2. WorkerClaim(w) \/ Started(w)
      BY <2>5 DEF WorkerDeleteJob, WorkerRun, WorkerUploadShot, WorkerShotFails,
         Started
    <3>3. Working(pc, worker[w].cid, b, s).cid = worker[w].cid
      BY DEF Working
    <3> QED
      BY <3>1, <3>2, <3>3 DEF TypeOK
  <2>6. CASE Work(w)
    BY <2>3, <2>4, <2>5, <2>6 DEF Work
  <2>7. worker' = worker \/ \E v \in Workers : Work(v)
    BY DEF Next, Advance, SetQueueTimeout, ProxyFlush, BackendCrash, vars,
       Request, RequestCheck, RequestRefused, RequestInsert, RequestConflict,
       RequestMint, RequestPut, RequestPutFails, RequestFail, TickStep,
       TickStart, IngestSkip, IngestDiscard, IngestInvalid, IngestUnmarked,
       IngestImage, SweepClean, IngestCommit, IngestError, IngestClean,
       IngestEnd, Sweep, SweepCommit, SweepFails, SweepEnd, SweepClaims,
       Prune, PruneRecord
  <2>8. CASE worker'[w] = worker[w]
    BY <1>4, <2>8 DEF Started
  <2> QED
    BY <2>1, <2>2, <2>6, <2>7, <2>8
<1> QED
  BY <1>1, <1>2, <1>3, <1>4

\* Ids travel from the request to the job, from the job to a worker, and from
\* the worker to the result.
LEMMA KnownStep ==
  ASSUME TypeOK, TypeOK', CommitInv, KnownRows, [Next]_vars
  PROVE  KnownRows'
<1>1. \A c \in Captures : Known(c) => Known(c)'
  BY RowsLast
<1>2. ASSUME NEW r \in Requesters, Holding(r)' PROVE row'[req'[r].cid].status # "none"
  <2>1. CASE Holding(r) /\ req'[r].cid = req[r].cid
    BY <1>1, <2>1, FieldTypes DEF KnownRows, HeldRows, Known
  <2>2. CASE RequestInsert(r)
    <3>1. PICK c \in Captures :
             /\ row'[c] = NewRow(req[r].cand, r \in AutoRequesters, now)
             /\ req'[r].cid = c
      BY <2>2, InsertedRow
    <3> QED
      BY <3>1, UpdateOf DEF Known
  <2>3. \/ Holding(r) /\ req'[r].cid = req[r].cid
        \/ RequestInsert(r)
    <3>1. CASE req' = req
      BY <1>2, <3>1 DEF Holding
    <3>2. ASSUME NEW s \in Requesters, Request(s)
          PROVE  \/ Holding(r) /\ req'[r].cid = req[r].cid
                 \/ RequestInsert(r)
      <4>1. CASE s # r
        <5>1. req'[r] = req[r]
          BY <3>2, <4>1 DEF Request, RequestCheck, RequestRefused, RequestInsert,
             RequestConflict, RequestMint, RequestPut, RequestPutFails,
             RequestFail, TypeOK
        <5> QED
          BY <1>2, <5>1 DEF Holding
      <4>2. CASE RequestMint(r) \/ RequestPutFails(r)
        BY <4>2, Fields DEF RequestMint, RequestPutFails, Holding, TypeOK
      <4>3. CASE RequestCheck(r)
        <5>1. PICK a : req' = [req EXCEPT ![r] = Asking("insert", a, AnyCapture)]
          BY <4>3 DEF RequestCheck
        <5>2. req'[r].pc = "insert"
          BY <5>1, Fields DEF TypeOK
        <5> QED
          BY <1>2, <5>2 DEF Holding
      <4>4. CASE RequestRefused(r) \/ RequestConflict(r) \/ RequestPut(r) \/ RequestFail(r)
        <5>1. req' = [req EXCEPT ![r] = IdleRequester]
          BY <4>4 DEF RequestRefused, RequestConflict, RequestPut, RequestFail
        <5>2. req'[r].pc = "idle"
          BY <5>1, Fields DEF TypeOK
        <5> QED
          BY <1>2, <5>2 DEF Holding
      <4> QED
        BY <3>2, <4>1, <4>2, <4>3, <4>4 DEF Request
    <3>3. CASE BackendCrash
      <4>1. req'[r].pc = "idle"
        BY <3>3, Fields DEF BackendCrash
      <4> QED
        BY <1>2, <4>1 DEF Holding
    <3> QED
      BY <3>1, <3>2, <3>3 DEF Next, Advance, SetQueueTimeout, ProxyFlush, vars,
         Work, WorkerGet, WorkerClaim, WorkerClaimFails, WorkerClaimAnswerLost,
         WorkerDeleteJob, WorkerRun, WorkerUploadShot, WorkerShotFails,
         WorkerUploadResult, WorkerResultFails, WorkerCrash, TickStep,
         TickStart, IngestSkip, IngestDiscard, IngestInvalid, IngestUnmarked,
         IngestImage, SweepClean, IngestCommit, IngestError, IngestClean,
         IngestEnd, Sweep, SweepCommit, SweepFails, SweepEnd, SweepClaims,
         Prune, PruneRecord
  <2> QED
    BY <2>1, <2>2, <2>3
<1>3. /\ \A c \in jobs' : c \in jobs \/ \E r \in Requesters : Holding(r) /\ req[r].cid = c
      /\ \A c \in results' :
           c \in results \/ \E w \in Workers : worker[w].pc = "result" /\ worker[w].cid = c
      /\ \A w \in Workers : worker'[w].pc # "poll" =>
           \/ worker[w].pc # "poll" /\ worker'[w].cid = worker[w].cid
           \/ worker'[w].cid \in jobs
  BY Travels
<1>4. HeldRows'
  BY <1>2 DEF HeldRows, Known
<1>5. ASSUME NEW c \in jobs' \union results' PROVE Known(c)'
  <2>1. c \in jobs \union results => Known(c) /\ c \in Captures
    BY DEF KnownRows, TypeOK
  <2>2. ASSUME NEW r \in Requesters, Holding(r), req[r].cid = c
        PROVE  Known(c) /\ c \in Captures
    BY <2>2, FieldTypes DEF KnownRows, HeldRows, Known
  <2>3. ASSUME NEW w \in Workers, worker[w].pc = "result", worker[w].cid = c
        PROVE  Known(c) /\ c \in Captures
    BY <2>3, FieldTypes DEF KnownRows
  <2>4. Known(c) /\ c \in Captures
    <3>1. CASE c \in jobs'
      BY <1>3, <2>1, <2>2, <3>1 DEF KnownRows, TypeOK
    <3>2. CASE c \in results'
      BY <1>3, <2>1, <2>3, <3>2 DEF KnownRows, TypeOK
    <3> QED
      BY <3>1, <3>2
  <2> QED
    BY <1>1, <2>4
<1>6. ASSUME NEW w \in Workers, worker'[w].pc # "poll" PROVE row'[worker'[w].cid].status # "none"
  <2>1. Known(worker'[w].cid) /\ worker'[w].cid \in Captures
    BY <1>3, <1>6, FieldTypes DEF KnownRows, Known, TypeOK
  <2> QED
    BY <1>1, <2>1 DEF Known
<1> QED
  BY <1>4, <1>5, <1>6 DEF KnownRows, Known

\* After a prune pass the tick records, then it is idle again.
LEMMA IdleAfter ==
  /\ Prune => tick'.pc = "record"
  /\ PruneRecord \/ BackendCrash => tick'.pc = "idle" /\ tick'.at = 0
<1>1. ASSUME Prune PROVE tick'.pc = "record"
  <2>1. \E gone : tick' = Pass("record", 0, gone)
    BY <1>1 DEF Prune
  <2> QED
    BY <2>1 DEF Pass, InHand
<1>2. ASSUME PruneRecord \/ BackendCrash PROVE tick'.pc = "idle" /\ tick'.at = 0
  <2>1. tick' = IdleTick
    BY <1>2 DEF PruneRecord, BackendCrash
  <2> QED
    BY <2>1 DEF IdleTick, Pass, InHand
<1> QED
  BY <1>1, <1>2

\* The tick cleans up after a row only once the row is resolved.
LEMMA CleansStep ==
  ASSUME TypeOK, TypeOK', CommitInv, KnownRows, CleansSettled, [Next]_vars
  PROVE  CleansSettled'
<1>1. \A c \in Captures : Settled(c) => Settled(c)'
  BY RowsLast
<1>2. CASE tick' = tick
  BY <1>1, <1>2, FieldTypes DEF CleansSettled, Settled
<1>3. CASE tick'.pc \notin {"clean", "sweepclean"}
  BY <1>3 DEF CleansSettled
<1>4. ASSUME NEW c \in Captures, IngestDiscard(c) PROVE CleansSettled'
  <2>1. tick'.pc = "clean" /\ tick'.cid = c /\ row' = row
    BY <1>4 DEF IngestDiscard, InHand
  <2>2. Settled(c)
    BY <1>4 DEF IngestDiscard, Ingesting, KnownRows, Known, Queued, Settled,
       Terminal, TypeOK, Row, Statuses
  <2> QED
    BY <2>1, <2>2 DEF CleansSettled, Settled
<1>5. ASSUME NEW c \in Captures, IngestInvalid(c) PROVE CleansSettled'
  <2>1. /\ tick'.pc = "clean" /\ tick'.cid = c
        /\ row' = [row EXCEPT ![c] = Failed(@, "invalid_result", tick.at)]
    BY <1>5 DEF IngestInvalid, InHand
  <2>2. row'[c].status = "failed"
    BY <2>1, UpdateOf, FieldTypes DEF TypeOK
  <2> QED
    BY <2>1, <2>2 DEF CleansSettled, Settled, Terminal
<1>6. CASE IngestCommit
  <2>1. /\ tick'.pc = "clean" /\ tick'.cid = tick.cid
        /\ row' = [row EXCEPT ![tick.cid] = Verdict(tick.cid)]
    BY <1>6 DEF IngestCommit, InHand
  <2>2. row'[tick.cid].status \in Terminal
    BY <2>1, VerdictFields, FieldTypes DEF TypeOK, Terminal
  <2> QED
    BY <2>1, <2>2 DEF CleansSettled, Settled
<1>7. CASE SweepCommit
  <2>1. /\ tick'.pc = "sweepclean" /\ tick'.todo = tick.todo
        /\ \A c \in Captures : c \in tick.todo =>
             row'[c] = Failed(row[c], "timeout", tick.at)
    BY <1>7, PassFields DEF SweepCommit
  <2>2. \A c \in tick.todo : row'[c].status = "failed"
    BY <2>1, UpdateOf, FieldTypes
  <2> QED
    BY <2>1, <2>2 DEF CleansSettled, Settled, Terminal
<1>8. ASSUME NEW c \in Captures, SweepClean(c) PROVE CleansSettled'
  <2>1. /\ tick.pc = "sweepclean" /\ tick'.pc = "sweepclean" /\ row' = row
        /\ tick'.todo = tick.todo \ {c}
    BY <1>8, PassFields DEF SweepClean
  <2> QED
    BY <2>1 DEF CleansSettled, Settled
<1>9. ASSUME \/ TickStart \/ IngestError \/ IngestClean \/ IngestEnd \/ Sweep
             \/ SweepFails \/ SweepEnd \/ SweepClaims \/ Prune \/ PruneRecord
             \/ BackendCrash
             \/ \E c \in Captures : IngestSkip(c) \/ IngestUnmarked(c) \/ IngestImage(c)
      PROVE  tick'.pc \notin {"clean", "sweepclean"}
  <2>1. ASSUME NEW c \in Captures, IngestImage(c) PROVE tick'.pc = "commit"
    <3>1. \E b \in BOOLEAN : tick' = InHand("commit", tick.at, tick.todo, c, b)
      BY <2>1 DEF IngestImage
    <3> QED
      BY <3>1, PassFields
  <2> QED
    <3>1. ASSUME NEW c \in Captures, IngestSkip(c) \/ IngestUnmarked(c)
          PROVE  tick'.pc \notin {"clean", "sweepclean"}
      BY <3>1, PassFields DEF IngestSkip, IngestUnmarked
    <3>2. ASSUME Prune \/ PruneRecord \/ BackendCrash
          PROVE  tick'.pc \notin {"clean", "sweepclean"}
      BY <3>2, IdleAfter
    <3>3. ASSUME \/ TickStart \/ IngestError \/ IngestClean \/ IngestEnd \/ Sweep
                 \/ SweepFails \/ SweepEnd \/ SweepClaims
          PROVE  tick'.pc \notin {"clean", "sweepclean"}
      BY <3>3 DEF TickStart, IngestError, IngestClean, IngestEnd, Sweep,
         SweepFails, SweepEnd, SweepClaims, Pass, InHand
    <3> QED
      BY <1>9, <2>1, <3>1, <3>2, <3>3
<1>10. tick' = tick \/ TickStep \/ BackendCrash
  BY DEF Next, Advance, SetQueueTimeout, ProxyFlush, vars,
     Request, RequestCheck, RequestRefused, RequestInsert, RequestConflict,
     RequestMint, RequestPut, RequestPutFails, RequestFail,
     Work, WorkerGet, WorkerClaim, WorkerClaimFails, WorkerClaimAnswerLost,
     WorkerDeleteJob, WorkerRun, WorkerUploadShot, WorkerShotFails,
     WorkerUploadResult, WorkerResultFails, WorkerCrash
<1> QED
  BY <1>2, <1>3, <1>4, <1>5, <1>6, <1>7, <1>8, <1>9, <1>10 DEF TickStep

\* A run is never taken back.
LEMMA RunsGrow ==
  ASSUME TypeOK, [Next]_vars
  PROVE  /\ \A c \in Captures : runs[c] # 0 => runs'[c] # 0
         /\ \A w \in Workers : WorkerClaim(w) => runs'[worker[w].cid] # 0
<1>1. \/ runs' = runs
      \/ \E w \in Workers : WorkerClaim(w)
  BY DEF Next, Advance, SetQueueTimeout, ProxyFlush, BackendCrash, vars, claimVars,
     Request, RequestCheck, RequestRefused, RequestInsert, RequestConflict,
     RequestMint, RequestPut, RequestPutFails, RequestFail,
     Work, WorkerGet, WorkerClaimFails, WorkerClaimAnswerLost,
     WorkerDeleteJob, WorkerRun, WorkerUploadShot, WorkerShotFails,
     WorkerUploadResult, WorkerResultFails, WorkerCrash, TickStep,
     TickStart, IngestSkip, IngestDiscard, IngestInvalid, IngestUnmarked,
     IngestImage, SweepClean, IngestCommit, IngestError, IngestClean,
     IngestEnd, Sweep, SweepCommit, SweepFails, SweepEnd, SweepClaims,
     Prune, PruneRecord
<1>2. ASSUME NEW w \in Workers, WorkerClaim(w)
      PROVE  /\ \A c \in Captures : runs[c] # 0 => runs'[c] # 0
             /\ runs'[worker[w].cid] # 0
  <2>1. runs' = [runs EXCEPT ![worker[w].cid] = @ + 1]
    BY <1>2 DEF WorkerClaim
  <2>2. worker[w].cid \in Captures /\ \A c \in Captures : runs[c] \in Nat
    BY FieldTypes DEF TypeOK
  <2> QED
    BY <2>1, <2>2 DEF TypeOK
<1> QED
  BY <1>1, <1>2

\* No result without a run.
LEMMA RanStep ==
  ASSUME TypeOK, TypeOK', RanFirst, [Next]_vars
  PROVE  RanFirst'
<1>1. \A c \in Captures : runs[c] # 0 => runs'[c] # 0
  BY RunsGrow
<1>2. ASSUME NEW w \in Workers, Started(w)' PROVE runs'[worker'[w].cid] # 0
  <2>1. worker'[w].cid = worker[w].cid /\ (Started(w) \/ WorkerClaim(w))
    BY <1>2, Travels
  <2>2. worker[w].cid \in Captures
    BY FieldTypes
  <2> QED
    BY <1>1, <2>1, <2>2, RunsGrow DEF RanFirst
<1>3. ASSUME NEW c \in results' PROVE runs'[c] # 0
  <2>1. c \in results \/ \E w \in Workers : worker[w].pc = "result" /\ worker[w].cid = c
    BY <1>3, Travels
  <2>2. runs[c] # 0 /\ c \in Captures
    BY <1>3, <2>1 DEF RanFirst, Started, TypeOK
  <2> QED
    BY <1>1, <2>2
<1>4. ASSUME tick'.pc = "commit" PROVE runs'[tick'.cid] # 0
  <2>1. \/ tick.pc = "commit" /\ tick'.cid = tick.cid
        \/ tick'.cid \in results
    <3>1. CASE tick' = tick
      BY <1>4, <3>1
    <3>2. ASSUME NEW c \in Captures, IngestImage(c) PROVE tick'.cid \in results
      <4>1. \E b \in BOOLEAN : tick' = InHand("commit", tick.at, tick.todo, c, b)
        BY <3>2 DEF IngestImage
      <4>2. c \in results
        BY <3>2 DEF IngestImage, Ingestible, Ingesting
      <4> QED
        BY <4>1, <4>2, PassFields
    <3>3. ASSUME \/ TickStart \/ IngestError \/ IngestClean \/ IngestEnd \/ Sweep
                 \/ SweepFails \/ SweepEnd \/ SweepClaims \/ Prune \/ PruneRecord
                 \/ BackendCrash \/ IngestCommit \/ SweepCommit
                 \/ \E c \in Captures : \/ IngestSkip(c) \/ IngestUnmarked(c)
                                        \/ IngestDiscard(c) \/ IngestInvalid(c)
                                        \/ SweepClean(c)
          PROVE  tick'.pc # "commit"
      <4>1. ASSUME IngestCommit \/ \E c \in Captures : IngestDiscard(c) \/ IngestInvalid(c)
            PROVE  tick'.pc # "commit"
        BY <4>1 DEF IngestCommit, IngestDiscard, IngestInvalid, InHand
      <4>2. ASSUME NEW c \in Captures, IngestSkip(c) \/ IngestUnmarked(c) \/ SweepClean(c)
            PROVE  tick'.pc # "commit"
        BY <4>2, PassFields DEF IngestSkip, IngestUnmarked, SweepClean
      <4>3. ASSUME Prune \/ PruneRecord \/ BackendCrash
            PROVE  tick'.pc # "commit"
        BY <4>3, IdleAfter
      <4>4. ASSUME \/ TickStart \/ IngestError \/ IngestClean \/ IngestEnd \/ Sweep
                   \/ SweepFails \/ SweepEnd \/ SweepClaims \/ SweepCommit
            PROVE  tick'.pc # "commit"
        BY <4>4 DEF TickStart, IngestError, IngestClean, IngestEnd, Sweep,
           SweepFails, SweepEnd, SweepClaims, SweepCommit, Pass, InHand
      <4> QED
        BY <3>3, <4>1, <4>2, <4>3, <4>4
    <3>4. tick' = tick \/ TickStep \/ BackendCrash
      BY DEF Next, Advance, SetQueueTimeout, ProxyFlush, vars,
         Request, RequestCheck, RequestRefused, RequestInsert, RequestConflict,
         RequestMint, RequestPut, RequestPutFails, RequestFail,
         Work, WorkerGet, WorkerClaim, WorkerClaimFails, WorkerClaimAnswerLost,
         WorkerDeleteJob, WorkerRun, WorkerUploadShot, WorkerShotFails,
         WorkerUploadResult, WorkerResultFails, WorkerCrash
    <3> QED
      BY <1>4, <3>1, <3>2, <3>3, <3>4 DEF TickStep
  <2>2. runs[tick'.cid] # 0 /\ tick'.cid \in Captures
    BY <2>1, FieldTypes DEF RanFirst, TypeOK
  <2> QED
    BY <1>1, <2>2
<1> QED
  BY <1>2, <1>3, <1>4 DEF RanFirst

\* Ids are known, cleans are settled and results have run, always.
THEOREM EvidenceInvAlways == Spec => []EvidenceInv
<1>1. Init => EvidenceInv
  <2> SUFFICES ASSUME Init PROVE EvidenceInv
    OBVIOUS
  <2> USE DEF Init
  <2>1. KnownRows
    BY Fields DEF KnownRows, HeldRows, Holding
  <2>2. CleansSettled /\ RanFirst
    BY Fields, PassFields DEF CleansSettled, RanFirst, Started
  <2> QED
    BY <2>1, <2>2 DEF EvidenceInv
<1>2. TypeOK /\ TypeOK' /\ CommitInv /\ EvidenceInv /\ [Next]_vars => EvidenceInv'
  BY KnownStep, CleansStep, RanStep DEF EvidenceInv
<1> QED
  BY <1>1, <1>2, Typing, Committing, PTL DEF Spec

\* The result, the screenshot and the proxy log of a queued capture are never
\* deleted: the tick retires them only after the commit of a verdict.
THEOREM EvidenceOutlives == Spec => EvidenceOutlivesQueue
<1>1. ASSUME TypeOK, EvidenceInv, [Next]_vars, NEW c \in Captures, Queued(c)
      PROVE  /\ c \in results  => c \in results'
             /\ c \in shots    => c \in shots'
             /\ c \in proxylog => c \in proxylog'
  <2>1. ASSUME NEW d, Retire(d), d # c
        PROVE  /\ c \in results  => c \in results'
               /\ c \in shots    => c \in shots'
               /\ c \in proxylog => c \in proxylog'
    BY <2>1 DEF Retire
  <2>2. CASE IngestClean
    <3>1. tick.cid # c
      BY <1>1, <2>2 DEF IngestClean, EvidenceInv, CleansSettled, Settled, Queued,
         Terminal
    <3> QED
      BY <2>1, <2>2, <3>1 DEF IngestClean
  <2>3. ASSUME NEW d \in Captures, SweepClean(d)
        PROVE  /\ c \in results  => c \in results'
               /\ c \in shots    => c \in shots'
               /\ c \in proxylog => c \in proxylog'
    <3>1. d # c
      BY <1>1, <2>3 DEF SweepClean, EvidenceInv, CleansSettled, Settled, Queued,
         Terminal
    <3> QED
      BY <2>1, <2>3, <3>1 DEF SweepClean
  <2>4. CASE TickStep
    BY <2>2, <2>3, <2>4 DEF TickStep,
       TickStart, IngestSkip, IngestDiscard, IngestInvalid, IngestUnmarked,
       IngestImage, IngestCommit, IngestError,
       IngestEnd, Sweep, SweepCommit, SweepFails, SweepEnd, SweepClaims,
       Prune, PruneRecord, resultVars, logVars
  <2> QED
    BY <1>1, <2>4 DEF Next, Advance, SetQueueTimeout, ProxyFlush, BackendCrash,
       vars, resultVars, logVars,
       Request, RequestCheck, RequestRefused, RequestInsert, RequestConflict,
       RequestMint, RequestPut, RequestPutFails, RequestFail,
       Work, WorkerGet, WorkerClaim, WorkerClaimFails, WorkerClaimAnswerLost,
       WorkerDeleteJob, WorkerRun, WorkerUploadShot, WorkerShotFails,
       WorkerUploadResult, WorkerResultFails, WorkerCrash
<1>2. TypeOK /\ EvidenceInv /\ [Next]_vars =>
        [\A c \in Captures :
           Queued(c) =>
             /\ c \in results  => c \in results'
             /\ c \in shots    => c \in shots'
             /\ c \in proxylog => c \in proxylog']_vars
  BY <1>1
<1> QED
  BY <1>2, Typing, EvidenceInvAlways, PTL DEF Spec, EvidenceOutlivesQueue

-----------------------------------------------------------------------------
(* CaptureS3 implements CaptureLifecycle.                                  *)

\* The verdict that a row's state stands for.
Mapped == [c \in Captures |->
             IF row[c].status = "failed" /\ row[c].reason = "spool_unavailable"
             THEN "refused" ELSE row[c].status]

\* What the steps of CaptureLifecycle say of the rows and the runs.
LEMMA LifecycleSteps ==
  /\ \A c \in Captures :
       /\ Lifecycle!Queue(c) <=>
            /\ Mapped[c] = "none"
            /\ Mapped' = [Mapped EXCEPT ![c] = "queued"]
            /\ runs' = runs
       /\ Lifecycle!Start(c) <=>
            /\ Mapped[c] # "none" /\ runs[c] = 0
            /\ runs' = [runs EXCEPT ![c] = 1]
            /\ Mapped' = Mapped
       /\ Lifecycle!Complete(c) <=>
            /\ Mapped[c] = "queued" /\ runs[c] = 1
            /\ Mapped' = [Mapped EXCEPT ![c] = "done"]
            /\ runs' = runs
       /\ Lifecycle!Fail(c) <=>
            /\ Mapped[c] \in {"queued", "refused"}
            /\ Mapped' = [Mapped EXCEPT ![c] = "failed"]
            /\ runs' = runs
       /\ Lifecycle!Refuse(c) <=>
            /\ Mapped[c] \in {"queued", "done", "failed"}
            /\ Mapped' = [Mapped EXCEPT ![c] = "refused"]
            /\ runs' = runs
  /\ Lifecycle!FailSome <=>
       \E lost \in SUBSET {c \in Captures : Mapped[c] \in {"queued", "refused"}} :
         /\ Mapped' = [c \in Captures |-> IF c \in lost THEN "failed" ELSE Mapped[c]]
         /\ runs' = runs
  /\ UNCHANGED Lifecycle!lifecycleVars <=> Mapped' = Mapped /\ runs' = runs
  BY DEF Lifecycle!Queue, Lifecycle!Start, Lifecycle!Complete, Lifecycle!Fail,
     Lifecycle!Refuse, Lifecycle!FailSome, Lifecycle!Become,
     Lifecycle!lifecycleVars, Mapped

\* A step that changes one row changes one verdict.
LEMMA OneVerdict ==
  ASSUME TypeOK, TypeOK', NEW c \in Captures,
         \A d \in Captures \ {c} : row'[d] = row[d]
  PROVE  Mapped' = [Mapped EXCEPT ![c] = Mapped'[c]]
  BY DEF Mapped

\* Every step maps to a step of CaptureLifecycle or to a stutter.
LEMMA LifecycleStep ==
  ASSUME TypeOK, TypeOK', CommitInv, EvidenceInv, RunInv, [Next]_vars
  PROVE  [Lifecycle!LifecycleNext]_Lifecycle!lifecycleVars
<1> DEFINE Goal == [Lifecycle!LifecycleNext]_Lifecycle!lifecycleVars
<1>1. ASSUME row' = row, runs' = runs PROVE Goal
  BY <1>1, LifecycleSteps DEF Mapped
<1>2. ASSUME NEW r \in Requesters, RequestInsert(r) PROVE Goal
  <2>1. PICK c \in Captures :
           /\ row[c].status = "none"
           /\ row'[c] = NewRow(req[r].cand, r \in AutoRequesters, now)
           /\ \A d \in Captures \ {c} : row'[d] = row[d]
    BY <1>2, InsertedRow
  <2>2. Mapped[c] = "none" /\ Mapped'[c] = "queued" /\ runs' = runs
    BY <1>2, <2>1, UpdateOf DEF Mapped, RequestInsert, claimVars
  <2>3. Lifecycle!Queue(c)
    BY <2>1, <2>2, OneVerdict, LifecycleSteps
  <2> QED
    BY <2>3 DEF Lifecycle!LifecycleNext
<1>3. ASSUME NEW r \in Requesters, RequestFail(r) PROVE Goal
  <2>9. PICK c \in Captures : c = req[r].cid
    BY FieldTypes
  <2>1. /\ c \in Captures
        /\ row'[c] = Failed(row[c], "spool_unavailable", now)
        /\ \A d \in Captures \ {c} : row'[d] = row[d]
    BY <1>3, <2>9, RefusedRow
  <2>2. row'[c].status = "failed" /\ row'[c].reason = "spool_unavailable"
    BY <2>1, FieldTypes, UpdateOf
  <2>3. row[c].status \in {"queued", "done", "failed"}
    BY <1>3, <2>1, <2>9, FieldTypes DEF RequestFail, EvidenceInv, KnownRows, HeldRows,
       Holding, Row, Statuses
  <2>4. Mapped'[c] = "refused" /\ runs' = runs
    BY <1>3, <2>1, <2>2 DEF Mapped, RequestFail, claimVars
  <2>5. Mapped[c] \in {"queued", "done", "failed", "refused"}
    BY <2>1, <2>3 DEF Mapped
  <2>6. Mapped' = [Mapped EXCEPT ![c] = "refused"]
    BY <2>1, <2>4, OneVerdict
  <2>7. CASE Mapped[c] = "refused"
    <3>1. Mapped' = Mapped
      BY <2>1, <2>6, <2>7 DEF Mapped
    <3> QED
      BY <2>4, <3>1, LifecycleSteps
  <2>8. CASE Mapped[c] # "refused"
    <3>1. Lifecycle!Refuse(c)
      BY <2>1, <2>4, <2>5, <2>6, <2>8, LifecycleSteps
    <3> QED
      BY <2>1, <3>1 DEF Lifecycle!LifecycleNext
  <2> QED
    BY <2>7, <2>8
<1>4. ASSUME NEW w \in Workers, WorkerClaim(w) PROVE Goal
  <2> DEFINE c == worker[w].cid
  <2>1. c \in Captures /\ row' = row
    BY <1>4, FieldTypes DEF WorkerClaim
  <2>2. runs[c] = 0
    BY <1>4, <2>1 DEF WorkerClaim, ClaimAccepted, RunInv, ClaimSpent
  <2>3. runs' = [runs EXCEPT ![c] = 1]
    BY <1>4, <2>1, <2>2 DEF WorkerClaim, TypeOK
  <2>4. Mapped[c] # "none" /\ Mapped' = Mapped
    BY <1>4, <2>1 DEF WorkerClaim, EvidenceInv, KnownRows, Known, Mapped
  <2>5. Lifecycle!Start(c)
    BY <2>1, <2>2, <2>3, <2>4, LifecycleSteps
  <2> QED
    BY <2>1, <2>5 DEF Lifecycle!LifecycleNext
<1>5. ASSUME NEW c \in Captures, Queued(c) \/ SpoolFailed(c),
             row'[c].status = "failed", row'[c].reason # "spool_unavailable",
             \A d \in Captures \ {c} : row'[d] = row[d], runs' = runs
      PROVE  Goal
  <2>1. Mapped[c] \in {"queued", "refused"} /\ Mapped'[c] = "failed"
    BY <1>5 DEF Mapped, Queued, SpoolFailed
  <2>2. Lifecycle!Fail(c)
    BY <1>5, <2>1, OneVerdict, LifecycleSteps
  <2> QED
    BY <2>2 DEF Lifecycle!LifecycleNext
<1>6. CASE TickStep
  <2>1. runs' = runs
    BY <1>6 DEF TickStep, TickStart, IngestSkip, IngestDiscard, IngestInvalid,
       IngestUnmarked, IngestImage, SweepClean, IngestCommit, IngestError,
       IngestClean, IngestEnd, Sweep, SweepCommit, SweepFails, SweepEnd,
       SweepClaims, Prune, PruneRecord, claimVars
  <2>2. ASSUME NEW c \in Captures, IngestInvalid(c) PROVE Goal
    <3>1. Queued(c) /\ row' = [row EXCEPT ![c] = Failed(@, "invalid_result", tick.at)]
      BY <2>2 DEF IngestInvalid, Ingestible
    <3>2. row'[c].status = "failed" /\ row'[c].reason = "invalid_result"
      BY <3>1, FieldTypes, UpdateOf DEF TypeOK
    <3>3. \A d \in Captures \ {c} : row'[d] = row[d]
      BY <3>1 DEF TypeOK
    <3> QED
      BY <2>1, <3>1, <3>2, <3>3, <1>5
  <2>3. CASE IngestError
    <3>1. CASE row' = row
      BY <1>1, <2>1, <3>1
    <3>2. CASE Queued(tick.cid) /\ row' = [row EXCEPT ![tick.cid] = Failed(@, "ingest_error", tick.at)]
      <4>1. tick.cid \in Captures
        BY FieldTypes
      <4>2. row'[tick.cid].status = "failed" /\ row'[tick.cid].reason = "ingest_error"
        BY <3>2, <4>1, FieldTypes, UpdateOf DEF TypeOK
      <4>3. \A d \in Captures \ {tick.cid} : row'[d] = row[d]
        BY <3>2, <4>1 DEF TypeOK
      <4> QED
        BY <2>1, <3>2, <4>1, <4>2, <4>3, <1>5
    <3> QED
      BY <2>3, <3>1, <3>2 DEF IngestError
  <2>4. CASE IngestCommit
    <3>6. PICK c \in Captures : c = tick.cid
      BY FieldTypes
    <3>1. /\ c \in Captures /\ row' = [row EXCEPT ![c] = Verdict(c)]
          /\ tick.pc = "commit"
          /\ Verdict(c).status = "failed" <=> Verdict(c).reason # "none"
      BY <2>4, <3>6 DEF IngestCommit, FailureFollowsStatus
    <3>2. row'[c] = Verdict(c) /\ \A d \in Captures \ {c} : row'[d] = row[d]
      BY <3>1 DEF TypeOK
    <3>3. Queued(c) \/ SpoolFailed(c)
      BY <3>1, <3>6 DEF CommitInv
    <3>4. CASE Verdict(c).status = "failed" /\ Verdict(c).reason = "capture_error"
      BY <1>5, <2>1, <3>1, <3>2, <3>3, <3>4
    <3>5. CASE Verdict(c).status = "done" /\ Verdict(c).reason = row[c].reason
      <4>1. Queued(c)
        BY <3>1, <3>3, <3>5 DEF SpoolFailed
      <4>2. runs[c] = 1
        BY <3>1, <3>6 DEF EvidenceInv, RanFirst, RunInv, ClaimSpent
      <4>3. Mapped[c] = "queued" /\ Mapped'[c] = "done"
        BY <3>1, <3>2, <3>5, <4>1 DEF Mapped, Queued
      <4>4. Lifecycle!Complete(c)
        BY <2>1, <3>1, <3>2, <4>2, <4>3, OneVerdict, LifecycleSteps
      <4> QED
        BY <3>1, <4>4 DEF Lifecycle!LifecycleNext
    <3> QED
      BY <3>1, <3>4, <3>5, VerdictFields
  <2>5. CASE SweepCommit
    <3> DEFINE lost == tick.todo
    <3>1. \A c \in Captures :
            row'[c] = IF c \in lost THEN Failed(row[c], "timeout", tick.at) ELSE row[c]
      BY <2>5 DEF SweepCommit
    <3>2. \A c \in Captures : c \in lost =>
            row'[c].status = "failed" /\ row'[c].reason = "timeout"
      BY <3>1, FieldTypes, UpdateOf
    <3>3. Mapped' = [c \in Captures |-> IF c \in lost THEN "failed" ELSE Mapped[c]]
      BY <3>1, <3>2 DEF Mapped
    <3>4. lost \in SUBSET {c \in Captures : Mapped[c] \in {"queued", "refused"}}
      BY <2>5, FieldTypes DEF SweepCommit, CommitInv, Queued, SpoolFailed, Mapped
    <3>5. Lifecycle!FailSome
      BY <2>1, <3>3, <3>4, LifecycleSteps
    <3> QED
      BY <3>5 DEF Lifecycle!LifecycleNext
  <2>6. CASE PruneRecord
    <3>1. \A c \in Captures : row'[c] = row[c] \/ row'[c] = WithImage(row[c], FALSE)
      BY <2>6 DEF PruneRecord
    <3>2. \A rw \in Row : /\ WithImage(rw, FALSE).status = rw.status
                           /\ WithImage(rw, FALSE).reason = rw.reason
      BY DEF WithImage, Row
    <3>3. \A c \in Captures : row'[c].status = row[c].status /\ row'[c].reason = row[c].reason
      BY <3>1, <3>2, FieldTypes
    <3>4. Mapped' = Mapped
      BY <3>3 DEF Mapped
    <3> QED
      BY <2>1, <3>4, LifecycleSteps
  <2>7. ASSUME \/ TickStart \/ IngestClean \/ IngestEnd \/ Sweep \/ SweepFails
               \/ SweepEnd \/ SweepClaims \/ Prune
               \/ \E c \in Captures : \/ IngestSkip(c) \/ IngestDiscard(c)
                                      \/ IngestUnmarked(c) \/ IngestImage(c)
                                      \/ SweepClean(c)
        PROVE  row' = row
    BY <2>7 DEF TickStart, IngestClean, IngestEnd, Sweep, SweepFails, SweepEnd,
       SweepClaims, Prune, IngestSkip, IngestDiscard, IngestUnmarked, IngestImage,
       SweepClean
  <2> QED
    BY <1>1, <1>6, <2>1, <2>2, <2>3, <2>4, <2>5, <2>6, <2>7 DEF TickStep
<1>7. CASE ~TickStep /\ ~\E w \in Workers : WorkerClaim(w)
  <2>1. runs' = runs
    BY <1>7 DEF Next, Advance, SetQueueTimeout, ProxyFlush, BackendCrash, vars, claimVars,
       Request, RequestCheck, RequestRefused, RequestInsert, RequestConflict,
       RequestMint, RequestPut, RequestPutFails, RequestFail,
       Work, WorkerGet, WorkerClaimFails, WorkerClaimAnswerLost,
       WorkerDeleteJob, WorkerRun, WorkerUploadShot, WorkerShotFails,
       WorkerUploadResult, WorkerResultFails, WorkerCrash
  <2> QED
    BY <1>1, <1>2, <1>3, <1>7, <2>1, OtherRows
<1> QED
  BY <1>4, <1>6, <1>7

\* With a store clock that lags by at most half of CLAIM_SKEW_S, the object
\* store pipeline keeps the lifecycle: queued once, started at most once, done
\* only after a start, and a verdict that only the request's own refusal moves.
THEOREM LifecycleImplemented ==
  ASSUME SkewTolerated
  PROVE  Spec => ImplementsLifecycle
<1>1. Init => Lifecycle!LifecycleInit
  BY DEF Init, NoRow, Lifecycle!LifecycleInit
<1>2. TypeOK /\ TypeOK' /\ CommitInv /\ EvidenceInv /\ RunInv /\ [Next]_vars
        => [Lifecycle!LifecycleNext]_Lifecycle!lifecycleVars
  BY LifecycleStep
<1> QED
  BY <1>1, <1>2, Typing, Committing, EvidenceInvAlways, Running, PTL
  DEF Spec, ImplementsLifecycle, Lifecycle!LifecycleSpec

-----------------------------------------------------------------------------
(* The budget of the automatic sweep.                                      *)

\* The scheduler runs one instance of the sweep at a time.
OneSweep == \A r, s \in AutoRequesters : r = s
\* Between the check and the insert nothing automatic spends the budget.
Spending(c, a) == row[c].auto /\ InBudget(c, a)
BudgetInv ==
  \A r \in AutoRequesters : req[r].pc = "insert" =>
    \A c \in Captures : ~Spending(c, req[r].cand)

\* No step brings a row that spends nothing automatic back into the budget,
\* but for the insert of an automatic request.
LEMMA SpendingStep ==
  ASSUME TypeOK, TypeOK', CommitInv, [Next]_vars, NEW c \in Captures,
         NEW a \in Candidates, ~Spending(c, a),
         \A r \in AutoRequesters : ~RequestInsert(r)
  PROVE  ~(row'[c].auto /\ row'[c].status # "none"
           /\ DomainOf[row'[c].cand] = DomainOf[a]
           /\ \/ row'[c].status = "queued"
              \/ row'[c].status = "done" /\ row'[c].finished >= now' - RevisitWindow)
<1>1. now' >= now
  <2>1. now' = now \/ Advance
    BY DEF Next, SetQueueTimeout, ProxyFlush, BackendCrash, vars,
     Request, RequestCheck, RequestRefused, RequestInsert, RequestConflict,
     RequestMint, RequestPut, RequestPutFails, RequestFail,
     Work, WorkerGet, WorkerClaim, WorkerClaimFails, WorkerClaimAnswerLost,
     WorkerDeleteJob, WorkerRun, WorkerUploadShot, WorkerShotFails,
     WorkerUploadResult, WorkerResultFails, WorkerCrash, TickStep,
     TickStart, IngestSkip, IngestDiscard, IngestInvalid, IngestUnmarked,
     IngestImage, SweepClean, IngestCommit, IngestError, IngestClean,
     IngestEnd, Sweep, SweepCommit, SweepFails, SweepEnd, SweepClaims,
     Prune, PruneRecord
  <2> QED
    BY <2>1 DEF Advance, TypeOK
<1>2. now \in Int /\ now' \in Int /\ row[c].finished \in Int /\ RevisitWindow \in Int
  BY TimeAssumption DEF TypeOK, Row
<1>3. ASSUME row'[c].auto = row[c].auto, row'[c].cand = row[c].cand,
             row'[c].status = row[c].status, row'[c].finished = row[c].finished
      PROVE  ~(row'[c].auto /\ row'[c].status # "none"
               /\ DomainOf[row'[c].cand] = DomainOf[a]
               /\ \/ row'[c].status = "queued"
                  \/ row'[c].status = "done" /\ row'[c].finished >= now' - RevisitWindow)
  BY <1>1, <1>2, <1>3 DEF Spending, InBudget, Queued
<1>4. CASE TickStep
  <2>1. row'[c].auto = row[c].auto /\ row'[c].cand = row[c].cand
    BY <1>4, TickRest DEF RestMove
  <2>2. TickMove(c)
    BY <1>4, TickRows
  <2>3. CASE SameVerdict(c)
    BY <1>3, <2>1, <2>3 DEF SameVerdict
  <2>4. CASE Queued(c)
    BY <2>1, <2>4 DEF Spending, InBudget, Queued
  <2>5. CASE row'[c].status = "failed"
    BY <2>5
  <2> QED
    BY <2>2, <2>3, <2>4, <2>5 DEF TickMove
<1>5. ASSUME NEW r \in Requesters, RequestInsert(r)
      PROVE  \/ row'[c] = row[c]
             \/ ~row'[c].auto
  <2>1. PICK d \in Captures :
           /\ row'[d] = NewRow(req[r].cand, r \in AutoRequesters, now)
           /\ \A e \in Captures \ {d} : row'[e] = row[e]
    BY <1>5, InsertedRow
  <2>2. NewRow(req[r].cand, r \in AutoRequesters, now).auto = (r \in AutoRequesters)
    BY DEF NewRow
  <2> QED
    BY <1>5, <2>1, <2>2
<1>6. ASSUME NEW r \in Requesters, RequestFail(r)
      PROVE  \/ row'[c] = row[c]
             \/ row'[c].status = "failed"
  <2>1. row'[req[r].cid].status = "failed"
    BY <1>6, RefusedRow, FieldTypes, UpdateOf
  <2> QED
    BY <1>6, <2>1, RefusedRow
<1> QED
  BY <1>3, <1>4, <1>5, <1>6, OtherRows

\* The check is made before the archive lookup and the row is inserted after
\* it: in between nothing automatic comes to spend the budget.
LEMMA BudgetStep ==
  ASSUME OneSweep, TypeOK, TypeOK', CommitInv, BudgetInv, [Next]_vars
  PROVE  BudgetInv'
<1> SUFFICES ASSUME NEW r \in AutoRequesters, req'[r].pc = "insert",
                    NEW c \in Captures
             PROVE  ~(row'[c].auto /\ row'[c].status # "none"
                      /\ DomainOf[row'[c].cand] = DomainOf[req'[r].cand]
                      /\ \/ row'[c].status = "queued"
                         \/ row'[c].status = "done"
                            /\ row'[c].finished >= now' - RevisitWindow)
  BY DEF BudgetInv, Spending, InBudget, Queued
<1>1. r \in Requesters
  BY RequesterAssumption
<1>2. CASE RequestCheck(r)
  <2>1. PICK a \in Candidates :
           /\ \A d \in Captures : ~InBudget(d, a)
           /\ req' = [req EXCEPT ![r] = Asking("insert", a, AnyCapture)]
    BY <1>2 DEF RequestCheck, BudgetAllows
  <2>2. req'[r].cand = a /\ row' = row /\ now' = now
    BY <1>1, <1>2, <2>1 DEF RequestCheck, Asking, TypeOK
  <2> QED
    BY <2>1, <2>2 DEF InBudget, Queued
<1>3. CASE ~RequestCheck(r)
  <2>1. req[r].pc = "insert" /\ req'[r].cand = req[r].cand /\ ~RequestInsert(r)
    <3>1. CASE req'[r] = req[r]
      <4>1. ~RequestInsert(r)
        BY <1>1, <3>1, InsertedRow
      <4> QED
        BY <3>1, <4>1
    <3>2. ASSUME NEW s \in Requesters, Request(s), s # r PROVE req'[r] = req[r]
      BY <1>1, <3>2 DEF Request, RequestCheck, RequestRefused, RequestInsert,
         RequestConflict, RequestMint, RequestPut, RequestPutFails,
         RequestFail, TypeOK
    <3>3. ASSUME Request(r) PROVE FALSE
      <4>1. CASE RequestInsert(r)
        BY <1>1, <4>1, InsertedRow
      <4>2. CASE RequestMint(r) \/ RequestPutFails(r)
        BY <1>1, <4>2, Fields DEF RequestMint, RequestPutFails, TypeOK
      <4>3. CASE RequestRefused(r) \/ RequestConflict(r) \/ RequestPut(r) \/ RequestFail(r)
        <5>1. req' = [req EXCEPT ![r] = IdleRequester]
          BY <4>3 DEF RequestRefused, RequestConflict, RequestPut, RequestFail
        <5> QED
          BY <1>1, <5>1, Fields DEF TypeOK
      <4> QED
        BY <1>3, <3>3, <4>1, <4>2, <4>3 DEF Request
    <3>4. ASSUME BackendCrash PROVE FALSE
      BY <1>1, <3>4, Fields DEF BackendCrash
    <3>5. req' = req \/ BackendCrash \/ \E s \in Requesters : Request(s)
      BY DEF Next, Advance, SetQueueTimeout, ProxyFlush, vars,
         Work, WorkerGet, WorkerClaim, WorkerClaimFails, WorkerClaimAnswerLost,
         WorkerDeleteJob, WorkerRun, WorkerUploadShot, WorkerShotFails,
         WorkerUploadResult, WorkerResultFails, WorkerCrash, TickStep,
         TickStart, IngestSkip, IngestDiscard, IngestInvalid, IngestUnmarked,
         IngestImage, SweepClean, IngestCommit, IngestError, IngestClean,
         IngestEnd, Sweep, SweepCommit, SweepFails, SweepEnd, SweepClaims,
         Prune, PruneRecord
    <3> QED
      BY <3>1, <3>2, <3>3, <3>4, <3>5
  <2>2. PICK a \in Candidates : a = req[r].cand
    BY <1>1, FieldTypes
  <2>3. ~Spending(c, a)
    BY <2>1, <2>2 DEF BudgetInv
  <2>4. \A s \in AutoRequesters : ~RequestInsert(s)
    BY <2>1 DEF OneSweep
  <2> QED
    BY <2>1, <2>2, <2>3, <2>4, SpendingStep
<1> QED
  BY <1>2, <1>3

\* With one automatic sweep, as the scheduler runs it, the sweep never queues a
\* domain that another automatic capture has queued or has finished within the
\* budget, whatever people request meanwhile.
THEOREM BudgetKept ==
  ASSUME OneSweep
  PROVE  Spec => AutoBudget
<1>1. Init => BudgetInv
  BY Fields, RequesterAssumption DEF Init, BudgetInv
<1>2. TypeOK /\ TypeOK' /\ CommitInv /\ BudgetInv /\ [Next]_vars => BudgetInv'
  BY BudgetStep
<1>3. ASSUME TypeOK, TypeOK', CommitInv, BudgetInv, [Next]_vars, NEW d \in Captures,
             row[d].status = "none", Queued(d)', row'[d].auto
      PROVE  ~\E c \in Captures :
                row[c].auto /\ row[c].reason = "none" /\ InBudget(c, row'[d].cand)
  <2>1. ~TickStep
    BY <1>3, TickRows DEF TickMove, SameVerdict, Queued, SpoolFailed
  <2>2. ASSUME NEW r \in Requesters, RequestFail(r) PROVE FALSE
    <3>1. row'[req[r].cid].status = "failed"
      BY <1>3, <2>2, RefusedRow, FieldTypes, UpdateOf
    <3> QED
      BY <1>3, <2>2, <3>1, RefusedRow DEF Queued
  <2>3. PICK r \in Requesters : RequestInsert(r)
    BY <1>3, <2>1, <2>2, OtherRows DEF Queued
  <2>4. row'[d] = NewRow(req[r].cand, r \in AutoRequesters, now)
    BY <1>3, <2>3, InsertedRow DEF Queued
  <2>5. row'[d].cand = req[r].cand /\ r \in AutoRequesters
    <3>1. NewRow(req[r].cand, r \in AutoRequesters, now).auto = (r \in AutoRequesters)
      BY DEF NewRow
    <3>2. row'[d].cand = req[r].cand
      BY <2>4, UpdateOf
    <3> QED
      BY <1>3, <2>4, <3>1, <3>2
  <2>6. req[r].pc = "insert"
    BY <2>3 DEF RequestInsert
  <2> QED
    BY <1>3, <2>5, <2>6 DEF BudgetInv, Spending
<1>4. TypeOK /\ TypeOK' /\ CommitInv /\ BudgetInv /\ [Next]_vars =>
        [\A d \in Captures :
           row[d].status = "none" /\ Queued(d)' /\ row'[d].auto =>
             ~\E c \in Captures :
                row[c].auto /\ row[c].reason = "none" /\ InBudget(c, row'[d].cand)]_vars
  BY <1>3
<1> QED
  BY <1>1, <1>2, <1>4, Typing, Committing, PTL DEF Spec, AutoBudget

-----------------------------------------------------------------------------
(* A row that points at an image has its file, for finitely many captures: *)
(* Cardinality says nothing of an infinite set.                            *)

Dated ==
  /\ tick.at <= now
  /\ \A c \in Captures : row[c].finished <= now
\* Only a committed verdict points at an image.
BareRows ==
  /\ \A c \in Captures : ~Known(c) \/ Queued(c) => ~row[c].image
  /\ tick.pc = "commit" => ~row[tick.cid].image
  /\ tick.pc = "timeout" => \A c \in tick.todo : ~row[c].image
ImageInHand == tick.pc = "commit" /\ tick.image => tick.cid \in images
\* What a prune pass leaves behind: the files of the rows it records are gone,
\* and a row that had lost its file before stays behind KeepCount rows whatever
\* the record takes away.
Lost(c) ==
  row[c].image /\ c \notin images /\ row[c].reason # "spool_unavailable"
Unlinked == tick.pc = "record" => tick.todo \cap images = {}
Outranked ==
  tick.pc = "record" =>
    \A c \in Captures \ tick.todo :
      Lost(c) => Cardinality(Newer(c) \ tick.todo) >= KeepCount

ImageInv ==
  Dated /\ BareRows /\ ImageInHand /\ Unlinked /\ Outranked /\ ImagePresent

FinitelyMany == IsFiniteSet(Captures)

\* What ranks before a row is a finite set, transitively closed and without
\* the row itself.
LEMMA NewerOrder ==
  ASSUME TypeOK, FinitelyMany
  PROVE  /\ \A c \in Captures : /\ Newer(c) \subseteq Captures
                                /\ IsFiniteSet(Newer(c))
                                /\ Cardinality(Newer(c)) \in Nat
                                /\ c \notin Newer(c)
         /\ \A c, d \in Captures : d \in Newer(c) => Newer(d) \subseteq Newer(c)
<1>1. \A c \in Captures : row[c].finished \in Int /\ c \in Int
  BY CapturesAssumption DEF TypeOK, Row
<1>2. ASSUME NEW c \in Captures
      PROVE  /\ Newer(c) \subseteq Captures /\ IsFiniteSet(Newer(c))
             /\ Cardinality(Newer(c)) \in Nat /\ c \notin Newer(c)
  <2>1. Newer(c) \subseteq Captures
    BY DEF Newer
  <2>2. IsFiniteSet(Newer(c))
    BY <2>1, FS_Subset DEF FinitelyMany
  <2>3. Cardinality(Newer(c)) \in Nat
    BY <2>2, FS_CardinalityType
  <2>4. c \notin Newer(c)
    BY <1>1 DEF Newer
  <2> QED
    BY <2>1, <2>2, <2>3, <2>4
<1>3. ASSUME NEW c \in Captures, NEW d \in Captures, d \in Newer(c)
      PROVE  Newer(d) \subseteq Newer(c)
  <2> SUFFICES ASSUME NEW e \in Newer(d) PROVE e \in Newer(c)
    OBVIOUS
  <2>1. /\ e \in Captures /\ row[e].image
        /\ DomainOf[row[e].cand] = DomainOf[row[c].cand]
    BY <1>3 DEF Newer
  <2>2. \/ row[e].finished > row[d].finished
        \/ row[e].finished = row[d].finished /\ e > d
    BY DEF Newer
  <2>3. \/ row[d].finished > row[c].finished
        \/ row[d].finished = row[c].finished /\ d > c
    BY <1>3 DEF Newer
  <2>4. \/ row[e].finished > row[c].finished
        \/ row[e].finished = row[c].finished /\ e > c
    BY <1>1, <2>1, <2>2, <2>3
  <2> QED
    BY <2>1, <2>4 DEF Newer
<1> QED
  BY <1>2, <1>3

\* A superset ranks no fewer.
LEMMA AtLeast ==
  ASSUME NEW S, NEW T, IsFiniteSet(T), S \subseteq T, Cardinality(S) >= KeepCount
  PROVE  Cardinality(T) >= KeepCount
<1>1. /\ Cardinality(S) \in Nat /\ Cardinality(T) \in Nat
      /\ Cardinality(S) <= Cardinality(T)
  BY FS_Subset, FS_CardinalityType
<1> QED
  BY <1>1, BoundAssumption

\* Whatever part of the surplus is taken away, each of its rows still has
\* KeepCount rows before it: the first row of the surplus that ranks no later
\* than it has only kept rows before it.
LEMMA Ranked ==
  ASSUME TypeOK, FinitelyMany, NEW c \in Surplus, NEW gone \in SUBSET Surplus
  PROVE  Cardinality(Newer(c) \ gone) >= KeepCount
<1> DEFINE D == {d \in Surplus : d = c \/ d \in Newer(c)}
           T == {Newer(d) : d \in D}
           R == StrictSubsetOrdering(Captures)
<1>1. Surplus \subseteq Captures /\ c \in Captures
  BY DEF Surplus
<1>2. T # {} /\ T \subseteq FiniteSubsetsOf(Captures)
  <2>1. c \in D
    OBVIOUS
  <2>2. \A d \in D : Newer(d) \in FiniteSubsetsOf(Captures)
    BY <1>1, NewerOrder DEF FiniteSubsetsOf
  <2> QED
    BY <2>1, <2>2
<1>3. IsWellFoundedOn(R, FiniteSubsetsOf(Captures))
  BY FS_StrictSubsetOrderingWellFounded
<1>4. \E x \in T : \A y \in T : ~(<<y, x>> \in R)
  <2> HIDE DEF T, R
  <2> QED
    BY <1>2, <1>3, WFMin
<1>5. PICK d \in D : \A e \in D : ~(<<Newer(e), Newer(d)>> \in R)
  BY <1>4
<1>6. d \in Captures /\ Newer(d) \subseteq Newer(c)
  BY <1>1, NewerOrder
<1>7. ASSUME NEW e \in Newer(d), e \in Surplus PROVE FALSE
  <2>1. e \in D /\ e \in Captures
    BY <1>1, <1>6, <1>7
  <2>2. Newer(e) \subseteq Newer(d) /\ Newer(e) # Newer(d)
    BY <1>6, <1>7, <2>1, NewerOrder
  <2>3. <<Newer(e), Newer(d)>> \in R
    BY <1>6, <2>1, <2>2, NewerOrder DEF StrictSubsetOrdering
  <2> QED
    BY <1>5, <2>1, <2>3
<1>8. Newer(d) \subseteq Newer(c) \ gone
  BY <1>6, <1>7
<1>9. Cardinality(Newer(d)) >= KeepCount
  BY DEF Surplus
<1>10. IsFiniteSet(Newer(c) \ gone)
  BY <1>1, NewerOrder, FS_Subset
<1> QED
  BY <1>8, <1>9, <1>10, AtLeast

\* Rows that keep their images and are dated no earlier go on ranking before a
\* row that is not re-dated.
LEMMA RankKept ==
  ASSUME TypeOK, TypeOK', NEW c \in Captures, NEW X,
         row'[c].finished = row[c].finished, row'[c].cand = row[c].cand,
         \A d \in Captures \ X : row[d].image =>
            /\ row'[d].image /\ row'[d].cand = row[d].cand
            /\ row'[d].finished >= row[d].finished
  PROVE  Newer(c) \ X \subseteq Newer(c)'
<1>1. \A d \in Captures : /\ row[d].finished \in Int
                          /\ row'[d].finished \in Int /\ d \in Int
  BY CapturesAssumption DEF TypeOK, Row
<1> SUFFICES ASSUME NEW d \in Newer(c), d \notin X PROVE d \in Newer(c)'
  OBVIOUS
<1>2. /\ d \in Captures /\ row[d].image
      /\ DomainOf[row[d].cand] = DomainOf[row[c].cand]
      /\ \/ row[d].finished > row[c].finished
         \/ row[d].finished = row[c].finished /\ d > c
  BY DEF Newer
<1>3. /\ row'[d].image /\ row'[d].cand = row[d].cand
      /\ row'[d].finished >= row[d].finished
  BY <1>2
<1>4. \/ row'[d].finished > row'[c].finished
      \/ row'[d].finished = row'[c].finished /\ d > c
  BY <1>1, <1>2, <1>3
<1> QED
  BY <1>2, <1>3, <1>4 DEF Newer

\* What only a request moves: no pass is disturbed, and no row falls back.
LEMMA RequestImages ==
  ASSUME TypeOK, TypeOK', FinitelyMany, ImageInv,
         tick' = tick, images' = images,
         \A c \in Captures :
            /\ row'[c].image = row[c].image
            /\ row[c].image =>
                 /\ row'[c].cand = row[c].cand
                 /\ row'[c].finished >= row[c].finished
                 /\ \/ row'[c].reason = "spool_unavailable"
                    \/ /\ row'[c].finished = row[c].finished
                       /\ row'[c].reason = row[c].reason
  PROVE  Outranked' /\ ImagePresent'
<1>1. ASSUME NEW X, NEW c \in Captures, row'[c].image,
             row'[c].reason # "spool_unavailable"
      PROVE  Newer(c) \ X \subseteq Newer(c)' \ X
  <2>1. row'[c].finished = row[c].finished /\ row'[c].cand = row[c].cand
    BY <1>1
  <2> QED
    BY <2>1, RankKept
<1>2. ASSUME NEW c \in Captures PROVE IsFiniteSet(Newer(c)') /\ \A X : IsFiniteSet(Newer(c)' \ X)
  <2>1. Newer(c)' \subseteq Captures
    BY DEF Newer
  <2> QED
    BY <2>1, FS_Subset DEF FinitelyMany
<1>3. Outranked'
  <2> SUFFICES ASSUME tick.pc = "record", NEW c \in Captures \ tick.todo,
                      row'[c].image, c \notin images,
                      row'[c].reason # "spool_unavailable"
               PROVE  Cardinality(Newer(c)' \ tick.todo) >= KeepCount
    BY DEF Outranked, Lost
  <2>1. Lost(c)
    BY DEF Lost
  <2>2. Cardinality(Newer(c) \ tick.todo) >= KeepCount
    BY <2>1 DEF ImageInv, Outranked
  <2> QED
    BY <1>1, <1>2, <2>2, AtLeast
<1>4. ImagePresent'
  <2> SUFFICES ASSUME NEW c \in Captures, row'[c].image, c \notin images,
                      row'[c].reason # "spool_unavailable"
               PROVE  c \in Surplus'
    BY DEF ImagePresent
  <2>1. c \in Surplus
    BY DEF ImageInv, ImagePresent
  <2>2. Cardinality(Newer(c) \ {}) >= KeepCount
    BY <2>1 DEF Surplus
  <2>3. Cardinality(Newer(c)' \ {}) >= KeepCount
    BY <1>1, <1>2, <2>2, AtLeast
  <2> QED
    BY <2>3 DEF Surplus
<1> QED
  BY <1>3, <1>4

\* A step of the tick that leaves every image row as it is, and its file if it
\* has one, and that adds image rows only with their files.
LEMMA TickImages ==
  ASSUME TypeOK, TypeOK', FinitelyMany, ImageInv,
         \A c \in Captures :
            /\ row[c].image =>
                 /\ row'[c] = row[c]
                 /\ c \in images => c \in images'
            /\ row'[c].image /\ ~row[c].image => c \in images'
  PROVE  ImagePresent'
<1> SUFFICES ASSUME NEW c \in Captures, row'[c].image, c \notin images',
                    row'[c].reason # "spool_unavailable"
             PROVE  c \in Surplus'
  BY DEF ImagePresent
<1>1. row'[c] = row[c] /\ c \in Surplus
  BY DEF ImageInv, ImagePresent
<1>2. Newer(c) \ {} \subseteq Newer(c)'
  <2>1. \A d \in Captures \ {} : row[d].image =>
            /\ row'[d].image /\ row'[d].cand = row[d].cand
            /\ row'[d].finished >= row[d].finished
    BY DEF TypeOK, Row
  <2> QED
    BY <1>1, <2>1, RankKept
<1>3. IsFiniteSet(Newer(c)')
  <2>1. Newer(c)' \subseteq Captures
    BY DEF Newer
  <2> QED
    BY <2>1, FS_Subset DEF FinitelyMany
<1>4. Cardinality(Newer(c)) >= KeepCount
  BY <1>1 DEF Surplus
<1> QED
  BY <1>2, <1>3, <1>4, AtLeast DEF Surplus

\* A prune pass unlinks only surplus, and a row outside what it unlinked that
\* has lost its file was surplus before.
LEMMA PruneImages ==
  ASSUME TypeOK, TypeOK', FinitelyMany, ImageInv, Prune
  PROVE  Unlinked' /\ Outranked' /\ ImagePresent'
<1>1. PICK gone \in SUBSET Surplus :
         images' = images \ gone /\ tick' = Pass("record", 0, gone)
  BY DEF Prune
<1>2. tick'.pc = "record" /\ tick'.todo = gone /\ row' = row
  BY <1>1, PassFields DEF Prune
<1>3. Unlinked'
  BY <1>1, <1>2 DEF Unlinked
<1>4. ImagePresent'
  BY <1>1, <1>2 DEF ImageInv, ImagePresent, Surplus, Newer
<1>5. Outranked'
  <2> SUFFICES ASSUME NEW c \in Captures \ gone, row[c].image, c \notin images',
                      row[c].reason # "spool_unavailable"
               PROVE  Cardinality(Newer(c) \ gone) >= KeepCount
    BY <1>2 DEF Outranked, Lost, Newer
  <2>1. c \in Surplus
    BY <1>1 DEF ImageInv, ImagePresent
  <2> QED
    BY <2>1, Ranked
<1> QED
  BY <1>3, <1>4, <1>5

\* What a prune pass takes away is behind every row that stays.
LEMMA RecordImages ==
  ASSUME TypeOK, TypeOK', FinitelyMany, ImageInv, PruneRecord
  PROVE  ImagePresent'
<1>1. CASE row' = row
  BY <1>1 DEF PruneRecord, ImageInv, ImagePresent, Surplus, Newer
<1>2. CASE row' = [c \in Captures |->
                     IF c \in tick.todo THEN WithImage(row[c], FALSE) ELSE row[c]]
  <2>1. \A c \in Captures : c \in tick.todo => ~row'[c].image
    <3>1. \A rw \in Row : WithImage(rw, FALSE).image = FALSE
      BY DEF WithImage, Row
    <3> QED
      BY <1>2, <3>1, FieldTypes
  <2>2. \A c \in Captures \ tick.todo : row'[c] = row[c]
    BY <1>2
  <2> SUFFICES ASSUME NEW c \in Captures, row'[c].image, c \notin images',
                      row'[c].reason # "spool_unavailable"
               PROVE  c \in Surplus'
    BY DEF ImagePresent
  <2>3. c \notin tick.todo /\ row'[c] = row[c] /\ images' = images
    BY <2>1, <2>2 DEF PruneRecord
  <2>4. Cardinality(Newer(c) \ tick.todo) >= KeepCount
    BY <2>3 DEF ImageInv, Outranked, Lost, PruneRecord
  <2>5. Newer(c) \ tick.todo \subseteq Newer(c)'
    <3>1. \A d \in Captures \ tick.todo : row[d].image =>
              /\ row'[d].image /\ row'[d].cand = row[d].cand
              /\ row'[d].finished >= row[d].finished
      BY <2>2 DEF TypeOK, Row
    <3> QED
      BY <2>3, <3>1, RankKept
  <2>6. IsFiniteSet(Newer(c)')
    <3>1. Newer(c)' \subseteq Captures
      BY DEF Newer
    <3> QED
      BY <3>1, FS_Subset DEF FinitelyMany
  <2> QED
    BY <2>3, <2>4, <2>5, <2>6, AtLeast DEF Surplus
<1> QED
  BY <1>1, <1>2 DEF PruneRecord

\* No row and no pass is dated later than now.
LEMMA DatedStep ==
  ASSUME TypeOK, TypeOK', Dated, [Next]_vars
  PROVE  Dated'
<1>1. now \in Int /\ now' \in Int /\ now >= 0 /\ tick.at \in Int
  BY FieldTypes DEF TypeOK
<1>2. now' = now \/ Advance
  BY DEF Next, SetQueueTimeout, ProxyFlush, BackendCrash, vars,
     Request, RequestCheck, RequestRefused, RequestInsert, RequestConflict,
     RequestMint, RequestPut, RequestPutFails, RequestFail,
     Work, WorkerGet, WorkerClaim, WorkerClaimFails, WorkerClaimAnswerLost,
     WorkerDeleteJob, WorkerRun, WorkerUploadShot, WorkerShotFails,
     WorkerUploadResult, WorkerResultFails, WorkerCrash, TickStep,
     TickStart, IngestSkip, IngestDiscard, IngestInvalid, IngestUnmarked,
     IngestImage, SweepClean, IngestCommit, IngestError, IngestClean,
     IngestEnd, Sweep, SweepCommit, SweepFails, SweepEnd, SweepClaims,
     Prune, PruneRecord
<1>3. now' >= now
  BY <1>1, <1>2 DEF Advance
<1>4. tick'.at \in {tick.at, now, 0}
  <2>1. tick' = tick \/ TickStep \/ BackendCrash
    BY DEF Next, Advance, SetQueueTimeout, ProxyFlush, vars,
       Request, RequestCheck, RequestRefused, RequestInsert, RequestConflict,
       RequestMint, RequestPut, RequestPutFails, RequestFail,
       Work, WorkerGet, WorkerClaim, WorkerClaimFails, WorkerClaimAnswerLost,
       WorkerDeleteJob, WorkerRun, WorkerUploadShot, WorkerShotFails,
       WorkerUploadResult, WorkerResultFails, WorkerCrash
  <2>2. ASSUME NEW c \in Captures, IngestImage(c) PROVE tick'.at = tick.at
    <3>1. \E b \in BOOLEAN : tick' = InHand("commit", tick.at, tick.todo, c, b)
      BY <2>2 DEF IngestImage
    <3> QED
      BY <3>1, PassFields
  <2>3. ASSUME IngestCommit \/ \E c \in Captures : IngestDiscard(c) \/ IngestInvalid(c)
        PROVE  tick'.at = tick.at
    BY <2>3 DEF IngestCommit, IngestDiscard, IngestInvalid, InHand
  <2>4. ASSUME NEW c \in Captures, IngestSkip(c) \/ IngestUnmarked(c) \/ SweepClean(c)
        PROVE  tick'.at \in {tick.at, now, 0}
    BY <2>4, PassFields DEF IngestSkip, IngestUnmarked, SweepClean
  <2>5. ASSUME \/ TickStart \/ IngestError \/ IngestClean \/ IngestEnd \/ Sweep
               \/ SweepFails \/ SweepEnd \/ SweepClaims \/ SweepCommit
        PROVE  tick'.at \in {tick.at, now, 0}
    BY <2>5 DEF TickStart, IngestError, IngestClean, IngestEnd, Sweep,
       SweepFails, SweepEnd, SweepClaims, SweepCommit, Pass, InHand
  <2>6. ASSUME Prune PROVE tick'.at = 0
    <3>1. \E gone : tick' = Pass("record", 0, gone)
      BY <2>6 DEF Prune
    <3> QED
      BY <3>1 DEF Pass, InHand
  <2> QED
    BY <2>1, <2>2, <2>3, <2>4, <2>5, <2>6, IdleAfter DEF TickStep
<1>5. \A c \in Captures : row'[c].finished \in {row[c].finished, tick.at, now, 0}
  <2>1. CASE TickStep
    BY <2>1, TickRest DEF RestMove
  <2>2. CASE row' = row
    BY <2>2
  <2>3. ASSUME NEW r \in Requesters, RequestInsert(r), NEW c \in Captures
        PROVE  row'[c].finished \in {row[c].finished, 0}
    <3>1. PICK d \in Captures :
             /\ row'[d] = NewRow(req[r].cand, r \in AutoRequesters, now)
             /\ \A e \in Captures \ {d} : row'[e] = row[e]
      BY <2>3, InsertedRow
    <3>2. row'[d].finished = 0
      BY <3>1 DEF NewRow
    <3> QED
      BY <3>1, <3>2
  <2>4. ASSUME NEW r \in Requesters, RequestFail(r), NEW c \in Captures
        PROVE  row'[c].finished \in {row[c].finished, now}
    <3>1. row'[req[r].cid].finished = now
      BY <2>4, RefusedRow, FieldTypes, RestOf
    <3> QED
      BY <2>4, <3>1, RefusedRow
  <2> QED
    BY <2>1, <2>2, <2>3, <2>4, OtherRows
<1>6. \A c \in Captures : row[c].finished \in Int
  BY DEF TypeOK, Row
<1> QED
  BY <1>1, <1>3, <1>4, <1>5, <1>6 DEF Dated

\* The passes that a step leaves alone, and those it does not begin.
LEMMA PassesKept ==
  ASSUME TypeOK, TypeOK', ImageInv,
         \/ tick'.pc \notin {"commit", "timeout", "record"}
         \/ tick' = tick /\ images' = images,
         \A c \in Captures : row'[c].image => row[c].image
  PROVE  /\ tick'.pc = "commit" => ~row'[tick'.cid].image
         /\ tick'.pc = "timeout" => \A c \in tick'.todo : ~row'[c].image
         /\ ImageInHand' /\ Unlinked'
<1>1. tick.cid \in Captures /\ tick.todo \subseteq Captures
  BY FieldTypes
<1> QED
  BY <1>1 DEF ImageInv, BareRows, ImageInHand, Unlinked

\* Rows and images after a step of the requests.
LEMMA RequestImageStep ==
  ASSUME TypeOK, TypeOK', FinitelyMany, ImageInv, KnownRows, [Next]_vars,
         Dated', NEW r \in Requesters, RequestInsert(r) \/ RequestFail(r)
  PROVE  ImageInv'
<1>1. tick' = tick /\ images' = images
  BY DEF RequestInsert, RequestFail
<1>2. ASSUME NEW c \in Captures
      PROVE  /\ row'[c].image = row[c].image
             /\ row[c].image =>
                  /\ row'[c].cand = row[c].cand
                  /\ row'[c].finished >= row[c].finished
                  /\ \/ row'[c].reason = "spool_unavailable"
                     \/ /\ row'[c].finished = row[c].finished
                        /\ row'[c].reason = row[c].reason
             /\ ~Known(c)' \/ Queued(c)' => ~row'[c].image
  <2>1. CASE row'[c] = row[c]
    BY <2>1 DEF TypeOK, Row, ImageInv, BareRows, Known, Queued
  <2>2. CASE RequestInsert(r) /\ row'[c] # row[c]
    <3>1. /\ row[c].status = "none"
          /\ row'[c] = NewRow(req[r].cand, r \in AutoRequesters, now)
      BY <2>2, InsertedRow
    <3>2. row'[c].image = FALSE
      BY <3>1 DEF NewRow
    <3>3. row[c].image = FALSE
      BY <3>1 DEF ImageInv, BareRows, Known, TypeOK, Row
    <3> QED
      BY <3>2, <3>3
  <2>3. CASE RequestFail(r) /\ row'[c] # row[c]
    <3>1. /\ c = req[r].cid /\ row[c] \in Row /\ now \in Int
          /\ row'[c] = Failed(row[c], "spool_unavailable", now)
      BY <2>3, RefusedRow, FieldTypes
    <3>2. /\ row'[c].image = row[c].image /\ row'[c].cand = row[c].cand
          /\ row'[c].finished = now /\ row'[c].reason = "spool_unavailable"
          /\ row'[c].status = "failed"
      BY <3>1, RestOf, UpdateOf
    <3>3. row[c].finished <= now
      BY DEF ImageInv, Dated
    <3> QED
      BY <3>1, <3>2, <3>3 DEF Known, Queued, Row
  <2> QED
    BY <2>1, <2>2, <2>3
<1>3. Outranked' /\ ImagePresent'
  BY <1>1, <1>2, RequestImages
<1>4. BareRows' /\ ImageInHand' /\ Unlinked'
  BY <1>1, <1>2, PassesKept DEF BareRows
<1> QED
  BY <1>3, <1>4 DEF ImageInv

\* The image row and its file after a step of the tick that leaves rows alone.
LEMMA SameRows ==
  ASSUME TypeOK, TypeOK', FinitelyMany, ImageInv, Dated', row' = row,
         \A c \in Captures : row[c].image /\ c \in images => c \in images',
         \/ tick'.pc \notin {"commit", "timeout", "record"}
         \/ tick' = tick /\ images' = images
  PROVE  ImageInv'
<1>1. ImagePresent'
  BY TickImages
<1>2. BareRows' /\ ImageInHand' /\ Unlinked'
  BY PassesKept DEF ImageInv, BareRows, Known, Queued
<1>3. Outranked'
  BY DEF ImageInv, Outranked, Lost, Newer
<1> QED
  BY <1>1, <1>2, <1>3 DEF ImageInv

\* A verdict on a row without an image.
LEMMA VerdictStep ==
  ASSUME TypeOK, TypeOK', FinitelyMany, ImageInv, Dated',
         tick'.pc \notin {"commit", "timeout", "record"},
         \A c \in Captures :
            /\ row[c].image => row'[c] = row[c] /\ (c \in images => c \in images')
            /\ row'[c] # row[c] => row'[c].status \in Terminal
            /\ row'[c].image /\ ~row[c].image => c \in images'
  PROVE  ImageInv'
<1>1. ImagePresent'
  BY TickImages
<1>2. BareRows' /\ ImageInHand' /\ Unlinked' /\ Outranked'
  BY DEF ImageInv, BareRows, Known, Queued, ImageInHand, Unlinked, Outranked, Terminal
<1> QED
  BY <1>1, <1>2 DEF ImageInv

\* The tick's steps.
LEMMA TickImageStep ==
  ASSUME TypeOK, TypeOK', FinitelyMany, ImageInv, CommitInv, TickStep, Dated'
  PROVE  ImageInv'
<1>1. ASSUME NEW c \in Captures, IngestImage(c) PROVE ImageInv'
  <2>1. PICK kept \in BOOLEAN :
           /\ images' = IF kept THEN images \union {c} ELSE images
           /\ tick' = InHand("commit", tick.at, tick.todo, c, kept)
    BY <1>1 DEF IngestImage
  <2>2. tick'.pc = "commit" /\ tick'.cid = c /\ tick'.image = kept /\ row' = row
    BY <1>1, <2>1, PassFields DEF IngestImage
  <2>3. ~row[c].image
    BY <1>1 DEF IngestImage, Ingestible, ImageInv, BareRows
  <2>4. ImagePresent'
    BY <2>1, <2>2, TickImages
  <2>5. BareRows' /\ ImageInHand' /\ Unlinked' /\ Outranked'
    BY <2>1, <2>2, <2>3 DEF ImageInv, BareRows, Known, Queued, ImageInHand, Unlinked, Outranked
  <2> QED
    BY <2>4, <2>5 DEF ImageInv
<1>2. ASSUME NEW c \in Captures, IngestInvalid(c) PROVE ImageInv'
  <2>1. /\ row' = [row EXCEPT ![c] = Failed(@, "invalid_result", tick.at)]
        /\ tick'.pc = "clean"
    BY <1>2 DEF IngestInvalid, InHand
  <2>2. ~row[c].image
    BY <1>2 DEF IngestInvalid, Ingestible, ImageInv, BareRows
  <2>3. \A d \in Captures : d # c => row'[d] = row[d] /\ (d \in images => d \in images')
    BY <1>2, <2>1 DEF IngestInvalid, DeleteImageQuiet, TypeOK
  <2>4. row'[c].status = "failed" /\ row'[c].image = row[c].image
    BY <2>1, FieldTypes, UpdateOf, RestOf DEF TypeOK
  <2> QED
    BY <2>1, <2>2, <2>3, <2>4, VerdictStep DEF Terminal
<1>3. CASE IngestError
  <2>1. tick.cid \in Captures /\ tick'.pc = "ingest"
    BY <1>3, FieldTypes DEF IngestError, Pass, InHand
  <2>2. ~row[tick.cid].image
    BY <1>3 DEF IngestError, ImageInv, BareRows
  <2>3. \A d \in Captures : d # tick.cid => (d \in images => d \in images')
    BY <1>3 DEF IngestError, DeleteImageQuiet
  <2>4. CASE row' = row
    BY <2>1, <2>2, <2>3, <2>4, SameRows
  <2>5. CASE row' = [row EXCEPT ![tick.cid] = Failed(@, "ingest_error", tick.at)]
    <3>1. \A d \in Captures : d # tick.cid => row'[d] = row[d]
      BY <2>5 DEF TypeOK
    <3>2. row'[tick.cid].status = "failed" /\ row'[tick.cid].image = row[tick.cid].image
      BY <2>1, <2>5, FieldTypes, UpdateOf, RestOf DEF TypeOK
    <3> QED
      BY <2>1, <2>2, <2>3, <3>1, <3>2, VerdictStep DEF Terminal
  <2> QED
    BY <1>3, <2>4, <2>5 DEF IngestError
<1>4. CASE IngestCommit
  <2>1. /\ tick.cid \in Captures /\ tick'.pc = "clean" /\ images' = images
        /\ tick.pc = "commit"
        /\ row' = [row EXCEPT ![tick.cid] = Verdict(tick.cid)]
    BY <1>4, FieldTypes DEF IngestCommit, InHand
  <2>2. ~row[tick.cid].image
    BY <2>1 DEF ImageInv, BareRows
  <2>3. \A d \in Captures : d # tick.cid => row'[d] = row[d]
    BY <2>1 DEF TypeOK
  <2>4. row'[tick.cid] = Verdict(tick.cid)
    BY <2>1 DEF TypeOK
  <2>5. row'[tick.cid].status \in Terminal
    BY <2>1, <2>4, VerdictFields DEF Terminal
  <2>6. row'[tick.cid].image => tick.cid \in images'
    BY <2>1, <2>4, VerdictFields DEF ImageInv, ImageInHand
  <2> QED
    BY <2>1, <2>2, <2>3, <2>5, <2>6, VerdictStep
<1>5. CASE SweepCommit
  <2>1. /\ tick.pc = "timeout" /\ tick'.pc = "sweepclean" /\ images' = images
        /\ \A c \in Captures :
             row'[c] = IF c \in tick.todo THEN Failed(row[c], "timeout", tick.at)
                       ELSE row[c]
    BY <1>5 DEF SweepCommit, Pass, InHand
  <2>2. \A c \in tick.todo : ~row[c].image
    BY <2>1 DEF ImageInv, BareRows
  <2>3. \A c \in Captures : c \in tick.todo =>
          row'[c].status = "failed" /\ row'[c].image = row[c].image
    BY <2>1, FieldTypes, UpdateOf, RestOf
  <2> QED
    BY <2>1, <2>2, <2>3, VerdictStep DEF Terminal
<1>6. CASE Sweep
  <2>1. tick' = Pass("timeout", now, {c \in Captures : Overdue(c)})
    BY <1>6 DEF Sweep
  <2>2. /\ tick'.pc = "timeout" /\ tick'.todo = {c \in Captures : Overdue(c)}
        /\ row' = row /\ images' = images
    BY <1>6, <2>1 DEF Sweep, Pass, InHand
  <2>3. \A c \in tick'.todo : ~row[c].image
    BY <2>2 DEF Overdue, ImageInv, BareRows
  <2>4. ImagePresent'
    BY <2>2, TickImages
  <2>5. BareRows' /\ ImageInHand' /\ Unlinked' /\ Outranked'
    BY <2>2, <2>3 DEF ImageInv, BareRows, Known, Queued, ImageInHand, Unlinked, Outranked
  <2> QED
    BY <2>4, <2>5 DEF ImageInv
<1>7. CASE Prune
  <2>1. Unlinked' /\ Outranked' /\ ImagePresent' /\ row' = row /\ tick'.pc = "record"
    BY <1>7, PruneImages, IdleAfter DEF Prune
  <2>2. BareRows' /\ ImageInHand'
    BY <2>1 DEF ImageInv, BareRows, Known, Queued, ImageInHand
  <2> QED
    BY <2>1, <2>2 DEF ImageInv
<1>8. CASE PruneRecord
  <2>1. ImagePresent' /\ tick'.pc = "idle"
    BY <1>8, RecordImages, IdleAfter
  <2>2. \A c \in Captures :
           /\ row'[c].status = row[c].status
           /\ row'[c].image => row[c].image
    <3>1. \A c \in Captures : row'[c] = row[c] \/ row'[c] = WithImage(row[c], FALSE)
      BY <1>8 DEF PruneRecord
    <3>2. \A rw \in Row : /\ WithImage(rw, FALSE).status = rw.status
                           /\ WithImage(rw, FALSE).image = FALSE
      BY DEF WithImage, Row
    <3> QED
      BY <3>1, <3>2, FieldTypes
  <2>3. BareRows' /\ ImageInHand' /\ Unlinked' /\ Outranked'
    BY <2>1, <2>2 DEF ImageInv, BareRows, Known, Queued, ImageInHand, Unlinked, Outranked
  <2> QED
    BY <2>1, <2>3 DEF ImageInv
<1>9. ASSUME \/ TickStart \/ IngestClean \/ IngestEnd
             \/ SweepFails \/ SweepEnd \/ SweepClaims
             \/ \E c \in Captures : IngestSkip(c) \/ IngestDiscard(c) \/ SweepClean(c)
      PROVE  ImageInv'
  <2>1. row' = row /\ images' = images
    BY <1>9 DEF TickStart, IngestClean, IngestEnd, SweepFails, SweepEnd,
       SweepClaims, IngestSkip, IngestDiscard, SweepClean
  <2>2. tick'.pc \notin {"commit", "timeout", "record"}
    BY <1>9 DEF TickStart, IngestClean, IngestEnd, SweepFails, SweepEnd,
       SweepClaims, IngestSkip, IngestDiscard, SweepClean, Pass, InHand
  <2> QED
    BY <2>1, <2>2, SameRows
<1>10. ASSUME NEW c \in Captures, IngestUnmarked(c) PROVE ImageInv'
  <2>1. row' = row /\ images' = images \ {c} /\ tick'.pc = "ingest"
    BY <1>10 DEF IngestUnmarked, Pass, InHand
  <2>2. ~row[c].image
    BY <1>10 DEF IngestUnmarked, Ingestible, ImageInv, BareRows
  <2> QED
    BY <2>1, <2>2, SameRows
<1> QED
  BY <1>1, <1>2, <1>3, <1>4, <1>5, <1>6, <1>7, <1>8, <1>9, <1>10 DEF TickStep

\* Images and rows agree after every step.
LEMMA ImageStep ==
  ASSUME TypeOK, TypeOK', FinitelyMany, CommitInv, KnownRows, ImageInv, [Next]_vars
  PROVE  ImageInv'
<1>1. Dated'
  BY DatedStep DEF ImageInv
<1>2. CASE TickStep
  BY <1>1, <1>2, TickImageStep
<1>3. ASSUME NEW r \in Requesters, RequestInsert(r) \/ RequestFail(r) PROVE ImageInv'
  BY <1>1, <1>3, RequestImageStep
<1>4. CASE row' = row /\ ~TickStep
  <2>1. images' = images /\ (tick' = tick \/ BackendCrash)
    BY <1>4 DEF Next, Advance, SetQueueTimeout, ProxyFlush, BackendCrash, vars,
       Request, RequestCheck, RequestRefused, RequestInsert, RequestConflict,
       RequestMint, RequestPut, RequestPutFails, RequestFail,
       Work, WorkerGet, WorkerClaim, WorkerClaimFails, WorkerClaimAnswerLost,
       WorkerDeleteJob, WorkerRun, WorkerUploadShot, WorkerShotFails,
       WorkerUploadResult, WorkerResultFails, WorkerCrash
  <2>2. tick' = tick \/ tick'.pc = "idle"
    BY <2>1, IdleAfter
  <2> QED
    BY <1>1, <1>4, <2>1, <2>2, SameRows
<1> QED
  BY <1>2, <1>3, <1>4, OtherRows

\* The invariant of the images.
THEOREM ImageInvAlways ==
  ASSUME FinitelyMany
  PROVE  Spec => []ImageInv
<1>1. Init => ImageInv
  <2> SUFFICES ASSUME Init PROVE ImageInv
    OBVIOUS
  <2>1. tick.pc = "idle" /\ tick.at = 0 /\ now = 0
    BY PassFields DEF Init
  <2>2. \A c \in Captures : row[c].image = FALSE /\ row[c].finished = 0
    BY DEF Init, NoRow
  <2> QED
    BY <2>1, <2>2 DEF ImageInv, Dated, BareRows, ImageInHand, Unlinked, Outranked, ImagePresent
<1>2. TypeOK /\ TypeOK' /\ CommitInv /\ EvidenceInv /\ ImageInv /\ [Next]_vars => ImageInv'
  BY ImageStep DEF EvidenceInv
<1> QED
  BY <1>1, <1>2, Typing, Committing, EvidenceInvAlways, PTL DEF Spec

\* A row that points at an image has its file, or the next prune pass picks it
\* up again, or its request has re-dated it: whatever was pruned, lost or
\* interrupted before.
THEOREM ImagesArePresent ==
  ASSUME FinitelyMany
  PROVE  Spec => []ImagePresent
<1>1. ImageInv => ImagePresent
  BY DEF ImageInv
<1> QED
  BY <1>1, ImageInvAlways, PTL

\* A row lets go of its image only once the file is gone.
THEOREM NothingLeaks ==
  ASSUME FinitelyMany
  PROVE  Spec => PruneLeaksNothing
<1>1. ASSUME TypeOK, CommitInv, EvidenceInv, ImageInv, [Next]_vars, NEW c \in Captures,
             row[c].image, ~row'[c].image
      PROVE  c \notin images
  <2>1. CASE TickStep
    <3>1. ImageMove(c)
      BY <1>1, <2>1, TickRest DEF RestMove
    <3>2. CASE IngestCommit /\ c = tick.cid
      BY <1>1, <3>2 DEF ImageInv, BareRows, IngestCommit
    <3>3. CASE PruneRecord /\ c \in tick.todo
      BY <1>1, <3>3 DEF ImageInv, Unlinked, PruneRecord
    <3> QED
      BY <1>1, <3>1, <3>2, <3>3 DEF ImageMove
  <2>2. CASE row' = row
    BY <1>1, <2>2
  <2>3. ASSUME NEW r \in Requesters, RequestInsert(r) PROVE FALSE
    <3>1. PICK d \in Captures :
             row[d].status = "none" /\ \A e \in Captures \ {d} : row'[e] = row[e]
      BY <1>1, <2>3, InsertedRow
    <3>2. d # c
      BY <1>1, <3>1 DEF ImageInv, BareRows, Known
    <3> QED
      BY <1>1, <3>1, <3>2
  <2>4. ASSUME NEW r \in Requesters, RequestFail(r) PROVE FALSE
    <3>1. row'[req[r].cid].image = row[req[r].cid].image
      BY <1>1, <2>4, RefusedRow, FieldTypes, RestOf
    <3> QED
      BY <1>1, <2>4, <3>1, RefusedRow
  <2> QED
    BY <1>1, <2>1, <2>2, <2>3, <2>4, OtherRows
<1>2. TypeOK /\ CommitInv /\ EvidenceInv /\ ImageInv /\ [Next]_vars =>
        [\A c \in Captures : row[c].image /\ ~row'[c].image => c \notin images]_vars
  BY <1>1
<1> QED
  BY <1>2, Typing, Committing, EvidenceInvAlways, ImageInvAlways, PTL
  DEF Spec, PruneLeaksNothing
=============================================================================
