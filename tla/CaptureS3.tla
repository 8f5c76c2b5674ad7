----------------------------- MODULE CaptureS3 -----------------------------
(***************************************************************************)
(* Page capture over an object store: a request queues a page_captures row *)
(* and a job object; any number of workers poll the jobs, claim one with a *)
(* conditional PUT of claims/<id>, run the capture and upload the          *)
(* screenshot and then result.json through presigned URLs; the backend's   *)
(* scheduler tick ingests results, times rows out, removes old claim       *)
(* markers and prunes images.  Source: page_capture.py, capture_store_s3.py*)
(* (backend), worker.py, store_s3.py (capture-browser).                    *)
(*                                                                         *)
(* Every database commit and every object-store request that another       *)
(* actor can observe is a step of its own.  Two clocks: the backend's      *)
(* (now) and the store's (now + StoreSkew).  The store's clock stamps      *)
(* LastModified and judges whether a presigned URL has expired.            *)
(***************************************************************************)
EXTENDS Integers, FiniteSets

CONSTANTS
  Captures,        \* capture ids (uuidv7: ordered by creation), 1..n
  Candidates,      \* scope candidates
  DomainOf,        \* the domain each candidate names
  Requesters,      \* threads that may be inside request_capture
  AutoRequesters,  \* those of them that are the automatic weekly sweep
  Workers,         \* capture-browser workers
  QTimeouts,       \* the values the queue-timeout setting may take
  QTimeoutMax,     \* QUEUE_TIMEOUT_MAX
  RunMargin,       \* CREDENTIAL_RUN_MARGIN_S
  ClaimSkew,       \* CLAIM_SKEW_S
  StoreSkew,       \* store clock minus backend clock
  ResultMinAge,    \* RESULT_MIN_AGE_S
  RevisitWindow,   \* the revisit budget
  KeepCount,       \* image_keep_count
  Bodies,          \* what a result.json may say: "page", "error", "invalid"
  LogModes,        \* where the proxy may log a capture: "buffer", "stdout"
  RequestHorizon,  \* bound: no row or credential is made after this time
  MaxClock,        \* bound: the clock stops here
  MaxFaults        \* bound: failed calls, lost answers and crashes

ASSUME CapturesAssumption == Captures \subseteq Nat /\ Captures # {}
ASSUME CandidatesAssumption == Candidates # {}
ASSUME DomainAssumption == Candidates \subseteq DOMAIN DomainOf
ASSUME RequesterAssumption == AutoRequesters \subseteq Requesters
ASSUME TimeAssumption ==
  /\ QTimeoutMax \in Nat
  /\ QTimeouts \subseteq 1..QTimeoutMax
  /\ RunMargin \in Nat
  /\ ClaimSkew \in Nat
  /\ StoreSkew \in Int
  /\ ResultMinAge \in Nat
  /\ RevisitWindow \in Nat
  /\ RequestHorizon \in Nat
  /\ MaxClock \in Nat
ASSUME ModeAssumption ==
  /\ Bodies \subseteq {"page", "error", "invalid"}
  /\ LogModes \subseteq {"buffer", "stdout"}
ASSUME BoundAssumption == KeepCount \in Nat /\ MaxFaults \in Nat

\* CLAIM_MARKER_MAX_AGE_S
MarkerMaxAge == QTimeoutMax + RunMargin + ClaimSkew

VARIABLES
  now,       \* the backend's clock
  qtimeout,  \* the queue-timeout setting
  row,       \* page_captures
  jobs,      \* ids with an object jobs/<id>.json
  exp,       \* the expiry a job's credential and presigned URLs carry
  claims,    \* ids with an object claims/<id>
  markedAt,  \* its LastModified
  results,   \* ids with an object results/<id>/result.json
  result,    \* its LastModified and content
  shots,     \* ids with an object results/<id>/screenshot.webp
  proxylog,  \* ids with an object proxylog/<id>.jsonl
  unflushed, \* ids whose proxy log is buffered in the proxy, not yet PUT
  images,    \* ids with an object images/<id>.webp
  req,       \* what each requester is doing
  tick,      \* what the scheduler tick is doing
  worker,    \* what each worker is doing
  runs,      \* history: captures started, per id
  faults     \* history: faults so far

settingVars == <<qtimeout>>
jobVars == <<jobs, exp>>
claimVars == <<claims, markedAt, runs>>
resultVars == <<results, result, shots>>
logVars == <<proxylog, unflushed>>
vars == <<now, qtimeout, row, jobs, exp, claims, markedAt, results, result,
          shots, proxylog, unflushed, images, req, tick, worker, runs, faults>>

StoreNow == now + StoreSkew

Statuses == {"none", "queued", "done", "failed"}
Reasons == {"none", "timeout", "spool_unavailable", "invalid_result",
            "capture_error", "ingest_error"}
Terminal == {"done", "failed"}

Row == [status: Statuses, reason: Reasons, cand: Candidates, auto: BOOLEAN,
        requested: Int, finished: Int, image: BOOLEAN]
Result == [at: Int, body: Bodies \union {"none"}, shot: BOOLEAN]
Requester == [pc: {"idle", "insert", "mint", "put", "fail"},
              cand: Candidates, cid: Captures]
TickPoints == {"idle", "ingest", "commit", "clean", "sweep", "timeout",
               "sweepclean", "claims", "prune", "record"}
Tick == [pc: TickPoints, at: Int, todo: SUBSET Captures, cid: Captures,
         image: BOOLEAN]
Worker == [pc: {"poll", "claim", "won", "run", "shot", "result"},
           cid: Captures, body: Bodies \union {"none"}, shot: BOOLEAN]

TypeOK ==
  /\ now \in Nat
  /\ qtimeout \in QTimeouts
  /\ row \in [Captures -> Row]
  /\ jobs \subseteq Captures
  /\ exp \in [Captures -> Int]
  /\ claims \subseteq Captures
  /\ markedAt \in [Captures -> Int]
  /\ results \subseteq Captures
  /\ result \in [Captures -> Result]
  /\ shots \subseteq Captures
  /\ proxylog \subseteq Captures
  /\ unflushed \subseteq Captures
  /\ images \subseteq Captures
  /\ req \in [Requesters -> Requester]
  /\ tick \in Tick
  /\ worker \in [Workers -> Worker]
  /\ runs \in [Captures -> Nat]
  /\ faults \in 0..MaxFaults

AnyCapture == CHOOSE c \in Captures : TRUE
AnyCandidate == CHOOSE a \in Candidates : TRUE

NoRow == [status |-> "none", reason |-> "none", cand |-> AnyCandidate,
          auto |-> FALSE, requested |-> 0, finished |-> 0, image |-> FALSE]

\* what a requester is doing, for which candidate and with which new id
Asking(pc, a, c) == [pc |-> pc, cand |-> a, cid |-> c]
IdleRequester == Asking("idle", AnyCandidate, AnyCapture)

\* what the tick is doing: the ingest pass and the timeout sweep go by the time
\* they started (at), work off a list (todo) and have at most one capture in hand
InHand(pc, at, todo, c, image) ==
  [pc |-> pc, at |-> at, todo |-> todo, cid |-> c, image |-> image]
Pass(pc, at, todo) == InHand(pc, at, todo, AnyCapture, FALSE)
IdleTick == Pass("idle", 0, {})

\* what a worker is doing, with which job, and what it will report
Working(pc, c, body, shot) ==
  [pc |-> pc, cid |-> c, body |-> body, shot |-> shot]
IdleWorker == Working("poll", AnyCapture, "none", FALSE)

\* what result.json holds: when it was stored, what it says, whether it
\* claims a screenshot
Report(at, body, shot) == [at |-> at, body |-> body, shot |-> shot]
NoResult == Report(0, "none", FALSE)

Init ==
  /\ now = 0
  /\ qtimeout \in QTimeouts
  /\ row = [c \in Captures |-> NoRow]
  /\ jobs = {}
  /\ exp = [c \in Captures |-> 0]
  /\ claims = {}
  /\ markedAt = [c \in Captures |-> 0]
  /\ results = {}
  /\ result = [c \in Captures |-> NoResult]
  /\ shots = {}
  /\ proxylog = {}
  /\ unflushed = {}
  /\ images = {}
  /\ req = [r \in Requesters |-> IdleRequester]
  /\ tick = IdleTick
  /\ worker = [w \in Workers |-> IdleWorker]
  /\ runs = [c \in Captures |-> 0]
  /\ faults = 0

-----------------------------------------------------------------------------
(* Faults: a call that raises, an answer that is lost, a crash.            *)

Fault == faults < MaxFaults /\ faults' = faults + 1
NoFault == faults' = faults
FaultIf(bad) == IF bad THEN Fault ELSE NoFault

(* Time, the queue-timeout setting. *)

Advance ==
  /\ now < MaxClock
  /\ now' = now + 1
  /\ UNCHANGED <<settingVars, row, jobVars, claimVars, resultVars, logVars,
                 images, req, tick, worker, faults>>

SetQueueTimeout ==
  /\ qtimeout' \in QTimeouts \ {qtimeout}
  /\ UNCHANGED <<now, row, jobVars, claimVars, resultVars, logVars, images,
                 req, tick, worker, faults>>

-----------------------------------------------------------------------------
(* request_capture                                                         *)

Queued(c) == row[c].status = "queued"
QueuedFor(a) == {c \in Captures : Queued(c) /\ row[c].cand = a}

\* _fail
\* broken variant: a status outside ck_page_captures_status
FailedOffEnum(rw, why, at) ==
  [rw EXCEPT !.status = why, !.reason = why, !.finished = at]
Failed(rw, why, at) ==
  [rw EXCEPT !.status = "failed", !.reason = why, !.finished = at]

Done(rw, at) == [rw EXCEPT !.status = "done", !.finished = at]
\* image_path set or NULL
WithImage(rw, there) == [rw EXCEPT !.image = there]

\* revisit_budget_clause: the rows that spend a domain's budget
InBudget(c, a) ==
  /\ row[c].status # "none"
  /\ DomainOf[row[c].cand] = DomainOf[a]
  /\ \/ Queued(c)
     \/ row[c].status = "done" /\ row[c].finished >= now - RevisitWindow

\* only an automatic request is held to the budget
\* broken variant: a queued capture spends nothing
BudgetOfDoneOnly(r, a) ==
  r \in AutoRequesters =>
    \A c \in Captures : InBudget(c, a) => row[c].status # "done"
BudgetAllows(r, a) ==
  r \in AutoRequesters => \A c \in Captures : ~InBudget(c, a)

\* uq_page_captures_one_queued_per_candidate lets a queued row in
IndexAllows(a) == QueuedFor(a) = {}

\* Every refusal that needs no write: the requester goes on only when none
\* applies. The archive lookup, an outbound fetch, follows this check.
RequestCheck(r) ==
  /\ req[r].pc = "idle"
  /\ now <= RequestHorizon
  /\ \E a \in Candidates :
       /\ QueuedFor(a) = {}
       /\ BudgetAllows(r, a)
       /\ req' = [req EXCEPT ![r] = Asking("insert", a, AnyCapture)]
  /\ UNCHANGED <<now, settingVars, row, jobVars, claimVars, resultVars,
                 logVars, images, tick, worker, faults>>

\* archive:lookup_unavailable, a failed commit
RequestRefused(r) ==
  /\ req[r].pc = "insert"
  /\ Fault
  /\ req' = [req EXCEPT ![r] = IdleRequester]
  /\ UNCHANGED <<now, settingVars, row, jobVars, claimVars, resultVars,
                 logVars, images, tick, worker>>

\* uuidv7: the next unused id
Fresh(c) ==
  /\ row[c].status = "none"
  /\ \A d \in Captures : d < c => row[d].status # "none"

NewRow(a, auto, at) ==
  [status |-> "queued", reason |-> "none", cand |-> a, auto |-> auto,
   requested |-> at, finished |-> 0, image |-> FALSE]

\* db.add(row); db.commit()
RequestInsert(r) ==
  /\ req[r].pc = "insert"
  /\ now <= RequestHorizon
  /\ IndexAllows(req[r].cand)
  /\ \E c \in Captures :
       /\ Fresh(c)
       /\ row' = [row EXCEPT ![c] =
                    NewRow(req[r].cand, r \in AutoRequesters, now)]
       /\ req' = [req EXCEPT ![r] = Asking("mint", @.cand, c)]
  /\ NoFault
  /\ UNCHANGED <<now, settingVars, jobVars, claimVars, resultVars, logVars,
                 images, tick, worker>>

\* IntegrityError: another request queued this candidate first
RequestConflict(r) ==
  /\ req[r].pc = "insert"
  /\ ~IndexAllows(req[r].cand)
  /\ req' = [req EXCEPT ![r] = IdleRequester]
  /\ UNCHANGED <<now, settingVars, row, jobVars, claimVars, resultVars,
                 logVars, images, tick, worker, faults>>

\* exp = int(time.time()) + ...
RequestMint(r) ==
  /\ req[r].pc = "mint" /\ now <= RequestHorizon
  /\ exp' = [exp EXCEPT ![req[r].cid] = now + qtimeout + RunMargin]
  /\ req' = [req EXCEPT ![r] = Asking("put", @.cand, @.cid)]
  /\ UNCHANGED <<now, settingVars, row, jobs, claimVars, resultVars, logVars,
                 images, tick, worker, faults>>

\* job_fields: the URLs are signed to expire at exp, and not before one second
\* from now: a request that stalled past exp still signs URLs that work
SignUrls(c) == exp' = [exp EXCEPT ![c] = IF @ > now THEN @ ELSE now + 1]

\* job_fields and put_job
RequestPut(r) ==
  /\ req[r].pc = "put" /\ now <= RequestHorizon
  /\ SignUrls(req[r].cid)
  /\ jobs' = jobs \union {req[r].cid}
  /\ req' = [req EXCEPT ![r] = IdleRequester]
  /\ UNCHANGED <<now, settingVars, row, claimVars, resultVars, logVars,
                 images, tick, worker, faults>>

\* check_spool, job_fields or put_job raised OSError; a put whose answer was
\* lost has stored the job all the same
RequestPutFails(r) ==
  /\ req[r].pc = "put" /\ now <= RequestHorizon
  /\ Fault
  /\ SignUrls(req[r].cid)
  /\ jobs' \in {jobs, jobs \union {req[r].cid}}
  /\ req' = [req EXCEPT ![r] = Asking("fail", @.cand, @.cid)]
  /\ UNCHANGED <<now, settingVars, row, claimVars, resultVars, logVars,
                 images, tick, worker>>

\* the except branch: the row is failed whatever it has become meanwhile
RequestFail(r) ==
  /\ req[r].pc = "fail"
  /\ row' = [row EXCEPT ![req[r].cid] = Failed(@, "spool_unavailable", now)]
  /\ req' = [req EXCEPT ![r] = IdleRequester]
  /\ UNCHANGED <<now, settingVars, jobVars, claimVars, resultVars, logVars,
                 images, tick, worker, faults>>

Request(r) ==
  \/ RequestCheck(r) \/ RequestRefused(r) \/ RequestInsert(r)
  \/ RequestConflict(r) \/ RequestMint(r) \/ RequestPut(r)
  \/ RequestPutFails(r) \/ RequestFail(r)

-----------------------------------------------------------------------------
(* The worker: claim_next_s3, process_s3, _upload_result.                  *)

\* jobs.list_ids, jobs.get: from here the worker holds its own copy
WorkerGet(w) ==
  /\ worker[w].pc = "poll"
  /\ \E c \in jobs :
       worker' = [worker EXCEPT ![w] = Working("claim", c, "none", FALSE)]
  /\ UNCHANGED <<now, settingVars, row, jobVars, claimVars, resultVars,
                 logVars, images, req, tick, faults>>

\* The store takes a PUT through a presigned URL until the URL expires ...
UrlLive(c) == StoreNow <= exp[c]
\* ... and the claim's signed precondition refuses every PUT but the first.
\* broken variant: the precondition is not signed
ClaimUnconditional(c) == UrlLive(c)
ClaimAccepted(c) == UrlLive(c) /\ c \notin claims

PutClaim(c) ==
  /\ claims' = claims \union {c}
  /\ markedAt' = [markedAt EXCEPT ![c] = StoreNow]

WorkerClaim(w) ==
  /\ worker[w].pc = "claim"
  /\ ClaimAccepted(worker[w].cid)
  /\ PutClaim(worker[w].cid)
  /\ runs' = [runs EXCEPT ![worker[w].cid] = @ + 1]
  /\ worker' = [worker EXCEPT ![w] = Working("won", @.cid, "none", FALSE)]
  /\ UNCHANGED <<now, settingVars, row, jobVars, resultVars, logVars, images,
                 req, tick, faults>>

\* 412, 403 or a network error
WorkerClaimFails(w) ==
  /\ worker[w].pc = "claim"
  /\ FaultIf(ClaimAccepted(worker[w].cid))
  /\ worker' = [worker EXCEPT ![w] = IdleWorker]
  /\ UNCHANGED <<now, settingVars, row, jobVars, claimVars, resultVars,
                 logVars, images, req, tick>>

\* the marker is written but the answer is lost: nobody runs the job
WorkerClaimAnswerLost(w) ==
  /\ worker[w].pc = "claim"
  /\ ClaimAccepted(worker[w].cid)
  /\ PutClaim(worker[w].cid)
  /\ Fault
  /\ worker' = [worker EXCEPT ![w] = IdleWorker]
  /\ UNCHANGED <<now, settingVars, row, jobVars, resultVars, logVars, images,
                 req, tick, runs>>

\* jobs.delete, its result ignored
WorkerDeleteJob(w) ==
  /\ worker[w].pc = "won"
  /\ \/ jobs' = jobs \ {worker[w].cid} /\ NoFault
     \/ jobs' = jobs /\ Fault
  /\ worker' = [worker EXCEPT ![w] = Working("run", @.cid, "none", FALSE)]
  /\ UNCHANGED <<now, settingVars, row, exp, claimVars, resultVars, logVars,
                 images, req, tick>>

\* validate_job and _run_capture. An invalid job and a capture that raised
\* both give a result that carries an error and no image. The proxy records
\* what the browser asked for, to stdout only while its buffers are full.
WorkerRun(w) ==
  /\ worker[w].pc = "run"
  /\ \E b \in Bodies, s \in BOOLEAN :
       /\ b = "error" => ~s
       /\ worker' = [worker EXCEPT ![w] =
                       Working(IF s THEN "shot" ELSE "result", @.cid, b, s)]
  /\ \E mode \in LogModes :
       unflushed' = IF mode = "buffer" THEN unflushed \union {worker[w].cid}
                                       ELSE unflushed
  /\ UNCHANGED <<now, settingVars, row, jobVars, claimVars, resultVars,
                 proxylog, images, req, tick, faults>>

\* the screenshot goes first
WorkerUploadShot(w) ==
  /\ worker[w].pc = "shot"
  /\ UrlLive(worker[w].cid)
  /\ shots' = shots \union {worker[w].cid}
  /\ worker' = [worker EXCEPT ![w] = Working("result", @.cid, @.body, TRUE)]
  /\ UNCHANGED <<now, settingVars, row, jobVars, claimVars, results, result,
                 logVars, images, req, tick, faults>>

\* UploadError: the result says upload_failed. The object may be there.
WorkerShotFails(w) ==
  /\ worker[w].pc = "shot"
  /\ FaultIf(UrlLive(worker[w].cid))
  /\ \/ shots' = shots
     \/ UrlLive(worker[w].cid) /\ shots' = shots \union {worker[w].cid}
  /\ worker' = [worker EXCEPT ![w] = Working("result", @.cid, @.body, FALSE)]
  /\ UNCHANGED <<now, settingVars, row, jobVars, claimVars, results, result,
                 logVars, images, req, tick>>

\* result.json last: the commit marker. The process exits.
WorkerUploadResult(w) ==
  /\ worker[w].pc = "result"
  /\ UrlLive(worker[w].cid)
  /\ results' = results \union {worker[w].cid}
  /\ result' = [result EXCEPT ![worker[w].cid] =
                   Report(StoreNow, worker[w].body, worker[w].shot)]
  /\ worker' = [worker EXCEPT ![w] = IdleWorker]
  /\ UNCHANGED <<now, settingVars, row, jobVars, claimVars, shots, logVars,
                 images, req, tick, faults>>

\* nothing more is tried: the row times out
WorkerResultFails(w) ==
  /\ worker[w].pc = "result"
  /\ FaultIf(UrlLive(worker[w].cid))
  /\ worker' = [worker EXCEPT ![w] = IdleWorker]
  /\ UNCHANGED <<now, settingVars, row, jobVars, claimVars, resultVars,
                 logVars, images, req, tick>>

\* the supervisor starts the next worker on empty scratch
WorkerCrash(w) ==
  /\ worker[w].pc # "poll"
  /\ Fault
  /\ worker' = [worker EXCEPT ![w] = IdleWorker]
  /\ UNCHANGED <<now, settingVars, row, jobVars, claimVars, resultVars,
                 logVars, images, req, tick>>

Work(w) ==
  \/ WorkerGet(w) \/ WorkerClaim(w) \/ WorkerClaimFails(w)
  \/ WorkerClaimAnswerLost(w) \/ WorkerDeleteJob(w) \/ WorkerRun(w)
  \/ WorkerUploadShot(w) \/ WorkerShotFails(w) \/ WorkerUploadResult(w)
  \/ WorkerResultFails(w) \/ WorkerCrash(w)

(* The proxy's log sink: one PUT of the whole buffer, some time later. *)

ProxyFlush(c) ==
  /\ c \in unflushed
  /\ proxylog' = proxylog \union {c}
  /\ unflushed' = unflushed \ {c}
  /\ UNCHANGED <<now, settingVars, row, jobVars, claimVars, resultVars,
                 images, req, tick, worker, faults>>

-----------------------------------------------------------------------------
(* tick: ingest_results, sweep_timeouts, sweep_claims, prune_images        *)

\* list_results, at the time the whole ingest pass then goes by; or the spool
\* check failed and the ingest is skipped
TickStart ==
  /\ tick.pc = "idle"
  /\ \/ /\ tick' = Pass("ingest", now, results)
        /\ NoFault
     \/ tick' = Pass("sweep", 0, {}) /\ Fault
  /\ UNCHANGED <<now, settingVars, row, jobVars, claimVars, resultVars,
                 logVars, images, req, worker>>

\* result_info is None, or the result is too young
IngestSkip(c) ==
  /\ tick.pc = "ingest" /\ c \in tick.todo
  /\ FaultIf(c \in results /\ tick.at - result[c].at >= ResultMinAge)
  /\ tick' = Pass("ingest", tick.at, tick.todo \ {c})
  /\ UNCHANGED <<now, settingVars, row, jobVars, claimVars, resultVars,
                 logVars, images, req, worker>>

Ingesting(c) ==
  /\ tick.pc = "ingest" /\ c \in tick.todo
  /\ c \in results /\ tick.at - result[c].at >= ResultMinAge

\* the status check: only a queued row takes a result in
\* broken variant: no status check
IngestibleAnyStatus(c) == Ingesting(c)
Ingestible(c) == Ingesting(c) /\ Queued(c)

\* a result whose row is not queued is discarded
\* broken variant: the discard removes the image as well
IngestDiscardImageToo(c) ==
  /\ Ingesting(c) /\ ~Queued(c)
  /\ tick' = InHand("clean", tick.at, tick.todo, c, FALSE)
  /\ images' = images \ {c}
  /\ UNCHANGED <<now, settingVars, row, jobVars, claimVars, resultVars,
                 logVars, req, worker, faults>>
\* broken variant: the discard leaves the result
IngestDiscardKept(c) ==
  /\ Ingesting(c) /\ ~Queued(c)
  /\ tick' = Pass("ingest", tick.at, tick.todo \ {c})
  /\ UNCHANGED <<now, settingVars, row, jobVars, claimVars, resultVars,
                 logVars, images, req, worker, faults>>
IngestDiscard(c) ==
  /\ Ingesting(c) /\ ~Queued(c)
  /\ tick' = InHand("clean", tick.at, tick.todo, c, FALSE)
  /\ UNCHANGED <<now, settingVars, row, jobVars, claimVars, resultVars,
                 logVars, images, req, worker, faults>>

\* delete_image_quiet
DeleteImageQuiet(c) ==
  \/ images' = images \ {c} /\ NoFault
  \/ images' = images /\ Fault

\* _Invalid: malformed, or its listing failed. _mark_failed, then the cleanup
IngestInvalid(c) ==
  /\ Ingestible(c)
  /\ \/ result[c].body = "invalid" /\ DeleteImageQuiet(c)
     \/ result[c].body # "invalid" /\ Fault /\ images' = images \ {c}
  /\ row' = [row EXCEPT ![c] = Failed(@, "invalid_result", tick.at)]
  /\ tick' = InHand("clean", tick.at, tick.todo, c, FALSE)
  /\ UNCHANGED <<now, settingVars, jobVars, claimVars, resultVars, logVars,
                 req, worker>>

\* the same, but _mark_failed failed too: the row stays queued, nothing is
\* cleaned up and a later tick tries again
\* broken variant: the cleanup ignores what _mark_failed said
IngestUnmarkedCleaned(c) ==
  /\ Ingestible(c)
  /\ Fault
  /\ images' = images \ {c}
  /\ tick' = InHand("clean", tick.at, tick.todo, c, FALSE)
  /\ UNCHANGED <<now, settingVars, row, jobVars, claimVars, resultVars,
                 logVars, req, worker>>
IngestUnmarked(c) ==
  /\ Ingestible(c)
  /\ Fault
  /\ images' = images \ {c}
  /\ tick' = Pass("ingest", tick.at, tick.todo \ {c})
  /\ UNCHANGED <<now, settingVars, row, jobVars, claimVars, resultVars,
                 logVars, req, worker>>

\* _store_image: the image is stored before the row is committed. A claimed
\* screenshot that is not there or cannot be read leaves the capture without one.
IngestImage(c) ==
  /\ Ingestible(c)
  /\ result[c].body # "invalid"
  /\ \E kept \in BOOLEAN :
       /\ kept => result[c].shot /\ c \in shots
       /\ FaultIf(~kept /\ result[c].shot /\ c \in shots)
       /\ images' = IF kept THEN images \union {c} ELSE images
       /\ tick' = InHand("commit", tick.at, tick.todo, c, kept)
  /\ UNCHANGED <<now, settingVars, row, jobVars, claimVars, resultVars,
                 logVars, req, worker>>

\* the verdict _ingest_one draws
Verdict(c) ==
  IF result[c].body = "error"
  THEN WithImage(Failed(row[c], "capture_error", tick.at), tick.image)
  ELSE WithImage(Done(row[c], tick.at), tick.image)

\* ck_page_captures_failure_follows_status: a row that was refused meanwhile
\* cannot be committed as done
\* broken variant: no check constraint
NoConstraint(rw) == TRUE
FailureFollowsStatus(rw) == rw.status = "failed" <=> rw.reason # "none"

IngestCommit ==
  /\ tick.pc = "commit"
  /\ FailureFollowsStatus(Verdict(tick.cid))
  /\ row' = [row EXCEPT ![tick.cid] = Verdict(tick.cid)]
  /\ tick' = InHand("clean", tick.at, tick.todo, tick.cid, FALSE)
  /\ UNCHANGED <<now, settingVars, jobVars, claimVars, resultVars, logVars,
                 images, req, worker, faults>>

\* any exception: rollback, image removed, _mark_failed if still queued; no
\* cleanup, so a later tick discards the result
IngestError ==
  /\ tick.pc = "commit"
  /\ \/ /\ Fault
        /\ images' \in {images, images \ {tick.cid}}
     \/ /\ ~FailureFollowsStatus(Verdict(tick.cid))
        /\ DeleteImageQuiet(tick.cid)
  /\ \/ /\ Queued(tick.cid)
        /\ row' = [row EXCEPT ![tick.cid] = Failed(@, "ingest_error", tick.at)]
     \/ row' = row    \* _mark_failed found another status, or failed as well
  /\ tick' = Pass("ingest", tick.at, tick.todo \ {tick.cid})
  /\ UNCHANGED <<now, settingVars, jobVars, claimVars, resultVars, logVars,
                 req, worker>>

\* remove_result, delete_proxylog, delete_job: each delete may fail quietly
Retire(c) ==
  \E kept \in SUBSET {"job", "result", "shot", "log"} :
    /\ FaultIf(kept # {})
    /\ jobs'     = IF "job"    \in kept THEN jobs     ELSE jobs \ {c}
    /\ results'  = IF "result" \in kept THEN results  ELSE results \ {c}
    /\ result' = IF "result" \in kept THEN result
                 ELSE [result EXCEPT ![c] = NoResult]
    /\ shots'    = IF "shot"   \in kept THEN shots    ELSE shots \ {c}
    /\ proxylog' = IF "log"    \in kept THEN proxylog ELSE proxylog \ {c}

IngestClean ==
  /\ tick.pc = "clean"
  /\ Retire(tick.cid)
  /\ tick' = Pass("ingest", tick.at, tick.todo \ {tick.cid})
  /\ UNCHANGED <<now, settingVars, row, exp, claimVars, unflushed, images, req,
                 worker>>

IngestEnd ==
  /\ tick.pc = "ingest" /\ tick.todo = {}
  /\ tick' = Pass("sweep", 0, {})
  /\ UNCHANGED <<now, settingVars, row, jobVars, claimVars, resultVars,
                 logVars, images, req, worker, faults>>

\* sweep_timeouts reads the overdue rows ...
\* broken variant: only rows whose job is still there time out
OverdueUnclaimed(c) ==
  Queued(c) /\ c \in jobs /\ row[c].requested < now - qtimeout
Overdue(c) == Queued(c) /\ row[c].requested < now - qtimeout

Sweep ==
  /\ tick.pc = "sweep"
  /\ tick' = Pass("timeout", now, {c \in Captures : Overdue(c)})
  /\ UNCHANGED <<now, settingVars, row, jobVars, claimVars, resultVars,
                 logVars, images, req, worker, faults>>

\* ... one commit fails them all, whatever became of them meanwhile ...
SweepCommit ==
  /\ tick.pc = "timeout"
  /\ row' = [c \in Captures |->
               IF c \in tick.todo THEN Failed(row[c], "timeout", tick.at)
               ELSE row[c]]
  /\ tick' = Pass("sweepclean", 0, tick.todo)
  /\ UNCHANGED <<now, settingVars, jobVars, claimVars, resultVars, logVars,
                 images, req, worker, faults>>

SweepFails ==
  /\ tick.pc \in {"sweep", "timeout"}
  /\ Fault
  /\ tick' = Pass("claims", 0, {})
  /\ UNCHANGED <<now, settingVars, row, jobVars, claimVars, resultVars,
                 logVars, images, req, worker>>

\* ... and only then are their objects removed
SweepClean(c) ==
  /\ tick.pc = "sweepclean" /\ c \in tick.todo
  /\ Retire(c)
  /\ tick' = Pass("sweepclean", 0, tick.todo \ {c})
  /\ UNCHANGED <<now, settingVars, row, exp, claimVars, unflushed, images, req,
                 worker>>

SweepEnd ==
  /\ tick.pc = "sweepclean" /\ tick.todo = {}
  /\ tick' = Pass("claims", 0, {})
  /\ UNCHANGED <<now, settingVars, row, jobVars, claimVars, resultVars,
                 logVars, images, req, worker, faults>>

\* sweep_claims
MarkerOld(c) == markedAt[c] < now - MarkerMaxAge

SweepClaims ==
  /\ tick.pc = "claims"
  /\ LET old == {c \in claims : MarkerOld(c)}
     IN  \E gone \in SUBSET old :
           /\ FaultIf(gone # old)
           /\ claims' = claims \ gone
           /\ markedAt' = [c \in Captures |->
                             IF c \in gone THEN 0 ELSE markedAt[c]]
  /\ tick' = Pass("prune", 0, {})
  /\ UNCHANGED <<now, settingVars, row, jobVars, runs, resultVars,
                 logVars, images, req, worker>>

\* the rows of c's domain that keep an image and rank before c's
Newer(c) ==
  {d \in Captures :
     /\ row[d].image
     /\ DomainOf[row[d].cand] = DomainOf[row[c].cand]
     /\ \/ row[d].finished > row[c].finished
        \/ row[d].finished = row[c].finished /\ d > c}
Surplus == {c \in Captures : row[c].image /\ Cardinality(Newer(c)) >= KeepCount}

\* prune_images: the files go first ...
\* broken variant: a failed unlink is recorded too
PruneRecordsFailures ==
  /\ tick.pc = "prune"
  /\ \E gone \in SUBSET Surplus :
       /\ FaultIf(gone # Surplus)
       /\ images' = images \ gone
       /\ tick' = Pass("record", 0, Surplus)
  /\ UNCHANGED <<now, settingVars, row, jobVars, claimVars, resultVars,
                 logVars, req, worker>>
Prune ==
  /\ tick.pc = "prune"
  /\ \E gone \in SUBSET Surplus :
       /\ FaultIf(gone # Surplus)
       /\ images' = images \ gone
       /\ tick' = Pass("record", 0, gone)
  /\ UNCHANGED <<now, settingVars, row, jobVars, claimVars, resultVars,
                 logVars, req, worker>>

\* ... and tick commits the rows after
PruneRecord ==
  /\ tick.pc = "record"
  /\ \/ /\ row' = [c \in Captures |->
                     IF c \in tick.todo THEN WithImage(row[c], FALSE)
                     ELSE row[c]]
        /\ NoFault
     \/ row' = row /\ Fault
  /\ tick' = IdleTick
  /\ UNCHANGED <<now, settingVars, jobVars, claimVars, resultVars, logVars,
                 images, req, worker>>

TickStep ==
  \/ TickStart
  \/ \E c \in Captures :
       \/ IngestSkip(c) \/ IngestDiscard(c) \/ IngestInvalid(c)
       \/ IngestUnmarked(c) \/ IngestImage(c) \/ SweepClean(c)
  \/ IngestCommit \/ IngestError \/ IngestClean \/ IngestEnd
  \/ Sweep \/ SweepCommit \/ SweepFails \/ SweepEnd \/ SweepClaims \/ Prune \/ PruneRecord

\* the backend process dies: the API threads and the scheduler with it
BackendCrash ==
  /\ Fault
  /\ req' = [r \in Requesters |-> IdleRequester]
  /\ tick' = IdleTick
  /\ UNCHANGED <<now, settingVars, row, jobVars, claimVars, resultVars,
                 logVars, images, worker>>

Next ==
  \/ Advance \/ SetQueueTimeout
  \/ \E r \in Requesters : Request(r)
  \/ \E w \in Workers : Work(w)
  \/ \E c \in Captures : ProxyFlush(c)
  \/ TickStep
  \/ BackendCrash

Spec == Init /\ [][Next]_vars

\* The scheduler fires the tick every ten seconds, a started request runs to
\* its end, the clock goes on. Workers promise nothing.
Fairness ==
  /\ WF_vars(Advance)
  /\ WF_vars(TickStep)
  /\ \A r \in Requesters : WF_vars(req[r].pc # "idle" /\ Request(r))

LiveSpec == Spec /\ Fairness

-----------------------------------------------------------------------------
(* What the design promises.                                               *)

\* However many workers poll and however slow one is between reading a job and
\* claiming it, a job is run at most once (claim_next_s3, sweep_claims).
AtMostOneRun == \A c \in Captures : runs[c] <= 1

\* sweep_claims removes a marker only once the store refuses its claim URL.
MarkerOutlivesUrl ==
  [][\A c \in Captures : c \in claims /\ c \notin claims' => ~UrlLive(c)]_vars

\* Two requests that both saw no queued row never queue one candidate twice.
OneQueuedPerCandidate ==
  \A c, d \in Captures :
    Queued(c) /\ Queued(d) /\ row[c].cand = row[d].cand => c = d

\* A resolved row keeps its verdict: late results, a second ingest and the
\* timeout sweep leave it alone. Only the request's own spool_unavailable,
\* written without looking at the row, can meet another verdict, and the row
\* then ends failed.
SpoolRace(c) == "spool_unavailable" \in {row[c].reason, row[c].reason'}
VerdictStands ==
  [][\A c \in Captures :
       row[c].status \in Terminal =>
         \/ SpoolRace(c) /\ row'[c].status = "failed"
         \/ /\ row'[c].status = row[c].status
            /\ row'[c].reason = row[c].reason
            /\ row'[c].finished = row[c].finished]_vars

\* The evidence of a capture (result, screenshot, proxy log) is deleted only
\* after the verdict drawn from it is committed, so no crash loses both.
EvidenceOutlivesQueue ==
  [][\A c \in Captures :
       Queued(c) =>
         /\ c \in results  => c \in results'
         /\ c \in shots    => c \in shots'
         /\ c \in proxylog => c \in proxylog']_vars

\* A row that points at an image has its file, or is one the next prune pass
\* picks up again (unlink, crash, and the record lost). A row re-dated by a
\* late spool_unavailable may leave the surplus with its file gone.
ImagePresent ==
  \A c \in Captures :
    row[c].image => \/ c \in images
                    \/ c \in Surplus
                    \/ row[c].reason = "spool_unavailable"

\* Pruning leaks nothing: a row lets go of its image only once the file is
\* gone, whatever unlink, commit or crash came between (prune_images).
PruneLeaksNothing ==
  [][\A c \in Captures : row[c].image /\ ~row'[c].image => c \notin images]_vars

\* The automatic sweep never queues a domain that another automatic capture
\* has queued or has finished within the budget.
AutoBudget ==
  [][\A d \in Captures :
       row[d].status = "none" /\ Queued(d)' /\ row'[d].auto =>
         ~\E c \in Captures :
            row[c].auto /\ row[c].reason = "none" /\ InBudget(c, row'[d].cand)]_vars

\* Every queued capture is resolved, whatever the workers do.
QueuedResolved ==
  \A c \in Captures : Queued(c) ~> row[c].status \in Terminal

\* Every committed result is taken away in the end.
ResultsDrained == \A c \in Captures : c \in results ~> c \notin results

\* CaptureS3 implements CaptureLifecycle: a row's verdict tells a refusal from
\* the other failures, and the runs are the starts.
Lifecycle == INSTANCE CaptureLifecycle WITH
  verdict <- [c \in Captures |->
                IF row[c].status = "failed" /\ row[c].reason = "spool_unavailable"
                THEN "refused" ELSE row[c].status],
  starts <- runs

\* Queued once, run at most once, done only after a run, the verdict stands.
ImplementsLifecycle == Lifecycle!LifecycleSpec
=============================================================================
