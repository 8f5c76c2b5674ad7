# Constellus: a verification project

TLA+ models of Constellus, an external attack surface management system, with
TLC configurations that check them on small instances and TLAPS proofs for every
instance. Paths are relative to the repository root; `services/` abbreviates
`backend/app/services/`.

    tlc -config CaptureRows.cfg MCCaptureS3.tla      # any of the .cfg files
    tlapm CaptureS3_proofs.tla                       # and the other *_proofs.tla

## The system

One backend process (FastAPI, one uvicorn worker, an APScheduler thread pool) owns
the database. Two further programs run beside it: the scanner worker, an HTTP service
that wraps the scanners, and the capture pair (browser workers, egress proxy), which
the backend reaches only through an object store.

| Part | State | Operations | Hard behaviour |
|---|---|---|---|
| page capture (`services/page_capture.py`, `services/capture_store_s3.py`, `capture-browser/`, `capture-proxy/log_s3.py`) | `page_captures` rows; objects `jobs/`, `claims/`, `results/`, `proxylog/`, `images/` | request, claim, run, upload, ingest, time out, sweep markers, prune | many workers over a store with no locks; lost answers; crashes between two stores; two clocks |
| capture store on a filesystem (`services/capture_store.py`) | the same objects as files | claim by rename | crash between two renames |
| capture supervisor (`capture-browser/capture/supervisor.py`) | a child process | restart with backoff | worker dies with a job in hand |
| proxy log sink (`capture-proxy/log_s3.py`) | one buffer per capture | add, debounce, flush, evict, close | a record arriving during a PUT; a PUT that fails; eviction |
| automatic sweep (`run_automatic_sweep`) | none of its own | pick candidates, pace by queue length | budget check against concurrent requests |
| scan runs (`services/scan_executor.py`, `services/run_reaper.py`, `api/scans.py`) | `scan_runs.status` | launch, stages, cancel, complete, fail, reap | executor thread, API thread and reaper write one row |
| scheduler (`services/scheduler.py`) | the job table | interval jobs, `max_instances=1` | restart, missed runs |
| organizations and engagements (`services/entity_relationship.py`, `api/engagements.py`) | `org_entities.relationship`, `engagements` | mark ours or target, transition, patch, delete | requests that decide on unlocked reads; row locks; deadlocks |
| targets and scope (`services/target_scope.py`, `services/target_service.py`, `api/targets.py`) | targets, links to assets | declare, verify, move, delete with the assets only they found | shared assets; scopes frozen before a target goes |
| findings and assets (`services/finding_writer.py`, verifiers) | findings, assets | upsert by scan, verify, close, reopen | a late scan against a person's decision |
| claims and projection (`services/claim_emitter.py`, `services/projector.py`) | `asset_claims`, `asset_state` | emit, merge, project, prune | projections without a lock beside batches that hold one; what a missing observation means |
| probe authorisation (`services/probe_authorisation.py`, `services/posture.py`) | decision rows | three gates | gates that must agree; postures that change |
| scoring (`services/risk_scorer.py`, `services/hygiene_scorer.py`) | scores | compute | boundaries |
| organisation discovery (`services/org_discovery/`) | `scope_candidates`, `scope_signals` | record, claim, reject, sync zones | claims against rejections, evidence and connectors |
| EDGAR ingest (`services/edgar_ingest.py`, `services/acquisition_reader.py`, `services/registrant_link.py`) | `entity_ingest_runs`, entities and their CIKs | queue, run, chain a read, link, unlink, reap | tasks known only by their row; lost status writes; unlinking under a task |
| notifications and digests (`services/notification_dispatcher.py`, `services/digest.py`, `services/candidate_digest.py`, `api/notifications.py`) | `alert_dispatches` and their deliveries, `digests`, rules | select, record, send or defer; claim, send, resume | alerts committed behind a period's end; a mode that changes under them; a crash after the mail |
| caches, connectors, language model features, login, API, frontend | mostly external | refresh, CRUD | little of their own |

`PROJECT.json` lists them all with what is modelled of each, and the hazards of
the code at the line where they bite.

What must be right, part by part: a capture is run at most once and its verdict
stands; a log is uploaded whole or again; a cancelled scan stays cancelled and a
stranded one ends; our own company is never the subject of a deal; a claim puts a domain
where its organization's domains go and takes nobody's target; no port is lost because
somebody looked less closely, and none stays for ever; the gates agree with each other and
a restriction binds every path; a registrant is never blocked for ever and has one
writer; an alert that a digest owes gets into one, and no digest is mailed without end.

## Modules

| Module | What it is |
|---|---|
| `CaptureS3` | page capture over the object store |
| `CaptureLifecycle` | what page capture promises to a reader of `page_captures`; `CaptureS3` implements it |
| `CaptureS3_proofs` | theorems about `CaptureS3` |
| `ScanRun` | the life of a `scan_runs` row, and the verification that acts on its end |
| `RunLifecycle` | what the backend promises to a reader of a table of runs; `ScanRun` and `IngestRuns` implement it |
| `ScanRun_proofs` | theorems about `ScanRun` |
| `ProxyLogSink` | the egress proxy's log of each capture, on its way to the store |
| `ProxyLogSink_proofs` | theorems about `ProxyLogSink` |
| `Organizations` | what an organization is to us, and the engagements about it, as concurrent requests |
| `ScopeCandidates` | extends it: the candidates that signals propose, and the claims and connector zones that make targets of them |
| `ScopeCandidates_proofs` | theorems about the two |
| `AssetClaims` | the claims about one asset, and the row they are projected into |
| `AssetClaims_proofs` | theorems about `AssetClaims` |
| `ProbeGate` | the three gates between a connector and an asset |
| `ProbeGate_proofs` | theorems about `ProbeGate` |
| `IngestRuns` | the EDGAR ingests and reads, and the registrant link they depend on |
| `IngestRuns_proofs` | theorems about `IngestRuns` |
| `AlertDigest` | a notification rule, its alerts and its digests |
| `AlertDigest_proofs` | theorems about `AlertDigest` |
| `MCCaptureS3`, `MCScanRun`, `MCProxyLogSink`, `MCScopeCandidates`, `MCRecords` | the instances the configurations are for, with the values of constants that are no literals |

`AssetClaims`, `ProbeGate`, `IngestRuns` and `AlertDigest` share no variable. The first three are
about what the one before hands on: a projected class is an input of the gates, a posture of both
the gates and the ingests. `MCRecords` puts the four side by side: its variable `part` says which
of them a behaviour is about, and the others rest.

### CaptureS3

State. `row` is the `page_captures` table, one record per capture id (ids are
uuidv7, so their order is creation order). `jobs`, `claims`, `results`, `shots`,
`proxylog` and `images` are the sets of capture ids that have the object in question;
`markedAt` and `result` hold what the code reads of an object (LastModified, content).
`exp` is the expiry inside the credential and the presigned URLs. `req`, `tick` and
`worker` are program counters with the locals that survive between two observable
steps. `runs` counts browser runs and `faults` counts faults: history only.

Steps. A database commit and an object request are one step each, because another
actor may act between them; code between two such points is part of the step before
or after. `request_capture` is `RequestCheck` (every early return), the archive
lookup in between, `RequestInsert` or `RequestConflict`, `RequestMint`, `RequestPut`;
`RequestFail` is its except branch. `claim_next_s3` and `process_s3` are the
`Worker...` steps: reading the job and claiming it are two steps, so a worker may stall
between them for as long as it likes. `tick` runs `ingest_results` (the `Ingest...`
steps, one result in hand at a time), `sweep_timeouts` (`Sweep` reads, `SweepCommit`
writes), `sweep_claims` and `prune_images` (`Prune` unlinks, `PruneRecord` commits).
`BackendCrash` stops the requests and the tick where they stand; `WorkerCrash` is the
supervisor restarting a worker, which forgets what it had in hand.

Faults. Any store call or commit may raise; a put may have been stored although it
raised; a claim may be accepted and its answer lost; any process may die.
`MaxFaults` bounds their number and nothing else.

Clocks. `now` is the backend's clock. `now + StoreSkew` is the store's: it stamps
`LastModified` and judges presigned URLs. The offset is constant, of either sign.

Abstracted. Which result the ingest takes next is arbitrary (the code sorts by age).
A `result.json` is a page, an error or unparsable; a page whose archive snapshot
cannot be verified goes the way of an error. The web-archive lookup is the gap between
check and insert. What the egress limits say, which URL is captured, image sizes and
digests do not matter to any property. A failed commit has no effect; a commit whose
answer is lost is not modelled. `_mark_failed` reads and commits in one step. The proxy's
log of a capture is absent, buffered or there (`LogModes`).

### CaptureLifecycle

Two variables: the verdict of each capture (none, queued, done, failed, refused) and
how often it was started. It says that a capture is done only from queued and only
after a start, that it starts at most once, and exactly which verdicts may be
overwritten: a request whose `put_job` raised marks its row refused without looking
at it, while the job may be live. The refinement maps a row that failed with
`spool_unavailable` to refused. What makes the refinement subtle: a refused row whose
job was stored after all may not become done, and only the constraint
`ck_page_captures_failure_follows_status` stands in the way (`FailureFollowsStatus`).

### ScanRun

State. `status`, `created` and `started` are the columns of the rows that anybody
decides by (a row not yet made is `none`, a row that is gone is `deleted`); a
`started_at` that is NULL counts as `created_at`, as in `reap_stale`. `exec` is where each
run's executor thread stands and `done` how many chunks it went through. `api` is a cancel
or delete between its check and its commit; `pass` and `todo` are the reaper between a
query and its commit; `swept` is `_reaper_started`. `finding` and `seen` are the finding
a verification is about and whether its scan saw it again. `cancels`, `adrift`
and `faults` are history.

Steps. The executor writes its row in one statement and commit, without a look at the
status, so each of `Begin`, `Complete` and `Fail` is one step; the check between two chunks
(`CheckCancel`) and the chunk (`RunChunk`) are two, because cancels fall between them.
`cancel_scan`, `delete_scan` and the reaper load, decide and commit, in two steps each: the
commit writes what was decided, whatever the row has become. An executor that meets a
deleted row does what its place in the code does: returns (`Begin`), or raises into
`launch`'s handler. `launch` returns the same way however the run ended, so the
verification task (`Verify`) goes by the status it reads again.

Faults. `ExecRaises`: a statement outside the guarded steps raises. `ExecDies`: the thread
reaches no handler, or its handler fails. `ReapFails`: a query or commit of the reaper
fails; a row that went missing under it fails the pass too, and that is no fault.
`Restart` takes every thread with it. A chunk that raises is not a fault: the loop goes on.

Clock. It counts hours. The first pass of the reaper is 15 s after the boot, so `Advance`
waits for it. The backend serves requests in those 15 s: a run launched then is in flight when
`reap_at_startup` fails it, and its thread goes on and may write COMPLETED later. So
`ReaperSparesYoung` leaves out runs as old as the process.

Abstracted. The pipeline of a chunk is one step that may raise and may see the finding.
The post-scan chain guards each of its statements, and what follows COMPLETED guards
itself: it is part of `Complete`. A finding belongs to one verification, and only that run
sees it again; a run has one cancel or delete under way at a time. `entity_ingest_runs`,
which the reaper sweeps in the same passes, is in `IngestRuns`.

### RunLifecycle

Three variables for each row: what it shows (`state`), whether a task of this process is behind it
(`live`), and the decisions that somebody has taken and not yet written (`owed`). It says who may do
what to a row: it is launched once; its task writes RUNNING and one outcome, or ends without a word;
everybody else may only decide, on a row that shows as unfinished (or, to delete it, as not running),
and writes the decision then or later, over whatever the row has become. `LifeNext` asks it of every
row, so one step may move many, as a sweep or a restart does.

Two modules implement it. `ScanRun` maps `api` and `todo` to `owed` and takes `Reruns <- TRUE`: an
executor that begins after a cancel or a reap writes RUNNING over it. `IngestRuns` takes
`Reruns <- FALSE`, because the CHECKs of its table refuse that write, and owes nothing, because its
reaper decides and writes in one step. With `FALSE`, TLC finds `ScanRun` in violation.

What a reader of either table may conclude is stated once, there, and proved for both:
`SettledIsFinal` (a verdict is final when the task is gone and no older decision is outstanding)
and `FinishedStaysFinished` (a finished row shows as unfinished again only in `ScanRun`, by the task it
still has).

### ProxyLogSink

State. Each field of `_Buffer` is a variable: `lines` (their number: every PUT holds all of
them, so the object in the store is told by its length, `stored`), `full`, `dirty`,
`handle` and `task` (not there, not yet run, or waiting for the PUT of `body`). `buffered`
is `_buffers`; `old` the buffers past their TTL. `left`, `cur`, `waits` and `closeBody` are
the locals of `close()`. `records`, `failed`, `atClose` and `faults` are history.

Steps. One event loop runs everything but the PUT itself, so a step is what happens between
two awaits: `Add` (with `_evict` and `_schedule` in it), `Timer` (`_start`), `FlushBegin` up
to the first PUT, `PutOk` and `PutFails` from the return of one PUT to the next.
`CloseBegin`, `CloseTake`, `CloseFlush`, `ClosePutOk`, `ClosePutFails` and `CloseEnd` are `close()`, which
runs beside the tasks; handlers that outlive the server log on during it. A PUT that
raises may have been stored.

Abstracted. Whether a line still fits depends on its length, so any line after the first
may meet the cap. The records of a capture end with its credential, which lives no longer
than `BUFFER_TTL_S`: a buffer that is `old` gets no more (`Age`), and its timer has long
fired. The warning about full buffers is left out. A PUT that failed for the client and
lands in the store after a later one is not modelled.

### Organizations and ScopeCandidates

State. `relationship`, `engagement`, `target`, `candidate` and `signals` are the committed
rows. `request` is what each API request has read and which rows it holds; `everRejected`
stands for the "rejected" events of a candidate. `calls` is a bound.

Steps. The database is READ COMMITTED. A request that decides only on rows it holds locks on
is one step (`SetOurs`, `SetMaTarget`, `Clear`, `MoveTarget`, `Reject`, `RecordSignal`). The
others are cut where another commit can fall between a read and the write that relies on it:
`transition_engagement` (`TransitionLoad`, `TransitionCommit`), `patch_engagement` and
`delete_engagement` (`...Load`, `...Flush`, `...Commit`), `claim` (`ClaimRead`, `ClaimLock`,
`ClaimCommit`), `process_zone` (`ZoneCheck`, which ends in a commit of its evidence,
`ZoneTarget`, `ZoneClaim`, `ZoneCommit`). What a request writes is seen when it commits.

Locks. An engagement's row has the part a foreign key check shares and the part an update
takes, as in PostgreSQL (`Key`, `KeyShare`, `ForUpdate`). `wants` is what the next statement
will wait for. `DeadlockVictim` is the database ending one of two requests that wait for each
other. Two constraints decide races that no code does: `ck_engagements_authorisation_matches_posture`
(`AuthorisationMatches`: a stale transition that leaves the columns alone fails unless they
already fit the new posture) and `targets.engagement_id ON DELETE RESTRICT` (`Restricts`).

Abstracted. The family tree is a constant, so what changes under `claim` is where its walk
stops. Signals keep their type only; ASN and network candidates, the generators' anchors and
the clash rows a sync leaves for a person are left out. A zone's domain is one candidate.

### AssetClaims

State. One asset. `portClaims` has the `port_observation` claim of each observer, `facts` what
the projector reads of the other claims, `assetRow` the projected row. `jobs` is what a worker is
doing and has read; a batch carries the claims nobody else sees before its commit.
`rowLock` is the asset's row FOR UPDATE.

Steps. A batch (`Sweep`, `Probe`, `Shodan`, `ThirdParty`, `CloudProof`, all by `StartBatch`) waits for
the lock, writes its claims, projects and commits. A projection is its queries in the
code's order, `ReadPrior`, `ReadClaims`, `ReadTargets`, then `Write`: each query sees what is committed
when it runs. `Project` is the same without the lock, as `scan_executor` calls it before the
probe gate and after a scan. `CpeRead` and `CpeWrite` are `enrich_cpe`; `VerifyOwnership` and
`Enrich` write single claims; `TargetChange` covers or uncovers the address without any projection.

Computed. `MergedPorts`, `WithCarried`, `Kept` and `ProjectedPorts` are the merge, the
carry-forward and the pruning, entry by entry; `Tenancy`, `EstateOf` and `ClassOf` are the
projector's derivations with their precedence. An entry's `seen` is its `last_seen_at` in
days, 0 when it has none; a claim's `swept` is the time of a sweep that finished.

Abstracted. A port is its time, whether a prober confirmed it and whether it has a banner.
Certificates, CDN, SPF and end-of-life attributes, and the asset graph's edges, are left out.
`part` "ports" and "facts" are checked apart: no part of a row depends on both.

### ProbeGate

State. `declared`, `verified`, `dealOf` and `links` are the targets, their engagements and the
assets found for them; `parent` and `class` two columns of an asset; `posture` of an engagement.

The gates are operators: `IsScanAuthorised` and `DiscoveryAllowed` of a value, `Permitted`
(`authorise_probes`) of the assets of a stage, `OwnershipProbe`. Each is built from the same
caps as in the code (`ScopeCap`, `ClassModes`, `PostureCap`, composed by `Composed`), which ask
`target_scope` in two different ways: `ValueInScope` and `AssetsUnder`. `FallsUnder` is the third,
of who may read an asset. The actions change what they read: targets come, are verified, move
and go (`Undeclare` deletes the assets only they found, and what resolved from those), batches
link assets to a domain whatever their own name, classes and postures change.

Abstracted. Names are a relation (`NamesAbove`), networks a set of addresses (`NetOf`). Only
addresses have a parent. A stage's assets are any; its decision rows are not modelled.

### IngestRuns

State. `row` is `entity_ingest_runs`, `task` the background task behind each row: the two are
separate because nothing but `_mark_run` keeps them together. `holder` is which entity has a
CIK, `edges` and `sections` what ingests and reads have left at an entity, `unlinking` the
companies whose row an unlink holds.

Steps. Requests insert a row, if the unique index on kind and CIK allows it, and leave a task.
A task marks its row (`Begin`), works in commits of its own (`Ensure`, `Resolve`, `Relate`, `Store`;
`LoadSections`, `ReadDeals`), marks it again (`End`) and may queue a read (`FollowUp`). `Mark` is
where a task and its row part: the update fails and is only logged, or the table's CHECKs
refuse it because the reaper has finished the row. `unlink` is two steps, its checks under the
company's lock and its commit. The reaper fails every unfinished row at its first sweep and the
stale ones after it.

Time. Rows have ages in hours instead of a clock. `Hour` waits for the sweep of the hour before:
the job is hourly and a sweep takes seconds. This timing assumption stands in for fairness, and
`CikFreed` is a bound instead of a liveness property; with one hour less TLC refutes it.

Abstracted. What an ingest writes is one edge and one section set per registrant. A reaper's
sweep is one step. Candidates that a website proposes, which unlink also looks at, are left out.

### AlertDigest

State. `rule` is one row of `notification_rules`, of either kind. `alert` is what the dispatcher
has selected for it: `born` is `created_at`, the time the selecting transaction began, `told` the
delivery that was recorded, `digest` the claim; for an organization discovery rule an alert is a
candidate, and `open` says whether a notification may name it. `digest` is the rule's rows of
`digests` in the order of their claims. `job` is the one run of `run_due`: its reading of the clock, the stale
digests still to resume, the digest in hand. `sendAt` is the send hour. `left`, `mails` and `lost`
are history: whether the rule ever left the digest modes, the mails of a digest, and the sends
whose outcome was not recorded.

Steps. The dispatcher is cut at its two commits: `Select`, `Recorded`, then `SendNow` or `Defer`.
`RecordingFails` and `DeliveriesFail` are its two except branches. A run of the job is `StartRun`,
`Abandon` or `Resume` for each stale digest, `CheckDue` (`due_rule_ids`), `ClaimAlerts` or
`ClaimNothing` under the advisory lock and in one commit, `Send` and `RecordOutcome`: the mail is
out before its outcome is committed, and a crash may come between. `SendFails` covers the
statements of `send` and the except branches of both its callers, of which only the resuming one
counts the attempt. `SetMode`, `SetEnabled`, `DeleteRule`, `SetSendHour` and `Reconsider` may come
at any point.

Time. The clock counts hours and `StartRun` comes once in each, as the scheduler has it. `MaxLag` is how
long a dispatcher or an inserting transaction may take, and `DigestAssumption` says that it is
less than `GRACE`, which is what the code counts on; it has no means to enforce it. `MaxRun`
bounds how long a run takes. The scheduler's `max_instances=1` in one backend process makes runs
exclude each other.

Abstracted. Channels and recipients: a digest is mailed or not, whatever the outcome is called
(`settled`). Its body, the AI summary, and which findings an alert is about.

## Runs

| Run | Instance | Shows |
|---|---|---|
| `claims` | one job, two workers, one fault, store clock behind by half of the allowance | `AtMostOneRun` |
| `rows` | two captures of one candidate, two requests, one worker, one fault | `ImagePresent`, `PruneLeaksNothing`, `ImplementsLifecycle` |
| `pipeline` | one capture, every kind of result, proxy log, a changing timeout setting, one fault, fairness | `TypeOK`, `VerdictStands`, `EvidenceOutlivesQueue`, `QueuedResolved`, `ResultsDrained` |
| `budget` | the weekly sweep and a person ask for two candidates of one domain | `AutoBudget` |
| `scans` | a verification of two chunks and a connector sync, one fault | `TypeOK`, `NoOrphanAfterSweep`, `ResolvedAfterEveryChunk`, `ReaperSparesYoung` |
| `scanlive` | one scan, fairness of the reaper, two faults | `RunEnds`, `KeepsRunLifecycle` |
| `sink` | two captures, room for one buffer, two faults, fairness of the event loop | `TypeOK`, `CleanMeansStored`, `ClosedMeansStored`, `EvictionLosesOnlyFailed`, `Uploaded` |
| `desks` | two requests at a time, two in all, from every database of two companies, two engagements, one domain and its two candidates | `ScopeTypeOK`, `OursNeverSubject`, `NoDanglingMember`, `RejectedWeighedAll`, `WideningNeedsReference`, `ClaimLandsRight` |
| `records`, an asset | two ports, two workers, two batches, two days; or the other facts | `RecordsTypeOK`, `PartialSweepKeeps`, `FoundPortsShown`, `ConfirmedSurvivesMiss`, `RowTellsOneStory` |
| `records`, the gates | three names, two addresses, a range, three assets, one engagement, three changes | `GatesAgree`, `DenialBindsEveryPath` |
| `records`, ingests | one company, one registrant, two rows, the code's timeouts, one mishap | `OneWriter`, `ChainedStaysHome`, `CikFreed` |
| `records`, digests | one rule of any kind and mode, one alert, two digests, days of two hours, one attempt counted, two faults, one edit | `PeriodsCovered`, `HeldBackIsDigested`, `MailedOncePerRecord` |
| `scancancel` | one verification of one chunk, no fault | **violates** `CancelledNeverResolves` |
| `zonerace` | one company of ours, one domain, a person and a sync | **violates** `RejectionOutranksConnector` |
| `phantom` | two ports, one worker, three batches, three days | **violates** `ClosedPortRetires` |

Deadlock is checked in the capture and scan runs. In the others the process ends, or
the bounded number of requests and batches does. There, the capture tick, or the reaper, can always run once
more, even after the clock has stopped at `MaxClock`.

Bounds. `RequestHorizon` keeps new rows, credentials and signatures early enough that
`MaxClock` lies behind every expiry that follows from them, so each run sees its
captures time out, their URLs expire and their markers be swept. Two captures suffice
for the index, for the budget and for `KeepCount` = 1 to make one image surplus. Two
workers suffice for a second claim. The batch limits (500 rows per prune, results per
tick) are not reached. Timeouts of one or two ticks stand for minutes: only their order
and their sums matter.

In `scans` both timeouts are one hour and the clock goes to three, so rows pass their
timeout while RUNNING and while PENDING, with and without a thread, and a restart may come
at any hour. Two chunks make the cancel check matter between them. Two runs suffice: the
rows meet only in the reaper's passes. In `scanlive`, `LaunchHorizon` bounds when a run is
made or begins and `MaxClock` lies beyond the horizon and both timeouts, so the bound on the
clock hides no row that would have aged out.

In `sink` one capture must wait for the other's buffer to be evicted, a buffer meets its cap
and may log once more, and each of two PUTs may fail.

In `desks` two requests suffice for a race, because each property is about two of them and
the initial states are every database that earlier requests may have left; the third
request of a longer story is in the initial state. One domain with two candidates lets two
organizations want it. The engagements and the desks are interchangeable (symmetry).

In `records` two batches and two days let a port be found, missed by a later sweep, and
fall out of the shorter grace but not of the longer one; the unlocked projections are not
counted, so they may come at any point of both. Three changes from one or no target make every
pair of a declaration and a link whose target then moves, narrows or goes. Two rows make an
ingest and its follow-up, or two ingests of one registrant after a reap. Two digests are what the
end of one period and the start of the next need; alerts do not meet, so one is enough. Five hours hold
two cut-offs at either send hour, and with `MAX_ATTEMPTS` at one, two failures take a digest from
its first send to being given up. Ports and workers are interchangeable.

Fairness of `pipeline`. The scheduler runs the tick every ten seconds with
`max_instances=1` (`services/scheduler.py`), so the tick always takes another step; an
API thread that has begun a request finishes or dies; time passes. Nothing is assumed of
workers: one may take a job and never come back. Faults are finite by `MaxFaults`.

Fairness of `sink`. The event loop runs timers and tasks that are ready, and
`put_object` returns or raises (it has timeouts). Nobody has to log or to stop the proxy.

Fairness of `scanlive`. Time passes and the reaper's hourly job takes its next step; the
scheduler runs it in every process. No fairness is given to any executor or person: a run
whose thread hangs for ever is what the reaper is for.

### What the violations say

`scancancel`. `_run` writes RUNNING and later COMPLETED whatever the status has become, and
looks for a cancel only before each chunk. A cancel that the API accepted (it answers with
CANCELLED) while the row was PENDING is overwritten by RUNNING; one accepted during the last
chunk is overwritten by COMPLETED. If the run is a verification, its finding is then resolved,
against `backend/app/tests/test_verify_failed_scan.py:153-154`, whose test replaces `_run` by
one that ends with the cancel.

`zonerace`. `process_zone` asks for an earlier rejection, commits the evidence of the zone, and
only then verifies the target and records its signal. A rejection that commits in between is
not seen; the signal is strong and of a new type, so `_maybe_unlock` reopens the candidate, and
the zone claims it. The code comment at the end of the function foresees the race and says that
the person's decision stands; it stands only if the candidate already had the same signal, or the
rejection weighed one, and then it always does (`WeighedRejectionsStand`).

`phantom`. `enrich_cpe` writes one claim with every port of the row that has a banner, without a
time. When the claims it was read from drop the port, the row's entry comes from that claim
alone and has no time; the next `enrich_cpe` sees no banner and drops its claim, and the carry-forward
then keeps an entry that pruning can never judge, against `projector.py:83-84`.

### What no run asks about

The models reach more than the runs ask about, and the code says little or nothing of it:

- a store clock behind by more than half of `CLAIM_SKEW_S` lets a job be run twice (the
  theorems below say that half is the exact point);
- a screenshot uploaded after the timeout sweep is an object nothing lists, and a crash between
  that sweep's commit and its deletions leaves a job and a log;
- a verification whose only chunk raised completes and resolves its finding;
- a log buffer that met its cap and whose PUT failed waits for shutdown;
- a stale transition takes an abandoned engagement back into use, although `services/posture.py:133-138`
  and `api/targets.py:529` count on `abandoned` being terminal. The transition is decided on the
  posture it loaded; the engagement is abandoned by another request; the commit writes the old decision.
  If the widening carries a reference, the row satisfies the CHECK. A proof attempt met it first: a
  claim that has found one live engagement of its company holds no lock that keeps an abandoned one
  from coming back, and TLC finds the case with three calls, one company and one candidate. So
  `ClaimLandsRight` says that a claim lands in *a* live engagement, and not in the only one. What is left
  of the comment is `AbandonedIsFinalOnceQuiet`: it is terminal once no older transition is open;
- two requests that take a company's last engagements away may leave it marked as a target;
- a projection outside a batch writes an older row over the batch's, until the next projection;
- a confirmed cloud claim never lapses by age;
- deleting a target deletes assets that another target found too, if they resolved from a
  deleted asset's name;
- a row reaped under a live task lets an unlink pass, and a company linked again is read
  from the sections the old task still writes;
- a posture that narrows during a stage, a zone or an ingest does not stop it;
- when the commit that says an alert was held back fails and its rule then goes back to immediate,
  the alert is in no digest and was not sent, though a comment says that bookkeeping never
  loses an alert (`notification_dispatcher.py:235-237`, about the other commit).

## Proofs

`CaptureS3_proofs` proves, for all captures, candidates, requesters, workers and values
of the timing constants:

- `Typing`: `TypeOK`.
- `OneQueued`: `OneQueuedPerCandidate`. It is inductive with `TypeOK`: only an insert makes
  a row queued, and the unique index guards it.
- `VerdictHolds`: `VerdictStands`, from `Committing`. The tick writes rows it read
  earlier, so the property alone is not inductive. `CommitInv` says of what the tick has in
  hand that its row is still queued, or was refused by its own request: nobody else
  resolves rows while the tick is between read and commit. (A second ticking process would
  break it; `max_instances=1` in the single backend process is what the model assumes.)
- `AtMostOnce`: `AtMostOneRun`, and `MarkersOutliveUrls`: `MarkerOutlivesUrl`, both from
  `Running` under `SkewTolerated == ClaimSkew + 2 * StoreSkew >= 0`. `RunInv` is the
  argument: a request that still holds a row is the only one that does (`HeldRows`,
  `OneHolder`); a capture whose job was not stored yet is in no worker's hand and has no
  marker (`UnissuedUntouched`); a claim URL never lives longer than the longest timeout
  plus the margin from now (`UrlsBounded`); and a capture that was run, or was claimed by
  a worker about to run it, has a marker or a claim URL the store refuses (`ClaimSpent`).
  The last one is what a single claim needs to be final, and `UrlsBounded` is what makes
  an old marker's URL a dead one (`OldMarkerIsDead`).

`ScanRun_proofs` proves, for all runs, kinds, chunkings and timeouts:

- `Typing`: `TypeOK`.
- `NoOrphan`: `NoOrphanAfterSweep`, from `OrphanInv`. While the startup sweep is between its
  query and its commit the property does not hold yet; `SweepHoldsOrphans` says that every
  orphan is among the rows it read. The lemma `NoNewOrphan` covers every step that leaves
  the reaper alone.
- `Resolving`: `ResolvedAfterEveryChunk`, from `ChunkInv`: where the executor stands tells how
  many chunks it went through (`Progress`); only an executor at its end writes COMPLETED over
  a verification, and no other writer ever does (`Completion`); a verdict is the last thing a
  run does (`Resolution`).
- `Sparing`: `ReaperSparesYoung`, from `AgeInv`: no hour passes before the first pass
  (`BootTime`), a row starts after it was made (`RowTimes`), and what the reaper has in hand
  is as old as its pass demands although time went on since its query (`HandsOld`).
- `RunLifecycleKept`: `KeepsRunLifecycle`, that is `Spec => Life!LifeSpec`, from the invariants above
  and `OwedInv`: what somebody has decided of is a row that was launched, and what the reaper's running
  sweep has in hand does not wait to begin. `LifeStep` goes through the steps row by row; for
  a row that a step does not touch it is `LeftAlone`, for one that only loses its thread `Vanishes`.
- `SettledRunIsFinal` and `ReopenedByItsExecutor`: the lifecycle's `SettledIsFinal` and
  `FinishedStaysFinished`, from `RunLifecycleKept` and a lemma about one lifecycle step (`LifeVerdicts`).

`ProxyLogSink_proofs` proves, for all captures, caps and failures:

- `Typing`: `TypeOK`, with the bounds on buffers and lines.
- `NoLostWakeup`, `CleanIsStored`, `EvictionSafe`, `LogGrows`: the four properties of the serving
  proxy, all from `FlushInv` (the last, `StoredGrows`, is proved and has no run): a dirty
  buffer is watched (`Watched`), a clean one is stored or
  is in the PUT under way (`Saved`), each PUT holds no fewer lines than what is stored
  (`Growing`), and no timer of an old buffer is set (`Rested`).
- `ShutdownStores`: `ClosedMeansStored`, from `CloseInv`. Until `close()` has come to a buffer, or
  while it awaits its task, the buffer may still owe its lines (`Due`), and a PUT that began
  before `close()` is followed by another (`Overtaken`). Once a buffer has paid, no later PUT
  holds less than `atClose`, so PUTs that overtake each other do no harm to what was logged
  before. (They may lose what is logged during `close()`: `StoredGrows` is restricted to
  the serving proxy because TLC finds that.)

`AlertDigest_proofs` proves, for all alerts, bounds and timing constants:

- `DigestTypesHold`: `DigestTypeOK`.
- `MailsAreRecorded`: `MailedOncePerRecord`, from `MailInv`. The property says nothing of when a
  digest may go out; `MailInv` adds that a pending one whose mail is not out just now has no more
  mails than lost outcomes, that the stale ones a run has still to resume are pending, and that the
  one in hand is pending with an attempt left.
- `PeriodsCoveredAlways`: `PeriodsCovered`, from `PeriodInv`: no claimed period ended `Grace` or
  more after the birth of an alert that no digest has and that the rule still owes, unless the alert
  was born before the first period. It is what the next claim's window relies on. A held-back alert was told of
  within `MaxLag` of its birth, so every period that ended later could have had it (this is
  where `MaxLag < Grace` is used).
- `HeldBackIsDigestedAlways`: `HeldBackIsDigested`, from the same invariant; it also needs that the
  first period is not empty (`FirstFloor > 0`) and that the grace window is no longer than a day.

`IngestRuns_proofs` proves, for all companies, registrants, rows, timeouts and mishaps, from `IngestInv`:

- `IngestTypesAlways`: `IngestTypeOK`, with what the table's index and CHECKs demand of rows.
- `OneWriterAlways`: `OneWriter`. A task and its row are kept together by `_mark_run` only, which may
  fail; `WorksOnOpenRow` says what is left: a task at work has a row that is unfinished or that
  the reaper has failed, and a task that has not begun has no running row. The unique
  index does the rest.
- `ChainedStaysHomeAlways`: `ChainedStaysHome`, from `LinkKept`: while a run that a link started is
  unfinished, its company has the registrant and no unlink that has passed its checks is about to
  commit. The second part is the company's row lock, which link and unlink both take.
- `CikFreedAlways`: `CikFreed`, from `SweptInTime`: a row is older than its timeout by no more
  than the sweep that is due and the sweeps that failed.
- `RunLifecycleKept`: `KeepsRunLifecycle`, the refinement of `RunLifecycle` in which no finished row is
  reopened, with `SettledIngestIsFinal` and `FinishedIngestStaysFinished` as for `ScanRun`. A task that
  begins on a row which the reaper has finished leaves it alone, because its write is refused.

`ScopeCandidates_proofs` proves, for all families of companies, engagements, domains, candidates and
requests, about `ScopeCandidates` and so about `Organizations`, whose steps it includes:

- `DesksInvAlways`: the invariant `DesksInv`. `RequestOK` says, for each point a request may have
  reached, what it has read and locked and what of it is still true; `Exclusive`, that a lock has one
  holder, or several who share a key. The lemma `LocksAreKept` is the
  core of the argument: no request writes what another has locked. It is proved once for all
  pairs of steps, so the number of cases is that of the steps and not its square.
- `ScopeTypesAlways`, `OursNeverSubjectAlways`, `NoDanglingMemberAlways`, `RejectedWeighedAllAlways`:
  the four invariants of the run `desks`.
- `WideningIsReferenced`: `WideningNeedsReference`. Here the argument is not a lock: a transition
  decides on a stale posture. It is the CHECK on the row that refuses a stale decision without a
  reference.
- `ClaimsLandRight`: `ClaimLandsRight`, from what a claim has locked between its reads and its commit.
- `AbandonedIsFinalOnceQuiet`: an abandoned engagement for which no transition is open stays abandoned,
  with none open, until it is deleted. `PostureChange` says which steps change a posture and
  `NextRequest` with what a request goes on; a transition loaded on an abandoned posture is denied.
- `WeighedRejectionsStand`: the other side of the run `zonerace`. `ZoneHeld` says that a zone which will
  claim holds a candidate that its signal leaves open, and `LockedTypes` that nobody records
  anything of a candidate whose row another request has locked.

`ProbeGate_proofs` proves, for all names, networks, assets, targets and engagements:

- `GateTypesAlways`: `GateTypeOK`. It is the only invariant about states: the
  gates are operators, and what has to be shown is that they say the same of any state.
- `GatesAgreeAlways`: `GatesAgree`, from its three parts. The code asks in three ways
  which targets an asset is under, and that they agree rests on facts about names (`UnderOne`: being
  under a set of names is being under one of them; `UnderTransitive`) and on the targets
  themselves (`EntryCovered`, `PoolInScope`).
- `DenialBindsAlways`: `DenialBindsEveryPath`, and `LinksNeverFree`: `LinkNeverFrees`. Links only add targets, and one restricting
  target is enough.

`AssetClaims_proofs` proves, for all ports, graces, rungs and workers, from `ClaimsInv`:

- `ClaimsTypesAlways`: `ClaimsTypeOK`, with lemmas on what each operator of the merge, the
  carry-forward and the pruning returns.
- `RowsTellOneStory`: `RowTellsOneStory`. It needs no invariant beyond types: estate and class are
  computed from one reading of the facts.
- `PartialSweepsKeep`: `PartialSweepKeeps`, `FoundPortsAreShown`: `FoundPortsShown`, and
  `ConfirmedSurvives`: `ConfirmedSurvivesMiss`, from `BatchesInv` and `CpeTimeless`. A batch brings what it
  should (`Honest`), and what the holder of the row's lock has read of the observers is what
  the table will have at its commit, except for `enrich_cpe`'s claim, which
  is written without the lock. That one may change under the batch; it does no harm
  because its entries carry no time (`CpeTimeless`), and pruning never judges such an entry.
  The run `phantom` shows the other side of the same fact.

`CaptureS3_proofs` also proves, on top of `RunInv` and `CommitInv`:

- `EvidenceOutlives`: `EvidenceOutlivesQueue`, from `EvidenceInv`: nobody holds the id of a row
  that does not exist (`KnownRows`), what the tick is about to delete belongs to a resolved row
  (`CleansSettled`), and no result is without a run (`RanFirst`).
- `LifecycleImplemented`: `ImplementsLifecycle`, that is `Spec => Lifecycle!LifecycleSpec`.
  `Mapped` is the refinement mapping written out, `LifecycleStep` maps each step to a step of
  the lifecycle or a stutter. A done row is where it takes all the invariants: the row was queued
  (`CommitInv`), was started (`RanFirst`), and only once (`RunInv`).
- `BudgetKept`: `AutoBudget`, from `BudgetInv`: between the check of an automatic request and its
  insert nothing automatic comes to spend the budget.
- `ImagesArePresent`: `ImagePresent`, and `NothingLeaks`: `PruneLeaksNothing`, from `ImageInv`. A
  prune unlinks files before it commits, and captures that finish in between change
  which rows are surplus. `Outranked` says that a row whose file was lost has
  `KeepCount` newer rows besides those about to be recorded. The lemma `Ranked` is
  why recording cannot take them away: whatever part of the surplus goes, each surplus row still
  has as many before it.

### What the theorems assume

The named assumptions of the modules, which TLC evaluates on every run, say that numbers are
natural numbers and that a value which stands for "none" is not an element. Beyond
that, each of these is a fact of the code or of its settings:

- `DigestAssumption`: `Grace <= Day` and `FirstFloor > 0`, an hour and 24 hours in
  `services/digest.py:87-88`; `MaxLag < Grace` is what its comment on the grace window counts on.
- `ClaimsAssumption`: `ConfirmedGrace > 0`, three days in `services/projector.py:79`.
- `ProbeGateAssumption`: a hostname is no address and no range; `NamesAbove` is reflexive and
  transitive, as a comparison of suffixes is; an address has one asset (the index
  `uq_assets_canonical_non_dns`, `backend/alembic/versions/0026_assets_canonical_multi_record.py:56-62`).
- `OrganizationsAssumption`: the ids of engagements differ from the two words that
  stand beside them in `target[v].at`.

Three hypotheses belong to theorems of `CaptureS3_proofs`, and are definitions there:

- `SkewTolerated == ClaimSkew + 2 * StoreSkew >= 0`, in what rests on claims: the store's clock is
  behind by at most half of `CLAIM_SKEW_S` (300 s). In the instance of
  `claims` it is met exactly; with `ClaimSkew` one less TLC finds a job run twice.
- `OneSweep`, in `BudgetKept`: there is one automatic requester. The scheduler runs the sweep with
  `max_instances=1` in the single backend process; in the instance
  of `budget` two automatic requesters break it.
- `FinitelyMany`, in `ImagesArePresent`: there are finitely many captures. `KeepCount` counts rows.

### What stays with TLC

Liveness (`QueuedResolved`, `ResultsDrained`, `RunEnds`, `Uploaded`): the prover has no rules for
fairness. The three violations. `RecordsTypeOK`, which is the type invariant of whichever of
four modules `part` selects: the four are proved as `ClaimsTypesAlways`, `GateTypesAlways`,
`IngestTypesAlways` and `DigestTypesHold`. Every other property of a run is a theorem, and each
was checked by TLC before it was proved, as were the invariants that the proofs rest on.
`MarkerOutlivesUrl`, `OneQueuedPerCandidate`, `DirtyHasFlush`, `StoredGrows`, `LinkNeverFrees`, the
lifecycle of `IngestRuns`, `AbandonedIsFinal` and `WeighedRejectionStands` are proved and no run lists
them; TLC found no violation on the instances of the runs.

No induction over data was needed: sets of ports and claims are folded by maxima, and the
two places that need a least element (the latest of a set of days, the first of a set of
surplus rows) take it from the library's theorem on well-founded relations.

## Plan

1. Done: the modules above, their runs, and a theorem for each property that is no liveness property.
2. Modules that would come next: `CaptureFS` (claim by rename, a second implementation of
   `CaptureLifecycle`), `FindingLifecycle` (scans, verifiers and people over a finding's
   status), and `CaptureSweep` (pacing of the automatic sweep).
3. Proofs: that `SkewTolerated` and `OneSweep` are also necessary (TLC shows it on an instance).

## Not modelled, and why

The network stages of a scan, the connectors, the scanner worker, the browser and the
proxy's traffic are I/O whose outcome the models choose. The API handlers and the
frontend are thin. Login is library code. The language model features build prompts
around an external service.
