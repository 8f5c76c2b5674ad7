----------------------------- MODULE IngestRuns -----------------------------
(* The EDGAR ingests and AI acquisition reads of one backend process, and the *)
(* link that says which SEC registrant a company is. A request inserts a row  *)
(* of `entity_ingest_runs` and leaves a background task behind; the task      *)
(* marks its row, finds its entity by CIK, writes what the filings say in     *)
(* commits of its own, marks the row again, and may queue a read. Nothing but *)
(* the row's status says that a task is at work. A crash takes the tasks and  *)
(* leaves the rows; the reaper fails rows at the first sweep of a process and *)
(* by age after it.                                                           *)
EXTENDS Naturals, FiniteSets

CONSTANTS
  Companies,       \* entities without a CIK whose acquisition is confirmed
  Ciks,            \* SEC registrants
  MaxRuns,         \* bound: requests in a behaviour
  Nobody,          \* no entity
  QueuedTimeout,   \* INGEST_QUEUED_TIMEOUT, in hours
  RunningTimeout,  \* INGEST_RUNNING_TIMEOUT, in hours
  MaxAge,          \* bound: hours a row may stay unfinished
  MaxMishaps       \* bound: crashes, lost status writes and failed sweeps

ASSUME IngestAssumption ==
  /\ {MaxRuns, QueuedTimeout, RunningTimeout, MaxAge, MaxMishaps} \subseteq Nat
  /\ Nobody \notin Companies \cup Ciks
  /\ Companies \cap Ciks = {}

VARIABLES
  holder,     \* the entity whose `cik` each CIK is, or Nobody
  unlinking,  \* companies whose row an unlink holds FOR UPDATE, its checks passed
  edges,      \* relations on an entity out of a registrant's filings, unless rejected
  sections,   \* registrants whose filing sections an entity holds
  row,        \* entity_ingest_runs
  task,       \* the background task of each row
  swept,      \* _reaper_started
  due,        \* this hour's sweep has not run
  mishaps

ingestVars ==
  <<holder, unlinking, edges, sections, row, task, swept, due, mishaps>>

\* uuidv7 keys: in the order of the requests.
IngestRunIds == 1..MaxRuns
\* The entity an ingest or onboarding creates for CIK k is named k.
OrgEntities == Companies \cup Ciks
Kinds == {"edgar_ingest", "acquisition_read"}
Statuses == {"unused", "queued", "running", "succeeded", "failed"}

\* A row's age counts the hours since created_at, `ran` those since started_at;
\* Never is a NULL started_at. Once the row is finished its times mean nothing.
Never == MaxAge + 1

NoRow == [kind |-> "edgar_ingest", cik |-> Nobody, by |-> "manual", chain |-> Nobody,
          status |-> "unused", age |-> 0, ran |-> Never]
NoTask == [pc |-> "none", entity |-> Nobody, found |-> {}]

ActiveRun(r) == row[r].status \in {"queued", "running"}
RunOf(kind, k) == {r \in IngestRunIds : ActiveRun(r) /\ row[r].kind = kind /\ row[r].cik = k}
Pc(r) == task[r].pc

IngestInit ==
  /\ holder = [k \in Ciks |-> Nobody]
  /\ unlinking = {}
  /\ edges = [e \in OrgEntities |-> [k \in Ciks |-> "none"]]
  /\ sections = [e \in OrgEntities |-> {}]
  /\ row = [r \in IngestRunIds |-> NoRow]
  /\ task = [r \in IngestRunIds |-> NoTask]
  /\ swept = FALSE /\ due = TRUE /\ mishaps = 0

(********************************* Requests **********************************)

\* uq_entity_ingest_runs_active_kind_cik lets another row in.
Free(kind, k) == RunOf(kind, k) = {}

\* The row of a new run and the task behind it. `chain` is the entity a read
\* is queued for, or will be once this ingest succeeded.
Queue(r, kind, k, by, chain) ==
  /\ row[r] = NoRow /\ \A s \in 1..(r - 1) : row[s] # NoRow
  /\ Free(kind, k)
  /\ row' = [row EXCEPT ![r] = [kind |-> kind, cik |-> k, by |-> by, chain |-> chain,
                                status |-> "queued", age |-> 0, ran |-> Never]]

RequestIngest(r, k) ==
  /\ Queue(r, "edgar_ingest", k, "manual", Nobody)
  /\ task' = [task EXCEPT ![r].pc = "queued"]
  /\ UNCHANGED <<holder, unlinking, edges, sections>>

\* onboarding.seed: the entity is created if nobody has the CIK; a run that is
\* active already is left to itself. A company that becomes ours here takes the
\* entity's lock, one that is ours does not: the seed need not wait.
Seed(r, k) ==
  LET e == IF holder[k] = Nobody THEN k ELSE holder[k] IN
  /\ holder' = [holder EXCEPT ![k] = e]
  /\ \/ Queue(r, "edgar_ingest", k, "seed", e) /\ task' = [task EXCEPT ![r].pc = "queued"]
     \/ ~Free("edgar_ingest", k) /\ UNCHANGED <<row, task>>
  /\ UNCHANGED <<unlinking, edges, sections>>

RequestRead(r, e) ==
  /\ sections[e] # {}
  /\ \E k \in Ciks : holder[k] = e /\ Queue(r, "acquisition_read", k, "manual", e)
  /\ task' = [task EXCEPT ![r].pc = "queued"]
  /\ UNCHANGED <<holder, unlinking, edges, sections>>

\* registrant_link.link under the company's lock: the CIK and the queued run
\* are one commit, and both unique indexes have their say.
Link(r, e, k) ==
  /\ e \notin unlinking /\ \A j \in Ciks : holder[j] # e
  /\ holder[k] = Nobody
  /\ Queue(r, "edgar_ingest", k, "link", e)
  /\ holder' = [holder EXCEPT ![k] = e]
  /\ task' = [task EXCEPT ![r].pc = "queued"]
  /\ UNCHANGED <<unlinking, edges, sections>>

\* broken variant: only the ingests of the CIK are looked for
MayUnlinkDuringRead(e) ==
  \E k \in Ciks :
    /\ holder[k] = e
    /\ RunOf("edgar_ingest", k) = {}
    /\ \A j \in Ciks : edges[e][j] # "confirmed"

\* What unlink requires: no active run of the CIK, and nothing a person confirmed.
MayUnlink(e) ==
  \E k \in Ciks :
    /\ holder[k] = e
    /\ \A kind \in Kinds : RunOf(kind, k) = {}
    /\ \A j \in Ciks : edges[e][j] # "confirmed"

\* The lock and the checks, then the statements that undo the link.
UnlinkCheck(e) ==
  /\ e \notin unlinking /\ MayUnlink(e)
  /\ unlinking' = unlinking \cup {e}
  /\ UNCHANGED <<holder, edges, sections, row, task>>

UnlinkCommit(e) ==
  /\ e \in unlinking
  /\ unlinking' = unlinking \ {e}
  /\ edges' = [edges EXCEPT ![e] = [k \in Ciks |-> "none"]]
  /\ sections' = [sections EXCEPT ![e] = {}]
  /\ holder' = [k \in Ciks |-> IF holder[k] = e THEN Nobody ELSE holder[k]]
  /\ UNCHANGED <<row, task>>

\* A person confirms or rejects a relation; the unlink holds the rows it read.
Decide(e) ==
  /\ e \notin unlinking
  /\ \E k \in Ciks, verdict \in {"confirmed", "none"} :
       /\ edges[e][k] # "none"
       /\ edges' = [edges EXCEPT ![e][k] = verdict]
  /\ UNCHANGED <<holder, unlinking, sections, row, task>>

(********************************* The tasks *********************************)

\* A row that begins, or that ends with `status`.
Started(run) == [run EXCEPT !.status = "running", !.ran = 0]
Finished(run, status) == [run EXCEPT !.status = status, !.age = 0, !.ran = 0]

\* broken variant: a finished row may run again
AllowedAgain(r, status) == status = "running" \/ row[r].ran # Never

\* The CHECKs of the table: a row that finished does not run again (finished_at
\* is set), and one that never began does not finish (started_at is not).
Allowed(r, status) ==
  IF status = "running" THEN ActiveRun(r) ELSE row[r].ran # Never

\* _mark_run: an update a CHECK refuses, or that fails, is logged and forgotten.
Mark(r, status) ==
  \/ /\ row' = IF Allowed(r, status) 
              THEN [row EXCEPT ![r] = IF status = "running" THEN Started(@)
                                      ELSE Finished(@, status)]
              ELSE row
     /\ UNCHANGED mishaps
  \/ row' = row /\ mishaps < MaxMishaps /\ mishaps' = mishaps + 1

\* A read that its ingest queued runs in the ingest's own task.
Begin(r) ==
  /\ Pc(r) = "queued"
  /\ Mark(r, "running")
  /\ task' = [task EXCEPT ![r].pc = "begun"]
  /\ UNCHANGED <<holder, unlinking, edges, sections>>

\* ingest_cik up to its first commit: a posture may deny every observer, a fetch
\* may fail; the entity is inserted unless some entity has the CIK.
Ensure(r) ==
  LET k == row[r].cik IN
  /\ Pc(r) = "begun" /\ row[r].kind = "edgar_ingest"
  /\ \/ /\ holder' = [holder EXCEPT ![k] = IF @ = Nobody THEN k ELSE @]
        /\ task' = [task EXCEPT ![r].pc = "ensured"]
     \/ task' = [task EXCEPT ![r].pc = "worked"] /\ UNCHANGED holder
     \/ task' = [task EXCEPT ![r].pc = "broken"] /\ UNCHANGED holder
  /\ UNCHANGED <<unlinking, edges, sections, row>>

\* ... and the entity it then works for, kept to the end.
Resolve(r) ==
  LET e == holder[row[r].cik] IN
  /\ Pc(r) = "ensured"
  /\ task' = [task EXCEPT ![r] = IF e = Nobody THEN [@ EXCEPT !.pc = "broken"]
                                 ELSE [@ EXCEPT !.pc = "relating", !.entity = e]]
  /\ UNCHANGED <<holder, unlinking, edges, sections, row>>

\* The foreign keys of what it inserts wait for a lock on the entity.
MayWrite(r) == task[r].entity \notin unlinking
Relations(r, ks) ==
  [edges EXCEPT ![task[r].entity] =
     [k \in Ciks |-> IF k \in ks /\ @[k] = "none" THEN "open" ELSE @[k]]]

\* Former names and subsidiaries: what is there already stays as decided.
Relate(r) ==
  /\ Pc(r) = "relating" /\ MayWrite(r)
  /\ edges' \in {edges, Relations(r, {row[r].cik})}
  /\ \E next \in {"storing", "broken"} : task' = [task EXCEPT ![r].pc = next]
  /\ UNCHANGED <<holder, unlinking, sections, row>>

Store(r) ==
  /\ Pc(r) = "storing" /\ MayWrite(r)
  /\ sections' \in {sections, [sections EXCEPT ![task[r].entity] = @ \cup {row[r].cik}]}
  /\ task' = [task EXCEPT ![r].pc = "worked"]
  /\ UNCHANGED <<holder, unlinking, edges, row>>

\* read_acquisitions: the sections stored for the entity now ...
LoadSections(r) ==
  LET e == row[r].chain IN
  /\ Pc(r) = "begun" /\ row[r].kind = "acquisition_read"
  /\ task' = [task EXCEPT ![r] =
       IF sections[e] = {} THEN [@ EXCEPT !.pc = "broken"]
       ELSE [pc |-> "reading", entity |-> e, found |-> sections[e]]]
  /\ UNCHANGED <<holder, unlinking, edges, sections, row>>

\* ... and the deals the model finds in them, or an answer that stops the read.
ReadDeals(r) ==
  /\ Pc(r) = "reading" /\ MayWrite(r)
  /\ edges' \in {edges, Relations(r, task[r].found)}
  /\ \E next \in {"worked", "broken"} : task' = [task EXCEPT ![r].pc = next]
  /\ UNCHANGED <<holder, unlinking, sections, row>>

\* The outcome on the row. The task of a link or a seed goes on.
End(r) ==
  /\ Pc(r) \in {"worked", "broken"}
  /\ Mark(r, IF Pc(r) = "worked" THEN "succeeded" ELSE "failed")
  /\ task' = [task EXCEPT ![r] =
       IF row[r].by \in {"link", "seed"} THEN [NoTask EXCEPT !.pc = "chaining"] ELSE NoTask]
  /\ UNCHANGED <<holder, unlinking, edges, sections>>

\* followup_read's still_valid, under the entity's lock.
StillHolds(r) == holder[row[r].cik] = row[r].chain

\* _run_ingest_then_read: queue the read if the ingest's row says succeeded, the
\* entity still has the CIK and there is something to read, or give it up. Other
\* reasons not to read (the posture, the language model's setup) may come up.
FollowUp(r) ==
  LET e == row[r].chain IN
  /\ Pc(r) = "chaining"
  /\ \/ /\ row[r].status = "succeeded" /\ e \notin unlinking
        /\ StillHolds(r) /\ sections[e] # {}
        /\ \E s \in IngestRunIds :
             /\ Queue(s, "acquisition_read", row[r].cik, "followup", e)
             /\ task' = [task EXCEPT ![r] = NoTask, ![s].pc = "queued"]
     \/ task' = [task EXCEPT ![r] = NoTask] /\ UNCHANGED row
  /\ UNCHANGED <<holder, unlinking, edges, sections>>

(************************** Process, clock and reaper ************************)

IngestCrash ==
  /\ mishaps < MaxMishaps /\ mishaps' = mishaps + 1
  /\ task' = [r \in IngestRunIds |-> NoTask]
  /\ unlinking' = {}
  /\ swept' = FALSE /\ due' = TRUE
  /\ UNCHANGED <<holder, edges, sections, row>>

\* broken variant: queued rows do not grow old
StaleIfRunning(r) == row[r].status = "running" /\ row[r].ran > RunningTimeout

Stale(r) ==
  \/ row[r].status = "running" /\ row[r].ran > RunningTimeout
  \/ row[r].status = "queued" /\ row[r].age > QueuedTimeout

\* _run_run_reaper: the first sweep of the process takes every unfinished row,
\* a later one the stale. The flag is set before the sweep, which may fail.
ReapIngests ==
  /\ due /\ due' = FALSE /\ swept' = TRUE
  /\ \/ /\ row' = [r \in IngestRunIds |->
                    IF ActiveRun(r) /\ (~swept \/ Stale(r))
                    THEN Finished(row[r], "failed") ELSE row[r]]
        /\ UNCHANGED mishaps
     \/ row' = row /\ mishaps < MaxMishaps /\ mishaps' = mishaps + 1
  /\ UNCHANGED <<holder, unlinking, edges, sections, task>>

\* An hour passes; the job of the last one has run.
Hour ==
  /\ ~due /\ due' = TRUE
  /\ \A r \in IngestRunIds : row[r].age < MaxAge
  /\ row' = [r \in IngestRunIds |->
       IF ~ActiveRun(r) THEN row[r]
       ELSE [row[r] EXCEPT !.age = @ + 1, !.ran = IF @ = Never THEN @ ELSE @ + 1]]
  /\ UNCHANGED <<holder, unlinking, edges, sections, task, swept, mishaps>>

Requests(r) ==
  \/ \E k \in Ciks : RequestIngest(r, k) \/ Seed(r, k) \/ \E e \in Companies : Link(r, e, k)
  \/ \E e \in OrgEntities : RequestRead(r, e)
Work(r) ==
  \/ Ensure(r) \/ Resolve(r) \/ Relate(r) \/ Store(r)
  \/ LoadSections(r) \/ ReadDeals(r) \/ FollowUp(r)
Persons == \E e \in Companies : UnlinkCheck(e) \/ UnlinkCommit(e) \/ Decide(e)

IngestNext ==
  \/ Persons /\ UNCHANGED <<swept, due, mishaps>>
  \/ \E r \in IngestRunIds : (Requests(r) \/ Work(r)) /\ UNCHANGED <<swept, due, mishaps>>
  \/ \E r \in IngestRunIds : (Begin(r) \/ End(r)) /\ UNCHANGED <<swept, due>>
  \/ IngestCrash \/ ReapIngests \/ Hour

IngestSpec == IngestInit /\ [][IngestNext]_ingestVars

(******************************** Properties *********************************)

\* Types; the unique index over unfinished runs; the table's CHECKs.
IngestTypeOK ==
  /\ holder \in [Ciks -> OrgEntities \cup {Nobody}]
  /\ unlinking \subseteq Companies
  /\ edges \in [OrgEntities -> [Ciks -> {"none", "open", "confirmed"}]]
  /\ sections \in [OrgEntities -> SUBSET Ciks]
  /\ swept \in BOOLEAN /\ due \in BOOLEAN
  /\ mishaps \in 0..MaxMishaps
  /\ \A r \in IngestRunIds :
       /\ row[r].status \in Statuses /\ row[r].kind \in Kinds
       /\ row[r].status = "unused" \/ (row[r].status = "queued") = (row[r].ran = Never)
       /\ task[r].pc # "none" => row[r].status # "unused"
       /\ ActiveRun(r) => RunOf(row[r].kind, row[r].cik) = {r}

Working(r) == Pc(r) \notin {"none", "chaining"}

\* Two tasks of one kind are at work on one CIK only after the reaper gave one
\* of them up: "Two concurrent ingests of one filer would race each other's
\* upserts" (alembic/versions/0065_entity_ingest_runs.py).
OneWriter ==
  \A r, s \in IngestRunIds :
    r # s /\ Working(r) /\ Working(s) /\ row[r].kind = row[s].kind /\ row[r].cik = row[s].cik
      => "failed" \in {row[r].status, row[s].status}

\* What a link started writes only to the company it linked, and only while the
\* company has that CIK: no unlink falls between a link's ingest and its read.
ChainedStaysHome ==
  \A r \in IngestRunIds :
    /\ row[r].by \in {"link", "followup"}
    /\ Pc(r) \in {"relating", "storing", "reading"}
    /\ row[r].status # "failed"
    => task[r].entity = row[r].chain /\ holder[row[r].cik] = row[r].chain

\* A crash, a lost status write or a failed sweep blocks a CIK for a bounded time:
\* every unfinished row is failed within both timeouts, two hours of the hourly
\* job, and an hour for each sweep that failed.
CikFreed ==
  \A r \in IngestRunIds :
    ActiveRun(r) => row[r].age <= QueuedTimeout + RunningTimeout + 2 + mishaps

\* What the table and the tasks are to RunLifecycle: the reaper writes what it
\* decides, and a task that only may queue a read has done with its row.
StateOf(r) ==
  CASE row[r].status = "unused" -> "none"
    [] row[r].status = "queued" -> "waiting"
    [] OTHER -> row[r].status
Life == INSTANCE RunLifecycle WITH
          Runs <- IngestRunIds,
          Reruns <- FALSE,
          state <- [r \in IngestRunIds |-> StateOf(r)],
          live <- {r \in IngestRunIds : Working(r)},
          owed <- [r \in IngestRunIds |-> {}]
\* IngestRuns implements RunLifecycle, and no finished row is written RUNNING
\* again: the CHECKs of the table see to it (0065_entity_ingest_runs.py).
KeepsRunLifecycle == Life!LifeSpec
=============================================================================
