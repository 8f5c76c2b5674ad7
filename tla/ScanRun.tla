------------------------------- MODULE ScanRun -------------------------------
(***************************************************************************)
(* The life of a scan_runs row.  A request or the scheduler makes the row, *)
(* an executor thread of the backend runs its chunks and writes its status *)
(* (scan_executor.py), a person cancels or deletes it (api/scans.py), the  *)
(* reaper fails what looks stranded (run_reaper.py), a restart takes every *)
(* thread with it.  Nobody locks the row: each writer loads it, decides    *)
(* and writes, and the executor writes without looking.  A verification    *)
(* run ends with a verdict on a finding (api/findings.py).  The clock      *)
(* counts hours: the reaper's first pass is 15 s after the boot, so no     *)
(* hour passes before it.                                                  *)
(***************************************************************************)
EXTENDS Integers, FiniteSets

CONSTANTS
  Runs,            \* ids of scan runs
  KindOf,          \* "scan", "verify" (one finding to look for) or "sync"
  ChunksOf,        \* how many chunks the scope of each makes
  RunningTimeout,  \* RUNNING_TIMEOUT
  PendingTimeout,  \* PENDING_TIMEOUT
  LaunchHorizon,   \* bound: no run is made or begun after this time
  MaxClock,        \* bound: the clock stops here
  MaxFaults        \* bound: failed calls, dead threads, restarts

ASSUME RunsAssumption ==
  /\ KindOf \in [Runs -> {"scan", "verify", "sync"}]
  /\ ChunksOf \in [Runs -> Nat]
ASSUME ClockAssumption ==
  /\ RunningTimeout \in Nat
  /\ PendingTimeout \in Nat
  /\ LaunchHorizon \in Nat
  /\ MaxClock \in Nat
  /\ MaxFaults \in Nat

VARIABLES
  now,      \* hours
  boot,     \* when this process started
  status,   \* scan_runs.status
  created,  \* scan_runs.created_at
  started,  \* scan_runs.started_at
  exec,     \* where each run's executor thread is
  done,     \* chunks the executor went through
  api,      \* a cancel or delete between its check and its commit
  pass,     \* the pass the reaper is in, between a query and its commit
  todo,     \* the rows that query found
  swept,    \* _reaper_started
  finding,  \* state of the finding a verification run is about
  seen,     \* runs that observed that finding again
  cancels,  \* history: runs whose cancel was accepted before they ended
  adrift,   \* history: unfinished rows that only their age will end
  faults    \* history: faults so far

vars == <<now, boot, status, created, started, exec, done, api, pass, todo,
          swept, finding, seen, cancels, adrift, faults>>
clockVars == <<now, boot>>
dateVars == <<created, started>>
rowVars == <<status, dateVars>>
reapVars == <<pass, todo, swept>>
findingVars == <<finding, seen>>
historyVars == <<cancels, adrift>>

Statuses == {"none", "pending", "running", "completed", "failed", "cancelled",
             "deleted"}
Unfinished == {"pending", "running"}
\* queued: handed to a background task; chunk: about to check for a cancel;
\* work: in the pipeline; complete: in the post-scan steps; fail: in _fail;
\* returned: launch has returned to the verification task
ExecPoints == {"none", "queued", "chunk", "work", "complete", "fail", "sync",
               "returned"}
Passes == {"idle", "startup", "running", "pending"}

TypeOK ==
  /\ now \in Nat /\ boot \in Nat
  /\ status \in [Runs -> Statuses]
  /\ created \in [Runs -> Nat]
  /\ started \in [Runs -> Nat]
  /\ exec \in [Runs -> ExecPoints]
  /\ done \in [Runs -> Nat]
  /\ api \in [Runs -> {"idle", "cancel", "delete"}]
  /\ pass \in Passes
  /\ todo \subseteq Runs
  /\ swept \in BOOLEAN
  /\ finding \in [Runs -> {"open", "resolved"}]
  /\ seen \subseteq Runs
  /\ cancels \subseteq Runs
  /\ adrift \subseteq Runs
  /\ faults \in 0..MaxFaults

Init ==
  /\ now = 0 /\ boot = 0
  /\ status = [r \in Runs |-> "none"]
  /\ created = [r \in Runs |-> 0]
  /\ started = [r \in Runs |-> 0]
  /\ exec = [r \in Runs |-> "none"]
  /\ done = [r \in Runs |-> 0]
  /\ api = [r \in Runs |-> "idle"]
  /\ pass = "idle" /\ todo = {}
  /\ swept = FALSE
  /\ finding = [r \in Runs |-> "open"]
  /\ seen = {} /\ cancels = {} /\ adrift = {}
  /\ faults = 0

Fault == faults < MaxFaults /\ faults' = faults + 1

IsUnfinished(r) == status[r] \in Unfinished
Gone(r) == status[r] = "deleted"
\* a thread of this process is, or will be, writing the row
Alive(r) == exec[r] \notin {"none", "returned"}

Advance ==
  /\ now < MaxClock
  /\ swept
  /\ now' = now + 1
  /\ UNCHANGED <<boot, rowVars, exec, done, api, reapVars, findingVars,
                 historyVars, faults>>

-----------------------------------------------------------------------------
(* Making a run.                                                           *)

Mark(r, s) == status' = [status EXCEPT ![r] = s]
Start(r) == started' = [started EXCEPT ![r] = now]
Make(r, s) == Mark(r, s) /\ created' = [created EXCEPT ![r] = now] /\ Start(r)

\* db.commit(); background_tasks.add_task(launch), or the scheduler's thread
Create(r) ==
  /\ status[r] = "none"
  /\ KindOf[r] # "sync"
  /\ now <= LaunchHorizon
  /\ Make(r, "pending")
  /\ exec' = [exec EXCEPT ![r] = "queued"]
  /\ UNCHANGED <<clockVars, done, api, reapVars, findingVars, historyVars,
                 faults>>

\* the connector sync makes its own row and runs it
StartSync(r) ==
  /\ status[r] = "none"
  /\ KindOf[r] = "sync"
  /\ now <= LaunchHorizon
  /\ Make(r, "running")
  /\ exec' = [exec EXCEPT ![r] = "sync"]
  /\ UNCHANGED <<clockVars, done, api, reapVars, findingVars, historyVars,
                 faults>>

-----------------------------------------------------------------------------
(* The executor thread.                                                    *)

\* where launch returns to: the verification task, or nobody
Return(r) ==
  exec' = [exec EXCEPT ![r] =
             IF KindOf[r] = "verify" THEN "returned" ELSE "none"]

NextChunk(r, n) == IF n < ChunksOf[r] THEN "chunk" ELSE "complete"

\* _run: RUNNING whatever the status has become; nothing if the row is gone
Begin(r) ==
  /\ exec[r] = "queued"
  /\ \/ Gone(r) /\ Return(r) /\ UNCHANGED rowVars
     \/ /\ ~Gone(r)
        /\ now <= LaunchHorizon
        /\ Mark(r, "running") /\ Start(r) /\ created' = created
        /\ exec' = [exec EXCEPT ![r] = NextChunk(r, 0)]
  /\ UNCHANGED <<clockVars, done, api, reapVars, findingVars, historyVars,
                 faults>>

\* the check between chunks; a refresh of a deleted row raises
CheckCancel(r) ==
  /\ exec[r] = "chunk"
  /\ \/ status[r] = "cancelled" /\ Return(r)
     \/ Gone(r) /\ exec' = [exec EXCEPT ![r] = "fail"]
     \/ /\ status[r] \notin {"cancelled", "deleted"}
        /\ exec' = [exec EXCEPT ![r] = "work"]
  /\ UNCHANGED <<clockVars, rowVars, done, api, reapVars, findingVars,
                 historyVars, faults>>

\* one chunk of the pipeline, and what a chunk that raises leaves: a line in
\* partial_failures, or another exception when the row is gone
RunChunk(r) ==
  /\ exec[r] = "work"
  /\ \E bad \in BOOLEAN, observed \in SUBSET ({r} \ seen) :
       /\ seen' = seen \union observed
       /\ exec' = [exec EXCEPT ![r] =
                     IF bad /\ Gone(r) THEN "fail"
                     ELSE NextChunk(r, done[r] + 1)]
  /\ done' = [done EXCEPT ![r] = @ + 1]
  /\ UNCHANGED <<clockVars, rowVars, api, reapVars, finding, cancels, adrift,
                 faults>>

\* COMPLETED whatever the status has become; the update of a deleted row raises
Complete(r) ==
  /\ exec[r] = "complete"
  /\ \/ Gone(r) /\ exec' = [exec EXCEPT ![r] = "fail"] /\ status' = status
     \/ /\ ~Gone(r)
        /\ Mark(r, "completed")
        /\ Return(r)
  /\ UNCHANGED <<clockVars, dateVars, done, api, reapVars, findingVars,
                 historyVars, faults>>

\* a statement outside the guarded steps raises
ExecRaises(r) ==
  /\ exec[r] \in {"queued", "chunk", "work", "complete"}
  /\ Fault
  /\ exec' = [exec EXCEPT ![r] = "fail"]
  /\ UNCHANGED <<clockVars, rowVars, done, api, reapVars, findingVars,
                 historyVars>>

\* launch's handler: _fail, then a return like any other
Fail(r) ==
  /\ exec[r] = "fail"
  /\ IF Gone(r) THEN status' = status ELSE Mark(r, "failed")
  /\ Return(r)
  /\ UNCHANGED <<clockVars, dateVars, done, api, reapVars, findingVars,
                 historyVars, faults>>

\* broken variant: a status outside ScanStatus
SyncOutcomesOffEnum == {"completed", "error"}
SyncOutcomes == {"completed", "failed"}

\* the sync task's end: COMPLETED, or FAILED when something raised
EndSync(r) ==
  /\ exec[r] = "sync"
  /\ \/ Gone(r) /\ status' = status
     \/ ~Gone(r) /\ \E s \in SyncOutcomes : Mark(r, s)
  /\ exec' = [exec EXCEPT ![r] = "none"]
  /\ UNCHANGED <<clockVars, dateVars, done, api, reapVars, findingVars,
                 historyVars, faults>>

\* the thread dies without reaching a handler, or its handler fails
ExecDies(r) ==
  /\ Alive(r)
  /\ Fault
  /\ exec' = [exec EXCEPT ![r] = "none"]
  /\ adrift' = adrift \union {r}
  /\ UNCHANGED <<clockVars, rowVars, done, api, reapVars, findingVars, cancels>>

\* _verify_and_resolve after launch: only a run that says COMPLETED counts
\* broken variant: only FAILED counts as no verification
VerifiedUnlessFailed(verdict) == verdict # "failed"
VerifiedBy(verdict) == verdict = "completed"
Verify(r) ==
  /\ exec[r] = "returned"
  /\ finding' = IF VerifiedBy(status[r]) /\ r \notin seen
                THEN [finding EXCEPT ![r] = "resolved"] ELSE finding
  /\ exec' = [exec EXCEPT ![r] = "none"]
  /\ UNCHANGED <<clockVars, rowVars, done, api, reapVars, seen, historyVars,
                 faults>>

Execute(r) ==
  \/ Begin(r) \/ CheckCancel(r) \/ RunChunk(r) \/ Complete(r) \/ ExecRaises(r)
  \/ Fail(r) \/ EndSync(r) \/ ExecDies(r) \/ Verify(r)

-----------------------------------------------------------------------------
(* People: each call checks the status, then commits.                      *)

Answer(r) == api' = [api EXCEPT ![r] = "idle"]

CancelCheck(r) ==
  /\ api[r] = "idle"
  /\ IsUnfinished(r)
  /\ api' = [api EXCEPT ![r] = "cancel"]
  /\ UNCHANGED <<clockVars, rowVars, exec, done, reapVars, findingVars,
                 historyVars, faults>>

CancelCommit(r) ==
  /\ api[r] = "cancel"
  /\ IF Gone(r) THEN status' = status ELSE Mark(r, "cancelled")
  /\ cancels' = IF IsUnfinished(r) THEN cancels \union {r} ELSE cancels
  /\ Answer(r)
  /\ UNCHANGED <<clockVars, dateVars, exec, done, reapVars, findingVars, adrift,
                 faults>>

\* only a RUNNING run is refused; a PENDING one may be about to run
DeleteCheck(r) ==
  /\ api[r] = "idle"
  /\ status[r] \notin {"none", "running", "deleted"}
  /\ api' = [api EXCEPT ![r] = "delete"]
  /\ UNCHANGED <<clockVars, rowVars, exec, done, reapVars, findingVars,
                 historyVars, faults>>

DeleteCommit(r) ==
  /\ api[r] = "delete"
  /\ Mark(r, "deleted")
  /\ Answer(r)
  /\ UNCHANGED <<clockVars, dateVars, exec, done, reapVars, findingVars,
                 historyVars, faults>>

People(r) ==
  CancelCheck(r) \/ CancelCommit(r) \/ DeleteCheck(r) \/ DeleteCommit(r)

-----------------------------------------------------------------------------
(* The reaper, hourly, one pass at a time.                                 *)

\* broken variant: the sweep goes by age and not by status
StaleStarted ==
  {r \in Runs : status[r] \notin {"none", "deleted"} /\ now - started[r] > RunningTimeout}
StaleRunning ==
  {r \in Runs : /\ status[r] = "running"
                /\ now - started[r] > RunningTimeout}
\* broken variant: a pending row is never too old
StalePendingNever == {}
StalePending ==
  {r \in Runs : /\ status[r] = "pending"
                /\ now - created[r] > PendingTimeout}

\* the flag is set before the sweep, so a failed sweep is not tried again
\* broken variant: every pass sweeps like the first
SweepEveryTime == TRUE
SweepDue == ~swept

\* broken variant: at boot only RUNNING rows count as stranded
RunningAtBoot == {r \in Runs : status[r] = "running"}
StrandedAtBoot == {r \in Runs : IsUnfinished(r)}

ReapRead ==
  /\ pass = "idle"
  /\ swept' = TRUE
  /\ IF SweepDue THEN pass' = "startup" /\ todo' = StrandedAtBoot
     ELSE pass' = "running" /\ todo' = StaleRunning
  /\ UNCHANGED <<clockVars, rowVars, exec, done, api, findingVars, historyVars,
                 faults>>

Rest == pass' = "idle" /\ todo' = {}

\* _reap: FAILED whatever the rows have become since they were read; reap_stale
\* reads the pending rows after it has committed the running ones
ReapCommit ==
  /\ pass # "idle"
  /\ \A r \in todo : ~Gone(r)
  /\ status' = [r \in Runs |-> IF r \in todo THEN "failed" ELSE status[r]]
  /\ IF pass = "running" THEN pass' = "pending" /\ todo' = StalePending
     ELSE Rest
  /\ UNCHANGED <<clockVars, dateVars, exec, done, api, swept, findingVars,
                 historyVars, faults>>

\* what a failed pass leaves to reap_stale
Orphans == {r \in Runs : IsUnfinished(r) /\ ~Alive(r)}

\* a query or the commit fails, or a row of the pass is gone: the pass ends
ReapFails ==
  /\ pass # "idle"
  /\ \/ (\E r \in todo : Gone(r)) /\ faults' = faults
     \/ Fault
  /\ Rest
  /\ adrift' = adrift \union Orphans
  /\ UNCHANGED <<clockVars, rowVars, exec, done, api, swept, findingVars,
                 cancels>>

Reap == ReapRead \/ ReapCommit \/ ReapFails

-----------------------------------------------------------------------------
(* The process dies and comes back: no thread of it is left.               *)
Restart ==
  /\ Fault
  /\ boot' = now
  /\ exec' = [r \in Runs |-> "none"]
  /\ api' = [r \in Runs |-> "idle"]
  /\ Rest
  /\ swept' = FALSE
  /\ adrift' = {}
  /\ UNCHANGED <<now, rowVars, done, findingVars, cancels>>

Next ==
  \/ Advance
  \/ \E r \in Runs : Create(r) \/ StartSync(r) \/ Execute(r) \/ People(r)
  \/ Reap
  \/ Restart

Spec == Init /\ [][Next]_vars

\* The scheduler fires the reaper every hour and the clock goes on. No thread
\* that executes a run, and no person, promises anything.
LiveSpec == Spec /\ WF_vars(Advance) /\ WF_vars(Reap)

-----------------------------------------------------------------------------
(* What the design promises.                                               *)

\* After the first pass of the reaper, an unfinished row has a living executor
\* or is one that reap_stale will end by its age (reap_at_startup's rule 1).
NoOrphanAfterSweep ==
  swept /\ pass # "startup" =>
    \A r \in Runs : IsUnfinished(r) => Alive(r) \/ r \in adrift

\* A verification resolves its finding only after its run went through every
\* chunk without seeing the finding (_verify_and_resolve).
ResolvedAfterEveryChunk ==
  \A r \in Runs :
    finding[r] = "resolved" => done[r] = ChunksOf[r] /\ r \notin seen

\* The reaper fails a run whose executor lives only if the run is as old as
\* the process or older than its timeout (reap_stale's rule 2).
ReaperSparesYoung ==
  [][\A r \in Runs :
       pass # "idle" /\ ReapCommit /\ r \in todo /\ Alive(r) =>
         \/ created[r] <= boot
         \/ now - created[r] > PendingTimeout
         \/ now - created[r] > RunningTimeout]_vars

\* No run stays unfinished for ever, whatever thread dies and however often
\* the process restarts (run_reaper.py).
RunEnds == \A r \in Runs : IsUnfinished(r) ~> ~IsUnfinished(r)

\* What the table and the threads are to RunLifecycle: api and todo hold the
\* decisions that people and the reaper have still to commit.
StateOf(r) ==
  CASE status[r] = "pending"   -> "waiting"
    [] status[r] = "completed" -> "succeeded"
    [] status[r] = "deleted"   -> "gone"
    [] OTHER -> status[r]
OwedTo(r) ==
  {s \in {"cancelled"} : api[r] = "cancel"} \cup {s \in {"gone"} : api[r] = "delete"}
  \cup {s \in {"failed"} : r \in todo}
Life == INSTANCE RunLifecycle WITH
          Reruns <- TRUE,
          state <- [r \in Runs |-> StateOf(r)],
          live <- {r \in Runs : Alive(r)},
          owed <- [r \in Runs |-> OwedTo(r)]
\* ScanRun implements RunLifecycle; a finished row is written RUNNING again if
\* its executor begins after a cancel or a reap (scan_executor.py, _run).
KeepsRunLifecycle == Life!LifeSpec

\* A cancelled verification resolves nothing (test_verify_failed_scan.py:153).
CancelledNeverResolves ==
  \A r \in cancels : finding[r] # "resolved"
=============================================================================
