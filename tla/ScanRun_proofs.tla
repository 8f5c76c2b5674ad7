---------------------------- MODULE ScanRun_proofs ----------------------------
(***************************************************************************)
(* Proofs about ScanRun, for every set of runs, however their scopes are   *)
(* chunked and whatever the reaper's timeouts are.                         *)
(***************************************************************************)
EXTENDS ScanRun, TLAPS

\* Every variable keeps its type.
THEOREM Typing == Spec => []TypeOK
<1> USE RunsAssumption, ClockAssumption
<1>1. ASSUME Init PROVE TypeOK
  <2>1. /\ now \in Nat /\ boot \in Nat
        /\ pass \in Passes /\ todo \subseteq Runs
        /\ seen \subseteq Runs /\ cancels \subseteq Runs
        /\ adrift \subseteq Runs
        /\ faults \in 0..MaxFaults
    BY <1>1 DEF Init, Passes
  <2>2. /\ status \in [Runs -> Statuses]
        /\ exec \in [Runs -> ExecPoints]
        /\ api \in [Runs -> {"idle", "cancel", "delete"}]
        /\ finding \in [Runs -> {"open", "resolved"}]
    BY <1>1 DEF Init, Statuses, ExecPoints
  <2>3. /\ created \in [Runs -> Nat]
        /\ started \in [Runs -> Nat]
        /\ done \in [Runs -> Nat]
    BY <1>1 DEF Init
  <2>4. swept \in BOOLEAN
    BY <1>1 DEF Init
  <2> QED
    BY <2>1, <2>2, <2>3, <2>4 DEF TypeOK
<1>2. TypeOK /\ [Next]_vars => TypeOK'
  <2> SUFFICES ASSUME TypeOK, [Next]_vars PROVE TypeOK'
    OBVIOUS
  <2> USE DEF TypeOK, Statuses, ExecPoints, Passes, Unfinished
  <2> USE DEF clockVars, rowVars, dateVars, reapVars, findingVars, historyVars
  <2> USE DEF Mark, Start, Make, Rest
  <2>1. CASE Advance
    BY <2>1 DEF Advance
  <2>2. ASSUME NEW r \in Runs, Create(r) \/ StartSync(r) PROVE TypeOK'
    BY <2>2 DEF Create, StartSync
  <2>3. ASSUME NEW r \in Runs, Execute(r) PROVE TypeOK'
    <3>1. CASE Begin(r)
      BY <3>1 DEF Begin, Return, NextChunk
    <3>2. CASE CheckCancel(r)
      BY <3>2 DEF CheckCancel, Return
    <3>3. CASE RunChunk(r)
      BY <3>3 DEF RunChunk, NextChunk
    <3>4. CASE Complete(r)
      BY <3>4 DEF Complete, Return
    <3>5. CASE ExecRaises(r) \/ ExecDies(r)
      BY <3>5 DEF ExecRaises, ExecDies, Fault
    <3>6. CASE Fail(r)
      BY <3>6 DEF Fail, Return
    <3>7. CASE EndSync(r)
      BY <3>7 DEF EndSync, SyncOutcomes
    <3>8. CASE Verify(r)
      BY <3>8 DEF Verify
    <3> QED
      BY <2>3, <3>1, <3>2, <3>3, <3>4, <3>5, <3>6, <3>7, <3>8 DEF Execute
  <2>4. ASSUME NEW r \in Runs, People(r) PROVE TypeOK'
    BY <2>4 DEF People, CancelCheck, CancelCommit, DeleteCheck, DeleteCommit,
       Answer
  <2>5. CASE Reap
    <3>1. CASE ReapRead
      BY <3>1 DEF ReapRead, SweepDue, StrandedAtBoot, StaleRunning
    <3>2. CASE ReapCommit
      BY <3>2 DEF ReapCommit, StalePending
    <3>3. CASE ReapFails
      BY <3>3 DEF ReapFails, Fault, Orphans
    <3> QED
      BY <2>5, <3>1, <3>2, <3>3 DEF Reap
  <2>6. CASE Restart
    <3>1. /\ exec' \in [Runs -> ExecPoints]
          /\ api' \in [Runs -> {"idle", "cancel", "delete"}]
      BY <2>6 DEF Restart
    <3>2. swept' \in BOOLEAN
      BY <2>6 DEF Restart
    <3>3. /\ todo' \subseteq Runs /\ adrift' \subseteq Runs
          /\ faults' \in 0..MaxFaults
      BY <2>6 DEF Restart, Fault
    <3> QED
      BY <2>6, <3>1, <3>2, <3>3 DEF Restart
  <2>7. CASE UNCHANGED vars
    BY <2>7 DEF vars
  <2> QED
    BY <2>1, <2>2, <2>3, <2>4, <2>5, <2>6, <2>7 DEF Next
<1> QED
  BY <1>1, <1>2, PTL DEF Spec

-----------------------------------------------------------------------------
(* No orphan after the sweep.                                              *)

\* While the startup sweep is between its query and its commit, every orphan
\* is one it has read, or has been lost since.
SweepHoldsOrphans ==
  pass = "startup" => Orphans \subseteq todo \union adrift
OrphanInv == NoOrphanAfterSweep /\ SweepHoldsOrphans

\* A step that leaves the reaper alone makes no orphan it does not record.
LEMMA NoNewOrphan ==
  ASSUME TypeOK, OrphanInv, pass' = pass, todo' = todo, swept' = swept,
         Orphans' \subseteq Orphans \union adrift',
         adrift \subseteq adrift'
  PROVE  OrphanInv'
  BY DEF OrphanInv, NoOrphanAfterSweep, SweepHoldsOrphans, Orphans

\* Once the reaper's first pass is over, an unfinished row has a living
\* executor or awaits its age.
THEOREM NoOrphan == Spec => []NoOrphanAfterSweep
<1>1. Init => OrphanInv
  BY DEF Init, OrphanInv, NoOrphanAfterSweep, SweepHoldsOrphans
<1>2. TypeOK /\ OrphanInv /\ [Next]_vars => OrphanInv'
  <2> SUFFICES ASSUME TypeOK, OrphanInv, [Next]_vars PROVE OrphanInv'
    OBVIOUS
  <2> USE DEF clockVars, rowVars, dateVars, reapVars, findingVars, historyVars
  <2> USE DEF Mark, Start, Make, Rest
  <2> USE DEF TypeOK, Orphans, IsUnfinished, Unfinished, Alive
  <2>1. CASE Advance \/ UNCHANGED vars
    BY <2>1, NoNewOrphan DEF Advance, vars
  <2>2. ASSUME NEW r \in Runs, Create(r) \/ StartSync(r) PROVE OrphanInv'
    BY <2>2, NoNewOrphan DEF Create, StartSync
  <2>3. ASSUME NEW r \in Runs, Execute(r) PROVE OrphanInv'
    <3>1. CASE Begin(r)
      BY <3>1, NoNewOrphan DEF Begin, Return, NextChunk, Gone
    <3>2. CASE CheckCancel(r)
      BY <3>2, NoNewOrphan DEF CheckCancel, Return
    <3>3. CASE RunChunk(r)
      BY <3>3, NoNewOrphan DEF RunChunk, NextChunk
    <3>4. CASE Complete(r)
      BY <3>4, NoNewOrphan DEF Complete, Return
    <3>5. CASE ExecRaises(r)
      BY <3>5, NoNewOrphan DEF ExecRaises
    <3>6. CASE Fail(r)
      BY <3>6, NoNewOrphan DEF Fail, Return, Gone
    <3>7. CASE EndSync(r)
      BY <3>7, NoNewOrphan DEF EndSync, SyncOutcomes, Gone
    <3>8. CASE ExecDies(r)
      BY <3>8, NoNewOrphan DEF ExecDies
    <3>9. CASE Verify(r)
      BY <3>9, NoNewOrphan DEF Verify
    <3> QED
      BY <2>3, <3>1, <3>2, <3>3, <3>4, <3>5, <3>6, <3>7, <3>8, <3>9 DEF Execute
  <2>4. ASSUME NEW r \in Runs, People(r) PROVE OrphanInv'
    BY <2>4, NoNewOrphan DEF People, CancelCheck, CancelCommit, DeleteCheck,
       DeleteCommit
  <2>5. CASE Reap
    <3> USE DEF OrphanInv, NoOrphanAfterSweep, SweepHoldsOrphans
    <3>1. CASE ReapRead
      BY <3>1 DEF ReapRead, SweepDue, StrandedAtBoot
    <3>2. CASE ReapCommit
      BY <3>2 DEF ReapCommit
    <3>3. CASE ReapFails
      BY <3>3 DEF ReapFails
    <3> QED
      BY <2>5, <3>1, <3>2, <3>3 DEF Reap
  <2>6. CASE Restart
    BY <2>6 DEF Restart, OrphanInv, NoOrphanAfterSweep, SweepHoldsOrphans
  <2> QED
    BY <2>1, <2>2, <2>3, <2>4, <2>5, <2>6 DEF Next
<1>3. OrphanInv => NoOrphanAfterSweep
  BY DEF OrphanInv
<1> QED
  BY Typing, <1>1, <1>2, <1>3, PTL DEF Spec

-----------------------------------------------------------------------------
(* What a verification may conclude.                                       *)

\* How far the executor is, by where it stands.
Progress(r) ==
  /\ exec[r] = "queued" => done[r] = 0
  /\ exec[r] \in {"chunk", "work"} => done[r] < ChunksOf[r]
  /\ exec[r] = "complete" => done[r] = ChunksOf[r]
  /\ exec[r] = "sync" => KindOf[r] # "verify"
\* A row not made yet has left no trace.
Unmade(r) ==
  status[r] = "none" =>
    exec[r] = "none" /\ done[r] = 0 /\ finding[r] = "open"
\* Only an executor that reached its end writes COMPLETED.
Completion(r) ==
  KindOf[r] = "verify" /\ status[r] = "completed" => done[r] = ChunksOf[r]
\* A verdict is the last thing a run does.
Resolution(r) ==
  finding[r] = "resolved" =>
    exec[r] = "none" /\ done[r] = ChunksOf[r] /\ r \notin seen
\* Only a verification has a task to return to.
Returning(r) == exec[r] = "returned" => KindOf[r] = "verify"
ChunkInv ==
  \A r \in Runs : /\ Progress(r) /\ Unmade(r) /\ Completion(r)
                  /\ Resolution(r) /\ Returning(r)

\* Where an executor stands says how far its run came.
LEMMA ChunkInvAlways == Spec => []ChunkInv
<1> USE RunsAssumption
<1> USE DEF Progress, Unmade, Completion, Resolution, Returning
<1>1. Init => ChunkInv
  BY DEF Init, ChunkInv
<1>2. TypeOK /\ ChunkInv /\ [Next]_vars => ChunkInv'
  <2> SUFFICES ASSUME TypeOK, ChunkInv, [Next]_vars PROVE ChunkInv'
    OBVIOUS
  <2> USE DEF ChunkInv, TypeOK, Mark, Start, Make
  <2> USE DEF clockVars, rowVars, dateVars, reapVars, findingVars, historyVars
  <2>1. CASE Advance \/ UNCHANGED vars
    BY <2>1 DEF Advance, vars
  <2>2. ASSUME NEW r \in Runs, Create(r) \/ StartSync(r) PROVE ChunkInv'
    BY <2>2 DEF Create, StartSync
  <2>3. ASSUME NEW r \in Runs, Execute(r) PROVE ChunkInv'
    <3>1. CASE Begin(r)
      BY <3>1 DEF Begin, Return, NextChunk, Gone
    <3>2. CASE CheckCancel(r)
      BY <3>2 DEF CheckCancel, Return
    <3>3. CASE RunChunk(r)
      BY <3>3 DEF RunChunk, NextChunk
    <3>4. CASE Complete(r)
      BY <3>4 DEF Complete, Return
    <3>5. CASE ExecRaises(r) \/ ExecDies(r)
      BY <3>5 DEF ExecRaises, ExecDies, Alive
    <3>6. CASE Fail(r)
      BY <3>6 DEF Fail, Return
    <3>7. CASE EndSync(r)
      BY <3>7 DEF EndSync, SyncOutcomes
    <3>8. CASE Verify(r)
      BY <3>8 DEF Verify, VerifiedBy
    <3> QED
      BY <2>3, <3>1, <3>2, <3>3, <3>4, <3>5, <3>6, <3>7, <3>8 DEF Execute
  <2>4. ASSUME NEW r \in Runs, People(r) PROVE ChunkInv'
    BY <2>4 DEF People, CancelCheck, CancelCommit, DeleteCheck, DeleteCommit
  <2>5. CASE Reap
    BY <2>5 DEF Reap, ReapRead, ReapCommit, ReapFails
  <2>6. CASE Restart
    BY <2>6 DEF Restart
  <2> QED
    BY <2>1, <2>2, <2>3, <2>4, <2>5, <2>6 DEF Next
<1> QED
  BY Typing, <1>1, <1>2, PTL DEF Spec

\* A verification resolves its finding only after every chunk of its run.
THEOREM Resolving == Spec => []ResolvedAfterEveryChunk
<1>1. ChunkInv => ResolvedAfterEveryChunk
  BY DEF ChunkInv, Resolution, ResolvedAfterEveryChunk
<1> QED
  BY ChunkInvAlways, <1>1, PTL

-----------------------------------------------------------------------------
(* Whom the reaper may fail.                                               *)

\* No hour passes before the first pass of a process.
BootTime == boot <= now /\ (~swept => boot = now)
\* Rows are made in the past and started after.
RowTimes ==
  \A r \in Runs : created[r] <= now /\ created[r] <= started[r]
\* What the reaper has in hand exists and is as old as its pass demands.
HandsOld ==
  \A r \in todo :
    /\ status[r] # "none"
    /\ pass = "startup" => created[r] <= boot
    /\ pass = "running" => now - created[r] > RunningTimeout
    /\ pass = "pending" => now - created[r] > PendingTimeout
AgeInv == BootTime /\ RowTimes /\ HandsOld

\* A step of anybody but the clock and the reaper that makes no row with an
\* earlier date and leaves the dates of the others alone keeps the ages.
LEMMA SameAges ==
  ASSUME TypeOK, AgeInv, now' = now, boot' = boot, swept' = swept,
         pass' = pass, todo' = todo,
         \A r \in Runs :
           \/ created'[r] = created[r]
              /\ (status[r] # "none" => status'[r] # "none")
              /\ started'[r] \in {started[r], now}
           \/ status[r] = "none" /\ created'[r] = now
              /\ started'[r] = now
  PROVE  AgeInv'
<1> USE ClockAssumption DEF TypeOK
<1>1. BootTime'
  BY DEF AgeInv, BootTime
<1>2. RowTimes'
  BY DEF AgeInv, RowTimes
<1>3. HandsOld'
  BY DEF AgeInv, HandsOld
<1> QED
  BY <1>1, <1>2, <1>3 DEF AgeInv

\* What the reaper has in hand is as old as its pass demands.
LEMMA AgeInvAlways == Spec => []AgeInv
<1> USE ClockAssumption, RunsAssumption
<1>1. Init => AgeInv
  BY DEF Init, AgeInv, BootTime, RowTimes, HandsOld
<1>2. TypeOK /\ AgeInv /\ [Next]_vars => AgeInv'
  <2> SUFFICES ASSUME TypeOK, AgeInv, [Next]_vars PROVE AgeInv'
    OBVIOUS
  <2> USE DEF clockVars, rowVars, dateVars, reapVars, findingVars, historyVars
  <2> USE DEF TypeOK, Mark, Start, Make, Rest
  <2>1. CASE Advance
    BY <2>1 DEF Advance, AgeInv, BootTime, RowTimes, HandsOld
  <2>2. CASE UNCHANGED vars
    BY <2>2, SameAges DEF vars
  <2>3. ASSUME NEW r \in Runs, Create(r) \/ StartSync(r) PROVE AgeInv'
    BY <2>3, SameAges DEF Create, StartSync
  <2>4. ASSUME NEW r \in Runs, Execute(r) PROVE AgeInv'
    <3>1. CASE Begin(r)
      BY <3>1, SameAges DEF Begin, Gone
    <3>2. CASE CheckCancel(r) \/ RunChunk(r) \/ ExecRaises(r) \/ ExecDies(r)
               \/ Verify(r)
      BY <3>2, SameAges DEF CheckCancel, RunChunk, ExecRaises, ExecDies, Verify
    <3>3. CASE Complete(r) \/ Fail(r)
      BY <3>3, SameAges DEF Complete, Fail
    <3>4. CASE EndSync(r)
      BY <3>4, SameAges DEF EndSync, SyncOutcomes
    <3> QED
      BY <2>4, <3>1, <3>2, <3>3, <3>4 DEF Execute
  <2>5. ASSUME NEW r \in Runs, People(r) PROVE AgeInv'
    BY <2>5, SameAges DEF People, CancelCheck, CancelCommit, DeleteCheck,
       DeleteCommit
  <2>6. CASE Reap
    <3>1. CASE ReapRead
      <4>1. BootTime' /\ RowTimes'
        BY <3>1 DEF ReapRead, AgeInv, BootTime, RowTimes
      <4>2. HandsOld'
        BY <3>1 DEF ReapRead, AgeInv, BootTime, RowTimes, HandsOld, SweepDue,
           StrandedAtBoot, StaleRunning, IsUnfinished, Unfinished
      <4> QED
        BY <4>1, <4>2 DEF AgeInv
    <3>2. CASE ReapCommit
      <4>1. \A r \in Runs : /\ created'[r] = created[r]
                            /\ started'[r] = started[r]
        BY <3>2 DEF ReapCommit
      <4>2. BootTime' /\ RowTimes'
        BY <3>2, <4>1 DEF ReapCommit, AgeInv, BootTime, RowTimes
      <4>3. HandsOld'
        BY <3>2, <4>1 DEF ReapCommit, AgeInv, HandsOld, StalePending
      <4> QED
        BY <4>2, <4>3 DEF AgeInv
    <3>3. CASE ReapFails
      BY <3>3 DEF ReapFails, AgeInv, BootTime, RowTimes, HandsOld
    <3> QED
      BY <2>6, <3>1, <3>2, <3>3 DEF Reap
  <2>7. CASE Restart
    BY <2>7 DEF Restart, AgeInv, BootTime, RowTimes, HandsOld
  <2> QED
    BY <2>1, <2>2, <2>3, <2>4, <2>5, <2>6, <2>7 DEF Next
<1> QED
  BY Typing, <1>1, <1>2, PTL DEF Spec

\* The reaper fails a run with a living executor only if it is as old as the
\* process or older than a timeout.
THEOREM Sparing == Spec => ReaperSparesYoung
<1>1. TypeOK /\ AgeInv =>
        \A r \in Runs :
          pass # "idle" /\ r \in todo =>
            \/ created[r] <= boot
            \/ now - created[r] > PendingTimeout
            \/ now - created[r] > RunningTimeout
  BY DEF TypeOK, Passes, AgeInv, HandsOld
<1>2. TypeOK /\ AgeInv =>
        [\A r \in Runs :
           pass # "idle" /\ ReapCommit /\ r \in todo /\ Alive(r) =>
             \/ created[r] <= boot
             \/ now - created[r] > PendingTimeout
             \/ now - created[r] > RunningTimeout]_vars
  BY <1>1
<1> QED
  BY Typing, AgeInvAlways, <1>2, PTL DEF Spec, ReaperSparesYoung

-----------------------------------------------------------------------------
(* ScanRun implements RunLifecycle.                                        *)

\* Whatever somebody has decided of is a row; the running rows in the
\* reaper's hands are not waiting to begin.
OwedInv ==
  /\ \A r \in Runs : api[r] # "idle" => status[r] # "none"
  /\ pass = "running" => \A r \in todo : status[r] # "pending"

\* What people and the reaper have decided of stays a row that was launched.
LEMMA OwedInvAlways == Spec => []OwedInv
<1>1. Init => OwedInv
  BY DEF Init, OwedInv
<1>2. TypeOK /\ AgeInv /\ OwedInv /\ [Next]_vars => OwedInv'
  <2> SUFFICES ASSUME TypeOK, AgeInv, OwedInv, [Next]_vars PROVE OwedInv'
    OBVIOUS
  <2> USE DEF TypeOK, OwedInv, Mark, Start, Make, Rest
  <2> USE DEF clockVars, rowVars, dateVars, reapVars, findingVars, historyVars
  <2>0. \A r \in todo : status[r] # "none"
    BY DEF AgeInv, HandsOld
  <2>1. CASE Advance \/ UNCHANGED vars
    BY <2>1 DEF Advance, vars
  <2>2. ASSUME NEW r \in Runs, Create(r) \/ StartSync(r) PROVE OwedInv'
    BY <2>0, <2>2 DEF Create, StartSync
  <2>3. ASSUME NEW r \in Runs, Execute(r) PROVE OwedInv'
    <3>1. CASE Begin(r)
      BY <3>1 DEF Begin
    <3>2. CASE CheckCancel(r) \/ RunChunk(r) \/ ExecRaises(r) \/ ExecDies(r)
               \/ Verify(r)
      BY <3>2 DEF CheckCancel, RunChunk, ExecRaises, ExecDies, Verify
    <3>3. CASE Complete(r) \/ Fail(r)
      BY <3>3 DEF Complete, Fail
    <3>4. CASE EndSync(r)
      BY <3>4 DEF EndSync, SyncOutcomes
    <3> QED
      BY <2>3, <3>1, <3>2, <3>3, <3>4 DEF Execute
  <2>4. ASSUME NEW r \in Runs, People(r) PROVE OwedInv'
    BY <2>4 DEF People, CancelCheck, CancelCommit, DeleteCheck, DeleteCommit,
       Answer, IsUnfinished, Unfinished
  <2>5. CASE Reap
    BY <2>5 DEF Reap, ReapRead, ReapCommit, ReapFails, SweepDue, StaleRunning
  <2>6. CASE Restart
    BY <2>6 DEF Restart
  <2> QED
    BY <2>1, <2>2, <2>3, <2>4, <2>5, <2>6 DEF Next
<1> QED
  BY Typing, AgeInvAlways, <1>1, <1>2, PTL DEF Spec

\* A row whose status, thread and place in the decisions stay is left alone.
LEMMA LeftAlone ==
  ASSUME NEW r \in Runs, status'[r] = status[r], Alive(r)' <=> Alive(r),
         api'[r] \in {api[r], "idle"}, r \in todo' => r \in todo
  PROVE  Life!RowNext(r)
  BY DEF Life!RowNext, Life!Forget, Life!KeepsTask, StateOf, OwedTo

\* A row that only loses its thread, and decisions with it.
LEMMA Vanishes ==
  ASSUME NEW r \in Runs, status'[r] = status[r], Alive(r), ~Alive(r)',
         api'[r] \in {api[r], "idle"}, r \in todo' => r \in todo
  PROVE  Life!RowNext(r)
  BY DEF Life!RowNext, Life!Vanish, StateOf, OwedTo

\* Every step does to each row what RunLifecycle allows.
LEMMA LifeStep ==
  ASSUME TypeOK, ChunkInv, AgeInv, OwedInv, [Next]_vars, NEW r \in Runs
  PROVE  Life!RowNext(r)
<1> USE DEF TypeOK, Mark, Start, Make, Rest, Statuses, ExecPoints
<1> USE DEF clockVars, rowVars, dateVars, reapVars, findingVars, historyVars
<1>1. CASE Advance \/ UNCHANGED vars
  BY <1>1, LeftAlone DEF Advance, vars, Alive
<1>2. ASSUME NEW q \in Runs, Create(q) \/ StartSync(q) PROVE Life!RowNext(r)
  <2>1. CASE q # r
    BY <1>2, <2>1, LeftAlone DEF Create, StartSync, Alive
  <2>2. CASE q = r
    <3>1. Life!Launch(r)
      BY <1>2, <2>2 DEF Create, StartSync, StateOf, OwedTo, Alive, Life!Launch, Life!Open
    <3> QED
      BY <3>1 DEF Life!RowNext
  <2> QED
    BY <2>1, <2>2
<1>3. ASSUME NEW q \in Runs, Execute(q) PROVE Life!RowNext(r)
  <2>0. CASE q # r
    <3>1. /\ status'[r] = status[r] /\ exec'[r] = exec[r]
          /\ api' = api /\ todo' = todo
      BY <1>3, <2>0 DEF Execute, Begin, CheckCancel, RunChunk, Complete, ExecRaises,
         Fail, EndSync, ExecDies, Verify, Return
    <3> QED
      BY <3>1, LeftAlone DEF Alive
  <2> HIDE DEF Mark, Start, Rest
  <2> USE DEF StateOf, OwedTo, Alive
  <2>1. ASSUME q = r PROVE StateOf(r) = "none" => exec[r] = "none"
    BY DEF ChunkInv, Unmade
  <2>2. CASE q = r /\ Begin(r)
    <3>1. CASE Gone(r)
      BY <2>2, <3>1, Vanishes DEF Begin, Gone, Return
    <3>2. CASE ~Gone(r)
      <4>1. Life!WriteRunning(r)
        BY <2>1, <2>2, <3>2 DEF Begin, Gone, Mark, NextChunk,
           Life!WriteRunning, Life!Open, Life!Finished, Life!Outcomes
      <4> QED
        BY <4>1 DEF Life!RowNext
    <3> QED
      BY <3>1, <3>2
  <2>3. CASE q = r /\ CheckCancel(r)
    BY <2>3, LeftAlone, Vanishes DEF CheckCancel, Return
  <2>4. CASE q = r /\ (RunChunk(r) \/ ExecRaises(r) \/ Verify(r))
    BY <2>4, LeftAlone DEF RunChunk, NextChunk, ExecRaises, Verify
  <2>5. CASE q = r /\ (Complete(r) \/ Fail(r) \/ EndSync(r))
    <3>1. CASE Gone(r)
      BY <2>5, <3>1, LeftAlone, Vanishes DEF Complete, Fail, EndSync, Gone, Return
    <3>2. CASE ~Gone(r)
      <4>1. Life!WriteOutcome(r)
        BY <2>1, <2>5, <3>2 DEF Complete, Fail, EndSync, SyncOutcomes,
           Return, Gone, Mark,
           Life!WriteOutcome, Life!Open, Life!Finished, Life!Outcomes
      <4> QED
        BY <4>1 DEF Life!RowNext
    <3> QED
      BY <3>1, <3>2
  <2>6. CASE q = r /\ ExecDies(r)
    BY <2>6, Vanishes DEF ExecDies
  <2> QED
    BY <1>3, <2>0, <2>2, <2>3, <2>4, <2>5, <2>6 DEF Execute
<1>4. ASSUME NEW q \in Runs, People(q) PROVE Life!RowNext(r)
  <2>0. CASE q # r
    BY <1>4, <2>0, LeftAlone DEF People, CancelCheck, CancelCommit, DeleteCheck,
       DeleteCommit, Answer, Alive
  <2> USE DEF StateOf, OwedTo, Life!KeepsTask
  <2>1. CASE q = r /\ (CancelCheck(r) \/ DeleteCheck(r))
    <3>1. Life!Decide(r)
      BY <2>1 DEF CancelCheck, DeleteCheck, IsUnfinished, Unfinished, Alive,
         Life!Decide, Life!MayDecide, Life!Decisions,
         Life!Open, Life!Finished, Life!Outcomes
    <3> QED
      BY <3>1 DEF Life!RowNext
  <2>2. CASE q = r /\ (CancelCommit(r) \/ DeleteCommit(r))
    <3>1. CASE Gone(r)
      BY <2>2, <3>1, LeftAlone DEF CancelCommit, DeleteCommit, Answer, Gone, Alive
    <3>2. CASE ~Gone(r)
      <4>1. Life!Overrule(r)
        BY <2>2, <3>2 DEF CancelCommit, DeleteCommit, Answer, Gone, Alive, OwedInv,
           Life!Overrule, Life!Decisions
      <4> QED
        BY <4>1 DEF Life!RowNext
    <3> QED
      BY <3>1, <3>2
  <2> QED
    BY <1>4, <2>0, <2>1, <2>2 DEF People
<1>5. CASE Reap
  <2>1. CASE /\ r \notin todo /\ r \in todo' /\ status[r] \in Unfinished
             /\ UNCHANGED <<exec, api>> /\ status'[r] = status[r]
    <3>1. Life!Decide(r)
      BY <2>1 DEF Unfinished, StateOf, OwedTo, Alive, Life!KeepsTask,
         Life!Decide, Life!MayDecide, Life!Open, Life!Decisions
    <3> QED
      BY <3>1 DEF Life!RowNext
  <2>2. CASE ReapRead
    BY <2>1, <2>2, LeftAlone DEF ReapRead, StrandedAtBoot, IsUnfinished, StaleRunning,
       Unfinished, Alive
  <2>3. CASE ReapCommit /\ r \in todo
    <3>1. Life!Overrule(r)
      BY <2>3 DEF ReapCommit, StalePending, Gone, AgeInv, HandsOld, OwedInv, StateOf,
         OwedTo, Alive, Life!KeepsTask, Life!Overrule, Life!Decisions
    <3> QED
      BY <3>1 DEF Life!RowNext
  <2>4. CASE ReapCommit /\ r \notin todo
    BY <2>1, <2>4, LeftAlone DEF ReapCommit, StalePending, Unfinished, Alive
  <2>5. CASE ReapFails
    BY <2>5, LeftAlone DEF ReapFails, Alive
  <2> QED
    BY <1>5, <2>2, <2>3, <2>4, <2>5 DEF Reap
<1>6. CASE Restart
  <2>1. CASE Alive(r)
    BY <1>6, <2>1, Vanishes DEF Restart, Alive
  <2>2. CASE ~Alive(r)
    BY <1>6, <2>2, LeftAlone DEF Restart, Alive
  <2> QED
    BY <2>1, <2>2
<1> QED
  BY <1>1, <1>2, <1>3, <1>4, <1>5, <1>6 DEF Next

\* Whatever the threads, people and the reaper do to a run, in any order and
\* with any restarts, its row keeps the lifecycle of RunLifecycle.
THEOREM RunLifecycleKept == Spec => KeepsRunLifecycle
<1>1. Init => Life!LifeInit
  BY DEF Init, Life!LifeInit, StateOf, OwedTo, Alive
<1>2. TypeOK /\ ChunkInv /\ AgeInv /\ OwedInv /\ [Next]_vars
        => [Life!LifeNext]_(Life!lifeVars)
  BY LifeStep DEF Life!LifeNext
<1> QED
  BY Typing, ChunkInvAlways, AgeInvAlways, OwedInvAlways, <1>1, <1>2, PTL
     DEF Spec, KeepsRunLifecycle, Life!LifeSpec

\* What RunLifecycle makes of a step: settled verdicts stay, and a finished row
\* is reopened by its own executor only.
LEMMA LifeVerdicts ==
  ASSUME Life!LifeNext
  PROVE  Life!KeepsVerdicts /\ Life!ReopensOnlyToRerun
<1> SUFFICES ASSUME NEW r \in Runs
             PROVE  /\ Life!Settled(r) =>
                         Life!Settled(r)' /\ StateOf(r)' \in {StateOf(r), "gone"}
                    /\ StateOf(r) \in Life!Finished
                       /\ StateOf(r)' \notin Life!Finished \cup {"gone"} => Alive(r)
  BY DEF Life!KeepsVerdicts, Life!ReopensOnlyToRerun
<1> QED
  BY DEF Life!LifeNext, Life!RowNext, Life!Launch, Life!WriteRunning, Life!WriteOutcome,
     Life!Vanish, Life!Decide, Life!Overrule, Life!Forget, Life!MayDecide,
     Life!KeepsTask, Life!Settled, Life!Decisions, Life!Open, Life!Outcomes, Life!Finished

\* A verdict is final once its executor has ended and no cancel or pass of the
\* reaper still has the run in hand: the writers that do not look at the
\* status (_run, _fail, _reap) cannot reach it any more.
THEOREM SettledRunIsFinal == Spec => Life!SettledIsFinal
<1>1. [Life!LifeNext]_(Life!lifeVars) => [Life!KeepsVerdicts]_(Life!lifeVars)
  BY LifeVerdicts
<1> QED
  BY RunLifecycleKept, <1>1, PTL DEF KeepsRunLifecycle, Life!LifeSpec, Life!SettledIsFinal

\* A finished run shows as unfinished again only by an executor that outlived
\* the verdict: a cancel or a reap does not stop one that is about to begin.
THEOREM ReopenedByItsExecutor == Spec => Life!FinishedStaysFinished
<1>1. [Life!LifeNext]_(Life!lifeVars) => [Life!ReopensOnlyToRerun]_(Life!lifeVars)
  BY LifeVerdicts
<1> QED
  BY RunLifecycleKept, <1>1, PTL
     DEF KeepsRunLifecycle, Life!LifeSpec, Life!FinishedStaysFinished
===============================================================================
