---------------------------- MODULE RunLifecycle ----------------------------
(***************************************************************************)
(* What the backend promises to a reader of a table of runs, whatever a    *)
(* run does: scan_runs and entity_ingest_runs alike.  A run is launched    *)
(* once, with a task of this process behind it.  The task writes RUNNING   *)
(* as it begins and one outcome as it ends, and it may end without.        *)
(* Everybody else may only decide: a decision is taken on a row that is    *)
(* unfinished (or, to delete it, not running), and is written then or      *)
(* later, over whatever the row has become.                                *)
(*                                                                         *)
(* So a finished row changes only by the task it still has, by a decision  *)
(* older than its end, or to be deleted.                                   *)
(***************************************************************************)
CONSTANTS
  Runs,    \* the rows
  Reruns   \* BOOLEAN: a finished row can be written RUNNING again

VARIABLES
  state,  \* of each row
  live,   \* the rows whose task is there
  owed    \* for each row, the decisions taken and not yet written

lifeVars == <<state, live, owed>>

Open == {"waiting", "running"}
Outcomes == {"succeeded", "failed"}
Finished == Outcomes \cup {"cancelled"}
Decisions == {"failed", "cancelled", "gone"}

LifeInit ==
  /\ state = [r \in Runs |-> "none"]
  /\ live = {}
  /\ owed = [r \in Runs |-> {}]

\* What a step may do to one row.

Launch(r) ==
  /\ state[r] = "none" /\ state'[r] \in Open
  /\ r \in live' /\ owed'[r] = owed[r]

\* the task's first write ...
WriteRunning(r) ==
  /\ r \in live /\ r \in live'
  /\ state[r] \in Open \/ (Reruns /\ state[r] \in Finished)
  /\ state'[r] = "running" /\ owed'[r] = owed[r]

\* ... and its last
WriteOutcome(r) ==
  /\ r \in live /\ r \notin live'
  /\ state[r] \in Open \cup Finished
  /\ state'[r] \in Outcomes /\ owed'[r] = owed[r]

\* the task ends without a word, by itself or with its process; what its
\* process had decided is forgotten with it
Vanish(r) ==
  /\ r \in live /\ r \notin live'
  /\ state'[r] = state[r] /\ owed'[r] \subseteq owed[r]

MayDecide(r, s) ==
  \/ s \in {"failed", "cancelled"} /\ state[r] \in Open
  \/ s = "gone" /\ state[r] \in Finished \cup {"waiting"}

KeepsTask(r) == r \in live' <=> r \in live

Decide(r) ==
  /\ \E s \in Decisions : MayDecide(r, s) /\ owed'[r] = owed[r] \cup {s}
  /\ state'[r] = state[r] /\ KeepsTask(r)

\* a decision is written, by whoever takes it or has taken it before
Overrule(r) ==
  /\ \E s \in Decisions :
       /\ s \in owed[r] \/ MayDecide(r, s)
       /\ state[r] \notin {"none", "gone"}
       /\ state'[r] = s /\ owed'[r] = owed[r] \ {s}
  /\ KeepsTask(r)

\* nothing, or a decision that is not written after all
Forget(r) ==
  /\ owed'[r] \subseteq owed[r]
  /\ state'[r] = state[r] /\ KeepsTask(r)

RowNext(r) ==
  \/ Launch(r) \/ WriteRunning(r) \/ WriteOutcome(r) \/ Vanish(r)
  \/ Decide(r) \/ Overrule(r) \/ Forget(r)

\* a sweep or a restart moves any number of rows at once
LifeNext == \A r \in Runs : RowNext(r)

LifeSpec == LifeInit /\ [][LifeNext]_lifeVars

-----------------------------------------------------------------------------
(* What a reader of the table may conclude.                                *)

\* The verdict on a run whose task has ended is final, whoever writes after,
\* once nobody has a decision to write that was taken before it; only its
\* row may still be deleted, and a deleted row does not come back.
Settled(r) ==
  \/ state[r] = "gone"
  \/ state[r] \in Finished /\ r \notin live /\ owed[r] \subseteq {"gone"}
KeepsVerdicts ==
  \A r \in Runs : Settled(r) => Settled(r)' /\ state'[r] \in {state[r], "gone"}
SettledIsFinal == [][KeepsVerdicts]_lifeVars

\* A finished run shows as unfinished again only where runs may, and while its
\* task is there.
ReopensOnlyToRerun ==
  \A r \in Runs :
    state[r] \in Finished /\ state'[r] \notin Finished \cup {"gone"}
      => Reruns /\ r \in live
FinishedStaysFinished == [][ReopensOnlyToRerun]_lifeVars
=============================================================================
