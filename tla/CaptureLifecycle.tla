-------------------------- MODULE CaptureLifecycle --------------------------
(***************************************************************************)
(* What page capture promises to whoever reads page_captures, whichever    *)
(* store carries the jobs.  A capture is queued once, run at most once,    *)
(* and resolved: done only if it was run, failed otherwise.  A verdict     *)
(* stands.  The one exception is a request whose job put raised: it marks  *)
(* its row refused (failed, spool_unavailable) without looking at it, while*)
(* the job may be live, so a refusal overwrites a verdict, and a failure   *)
(* may overwrite a refusal.  Nothing that failed is ever done again.       *)
(***************************************************************************)
EXTENDS Naturals

CONSTANT Captures

VARIABLES verdict, starts

lifecycleVars == <<verdict, starts>>

Verdicts == {"none", "queued", "done", "failed", "refused"}

LifecycleInit ==
  /\ verdict = [c \in Captures |-> "none"]
  /\ starts = [c \in Captures |-> 0]

Become(c, v) == verdict' = [verdict EXCEPT ![c] = v] /\ UNCHANGED starts

Queue(c) == verdict[c] = "none" /\ Become(c, "queued")

\* the job outlives its row's verdict: a worker may start late, never twice
Start(c) ==
  /\ verdict[c] # "none"
  /\ starts[c] = 0
  /\ starts' = [starts EXCEPT ![c] = 1]
  /\ UNCHANGED verdict

Complete(c) ==
  verdict[c] = "queued" /\ starts[c] = 1 /\ Become(c, "done")
Fail(c) == verdict[c] \in {"queued", "refused"} /\ Become(c, "failed")
Refuse(c) == verdict[c] \in {"queued", "done", "failed"} /\ Become(c, "refused")

\* one commit of the timeout sweep fails any number of rows
FailSome ==
  \E lost \in SUBSET {c \in Captures : verdict[c] \in {"queued", "refused"}} :
    /\ verdict' = [c \in Captures |-> IF c \in lost THEN "failed" ELSE verdict[c]]
    /\ UNCHANGED starts

LifecycleNext ==
  \/ \E c \in Captures :
       Queue(c) \/ Start(c) \/ Complete(c) \/ Fail(c) \/ Refuse(c)
  \/ FailSome

LifecycleSpec == LifecycleInit /\ [][LifecycleNext]_lifecycleVars
=============================================================================
