----------------------------- MODULE AlertDigest -----------------------------
(* One notification rule, the alerts the dispatcher selects for it, and the   *)
(* digests that sum them up. A dispatcher commits its selection under the     *)
(* time its transaction began, and in a later commit says that the alert is   *)
(* held back. The hourly job first resumes what an earlier run left pending,  *)
(* then, once a day, claims the alerts no digest has and mails them; the mail *)
(* goes out before its outcome is committed. An organization discovery rule   *)
(* has candidates in place of alerts, and no dispatcher.                      *)
EXTENDS Integers

CONSTANTS
  Alerts,       \* dispatches of the rule, or candidates
  DigestMax,    \* bound: digests in a behaviour
  Day,          \* a day, in hours
  Grace,        \* GRACE
  FirstFloor,   \* FIRST_FLOOR
  StalePending, \* STALE_PENDING
  MaxAttempts,  \* MAX_ATTEMPTS
  MaxLag,       \* hours a dispatcher or an inserting transaction takes at most
  MaxRun,       \* bound: hours a run of the job takes
  MaxHour,      \* bound: the last hour
  MaxLosses,    \* bound: crashes and failed commits
  MaxEdits      \* bound: changes of the rule, the send hour and the deals

ASSUME DigestAssumption ==
  /\ {Day, Grace, FirstFloor, StalePending, MaxAttempts} \subseteq Nat
  /\ {DigestMax, MaxLag, MaxRun, MaxHour, MaxLosses, MaxEdits} \subseteq Nat
  /\ Day > 0 /\ MaxAttempts > 0
  /\ MaxLag < Grace  \* what "committed just after the previous cut-off" asks for
  /\ Grace <= Day /\ FirstFloor > 0  \* an hour, 24 hours

VARIABLES
  hour,
  sendAt,   \* notifications.digest_hour_utc
  rule,     \* its notification_rules row; `left`, history: it left the digest modes
  alert,    \* alert_dispatches and deliveries, or scope_candidates
  digest,   \* digests; `mails` and `lost`, history: mails sent, outcomes not recorded
  job,      \* the run of run_due, of which there is one at a time
  losses, edits

digestVars == <<hour, sendAt, rule, alert, digest, job, losses, edits>>

DigestIds == 1..DigestMax
RuleModes == {"immediate", "digest", "both"}
DigestModes == {"digest", "both"}

NoAlert == [phase |-> "none", mode |-> "immediate", born |-> 0,
            told |-> "no", digest |-> 0, open |-> TRUE]
NoDigest == [status |-> "none", start |-> 0, end |-> 0, born |-> 0,
             attempts |-> 0, mails |-> 0, lost |-> 0]
NoRun == [pc |-> "idle", now |-> 0, todo |-> {}, at |-> 0, resumed |-> FALSE]

\* create_rule; the rule was created at hour 0
DigestInit ==
  /\ hour = 0 /\ sendAt = 0
  /\ rule \in [here : {TRUE}, org : BOOLEAN, enabled : {TRUE},
               mode : RuleModes, left : {FALSE}]
  /\ rule.org => rule.mode = "digest"
  /\ alert = [a \in Alerts |-> NoAlert]
  /\ digest = [d \in DigestIds |-> NoDigest]
  /\ job = NoRun
  /\ losses = 0 /\ edits = 0

Lose == losses < MaxLosses /\ losses' = losses + 1
Edit == edits < MaxEdits /\ edits' = edits + 1

(****************************** The dispatcher *******************************)

\* the rule is loaded in the transaction whose start dates the dispatch
Select(a) ==
  /\ alert[a].phase = "none" /\ rule.here /\ (rule.org \/ rule.enabled)
  /\ alert' = [alert EXCEPT ![a] =
       [@ EXCEPT !.phase = "selecting", !.mode = rule.mode, !.born = hour]]

\* the selection, or the candidate, is committed
Recorded(a) ==
  /\ alert[a].phase = "selecting"
  /\ alert' = [alert EXCEPT ![a].phase = IF rule.org THEN "over" ELSE "recorded"]

\* recording fails: no digest could claim the alert, so it is sent at once
RecordingFails(a) ==
  /\ alert[a].phase = "selecting" /\ Lose
  /\ alert' = [alert EXCEPT ![a].phase = "gone"]

\* not in digest mode: to whatever channels there are
SendNow(a) ==
  /\ alert[a].phase = "recorded" /\ alert[a].mode # "digest"
  /\ alert' = [alert EXCEPT ![a] = [@ EXCEPT !.phase = "over", !.told = "now"]]

\* the mode the dispatcher read decides, whatever the rule says by now
Defer(a) ==
  /\ alert[a].phase = "recorded" /\ alert[a].mode = "digest"
  /\ alert' = [alert EXCEPT ![a] = [@ EXCEPT !.phase = "over", !.told = "deferred"]]

\* the second commit fails: nothing says that the alert was held back
DeliveriesFail(a) ==
  /\ alert[a].phase = "recorded" /\ Lose
  /\ alert' = [alert EXCEPT ![a] =
       [@ EXCEPT !.phase = "over", !.told = IF alert[a].mode = "digest" THEN "no" ELSE "now"]]

Dispatcher(a) == Select(a) \/ Recorded(a) \/ SendNow(a) \/ Defer(a)

(********************************** Claims ***********************************)

Written == {d \in DigestIds : digest[d].status # "none"}
Committed(a) == alert[a].phase \in {"recorded", "over"}
Unclaimed(a) == Committed(a) /\ alert[a].digest = 0
HeldBack(a) == Unclaimed(a) /\ alert[a].told = "deferred"

\* the latest send hour up to n
Cutoff(n) == n - ((n - sendAt) % Day)

\* a digest was written since the cut-off
CutoffPassed(n) == \A d \in Written : digest[d].end < Cutoff(n)

\* in a digest mode, or holding alerts back from when it was
\* broken variant: the rule's mode alone
InDigestMode == rule.mode \in DigestModes
Owes == rule.mode \in DigestModes \/ \E a \in Alerts : HeldBack(a)

DueNow(n) == rule.here /\ rule.enabled /\ Owes /\ CutoffPassed(n)

\* digests are numbered as they are written
NextDigest(d) ==
  digest[d].status = "none" /\ (d > 1 => digest[d - 1].status # "none")

\* the newest period_end, else the later of the rule's creation and a day ago
Floor(d, n) ==
  IF d # 1 THEN digest[d - 1].end
  ELSE IF n > FirstFloor THEN n - FirstFloor ELSE 0

\* broken variant: nothing for a transaction that ended after the cut-off
StrictWindow(a, floor) == alert[a].born > floor
InWindow(a, floor) == alert[a].born > floor - Grace

Claimable(a, floor, n) ==
  /\ Unclaimed(a) /\ alert[a].born <= n
  /\ IF rule.org THEN alert[a].open /\ InWindow(a, floor)
     ELSE HeldBack(a) \/ (rule.mode \in DigestModes /\ InWindow(a, floor))

(****************************** The hourly job *******************************)

\* A run's one reading of the clock, and the digests it finds stale
StartRun ==
  /\ job.pc = "idle" /\ job.now < hour
  /\ job' = [pc |-> "resuming", now |-> hour, at |-> 0, resumed |-> FALSE,
             todo |-> {d \in DigestIds : /\ digest[d].status = "pending"
                                         /\ digest[d].born < hour - StalePending}]
  /\ UNCHANGED <<alert, digest>>

\* broken variant: one attempt too many
AttemptedMore(d) == digest[d].attempts > MaxAttempts
Exhausted(d) == digest[d].attempts >= MaxAttempts

Abandon(d) ==
  /\ job.pc = "resuming" /\ d \in job.todo /\ Exhausted(d)
  /\ digest' = [digest EXCEPT ![d].status = "abandoned"]
  /\ job' = [job EXCEPT !.todo = @ \ {d}]
  /\ UNCHANGED alert

Resume(d) ==
  /\ job.pc = "resuming" /\ d \in job.todo /\ ~Exhausted(d)
  /\ job' = [job EXCEPT !.pc = "sending", !.at = d, !.resumed = TRUE, !.todo = @ \ {d}]
  /\ UNCHANGED <<alert, digest>>

\* due_rule_ids; claim asks again
CheckDue ==
  /\ job.pc = "resuming" /\ job.todo = {}
  /\ job' = [job EXCEPT !.pc = IF DueNow(job.now) THEN "claiming" ELSE "idle"]
  /\ UNCHANGED <<alert, digest>>

\* Under the claim lock, in one commit: the digest, and its mark on what it claims
ClaimAlerts(d) ==
  /\ job.pc = "claiming" /\ DueNow(job.now)
  /\ NextDigest(d) /\ Floor(d, job.now) < job.now
  /\ LET floor == Floor(d, job.now)
         taken == {a \in Alerts : Claimable(a, floor, job.now)} IN
     /\ digest' = [digest EXCEPT ![d] =
          [NoDigest EXCEPT !.status = IF taken = {} THEN "settled" ELSE "pending",
                           !.start = floor, !.end = job.now, !.born = hour]]
     /\ alert' = [a \in Alerts |->
          IF a \in taken THEN [alert[a] EXCEPT !.digest = d] ELSE alert[a]]
     /\ job' = IF taken = {} THEN [job EXCEPT !.pc = "idle"]
               ELSE [job EXCEPT !.pc = "sending", !.at = d]

\* no longer due, or due since before its first hour
ClaimNothing ==
  /\ job.pc = "claiming"
  /\ ~DueNow(job.now)
     \/ \E d \in DigestIds : NextDigest(d) /\ Floor(d, job.now) >= job.now
  /\ job' = [job EXCEPT !.pc = "idle"]
  /\ UNCHANGED <<alert, digest>>

\* what the rule's run does after a digest
After(j) == [j EXCEPT !.pc = IF j.resumed THEN "resuming" ELSE "idle",
                      !.at = 0, !.resumed = FALSE]

\* filter_body: what the digest claimed and a notification may still name
Listed(d) == {a \in Alerts : alert[a].digest = d /\ (rule.org => alert[a].open)}

Mailed(d, n) == [digest[d] EXCEPT !.mails = @ + n]

\* mails go to the channels there are; without one, or a rule, there is none
Send(d) ==
  /\ job.pc = "sending" /\ job.at = d
  /\ \E mailed \in IF rule.here /\ Listed(d) # {} THEN {0, 1} ELSE {0} :
       digest' = [digest EXCEPT ![d] = Mailed(d, mailed)]
  /\ job' = [job EXCEPT !.pc = "recording"]
  /\ UNCHANGED alert

Outcome(d) == [digest[d] EXCEPT !.status = "settled", !.attempts = @ + 1]

RecordOutcome(d) ==
  /\ job.pc = "recording" /\ job.at = d
  /\ digest' = [digest EXCEPT ![d] = Outcome(d)]
  /\ job' = After(job)
  /\ UNCHANGED alert

Failed(d, counted, mailed) ==
  [digest[d] EXCEPT !.attempts = @ + counted, !.lost = @ + mailed]

\* The database fails in send: the row stays pending. Resuming counts the attempt
\* in a commit of its own, which may fail too
SendFails(d) ==
  /\ job.pc \in {"sending", "recording"} /\ job.at = d
  /\ \E counted \in IF job.resumed THEN {0, 1} ELSE {0} :
       LET mailed == IF job.pc = "recording" THEN 1 ELSE 0
       IN  digest' = [digest EXCEPT ![d] = Failed(d, counted, mailed)]
  /\ job' = After(job)
  /\ UNCHANGED alert

ClaimFails ==
  /\ job.pc = "claiming"
  /\ job' = [job EXCEPT !.pc = "idle"]
  /\ UNCHANGED <<alert, digest>>

JobStep ==
  \/ StartRun \/ CheckDue \/ ClaimNothing
  \/ \E d \in DigestIds :
       Abandon(d) \/ Resume(d) \/ ClaimAlerts(d) \/ Send(d) \/ RecordOutcome(d)

JobFails == ClaimFails \/ \E d \in DigestIds : SendFails(d)

(************************ People, crashes, the clock *************************)

SetMode(m) ==
  /\ rule.here /\ ~rule.org /\ m # rule.mode
  /\ rule' = [rule EXCEPT !.mode = m, !.left = @ \/ m = "immediate"]
  /\ UNCHANGED <<sendAt, alert>>

SetEnabled ==
  /\ rule.here
  /\ rule' = [rule EXCEPT !.enabled = ~@]
  /\ UNCHANGED <<sendAt, alert>>

DeleteRule ==
  /\ rule.here
  /\ rule' = [rule EXCEPT !.here = FALSE]
  /\ UNCHANGED <<sendAt, alert>>

SetSendHour(h) ==
  /\ h # sendAt /\ sendAt' = h
  /\ UNCHANGED <<rule, alert>>

\* a candidate is decided, or a deal changes what a notification may name
Reconsider(a) ==
  /\ rule.org /\ Committed(a)
  /\ alert' = [alert EXCEPT ![a].open = ~@]
  /\ UNCHANGED <<sendAt, rule>>

Changes ==
  \/ \E m \in RuleModes : SetMode(m)
  \/ SetEnabled \/ DeleteRule
  \/ \E h \in 0..(Day - 1) : SetSendHour(h)
  \/ \E a \in Alerts : Reconsider(a)

\* The process goes with its dispatchers and its run, and is back for the next hour
AlertCrash ==
  /\ alert' = [a \in Alerts |->
       CASE alert[a].phase = "selecting" -> [alert[a] EXCEPT !.phase = "gone"]
         [] alert[a].phase = "recorded" -> [alert[a] EXCEPT !.phase = "over"]
         [] OTHER -> alert[a]]
  /\ digest' = [d \in DigestIds |->
       IF job.pc = "recording" /\ job.at = d
       THEN [digest[d] EXCEPT !.lost = @ + 1] ELSE digest[d]]
  /\ job' = [NoRun EXCEPT !.now = hour]

\* the scheduler starts a run every hour, when none is under way
AlertTick ==
  /\ hour < MaxHour
  /\ job.pc = "idle" => job.now = hour
  /\ job.pc # "idle" => hour < job.now + MaxRun
  /\ \A a \in Alerts :
       alert[a].phase \in {"selecting", "recorded"} => hour < alert[a].born + MaxLag
  /\ hour' = hour + 1

DigestNext ==
  \/ /\ \E a \in Alerts : Dispatcher(a)
     /\ UNCHANGED <<hour, sendAt, rule, digest, job, losses, edits>>
  \/ /\ \E a \in Alerts : RecordingFails(a) \/ DeliveriesFail(a)
     /\ UNCHANGED <<hour, sendAt, rule, digest, job, edits>>
  \/ JobStep /\ UNCHANGED <<hour, sendAt, rule, losses, edits>>
  \/ (JobFails \/ AlertCrash) /\ Lose /\ UNCHANGED <<hour, sendAt, rule, edits>>
  \/ Changes /\ Edit /\ UNCHANGED <<hour, digest, job, losses>>
  \/ AlertTick /\ UNCHANGED <<sendAt, rule, alert, digest, job, losses, edits>>

DigestSpec == DigestInit /\ [][DigestNext]_digestVars

(******************************** Properties *********************************)

DigestTypeOK ==
  /\ hour \in 0..MaxHour /\ sendAt \in 0..(Day - 1)
  /\ losses \in 0..MaxLosses /\ edits \in 0..MaxEdits
  /\ rule \in [here : BOOLEAN, org : BOOLEAN, enabled : BOOLEAN,
               mode : RuleModes, left : BOOLEAN]
  /\ alert \in [Alerts ->
       [phase : {"none", "selecting", "recorded", "over", "gone"}, mode : RuleModes,
        born : Nat, told : {"no", "now", "deferred"}, digest : 0..DigestMax,
        open : BOOLEAN]]
  /\ digest \in [DigestIds ->
       [status : {"none", "pending", "settled", "abandoned"}, start : Nat, end : Nat,
        born : Nat, attempts : Nat, mails : Nat, lost : Nat]]
  /\ job \in [pc : {"idle", "resuming", "claiming", "sending", "recording"},
              now : Nat, todo : SUBSET DigestIds, at : 0..DigestMax, resumed : BOOLEAN]

\* The grace window does what it is for (services/digest.py:16-25): an alert of a
\* rule that never left the digest modes and whose time falls into a digest's
\* period is in a digest, or the next one still takes it, however late its
\* transaction committed and whenever the run read its clock. So is a candidate
\* of a rule about which nothing was reconsidered.
PeriodsCovered ==
  \A a \in Alerts, d \in Written :
    /\ Unclaimed(a) /\ alert[a].mode \in DigestModes
    /\ ~rule.left /\ (rule.org => edits = 0)
    /\ digest[d].start < alert[a].born /\ alert[a].born <= digest[d].end
    => \A e \in Written : alert[a].born > digest[e].end - Grace

\* A rule switched back to immediate "still owes those held-back alerts a digest"
\* (services/digest.py:146): no run passes an enabled rule by, unless its claim
\* fails, while an alert is held back from before the cut-off of a day ago.
HeldBackIsDigested ==
  [][ /\ job.pc \in {"resuming", "claiming"} /\ job'.pc \in {"idle", "sending"}
      /\ ~job'.resumed /\ losses' = losses /\ rule.here /\ rule.enabled
      => \A a \in Alerts : HeldBack(a)' => alert[a].born >= Cutoff(job.now) - Day ]_digestVars

\* A digest goes out again only when the outcome of the mail before was not
\* recorded, and one that keeps failing is given up: however the runs, the crashes
\* and the failed commits fall, it has at most MAX_ATTEMPTS counted attempts.
MailedOncePerRecord ==
  \A d \in DigestIds :
    digest[d].mails <= digest[d].lost + 1 /\ digest[d].attempts <= MaxAttempts
==============================================================================
