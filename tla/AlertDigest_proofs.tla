-------------------------- MODULE AlertDigest_proofs --------------------------
(* The types of AlertDigest, that a digest is mailed again only when the      *)
(* outcome of the mail before was lost, that no alert falls between the       *)
(* periods of the digests, and that no run passes by an alert held back for a *)
(* day, for every number of alerts, hours, crashes and edits.                 *)
EXTENDS AlertDigest, TLAPS

Statuses == {"none", "pending", "settled", "abandoned"}
AlertType ==
  [phase : {"none", "selecting", "recorded", "over", "gone"}, mode : RuleModes,
   born : Nat, told : {"no", "now", "deferred"}, digest : 0..DigestMax,
   open : BOOLEAN]
DigestType ==
  [status : Statuses, start : Nat, end : Nat,
   born : Nat, attempts : Nat, mails : Nat, lost : Nat]
JobType ==
  [pc : {"idle", "resuming", "claiming", "sending", "recording"},
   now : Nat, todo : SUBSET DigestIds, at : 0..DigestMax, resumed : BOOLEAN]

LEMMA TypesNamed ==
  DigestTypeOK <=>
    /\ hour \in 0..MaxHour /\ sendAt \in 0..(Day - 1)
    /\ losses \in 0..MaxLosses /\ edits \in 0..MaxEdits
    /\ rule \in [here : BOOLEAN, org : BOOLEAN, enabled : BOOLEAN,
                 mode : RuleModes, left : BOOLEAN]
    /\ alert \in [Alerts -> AlertType]
    /\ digest \in [DigestIds -> DigestType]
    /\ job \in JobType
  BY DEF DigestTypeOK, AlertType, DigestType, JobType, Statuses

\* What a pending digest has been mailed was lost, but for the mail whose outcome
\* is being recorded; the run holds no digest that is not pending.
MailInv ==
  /\ \A d \in DigestIds :
       /\ digest[d].attempts <= MaxAttempts
       /\ digest[d].mails <= digest[d].lost + 1
       /\ digest[d].status = "pending" /\ ~(job.pc = "recording" /\ job.at = d)
            => digest[d].mails <= digest[d].lost
  /\ \A d \in job.todo : digest[d].status = "pending" /\ d # job.at
  /\ job.pc \in {"sending", "recording"} =>
       /\ job.at \in DigestIds
       /\ digest[job.at].status = "pending"
       /\ digest[job.at].attempts < MaxAttempts

\* When the digests end and the alerts begin. A dispatcher is at work within
\* MaxLag of its alert; so a digest that ends later than the grace window of an
\* alert found it committed, and took it, or began after it.
Reaches(a) ==
  /\ alert[a].mode \in DigestModes /\ ~rule.left /\ (rule.org => edits = 0)
PeriodInv ==
  /\ job.now <= hour
  /\ \A d \in Written :
       /\ 1 \in Written /\ digest[1].start <= digest[d].start
       /\ digest[d].start <= digest[d].end /\ digest[d].end <= hour
  /\ \A a \in Alerts :
       /\ alert[a].born <= hour
       /\ alert[a].phase \in {"selecting", "recorded"} => hour <= alert[a].born + MaxLag
       /\ alert[a].phase # "none" /\ Reaches(a) => rule.mode \in DigestModes
       /\ rule.org => alert[a].phase # "recorded" /\ alert[a].told # "deferred"
       /\ rule.org /\ edits = 0 => alert[a].open
       /\ HeldBack(a) => \A d \in Written : digest[d].end <= alert[a].born + MaxLag
       /\ Unclaimed(a) /\ Reaches(a) =>
            \A d \in Written : \/ digest[d].end < alert[a].born + Grace
                              \/ alert[a].born <= digest[1].start

------------------------------------------------------------------------------
(* Types.                                                                     *)

\* A dispatcher keeps the types (notification_dispatcher.py, _select_record_send).
LEMMA DispatcherTypes ==
  ASSUME DigestTypeOK, NEW a \in Alerts,
         Dispatcher(a) \/ RecordingFails(a) \/ DeliveriesFail(a)
  PROVE  alert' \in [Alerts -> AlertType]
<1>1. /\ alert \in [Alerts -> AlertType] /\ hour \in Nat /\ rule.mode \in RuleModes
  BY TypesNamed
<1>2. alert[a] \in AlertType
  BY <1>1
<1>3. CASE Select(a)
  <2>1. [alert[a] EXCEPT !.phase = "selecting", !.mode = rule.mode, !.born = hour]
          \in AlertType
    BY <1>1, <1>2 DEF AlertType
  <2> QED BY <2>1, <1>1, <1>3 DEF Select
<1>4. CASE ~Select(a)
  <2>1. PICK p \in {"over", "recorded", "gone"}, t \in {"no", "now", "deferred"} :
          alert' = [alert EXCEPT ![a] = [@ EXCEPT !.phase = p, !.told = t]]
    <3>1. alert[a].told \in {"no", "now", "deferred"}
      BY <1>2 DEF AlertType
    <3>2. \A p : [alert[a] EXCEPT !.phase = p]
                   = [alert[a] EXCEPT !.phase = p, !.told = alert[a].told]
      BY <1>2 DEF AlertType
    <3>3. CASE Recorded(a) \/ RecordingFails(a)
      <4>1. PICK p \in {"over", "recorded", "gone"} : alert' = [alert EXCEPT ![a].phase = p]
        BY <3>3 DEF Recorded, RecordingFails
      <4> QED BY <4>1, <3>1, <3>2
    <3>4. CASE SendNow(a) \/ Defer(a) \/ DeliveriesFail(a)
      BY <3>4 DEF SendNow, Defer, DeliveriesFail
    <3> QED BY <3>3, <3>4, <1>4 DEF Dispatcher
  <2>2. [alert[a] EXCEPT !.phase = p, !.told = t] \in AlertType
    BY <1>2 DEF AlertType
  <2> QED BY <2>1, <2>2, <1>1
<1> QED BY <1>3, <1>4

\* A step of the run that leaves the digests alone keeps the job's type.
LEMMA JobTypes ==
  ASSUME DigestTypeOK,
         \/ StartRun \/ CheckDue \/ ClaimNothing \/ ClaimFails
         \/ \E d \in DigestIds : Resume(d)
  PROVE  job' \in JobType
<1>1. /\ job \in JobType /\ hour \in Nat
  BY TypesNamed
<1>2. CASE StartRun
  <2>1. 0 \in 0..DigestMax
    BY DigestAssumption
  <2> QED BY <1>1, <1>2, <2>1 DEF StartRun, JobType
<1>3. CASE CheckDue
  BY <1>1, <1>3 DEF CheckDue, JobType
<1>4. CASE ClaimNothing \/ ClaimFails
  BY <1>1, <1>4 DEF ClaimNothing, ClaimFails, JobType
<1>5. ASSUME NEW d \in DigestIds, Resume(d) PROVE job' \in JobType
  <2>1. d \in 0..DigestMax
    BY DigestAssumption DEF DigestIds
  <2>2. [job EXCEPT !.pc = "sending", !.at = d, !.resumed = TRUE, !.todo = @ \ {d}]
          \in JobType
    BY <1>1, <2>1 DEF JobType
  <2> QED BY <1>5, <2>2 DEF Resume
<1> QED BY <1>2, <1>3, <1>4, <1>5

\* The digest a claim writes, and the marks it leaves.
LEMMA ClaimTypes ==
  ASSUME DigestTypeOK, NEW d \in DigestIds, ClaimAlerts(d)
  PROVE  /\ digest' \in [DigestIds -> DigestType]
         /\ alert' \in [Alerts -> AlertType]
         /\ job' \in JobType
<1>1. /\ alert \in [Alerts -> AlertType] /\ digest \in [DigestIds -> DigestType]
      /\ job \in JobType /\ hour \in Nat
  BY TypesNamed
<1> DEFINE floor == Floor(d, job.now)
           taken == {a \in Alerts : Claimable(a, floor, job.now)}
<1>2. /\ DigestMax \in Nat /\ d \in 1..DigestMax /\ d \in 0..DigestMax
      /\ job.now \in Nat /\ FirstFloor \in Nat
  BY <1>1, DigestAssumption DEF DigestIds, JobType
<1>3. floor \in Nat
  <2>1. CASE d # 1
    <3>1. d - 1 \in DigestIds
      BY <2>1, <1>2 DEF DigestIds
    <3>2. digest[d - 1].end \in Nat
      BY <3>1, <1>1 DEF DigestType
    <3> QED BY <2>1, <3>2 DEF Floor
  <2>2. CASE d = 1
    BY <2>2, <1>2 DEF Floor
  <2> QED BY <2>1, <2>2
<1>4. digest' \in [DigestIds -> DigestType]
  <2>1. \A st \in Statuses :
          [NoDigest EXCEPT !.status = st, !.start = floor, !.end = job.now, !.born = hour]
            \in DigestType
    BY <1>1, <1>2, <1>3 DEF NoDigest, DigestType
  <2>2. PICK st \in Statuses : digest' = [digest EXCEPT ![d] =
          [NoDigest EXCEPT !.status = st, !.start = floor, !.end = job.now, !.born = hour]]
    BY DEF ClaimAlerts, Statuses
  <2> QED BY <1>1, <2>1, <2>2
<1>5. alert' \in [Alerts -> AlertType]
  <2>1. \A a \in Alerts : [alert[a] EXCEPT !.digest = d] \in AlertType
    BY <1>1, <1>2 DEF AlertType
  <2>2. alert' = [a \in Alerts |->
          IF a \in taken THEN [alert[a] EXCEPT !.digest = d] ELSE alert[a]]
    BY DEF ClaimAlerts
  <2> QED BY <1>1, <2>1, <2>2
<1>6. job' \in JobType
  BY <1>1, <1>2 DEF ClaimAlerts, JobType
<1> QED BY <1>4, <1>5, <1>6

\* A run's step on one digest keeps the types.
LEMMA SendTypes ==
  ASSUME DigestTypeOK, NEW d \in DigestIds,
         Abandon(d) \/ Send(d) \/ RecordOutcome(d) \/ SendFails(d)
  PROVE  /\ digest' \in [DigestIds -> DigestType]
         /\ job' \in JobType
<1>1. digest \in [DigestIds -> DigestType] /\ job \in JobType /\ digest[d] \in DigestType
  BY TypesNamed
<1>2. /\ 0 \in 0..DigestMax
      /\ digest[d].attempts \in Nat /\ digest[d].mails \in Nat /\ digest[d].lost \in Nat
  BY <1>1, DigestAssumption DEF DigestType
<1> DEFINE More(x, n) == x + n
<1>3. \A n \in {0, 1} : /\ More(digest[d].attempts, n) \in Nat
                       /\ More(digest[d].mails, n) \in Nat
                       /\ More(digest[d].lost, n) \in Nat
  BY <1>2
<1>4. After(job) \in JobType
  BY <1>1, <1>2 DEF After, JobType
<1>5. CASE Abandon(d)
  <2>1. [digest[d] EXCEPT !.status = "abandoned"] \in DigestType
    BY <1>1 DEF DigestType, Statuses
  <2>2. [job EXCEPT !.todo = @ \ {d}] \in JobType
    BY <1>1 DEF JobType
  <2> QED BY <1>1, <1>5, <2>1, <2>2 DEF Abandon
<1>6. CASE Send(d)
  <2>1. PICK n \in {0, 1} : digest' = [digest EXCEPT ![d] = Mailed(d, n)]
    BY <1>6 DEF Send
  <2>2. [digest[d] EXCEPT !.mails = More(digest[d].mails, n)] \in DigestType
    <3> HIDE DEF More
    <3> QED BY <1>1, <1>3 DEF DigestType
  <2>3. Mailed(d, n) \in DigestType
    BY <2>2 DEF Mailed
  <2>4. [job EXCEPT !.pc = "recording"] \in JobType
    BY <1>1 DEF JobType
  <2> QED BY <1>1, <1>6, <2>1, <2>3, <2>4 DEF Send
<1>7. CASE RecordOutcome(d)
  <2>1. [digest[d] EXCEPT !.status = "settled", !.attempts = More(digest[d].attempts, 1)]
          \in DigestType
    <3> HIDE DEF More
    <3> QED BY <1>1, <1>3 DEF DigestType, Statuses
  <2>2. Outcome(d) \in DigestType
    BY <2>1 DEF Outcome
  <2> QED BY <1>1, <1>4, <1>7, <2>2 DEF RecordOutcome
<1>8. CASE SendFails(d)
  <2>1. PICK n \in {0, 1}, m \in {0, 1} :
          digest' = [digest EXCEPT ![d] = Failed(d, n, m)]
    BY <1>8 DEF SendFails
  <2>2. [digest[d] EXCEPT !.attempts = More(digest[d].attempts, n),
                          !.lost = More(digest[d].lost, m)] \in DigestType
    <3> HIDE DEF More
    <3> QED BY <1>1, <1>3 DEF DigestType
  <2>3. Failed(d, n, m) \in DigestType
    BY <2>2 DEF Failed
  <2> QED BY <1>1, <1>4, <1>8, <2>1, <2>3 DEF SendFails
<1> QED BY <1>5, <1>6, <1>7, <1>8

\* An edit keeps the types.
LEMMA EditTypes ==
  ASSUME DigestTypeOK, Changes
  PROVE  /\ sendAt' \in 0..(Day - 1)
         /\ rule' \in [here : BOOLEAN, org : BOOLEAN, enabled : BOOLEAN,
                       mode : RuleModes, left : BOOLEAN]
         /\ alert' \in [Alerts -> AlertType]
<1> DEFINE RuleType == [here : BOOLEAN, org : BOOLEAN, enabled : BOOLEAN,
                        mode : RuleModes, left : BOOLEAN]
<1>1. sendAt \in 0..(Day - 1) /\ rule \in RuleType /\ alert \in [Alerts -> AlertType]
  BY TypesNamed
<1>2. ASSUME NEW m \in RuleModes, SetMode(m) PROVE rule' \in RuleType /\ UNCHANGED <<sendAt, alert>>
  BY <1>1, <1>2 DEF SetMode
<1>3. CASE SetEnabled \/ DeleteRule
  <2>1. rule' \in RuleType
    BY <1>1, <1>3 DEF SetEnabled, DeleteRule
  <2> QED BY <1>1, <1>3, <2>1 DEF SetEnabled, DeleteRule
<1>4. ASSUME NEW h \in 0..(Day - 1), SetSendHour(h)
      PROVE  sendAt' \in 0..(Day - 1) /\ UNCHANGED <<rule, alert>>
  BY <1>4 DEF SetSendHour
<1>5. ASSUME NEW a \in Alerts, Reconsider(a)
      PROVE  alert' \in [Alerts -> AlertType] /\ UNCHANGED <<sendAt, rule>>
  <2>1. [alert[a] EXCEPT !.open = ~@] \in AlertType
    BY <1>1 DEF AlertType
  <2> QED BY <1>1, <1>5, <2>1 DEF Reconsider
<1> QED BY <1>1, <1>2, <1>3, <1>4, <1>5 DEF Changes

\* A crash keeps the types.
LEMMA CrashTypes ==
  ASSUME DigestTypeOK, AlertCrash
  PROVE  /\ digest' \in [DigestIds -> DigestType]
         /\ alert' \in [Alerts -> AlertType]
         /\ job' \in JobType
<1>1. /\ alert \in [Alerts -> AlertType] /\ digest \in [DigestIds -> DigestType]
      /\ job \in JobType /\ hour \in Nat
  BY TypesNamed
<1>2. \A a \in Alerts, p \in {"gone", "over"} : [alert[a] EXCEPT !.phase = p] \in AlertType
  BY <1>1 DEF AlertType
<1>3. alert' \in [Alerts -> AlertType]
  BY <1>1, <1>2 DEF AlertCrash
<1>4. \A d \in DigestIds : [digest[d] EXCEPT !.lost = @ + 1] \in DigestType
  BY <1>1 DEF DigestType
<1>5. digest' \in [DigestIds -> DigestType]
  BY <1>1, <1>4 DEF AlertCrash
<1>6. job' \in JobType
  <2>1. 0 \in 0..DigestMax
    BY DigestAssumption
  <2> QED BY <1>1, <2>1 DEF AlertCrash, NoRun, JobType
<1> QED BY <1>3, <1>5, <1>6

\* Every step keeps the types.
LEMMA TypeStep == DigestTypeOK /\ [DigestNext]_digestVars => DigestTypeOK'
<1> SUFFICES ASSUME DigestTypeOK, [DigestNext]_digestVars PROVE DigestTypeOK'
  OBVIOUS
<1> DEFINE RuleType == [here : BOOLEAN, org : BOOLEAN, enabled : BOOLEAN,
                        mode : RuleModes, left : BOOLEAN]
           Scalars == /\ hour \in 0..MaxHour /\ sendAt \in 0..(Day - 1)
                      /\ losses \in 0..MaxLosses /\ edits \in 0..MaxEdits
                      /\ rule \in RuleType
<1>1. /\ Scalars
      /\ alert \in [Alerts -> AlertType] /\ digest \in [DigestIds -> DigestType]
      /\ job \in JobType
  BY TypesNamed
<1>2. /\ MaxLosses \in Nat /\ MaxEdits \in Nat /\ MaxHour \in Nat
  BY DigestAssumption
<1>3. Lose => losses' \in 0..MaxLosses
  BY <1>1, <1>2 DEF Lose
<1>4. SUFFICES /\ Scalars'
               /\ alert' \in [Alerts -> AlertType] /\ digest' \in [DigestIds -> DigestType]
               /\ job' \in JobType
  BY DEF DigestTypeOK, AlertType, DigestType, JobType, Statuses
<1>5. CASE /\ \E a \in Alerts : Dispatcher(a)
           /\ UNCHANGED <<hour, sendAt, rule, digest, job, losses, edits>>
  BY <1>1, <1>5, DispatcherTypes
<1>6. CASE /\ \E a \in Alerts : RecordingFails(a) \/ DeliveriesFail(a)
           /\ UNCHANGED <<hour, sendAt, rule, digest, job, edits>>
  <2>1. Lose
    BY <1>6 DEF RecordingFails, DeliveriesFail
  <2> QED BY <1>1, <1>3, <1>6, <2>1, DispatcherTypes
<1>7. CASE JobStep /\ UNCHANGED <<hour, sendAt, rule, losses, edits>>
  <2>1. CASE StartRun \/ CheckDue \/ ClaimNothing \/ \E d \in DigestIds : Resume(d)
    <3>1. UNCHANGED <<alert, digest>>
      BY <2>1 DEF StartRun, CheckDue, ClaimNothing, Resume
    <3> QED BY <1>1, <1>7, <2>1, <3>1, JobTypes
  <2>2. ASSUME NEW d \in DigestIds, ClaimAlerts(d)
        PROVE  /\ alert' \in [Alerts -> AlertType] /\ digest' \in [DigestIds -> DigestType]
               /\ job' \in JobType
    BY <2>2, ClaimTypes
  <2>3. ASSUME NEW d \in DigestIds, Abandon(d) \/ Send(d) \/ RecordOutcome(d)
        PROVE  /\ alert' = alert /\ digest' \in [DigestIds -> DigestType]
               /\ job' \in JobType
    <3>1. alert' = alert
      BY <2>3 DEF Abandon, Send, RecordOutcome
    <3> QED BY <2>3, <3>1, SendTypes
  <2> QED BY <1>1, <1>7, <2>1, <2>2, <2>3 DEF JobStep
<1>8. CASE (JobFails \/ AlertCrash) /\ Lose /\ UNCHANGED <<hour, sendAt, rule, edits>>
  <2>1. CASE ClaimFails
    <3>1. UNCHANGED <<alert, digest>>
      BY <2>1 DEF ClaimFails
    <3> QED BY <1>1, <1>3, <1>8, <2>1, <3>1, JobTypes
  <2>2. ASSUME NEW d \in DigestIds, SendFails(d)
        PROVE  /\ alert' = alert /\ digest' \in [DigestIds -> DigestType]
               /\ job' \in JobType
    <3>1. alert' = alert
      BY <2>2 DEF SendFails
    <3> QED BY <2>2, <3>1, SendTypes
  <2>3. CASE AlertCrash
    BY <1>1, <1>3, <1>8, <2>3, CrashTypes
  <2> QED BY <1>1, <1>3, <1>8, <2>1, <2>2, <2>3 DEF JobFails
<1>9. CASE Changes /\ Edit /\ UNCHANGED <<hour, digest, job, losses>>
  <2>1. edits' \in 0..MaxEdits
    BY <1>1, <1>2, <1>9 DEF Edit
  <2> QED BY <1>1, <1>9, <2>1, EditTypes
<1>10. CASE AlertTick /\ UNCHANGED <<sendAt, rule, alert, digest, job, losses, edits>>
  BY <1>1, <1>2, <1>10 DEF AlertTick
<1>11. CASE UNCHANGED digestVars
  BY <1>1, <1>11 DEF digestVars
<1> QED BY <1>5, <1>6, <1>7, <1>8, <1>9, <1>10, <1>11 DEF DigestNext

\* Every state has its types: the records of the rule, its alerts and digests, and
\* the counters within their bounds.
THEOREM DigestTypesHold == DigestSpec => []DigestTypeOK
<1>1. DigestInit => DigestTypeOK
  <2> SUFFICES ASSUME DigestInit PROVE DigestTypeOK
    OBVIOUS
  <2>1. /\ DigestMax \in Nat /\ Day \in Nat /\ Day > 0
        /\ MaxHour \in Nat /\ MaxLosses \in Nat /\ MaxEdits \in Nat
    BY DigestAssumption
  <2>2. alert \in [Alerts -> AlertType]
    BY <2>1 DEF DigestInit, NoAlert, AlertType, RuleModes
  <2>3. digest \in [DigestIds -> DigestType]
    BY DEF DigestInit, NoDigest, DigestType, Statuses
  <2>4. job \in JobType
    BY <2>1 DEF DigestInit, NoRun, JobType
  <2>5. rule \in [here : BOOLEAN, org : BOOLEAN, enabled : BOOLEAN,
                 mode : RuleModes, left : BOOLEAN]
    BY DEF DigestInit
  <2> QED BY <2>1, <2>2, <2>3, <2>4, <2>5, TypesNamed DEF DigestInit
<1> QED BY <1>1, TypeStep, PTL DEF DigestSpec

------------------------------------------------------------------------------
(* Mails.                                                                     *)

\* Steps that leave the digests alone and hold none that was not held before.
LEMMA MailKept ==
  ASSUME MailInv, UNCHANGED digest, job'.todo \subseteq job.todo,
         \/ job' = job
         \/ job.pc \notin {"sending", "recording"} /\ job'.pc \notin {"sending", "recording"}
              /\ job'.at = job.at
  PROVE  MailInv'
  BY DEF MailInv

\* The step that begins, resumes, sends, records or loses a digest.
LEMMA MailJob ==
  ASSUME DigestTypeOK, MailInv, JobStep \/ JobFails \/ AlertCrash
  PROVE  MailInv'
<1>1. /\ digest \in [DigestIds -> DigestType] /\ job \in JobType
      /\ MaxAttempts \in Nat /\ MaxAttempts > 0
  BY TypesNamed, DigestAssumption
<1>2. \A d \in DigestIds : /\ digest[d].attempts \in Nat
                          /\ digest[d].mails \in Nat /\ digest[d].lost \in Nat
  BY <1>1 DEF DigestType
<1>3. job.todo \subseteq DigestIds /\ 0 \notin DigestIds
  BY <1>1 DEF JobType, DigestIds
<1>4. CASE StartRun
  <2>1. /\ digest' = digest /\ job'.at = 0 /\ job'.pc = "resuming" /\ job.pc = "idle"
        /\ \A d \in job'.todo : d \in DigestIds /\ digest[d].status = "pending"
    BY <1>4 DEF StartRun
  <2> QED BY <2>1, <1>3 DEF MailInv
<1>5. CASE CheckDue \/ ClaimNothing \/ ClaimFails
  <2>1. /\ digest' = digest /\ job'.todo = job.todo /\ job'.at = job.at
        /\ job.pc \notin {"sending", "recording"} /\ job'.pc \notin {"sending", "recording"}
    BY <1>1, <1>5 DEF CheckDue, ClaimNothing, ClaimFails, JobType
  <2> QED BY <2>1, MailKept
<1>6. ASSUME NEW d \in DigestIds, Abandon(d) PROVE MailInv'
  <2>1. /\ digest' = [digest EXCEPT ![d].status = "abandoned"]
        /\ job'.pc = "resuming" /\ job.pc = "resuming" /\ job'.at = job.at
        /\ job'.todo = job.todo \ {d}
    BY <1>1, <1>6 DEF Abandon, JobType
  <2>2. \A e \in DigestIds :
          /\ digest'[e].attempts = digest[e].attempts
          /\ digest'[e].mails = digest[e].mails /\ digest'[e].lost = digest[e].lost
          /\ digest'[e].status = IF e = d THEN "abandoned" ELSE digest[e].status
    BY <1>1, <2>1 DEF DigestType
  <2> QED BY <1>3, <2>1, <2>2 DEF MailInv
<1>7. ASSUME NEW d \in DigestIds, Resume(d) PROVE MailInv'
  <2>1. /\ digest' = digest /\ d \in job.todo /\ digest[d].attempts < MaxAttempts
        /\ job.pc = "resuming" /\ job'.pc = "sending" /\ job'.at = d
        /\ job'.todo = job.todo \ {d}
    BY <1>1, <1>2, <1>7 DEF Resume, Exhausted, JobType
  <2> QED BY <1>3, <2>1 DEF MailInv
<1>8. ASSUME NEW d \in DigestIds, ClaimAlerts(d) PROVE MailInv'
  <2>1. PICK st \in {"settled", "pending"} :
          /\ digest' = [digest EXCEPT ![d] =
               [NoDigest EXCEPT !.status = st, !.start = Floor(d, job.now),
                                !.end = job.now, !.born = hour]]
          /\ st = "settled" => job'.pc = "idle"
          /\ st = "pending" => job'.pc = "sending" /\ job'.at = d
          /\ job'.todo = job.todo
    BY <1>1, <1>8 DEF ClaimAlerts, JobType
  <2>2. job.pc = "claiming" /\ digest[d].status = "none"
    BY <1>8 DEF ClaimAlerts, NextDigest
  <2>3. \A e \in DigestIds \ {d} : digest'[e] = digest[e]
    BY <1>1, <2>1
  <2>4. /\ digest'[d].attempts = 0 /\ digest'[d].mails = 0 /\ digest'[d].lost = 0
        /\ digest'[d].status = st
    BY <1>1, <2>1 DEF NoDigest
  <2>5. d \notin job.todo
    BY <2>2 DEF MailInv
  <2>6. st = "settled" => job'.at = job.at
    BY <1>1, <1>8, <2>1 DEF ClaimAlerts, JobType
  <2> QED BY <1>1, <1>2, <1>3, <2>1, <2>2, <2>3, <2>4, <2>5, <2>6 DEF MailInv
<1>9. ASSUME NEW d \in DigestIds, Send(d) PROVE MailInv'
  <2>1. PICK n \in {0, 1} : digest' = [digest EXCEPT ![d] = Mailed(d, n)]
    BY <1>9 DEF Send
  <2>2. /\ job.pc = "sending" /\ job.at = d /\ job'.pc = "recording" /\ job'.at = d
        /\ job'.todo = job.todo
    BY <1>1, <1>9 DEF Send, JobType
  <2>3. \A e \in DigestIds :
          /\ digest'[e].attempts = digest[e].attempts
          /\ digest'[e].status = digest[e].status /\ digest'[e].lost = digest[e].lost
          /\ digest'[e].mails = IF e = d THEN digest[e].mails + n ELSE digest[e].mails
    BY <1>1, <2>1 DEF Mailed, DigestType
  <2> QED BY <1>2, <1>3, <2>2, <2>3 DEF MailInv
<1>10. ASSUME NEW d \in DigestIds, RecordOutcome(d) PROVE MailInv'
  <2>1. /\ digest' = [digest EXCEPT ![d] = Outcome(d)] /\ job.pc = "recording" /\ job.at = d
        /\ job'.pc \in {"resuming", "idle"} /\ job'.at = 0 /\ job'.todo = job.todo
    BY <1>1, <1>10 DEF RecordOutcome, After, JobType
  <2>2. \A e \in DigestIds :
          /\ digest'[e].mails = digest[e].mails /\ digest'[e].lost = digest[e].lost
          /\ digest'[e].status = IF e = d THEN "settled" ELSE digest[e].status
          /\ digest'[e].attempts =
               IF e = d THEN digest[e].attempts + 1 ELSE digest[e].attempts
    BY <1>1, <2>1 DEF Outcome, DigestType
  <2> QED BY <1>1, <1>2, <1>3, <2>1, <2>2 DEF MailInv
<1>11. ASSUME NEW d \in DigestIds, SendFails(d) PROVE MailInv'
  <2>1. PICK n \in {0, 1} :
          digest' = [digest EXCEPT ![d] =
                       Failed(d, n, IF job.pc = "recording" THEN 1 ELSE 0)]
    BY <1>11 DEF SendFails
  <2>2. /\ job.pc \in {"sending", "recording"} /\ job.at = d
        /\ job'.pc \in {"resuming", "idle"} /\ job'.at = 0 /\ job'.todo = job.todo
    BY <1>1, <1>11 DEF SendFails, After, JobType
  <2>3. \A e \in DigestIds :
          /\ digest'[e].mails = digest[e].mails /\ digest'[e].status = digest[e].status
          /\ digest'[e].attempts =
               IF e = d THEN digest[e].attempts + n ELSE digest[e].attempts
          /\ digest'[e].lost =
               IF e = d /\ job.pc = "recording" THEN digest[e].lost + 1 ELSE digest[e].lost
    <3>1. \A m : LET r == [digest[d] EXCEPT !.attempts = @ + n, !.lost = @ + m]
                 IN  /\ r.attempts = digest[d].attempts + n /\ r.lost = digest[d].lost + m
                     /\ r.mails = digest[d].mails /\ r.status = digest[d].status
      BY <1>1 DEF DigestType
    <3> QED BY <1>1, <1>2, <2>1, <3>1 DEF Failed
  <2> QED BY <1>1, <1>2, <1>3, <2>2, <2>3 DEF MailInv
<1>12. CASE AlertCrash
  <2>1. /\ job'.pc = "idle" /\ job'.at = 0 /\ job'.todo = {}
    BY <1>12 DEF AlertCrash, NoRun
  <2>2. \A e \in DigestIds :
          /\ digest'[e].mails = digest[e].mails /\ digest'[e].status = digest[e].status
          /\ digest'[e].attempts = digest[e].attempts
          /\ digest'[e].lost =
               IF job.pc = "recording" /\ job.at = e THEN digest[e].lost + 1 ELSE digest[e].lost
    BY <1>1, <1>12 DEF AlertCrash, DigestType
  <2> QED BY <1>1, <1>2, <1>3, <2>1, <2>2 DEF MailInv
<1> QED BY <1>4, <1>5, <1>6, <1>7, <1>8, <1>9, <1>10, <1>11, <1>12 DEF JobStep, JobFails

\* The digests and the run that mails them agree in every state.
LEMMA MailsInOrder == DigestSpec => []MailInv
<1>1. DigestInit => MailInv
  <2> SUFFICES ASSUME DigestInit PROVE MailInv
    OBVIOUS
  <2>1. /\ job.todo = {} /\ job.pc = "idle" /\ MaxAttempts \in Nat
        /\ \A d \in DigestIds : digest[d].attempts = 0 /\ digest[d].mails = 0
                               /\ digest[d].lost = 0
    BY DigestAssumption DEF DigestInit, NoRun, NoDigest
  <2> QED BY <2>1 DEF MailInv
<1>2. DigestTypeOK /\ MailInv /\ [DigestNext]_digestVars => MailInv'
  <2> SUFFICES ASSUME DigestTypeOK, MailInv, [DigestNext]_digestVars PROVE MailInv'
    OBVIOUS
  <2>1. CASE JobStep \/ JobFails \/ AlertCrash
    BY <2>1, MailJob
  <2>2. CASE UNCHANGED <<digest, job>>
    BY <2>2, MailKept
  <2> QED BY <2>1, <2>2 DEF DigestNext, digestVars
<1> QED BY <1>1, <1>2, DigestTypesHold, PTL DEF DigestSpec

\* A digest is mailed again only when the outcome of the mail before was lost, and
\* has at most MAX_ATTEMPTS counted attempts (services/digest.py, send, retry_stale).
THEOREM MailsAreRecorded == DigestSpec => []MailedOncePerRecord
<1>1. MailInv => MailedOncePerRecord
  BY DEF MailInv, MailedOncePerRecord
<1> QED BY <1>1, MailsInOrder, PTL

------------------------------------------------------------------------------
(* Periods.                                                                   *)

\* The numbers of the model.
LEMMA DigestNumbers ==
  /\ Day \in Nat /\ Grace \in Nat /\ FirstFloor \in Nat /\ DigestMax \in Nat /\ MaxLag \in Nat
  /\ Day > 0 /\ FirstFloor > 0 /\ MaxLag < Grace /\ Grace <= Day
  BY DigestAssumption

\* An hour is after the last send hour by less than a day.
LEMMA CutoffBounds ==
  ASSUME NEW n \in Nat, sendAt \in 0..(Day - 1)
  PROVE  Cutoff(n) \in Int /\ Cutoff(n) <= n
<1>1. Day \in Nat /\ Day > 0 /\ n - sendAt \in Int
  BY DigestNumbers
<1>2. (n - sendAt) % Day \in Nat
  BY <1>1
<1> QED BY <1>1, <1>2 DEF Cutoff

\* The run's steps that mail, record, resume or give up leave the periods alone.
LEMMA PeriodFrame ==
  ASSUME DigestTypeOK, PeriodInv, UNCHANGED <<hour, rule, edits, alert>>, job'.now <= hour,
         \A d \in DigestIds :
           /\ digest'[d].status = "none" <=> digest[d].status = "none"
           /\ digest'[d].start = digest[d].start /\ digest'[d].end = digest[d].end
  PROVE  PeriodInv'
<1>1. Written' = Written /\ Written \subseteq DigestIds
  BY DEF Written
<1>2. \A d \in Written : 1 \in Written
  BY DEF PeriodInv
<1>3. \A d \in Written :
        /\ digest'[d].start = digest[d].start /\ digest'[d].end = digest[d].end
        /\ digest'[1].start = digest[1].start
  BY <1>1, <1>2
<1>4. \A a \in Alerts : /\ HeldBack(a)' <=> HeldBack(a)
                        /\ Unclaimed(a)' <=> Unclaimed(a)
                        /\ Reaches(a)' <=> Reaches(a)
  BY DEF HeldBack, Unclaimed, Committed, Reaches
<1> QED BY <1>1, <1>3, <1>4 DEF PeriodInv

\* The dispatcher's steps (notification_dispatcher.py, _select_record_send).
LEMMA PeriodDispatch ==
  ASSUME DigestTypeOK, PeriodInv, NEW a \in Alerts,
         Dispatcher(a) \/ RecordingFails(a) \/ DeliveriesFail(a),
         UNCHANGED <<hour, rule, digest, job, edits>>
  PROVE  PeriodInv'
<1>1. alert \in [Alerts -> AlertType] /\ hour \in Nat /\ digest \in [DigestIds -> DigestType]
  BY TypesNamed
<1>2. Written' = Written /\ Written \subseteq DigestIds
  BY DEF Written
<1>3. \A d \in Written : digest[d].end \in Nat /\ digest[d].end <= hour
  BY <1>1, <1>2 DEF PeriodInv, DigestType
<1>4. \A b \in Alerts \ {a} : alert'[b] = alert[b]
  BY <1>1 DEF Dispatcher, Select, Recorded, SendNow, Defer, RecordingFails, DeliveriesFail
<1>5. CASE Select(a)
  <2>1. /\ alert'[a].phase = "selecting" /\ alert'[a].mode = rule.mode /\ alert'[a].born = hour
        /\ alert'[a].told = alert[a].told /\ alert'[a].open = alert[a].open
    BY <1>1, <1>5 DEF Select, AlertType
  <2>2. ~HeldBack(a)' /\ ~Unclaimed(a)'
    BY <2>1 DEF HeldBack, Unclaimed, Committed
  <2> QED BY <1>1, <1>2, <1>4, <2>1, <2>2, DigestNumbers
          DEF PeriodInv, HeldBack, Unclaimed, Committed, Reaches
<1>6. CASE ~Select(a)
  <2>1. /\ alert'[a].mode = alert[a].mode /\ alert'[a].born = alert[a].born
        /\ alert'[a].open = alert[a].open /\ alert'[a].digest = alert[a].digest
        /\ alert[a].phase \in {"selecting", "recorded"}
        /\ alert'[a].phase \in {"recorded", "over", "gone"}
        /\ rule.org => alert'[a].phase # "recorded"
        /\ alert'[a].told = "deferred" =>
             alert[a].told = "deferred" \/ alert[a].phase = "recorded"
    <3>1. PICK p \in {"recorded", "over", "gone"}, t \in {"no", "now", "deferred"} :
            /\ alert' = [alert EXCEPT ![a] = [@ EXCEPT !.phase = p, !.told = t]]
            /\ alert[a].phase \in {"selecting", "recorded"}
            /\ rule.org => p # "recorded"
            /\ t = "deferred" => alert[a].told = "deferred" \/ alert[a].phase = "recorded"
      <4>1. alert[a].told \in {"no", "now", "deferred"} /\ alert[a] \in AlertType
        BY <1>1 DEF AlertType
      <4>2. CASE Recorded(a) \/ RecordingFails(a)
        <5>1. PICK p \in {"recorded", "over", "gone"} :
                alert' = [alert EXCEPT ![a].phase = p] /\ (rule.org => p # "recorded")
          BY <4>2 DEF Recorded, RecordingFails
        <5>2. [alert[a] EXCEPT !.phase = p] = [alert[a] EXCEPT !.phase = p, !.told = alert[a].told]
          BY <4>1 DEF AlertType
        <5> QED BY <4>1, <4>2, <5>1, <5>2 DEF Recorded, RecordingFails
      <4>3. CASE SendNow(a) \/ Defer(a) \/ DeliveriesFail(a)
        BY <4>3 DEF SendNow, Defer, DeliveriesFail
      <4> QED BY <1>6, <4>2, <4>3 DEF Dispatcher
    <3>2. alert'[a] = [alert[a] EXCEPT !.phase = p, !.told = t] /\ alert[a] \in AlertType
      BY <1>1, <3>1
    <3>3. /\ alert'[a].phase = p /\ alert'[a].told = t
          /\ alert'[a].mode = alert[a].mode /\ alert'[a].born = alert[a].born
          /\ alert'[a].open = alert[a].open /\ alert'[a].digest = alert[a].digest
      BY <3>2 DEF AlertType
    <3> QED BY <3>1, <3>3
  <2>2. hour <= alert[a].born + MaxLag /\ alert[a].born \in Nat
    BY <1>1, <2>1 DEF PeriodInv, AlertType
  <2>3. \A d \in Written : /\ digest[d].end <= alert[a].born + MaxLag
                           /\ digest[d].end < alert[a].born + Grace
    BY <1>1, <1>3, <2>2, DigestNumbers
  <2>4. Reaches(a)' <=> Reaches(a)
    BY <2>1 DEF Reaches
  <2>5. \A b \in Alerts \ {a} : /\ HeldBack(b)' <=> HeldBack(b)
                                /\ Unclaimed(b)' <=> Unclaimed(b)
                                /\ Reaches(b)' <=> Reaches(b)
    BY <1>4 DEF HeldBack, Unclaimed, Committed, Reaches
  <2>6. /\ alert'[a].born <= hour
        /\ alert'[a].phase \in {"selecting", "recorded"} => hour <= alert'[a].born + MaxLag
        /\ Reaches(a)' => rule.mode \in DigestModes
        /\ rule.org => alert'[a].phase # "recorded" /\ alert'[a].told # "deferred"
        /\ rule.org /\ edits = 0 => alert'[a].open
    BY <2>1, <2>2, <2>4 DEF PeriodInv
  <2> QED BY <1>2, <1>4, <2>1, <2>3, <2>5, <2>6 DEF PeriodInv
<1> QED BY <1>5, <1>6

\* A claim: what it leaves unclaimed began after it, before the first digest, or
\* was not committed yet (services/digest.py, claim).
LEMMA PeriodClaim ==
  ASSUME DigestTypeOK, PeriodInv, NEW d \in DigestIds, ClaimAlerts(d),
         UNCHANGED <<hour, rule, edits>>
  PROVE  PeriodInv'
<1>1. /\ alert \in [Alerts -> AlertType] /\ digest \in [DigestIds -> DigestType]
      /\ job \in JobType /\ hour \in Nat
  BY TypesNamed
<1> DEFINE floor == Floor(d, job.now)
           taken == {a \in Alerts : Claimable(a, floor, job.now)}
<1>2. /\ \A a \in Alerts : alert'[a] = IF a \in taken THEN [alert[a] EXCEPT !.digest = d] ELSE alert[a]
      /\ \A e \in DigestIds \ {d} : digest'[e] = digest[e]
      /\ digest'[d].status # "none" /\ digest'[d].start = floor /\ digest'[d].end = job.now
      /\ job'.now = job.now /\ floor < job.now
      /\ digest[d].status = "none"
  <2>1. PICK st \in {"settled", "pending"} : digest' = [digest EXCEPT ![d] =
          [NoDigest EXCEPT !.status = st, !.start = floor, !.end = job.now, !.born = hour]]
    BY DEF ClaimAlerts
  <2>2. /\ digest'[d].status # "none" /\ digest'[d].start = floor /\ digest'[d].end = job.now
        /\ \A e \in DigestIds \ {d} : digest'[e] = digest[e]
    BY <1>1, <2>1 DEF NoDigest
  <2>3. alert' = [a \in Alerts |-> IF a \in taken THEN [alert[a] EXCEPT !.digest = d] ELSE alert[a]]
    BY DEF ClaimAlerts
  <2>4. job'.now = job.now
    BY <1>1 DEF ClaimAlerts, JobType
  <2> QED BY <2>2, <2>3, <2>4 DEF ClaimAlerts, NextDigest
<1>3. Written' = Written \cup {d} /\ d \notin Written /\ Written \subseteq DigestIds
  BY <1>2 DEF Written
<1>4. job.now \in Nat /\ floor \in Nat /\ job.now <= hour
  <2>1. digest' \in [DigestIds -> DigestType]
    BY ClaimTypes
  <2> QED BY <1>1, <1>2, <2>1 DEF JobType, PeriodInv, DigestType
<1>5. d # 1 => d - 1 \in Written /\ floor = digest[d - 1].end
  BY DigestNumbers DEF ClaimAlerts, NextDigest, Written, DigestIds, Floor
<1>6. /\ \A e \in Written : 1 \in Written /\ digest[e].start \in Nat /\ digest[e].end \in Nat
      /\ d # 1 => 1 \in Written
      /\ d = 1 => Written = {}
  BY <1>1, <1>3, <1>5 DEF PeriodInv, DigestType
<1>7. \A e \in Written' : /\ 1 \in Written' /\ digest'[1].start <= digest'[e].start
                          /\ digest'[e].start <= digest'[e].end /\ digest'[e].end <= hour
  BY <1>2, <1>3, <1>4, <1>5, <1>6 DEF PeriodInv
<1>8. \A a \in Alerts : /\ alert'[a].born = alert[a].born /\ alert[a].born \in Nat
                        /\ alert'[a].phase = alert[a].phase
                        /\ alert'[a].mode = alert[a].mode /\ alert'[a].told = alert[a].told
                        /\ alert'[a].open = alert[a].open
                        /\ Reaches(a)' <=> Reaches(a)
  <2> SUFFICES ASSUME NEW a \in Alerts
               PROVE  /\ alert'[a].born = alert[a].born /\ alert[a].born \in Nat
                      /\ alert'[a].phase = alert[a].phase
                      /\ alert'[a].mode = alert[a].mode /\ alert'[a].told = alert[a].told
                      /\ alert'[a].open = alert[a].open
    BY DEF Reaches
  <2>1. alert[a] \in AlertType
    BY <1>1
  <2>2. alert'[a] = alert[a] \/ alert'[a] = [alert[a] EXCEPT !.digest = d]
    BY <1>2
  <2> QED BY <2>1, <2>2 DEF AlertType
<1>9. ASSUME NEW a \in Alerts, Unclaimed(a)'
      PROVE  a \notin taken /\ Unclaimed(a)
  <2>1. a \notin taken
    <3>1. a \in taken => alert'[a].digest = d
      BY <1>1, <1>2 DEF AlertType
    <3>2. d # 0
      BY DEF DigestIds
    <3> QED BY <1>9, <3>1, <3>2 DEF Unclaimed
  <2> QED BY <1>2, <1>9, <2>1 DEF Unclaimed, Committed
<1>10. ASSUME NEW a \in Alerts, HeldBack(a)'
       PROVE  \A e \in Written' : digest'[e].end <= alert'[a].born + MaxLag
  <2>1. a \notin taken /\ HeldBack(a)
    BY <1>8, <1>9, <1>10 DEF HeldBack
  <2>2. ~rule.org
    BY <2>1 DEF PeriodInv, HeldBack
  <2>3. alert[a].born > job.now
    BY <1>4, <1>8, <2>1, <2>2 DEF Claimable, HeldBack
  <2> QED BY <1>2, <1>3, <1>4, <1>6, <1>8, <2>1, <2>3, DigestNumbers DEF PeriodInv
<1>11. ASSUME NEW a \in Alerts, Unclaimed(a)', Reaches(a)', NEW e \in Written'
       PROVE  \/ digest'[e].end < alert'[a].born + Grace
              \/ alert'[a].born <= digest'[1].start
  <2>1. a \notin taken /\ Unclaimed(a) /\ Reaches(a) /\ ~Claimable(a, floor, job.now)
    BY <1>8, <1>9, <1>11
  <2>2. e # d => \/ digest[e].end < alert[a].born + Grace
                 \/ alert[a].born <= digest[1].start
    BY <1>3, <2>1 DEF PeriodInv
  <2>3. rule.mode \in DigestModes /\ (rule.org => alert[a].open)
    BY <2>1 DEF PeriodInv, Reaches, Unclaimed, Committed
  <2>4. alert[a].born > job.now \/ ~InWindow(a, floor)
    BY <1>4, <1>8, <2>1, <2>3 DEF Claimable
  <2>5. CASE e # d
    <3>1. 1 \in Written /\ d # 1
      BY <1>3, <1>6, <2>5
    <3> QED BY <1>2, <1>3, <1>8, <2>2, <2>5, <3>1
  <2>6. CASE e = d /\ alert[a].born > job.now
    BY <1>2, <1>4, <1>8, <2>6, DigestNumbers
  <2>7. CASE e = d /\ ~InWindow(a, floor)
    <3>1. alert[a].born + Grace <= floor
      BY <1>4, <1>8, <2>7, DigestNumbers DEF InWindow
    <3>2. CASE d = 1
      BY <1>2, <1>4, <1>8, <3>1, <3>2, DigestNumbers
    <3>3. CASE d # 1
      <4>1. \/ digest[d - 1].end < alert[a].born + Grace
            \/ alert[a].born <= digest[1].start
        BY <1>5, <2>1, <3>3 DEF PeriodInv
      <4>2. digest[1].start = digest'[1].start
        BY <1>2, <1>3, <1>6, <3>3
      <4> QED BY <1>4, <1>5, <1>6, <1>8, <3>1, <3>3, <4>1, <4>2, DigestNumbers
    <3> QED BY <3>2, <3>3
  <2> QED BY <2>4, <2>5, <2>6, <2>7
<1>12. job'.now <= hour'
  BY <1>2, <1>4
<1>13. \A a \in Alerts :
        /\ alert'[a].born <= hour
        /\ alert'[a].phase \in {"selecting", "recorded"} => hour <= alert'[a].born + MaxLag
        /\ alert'[a].phase # "none" /\ Reaches(a)' => rule.mode \in DigestModes
        /\ rule.org => alert'[a].phase # "recorded" /\ alert'[a].told # "deferred"
        /\ rule.org /\ edits = 0 => alert'[a].open
  BY <1>8 DEF PeriodInv
<1> QED BY <1>7, <1>10, <1>11, <1>12, <1>13 DEF PeriodInv

\* An edit of the rule, the send hour or what a candidate may name.
LEMMA PeriodEdit ==
  ASSUME DigestTypeOK, PeriodInv, Changes, Edit, UNCHANGED <<hour, digest, job, losses>>
  PROVE  PeriodInv'
<1>1. /\ alert \in [Alerts -> AlertType] /\ edits' # 0 /\ edits \in Nat
      /\ rule \in [here : BOOLEAN, org : BOOLEAN, enabled : BOOLEAN,
                   mode : RuleModes, left : BOOLEAN]
  BY TypesNamed DEF Edit
<1>2. Written' = Written
  BY DEF Written
<1>3. /\ rule'.org = rule.org
      /\ rule.left => rule'.left
      /\ rule.mode \in DigestModes /\ ~rule'.left => rule'.mode \in DigestModes
  <2>1. ASSUME NEW m \in RuleModes, SetMode(m)
        PROVE  /\ rule'.org = rule.org /\ rule'.mode = m
               /\ rule'.left <=> (rule.left \/ m = "immediate")
    BY <1>1, <2>1 DEF SetMode
  <2>2. CASE SetEnabled \/ DeleteRule
    BY <1>1, <2>2 DEF SetEnabled, DeleteRule
  <2>3. ASSUME NEW h, SetSendHour(h) PROVE rule' = rule
    BY <2>3 DEF SetSendHour
  <2>4. ASSUME NEW a, Reconsider(a) PROVE rule' = rule
    BY <2>4 DEF Reconsider
  <2> QED BY <2>1, <2>2, <2>3, <2>4 DEF Changes, RuleModes, DigestModes
<1>4. \A b \in Alerts :
        /\ alert'[b].born = alert[b].born /\ alert'[b].phase = alert[b].phase
        /\ alert'[b].mode = alert[b].mode /\ alert'[b].told = alert[b].told
        /\ alert'[b].digest = alert[b].digest
  <2>1. CASE alert' = alert
    BY <2>1
  <2>2. ASSUME NEW a \in Alerts, Reconsider(a)
        PROVE  \A b \in Alerts :
                 /\ alert'[b].born = alert[b].born /\ alert'[b].phase = alert[b].phase
                 /\ alert'[b].mode = alert[b].mode /\ alert'[b].told = alert[b].told
                 /\ alert'[b].digest = alert[b].digest
    BY <1>1, <2>2 DEF Reconsider, AlertType
  <2> QED BY <2>1, <2>2 DEF Changes, SetMode, SetEnabled, DeleteRule, SetSendHour
<1>5. \A b \in Alerts :
        /\ HeldBack(b)' <=> HeldBack(b)
        /\ Unclaimed(b)' <=> Unclaimed(b)
        /\ Reaches(b)' => Reaches(b)
  BY <1>1, <1>3, <1>4 DEF HeldBack, Unclaimed, Committed, Reaches
<1>6. \A b \in Alerts : alert[b].phase # "none" /\ Reaches(b)' => rule'.mode \in DigestModes
  BY <1>3, <1>5 DEF PeriodInv, Reaches
<1>7. \A b \in Alerts : alert'[b].phase # "none" /\ Reaches(b)' => rule'.mode \in DigestModes
  BY <1>4, <1>6
<1> QED BY <1>1, <1>2, <1>3, <1>4, <1>5, <1>7 DEF PeriodInv

\* A crash loses what a dispatcher had not committed.
LEMMA PeriodCrash ==
  ASSUME DigestTypeOK, PeriodInv, AlertCrash, UNCHANGED <<hour, rule, edits>>
  PROVE  PeriodInv'
<1>1. /\ alert \in [Alerts -> AlertType] /\ digest \in [DigestIds -> DigestType]
      /\ hour \in Nat
  BY TypesNamed
<1>2. \A d \in DigestIds : /\ digest'[d].status = digest[d].status
                           /\ digest'[d].start = digest[d].start
                           /\ digest'[d].end = digest[d].end
  BY <1>1 DEF AlertCrash, DigestType
<1>3. Written' = Written /\ Written \subseteq DigestIds
  BY <1>2 DEF Written
<1>4. \A a \in Alerts :
        /\ alert'[a].born = alert[a].born /\ alert'[a].mode = alert[a].mode
        /\ alert'[a].told = alert[a].told /\ alert'[a].open = alert[a].open
        /\ alert'[a].digest = alert[a].digest
        /\ alert'[a].phase \notin {"selecting", "recorded"}
        /\ alert'[a].phase = "none" <=> alert[a].phase = "none"
        /\ alert'[a].phase = "over" <=> alert[a].phase \in {"recorded", "over"}
  <2> SUFFICES ASSUME NEW a \in Alerts
               PROVE  /\ alert'[a].born = alert[a].born /\ alert'[a].mode = alert[a].mode
                      /\ alert'[a].told = alert[a].told /\ alert'[a].open = alert[a].open
                      /\ alert'[a].digest = alert[a].digest
                      /\ alert'[a].phase \notin {"selecting", "recorded"}
                      /\ alert'[a].phase = "none" <=> alert[a].phase = "none"
                      /\ alert'[a].phase = "over" <=> alert[a].phase \in {"recorded", "over"}
    OBVIOUS
  <2>1. alert[a] \in AlertType
    BY <1>1
  <2>2. CASE alert[a].phase = "selecting"
    <3>1. alert'[a] = [alert[a] EXCEPT !.phase = "gone"]
      BY <2>2 DEF AlertCrash
    <3> QED BY <2>1, <2>2, <3>1 DEF AlertType
  <2>3. CASE alert[a].phase = "recorded"
    <3>1. alert'[a] = [alert[a] EXCEPT !.phase = "over"]
      BY <2>3 DEF AlertCrash
    <3> QED BY <2>1, <2>3, <3>1 DEF AlertType
  <2>4. CASE alert[a].phase \notin {"selecting", "recorded"}
    <3>1. alert'[a] = alert[a]
      BY <2>4 DEF AlertCrash
    <3> QED BY <2>4, <3>1
  <2> QED BY <2>2, <2>3, <2>4
<1>5. job'.now = hour
  BY DEF AlertCrash, NoRun
<1>6. \A a \in Alerts :
        /\ HeldBack(a)' <=> HeldBack(a)
        /\ Unclaimed(a)' <=> Unclaimed(a)
        /\ Reaches(a)' <=> Reaches(a)
  <2>1. \A a \in Alerts : Committed(a)' <=> Committed(a)
    BY <1>4 DEF Committed
  <2> QED BY <1>4, <2>1 DEF HeldBack, Unclaimed, Reaches
<1>7. \A d \in Written : 1 \in Written
  BY DEF PeriodInv
<1> QED BY <1>1, <1>2, <1>3, <1>4, <1>5, <1>6, <1>7 DEF PeriodInv

\* Every step keeps the periods in order.
LEMMA PeriodStep == DigestTypeOK /\ MailInv /\ PeriodInv /\ [DigestNext]_digestVars => PeriodInv'
<1> SUFFICES ASSUME DigestTypeOK, MailInv, PeriodInv, [DigestNext]_digestVars PROVE PeriodInv'
  OBVIOUS
<1>1. /\ digest \in [DigestIds -> DigestType] /\ job \in JobType /\ hour \in Nat
  BY TypesNamed
<1>2. CASE /\ \E a \in Alerts : Dispatcher(a)
           /\ UNCHANGED <<hour, sendAt, rule, digest, job, losses, edits>>
  BY <1>2, PeriodDispatch
<1>3. CASE /\ \E a \in Alerts : RecordingFails(a) \/ DeliveriesFail(a)
           /\ UNCHANGED <<hour, sendAt, rule, digest, job, edits>>
  BY <1>3, PeriodDispatch
<1>4. CASE /\ JobStep \/ JobFails
           /\ UNCHANGED <<hour, rule, edits>>
  <2>1. ASSUME NEW d \in DigestIds, ClaimAlerts(d)
        PROVE  PeriodInv'
    BY <1>4, <2>1, PeriodClaim
  <2>2. CASE StartRun \/ CheckDue \/ ClaimNothing \/ ClaimFails \/ \E d \in DigestIds : Resume(d)
    <3>0. job'.now = hour \/ job'.now = job.now
      <4>1. CASE StartRun
        BY <4>1 DEF StartRun
      <4>2. CASE ~StartRun
        BY <1>1, <2>2, <4>2 DEF CheckDue, ClaimNothing, ClaimFails, Resume, JobType
      <4> QED BY <4>1, <4>2
    <3>1. UNCHANGED <<alert, digest>> /\ job'.now \in {job.now, hour}
      BY <2>2, <3>0 DEF StartRun, CheckDue, ClaimNothing, ClaimFails, Resume
    <3>2. job'.now <= hour
      BY <1>1, <3>1 DEF PeriodInv
    <3> QED BY <1>4, <3>1, <3>2, PeriodFrame
  <2>3. ASSUME NEW d \in DigestIds, Abandon(d) \/ Send(d) \/ RecordOutcome(d) \/ SendFails(d)
        PROVE  PeriodInv'
    <3>1. alert' = alert /\ job'.now = job.now
      BY <1>1, <2>3 DEF Abandon, Send, RecordOutcome, SendFails, After, JobType
    <3>2. digest[d].status = "pending" /\ digest[d] \in DigestType
      BY <1>1, <2>3 DEF Abandon, Send, RecordOutcome, SendFails, MailInv
    <3>3. /\ digest'[d].status # "none" /\ digest'[d].start = digest[d].start
          /\ digest'[d].end = digest[d].end
          /\ \A e \in DigestIds \ {d} : digest'[e] = digest[e]
      <4>1. CASE Abandon(d)
        BY <1>1, <3>2, <4>1 DEF Abandon, DigestType
      <4>2. CASE Send(d)
        BY <1>1, <3>2, <4>2 DEF Send, Mailed, DigestType
      <4>3. CASE RecordOutcome(d)
        BY <1>1, <3>2, <4>3 DEF RecordOutcome, Outcome, DigestType
      <4>4. CASE SendFails(d)
        <5>1. PICK n, m : digest' = [digest EXCEPT ![d] = Failed(d, n, m)]
          BY <4>4 DEF SendFails
        <5> QED BY <1>1, <3>2, <5>1 DEF Failed, DigestType
      <4> QED BY <2>3, <4>1, <4>2, <4>3, <4>4
    <3>4. \A e \in DigestIds :
            /\ digest'[e].status = "none" <=> digest[e].status = "none"
            /\ digest'[e].start = digest[e].start
            /\ digest'[e].end = digest[e].end
      BY <3>2, <3>3
    <3> QED BY <1>4, <3>1, <3>4, PeriodFrame DEF PeriodInv
  <2> QED BY <1>4, <2>1, <2>2, <2>3 DEF JobStep, JobFails
<1>5. CASE AlertCrash /\ UNCHANGED <<hour, rule, edits>>
  BY <1>5, PeriodCrash
<1>6. CASE Changes /\ Edit /\ UNCHANGED <<hour, digest, job, losses>>
  BY <1>6, PeriodEdit
<1>7. CASE AlertTick /\ UNCHANGED <<sendAt, rule, alert, digest, job, losses, edits>>
  <2>1. /\ hour' = hour + 1
        /\ \A a \in Alerts :
             alert[a].phase \in {"selecting", "recorded"} => hour < alert[a].born + MaxLag
    BY <1>7 DEF AlertTick
  <2>2. /\ Written' = Written /\ Written \subseteq DigestIds
        /\ alert \in [Alerts -> AlertType]
    BY <1>7, TypesNamed DEF Written
  <2>3. \A a \in Alerts :
          /\ HeldBack(a)' <=> HeldBack(a)
          /\ Unclaimed(a)' <=> Unclaimed(a)
          /\ Reaches(a)' <=> Reaches(a)
    BY <1>7 DEF HeldBack, Unclaimed, Committed, Reaches
  <2>4. /\ job'.now <= hour'
        /\ \A d \in Written : digest[d].end <= hour'
        /\ \A a \in Alerts : /\ alert[a].born <= hour'
                             /\ alert[a].phase \in {"selecting", "recorded"}
                                  => hour' <= alert[a].born + MaxLag
    <3>1. /\ job.now \in Nat /\ \A d \in Written : digest[d].end \in Nat
          /\ \A a \in Alerts : alert[a].born \in Nat
      BY <1>1, <2>2 DEF JobType, DigestType, AlertType
    <3> QED BY <1>1, <1>7, <2>1, <3>1, DigestNumbers DEF PeriodInv
  <2> QED BY <1>7, <2>2, <2>3, <2>4 DEF PeriodInv
<1>8. CASE UNCHANGED digestVars
  <2>1. /\ Written' = Written
        /\ \A a \in Alerts :
             /\ HeldBack(a)' <=> HeldBack(a)
             /\ Unclaimed(a)' <=> Unclaimed(a)
             /\ Reaches(a)' <=> Reaches(a)
    BY <1>8 DEF digestVars, Written, HeldBack, Unclaimed, Committed, Reaches
  <2> QED BY <1>8, <2>1 DEF PeriodInv, digestVars
<1> QED BY <1>2, <1>3, <1>4, <1>5, <1>6, <1>7, <1>8 DEF DigestNext

\* The periods are in order in every state.
LEMMA PeriodsInOrder == DigestSpec => [](DigestTypeOK /\ PeriodInv)
<1>1. DigestInit => PeriodInv
  <2> SUFFICES ASSUME DigestInit PROVE PeriodInv
    OBVIOUS
  <2>1. /\ Written = {} /\ job.now = 0 /\ hour = 0
        /\ \A a \in Alerts : alert[a] = NoAlert
    BY DEF DigestInit, Written, NoDigest, NoRun
  <2>2. /\ NoAlert.born = 0 /\ NoAlert.phase = "none" /\ NoAlert.told = "no"
        /\ NoAlert.open = TRUE
    BY DEF NoAlert
  <2> QED BY <2>1, <2>2 DEF PeriodInv, HeldBack, Unclaimed, Committed
<1> QED BY <1>1, PeriodStep, DigestTypesHold, MailsInOrder, PTL DEF DigestSpec

\* No alert of a rule that stays in the digest modes falls between two periods,
\* however late its transaction committed (services/digest.py:16-25).
THEOREM PeriodsCoveredAlways == DigestSpec => []PeriodsCovered
<1>1. DigestTypeOK /\ PeriodInv => PeriodsCovered
  <2> SUFFICES ASSUME DigestTypeOK, PeriodInv, NEW a \in Alerts, NEW d \in Written,
                      Unclaimed(a), Reaches(a),
                      digest[d].start < alert[a].born, alert[a].born <= digest[d].end,
                      NEW e \in Written
               PROVE  alert[a].born > digest[e].end - Grace
    BY DEF PeriodsCovered, Reaches
  <2>1. /\ alert[a].born \in Nat /\ digest[e].end \in Nat
        /\ digest[d].start \in Nat /\ digest[1].start \in Nat
    <3>1. alert \in [Alerts -> AlertType] /\ digest \in [DigestIds -> DigestType]
      BY TypesNamed
    <3>2. d \in DigestIds /\ e \in DigestIds /\ 1 \in DigestIds
      BY DEF Written, PeriodInv
    <3> QED BY <3>1, <3>2 DEF AlertType, DigestType
  <2>2. digest[1].start <= digest[d].start
    BY DEF PeriodInv
  <2>3. digest[e].end < alert[a].born + Grace \/ alert[a].born <= digest[1].start
    BY DEF PeriodInv
  <2> QED BY <2>1, <2>2, <2>3, DigestNumbers
<1> QED BY <1>1, PeriodsInOrder, PTL

\* No run passes an enabled rule by, unless its claim fails, while an alert is held
\* back from before the cut-off of a day ago (services/digest.py:146, claim).
THEOREM HeldBackIsDigestedAlways == DigestSpec => HeldBackIsDigested
<1> DEFINE A == /\ job.pc \in {"resuming", "claiming"} /\ job'.pc \in {"idle", "sending"}
                /\ ~job'.resumed /\ losses' = losses /\ rule.here /\ rule.enabled
                => \A a \in Alerts : HeldBack(a)' => alert[a].born >= Cutoff(job.now) - Day
<1>1. DigestTypeOK /\ PeriodInv /\ [DigestNext]_digestVars => [A]_digestVars
  <2> SUFFICES ASSUME DigestTypeOK, PeriodInv, [DigestNext]_digestVars,
                      job.pc \in {"resuming", "claiming"}, job'.pc \in {"idle", "sending"},
                      ~job'.resumed, losses' = losses, rule.here, rule.enabled,
                      NEW a \in Alerts, HeldBack(a)'
               PROVE  alert[a].born >= Cutoff(job.now) - Day
    OBVIOUS
  <2>1. /\ alert \in [Alerts -> AlertType] /\ digest \in [DigestIds -> DigestType]
        /\ job \in JobType /\ hour \in Nat /\ sendAt \in 0..(Day - 1) /\ losses \in Nat
    BY TypesNamed
  <2>2. /\ job.now \in Nat /\ Cutoff(job.now) \in Int /\ Cutoff(job.now) <= job.now
        /\ alert[a].born \in Nat
    BY <2>1, CutoffBounds DEF JobType, AlertType
  <2>3. losses' # losses + 1
    BY <2>1
  <2>4. \/ CheckDue \/ ClaimNothing
        \/ \E d \in DigestIds : ClaimAlerts(d) \/ Resume(d)
    <3>1. JobStep
      BY <2>3 DEF DigestNext, digestVars, Lose, RecordingFails, DeliveriesFail
    <3>2. ASSUME NEW d \in DigestIds, Abandon(d) PROVE FALSE
      BY <2>1, <3>2 DEF Abandon, JobType
    <3> QED BY <3>1, <3>2 DEF JobStep, StartRun, Send, RecordOutcome
  <2>5. \A d \in Written : digest[d].end >= Cutoff(job.now) /\ HeldBack(a)
                             => alert[a].born >= Cutoff(job.now) - Day
    <3> SUFFICES ASSUME NEW d \in Written, digest[d].end >= Cutoff(job.now), HeldBack(a)
                 PROVE  alert[a].born >= Cutoff(job.now) - Day
      OBVIOUS
    <3>1. digest[d].end <= alert[a].born + MaxLag
      BY DEF PeriodInv
    <3>2. digest[d].end \in Nat
      BY <2>1 DEF Written, DigestType
    <3> QED BY <2>2, <3>1, <3>2, DigestNumbers
  <2>6. HeldBack(a) /\ ~DueNow(job.now) => alert[a].born >= Cutoff(job.now) - Day
    <3> SUFFICES ASSUME HeldBack(a), ~DueNow(job.now)
                 PROVE  alert[a].born >= Cutoff(job.now) - Day
      OBVIOUS
    <3>1. PICK d \in Written : ~(digest[d].end < Cutoff(job.now))
      BY DEF DueNow, Owes, CutoffPassed
    <3>2. digest[d].end \in Nat
      BY <2>1 DEF Written, DigestType
    <3> QED BY <2>2, <2>5, <3>1, <3>2
  <2>7. CASE CheckDue
    <3>1. HeldBack(a) /\ ~DueNow(job.now)
      BY <2>1, <2>7 DEF CheckDue, HeldBack, Unclaimed, Committed, JobType
    <3> QED BY <2>6, <3>1
  <2>8. CASE ClaimNothing
    <3>1. HeldBack(a)
      BY <2>8 DEF ClaimNothing, HeldBack, Unclaimed, Committed
    <3>2. ASSUME NEW d \in DigestIds, NextDigest(d), Floor(d, job.now) >= job.now
          PROVE  alert[a].born >= Cutoff(job.now) - Day
      <4>1. CASE d = 1
        BY <2>2, <3>2, <4>1, DigestNumbers DEF Floor
      <4>2. CASE d # 1
        <5>1. d - 1 \in Written /\ digest[d - 1].end >= job.now
          BY <3>2, <4>2, DigestNumbers DEF NextDigest, Written, DigestIds, Floor
        <5>2. digest[d - 1].end \in Nat
          BY <2>1, <5>1 DEF Written, DigestType
        <5> QED BY <2>2, <2>5, <3>1, <5>1, <5>2
      <4> QED BY <4>1, <4>2
    <3> QED BY <2>6, <2>8, <3>1, <3>2 DEF ClaimNothing
  <2>9. ASSUME NEW d \in DigestIds, Resume(d)
        PROVE  FALSE
    BY <2>1, <2>9 DEF Resume, JobType
  <2>10. ASSUME NEW d \in DigestIds, ClaimAlerts(d)
         PROVE  alert[a].born >= Cutoff(job.now) - Day
    <3> DEFINE floor == Floor(d, job.now)
               taken == {b \in Alerts : Claimable(b, floor, job.now)}
    <3>1. alert'[a] = IF a \in taken THEN [alert[a] EXCEPT !.digest = d] ELSE alert[a]
      BY <2>10 DEF ClaimAlerts
    <3>2. a \notin taken
      <4>1. d # 0 /\ [alert[a] EXCEPT !.digest = d].digest = d
        BY <2>1 DEF DigestIds, AlertType
      <4> QED BY <3>1, <4>1 DEF HeldBack, Unclaimed
    <3>3. HeldBack(a) /\ ~rule.org
      BY <3>1, <3>2 DEF HeldBack, Unclaimed, Committed, PeriodInv
    <3>4. alert[a].born > job.now
      BY <2>2, <3>2, <3>3 DEF Claimable, HeldBack
    <3> QED BY <2>2, <3>4, DigestNumbers
  <2> QED BY <2>4, <2>7, <2>8, <2>9, <2>10
<1>2. [](DigestTypeOK /\ PeriodInv) /\ [][DigestNext]_digestVars => [][A]_digestVars
  BY <1>1, PTL
<1> QED BY <1>2, PeriodsInOrder DEF DigestSpec, HeldBackIsDigested
===============================================================================
