-------------------------- MODULE IngestRuns_proofs --------------------------
(* The types of IngestRuns, that two tasks never work on one registrant, that *)
(* what a link started stays with the company it linked, and that a crash     *)
(* blocks a registrant for a bounded time: for any companies, registrants,    *)
(* requests, timeouts and mishaps.                                            *)
EXTENDS IngestRuns, TLAPS

Pcs == {"none", "queued", "begun", "ensured", "relating", "storing", "reading",
        "worked", "broken", "chaining"}
RowType ==
  [kind : Kinds, cik : Ciks \cup {Nobody}, by : {"manual", "seed", "link", "followup"},
   chain : OrgEntities \cup {Nobody}, status : Statuses, age : 0..MaxAge, ran : 0..Never]
TaskType == [pc : Pcs, entity : OrgEntities \cup {Nobody}, found : SUBSET Ciks]

\* Records, and what a row that is in use refers to.
Typed ==
  /\ row \in [IngestRunIds -> RowType]
  /\ task \in [IngestRunIds -> TaskType]
  /\ \A r \in IngestRunIds :
       /\ row[r].status # "unused" => row[r].cik \in Ciks
       /\ row[r].status # "unused"
          /\ (row[r].kind = "acquisition_read" \/ row[r].by # "manual")
            => row[r].chain \in OrgEntities
       /\ Pc(r) \in {"relating", "storing", "reading"} => task[r].entity \in OrgEntities
       /\ Pc(r) = "chaining" => row[r].by # "manual"

\* A task works for a row that is unfinished or that the reaper gave up, and
\* has not begun twice.
WorksOnOpenRow ==
  \A r \in IngestRunIds :
    /\ Working(r) => row[r].status \in {"queued", "running", "failed"}
    /\ Pc(r) = "queued" => row[r].status # "running"

\* A company has one CIK. It keeps it, and no unlink has begun, while a run that a
\* link started is unfinished; the run's task knows no other entity.
Chained(r) == row[r].by \in {"link", "followup"}
LinkKept ==
  /\ \A j, k \in Ciks : holder[j] = holder[k] /\ holder[j] \in Companies => j = k
  /\ \A r \in IngestRunIds :
       ActiveRun(r) /\ Chained(r) =>
         /\ holder[row[r].cik] = row[r].chain
         /\ row[r].chain \notin unlinking
         /\ Pc(r) \in {"relating", "storing", "reading"} => task[r].entity = row[r].chain

\* The sweeps keep up but for the one that is due and those that failed: a queued
\* row is then within its timeout, a running one within its own since it began.
Late == (IF due THEN 1 ELSE 0) + mishaps
SweptInTime ==
  \A r \in IngestRunIds :
    /\ row[r].status = "queued" => row[r].age <= QueuedTimeout + Late
    /\ row[r].status = "running" =>
         /\ row[r].ran <= row[r].age
         /\ row[r].age <= row[r].ran + QueuedTimeout + 1 + mishaps
         /\ row[r].age <= QueuedTimeout + RunningTimeout + 1 + Late

\* The tables that are not the runs'.
TablesOK ==
  /\ holder \in [Ciks -> OrgEntities \cup {Nobody}]
  /\ unlinking \subseteq Companies
  /\ edges \in [OrgEntities -> [Ciks -> {"none", "open", "confirmed"}]]
  /\ sections \in [OrgEntities -> SUBSET Ciks]
  /\ swept \in BOOLEAN /\ due \in BOOLEAN
  /\ mishaps \in 0..MaxMishaps

IngestInv == IngestTypeOK /\ Typed /\ WorksOnOpenRow /\ LinkKept /\ SweptInTime

------------------------------------------------------------------------------
(* The rows and tasks that an action may change.                              *)

\* The numbers of the model are naturals, and the row of a new run is unused.
LEMMA Numbers ==
  /\ MaxRuns \in Nat /\ QueuedTimeout \in Nat /\ RunningTimeout \in Nat
  /\ MaxAge \in Nat /\ MaxMishaps \in Nat /\ Never \in Nat /\ Never > MaxAge
  /\ IngestRunIds \subseteq Nat
  /\ Nobody \notin OrgEntities /\ Companies \cap Ciks = {} /\ OrgEntities = Companies \cup Ciks
  BY IngestAssumption DEF Never, IngestRunIds, OrgEntities

\* A queued run takes an unused row, of a registrant and kind nobody works on.
LEMMA QueueRow ==
  ASSUME Typed, NEW r \in IngestRunIds, NEW k \in Ciks, NEW kd \in Kinds,
         NEW by \in {"manual", "seed", "link", "followup"},
         NEW c \in OrgEntities \cup {Nobody}, Queue(r, kd, k, by, c)
  PROVE  /\ row[r].status = "unused"
         /\ row' \in [IngestRunIds -> RowType]
         /\ row'[r] = [kind |-> kd, cik |-> k, by |-> by, chain |-> c,
                       status |-> "queued", age |-> 0, ran |-> Never]
         /\ \A s \in IngestRunIds : s # r => row'[s] = row[s]
         /\ RunOf(kd, k) = {}
<1>1. row \in [IngestRunIds -> RowType] /\ row[r] = NoRow
  BY DEF Typed, Queue
<1>2. [kind |-> kd, cik |-> k, by |-> by, chain |-> c,
       status |-> "queued", age |-> 0, ran |-> Never] \in RowType
  BY Numbers DEF RowType, Statuses, Never
<1> QED BY <1>1, <1>2 DEF Queue, NoRow, Free

\* A mark begins or ends the row if the table's CHECKs let it, or is lost.
LEMMA MarkRow ==
  ASSUME Typed, NEW r \in IngestRunIds, NEW status \in {"running", "succeeded", "failed"},
         Mark(r, status)
  PROVE  /\ row' \in [IngestRunIds -> RowType]
         /\ \A s \in IngestRunIds : s # r => row'[s] = row[s]
         /\ \/ row'[r] = row[r]
            \/ status = "running" /\ ActiveRun(r) /\ row'[r] = Started(row[r])
            \/ status # "running" /\ row[r].ran # Never /\ row'[r] = Finished(row[r], status)
<1>1. row \in [IngestRunIds -> RowType] /\ row[r] \in RowType
  BY DEF Typed
<1>2. Started(row[r]) \in RowType /\ Finished(row[r], status) \in RowType
  <2>1. 0 \in 0..MaxAge /\ 0 \in 0..Never
    BY Numbers
  <2>2. [row[r] EXCEPT !.status = "running"] \in RowType
    BY <1>1 DEF RowType, Statuses
  <2>3. [row[r] EXCEPT !.status = status] \in RowType
    BY <1>1 DEF RowType, Statuses
  <2> QED BY <2>1, <2>2, <2>3, <1>1 DEF Started, Finished, RowType, Statuses
<1>3. CASE row' = row
  BY <1>1, <1>3
<1>4. CASE row' # row
  <2>1. /\ Allowed(r, status)
        /\ row' = [row EXCEPT ![r] = IF status = "running" THEN Started(@)
                                     ELSE Finished(@, status)]
    BY <1>4 DEF Mark
  <2> QED BY <2>1, <1>1, <1>2 DEF Allowed
<1> QED BY <1>3, <1>4

\* What each request does to its row and its task.
LEMMA RequestRow ==
  ASSUME IngestTypeOK, Typed, NEW r \in IngestRunIds, Requests(r)
  PROVE  \/ UNCHANGED <<row, task>>
         \/ \E k \in Ciks, kd \in Kinds, by \in {"manual", "seed", "link"},
               c \in OrgEntities \cup {Nobody} :
              /\ Queue(r, kd, k, by, c)
              /\ kd = "acquisition_read" \/ by # "manual" => c \in OrgEntities
              /\ by = "link" => c \in Companies /\ c \notin unlinking /\ holder'[k] = c
              /\ task' = [task EXCEPT ![r].pc = "queued"]
<1>1. CASE \E k \in Ciks : RequestIngest(r, k)
  BY <1>1 DEF RequestIngest, Kinds
<1>2. CASE \E k \in Ciks : Seed(r, k)
  <2>1. PICK k \in Ciks : Seed(r, k)
    BY <1>2
  <2>2. (IF holder[k] = Nobody THEN k ELSE holder[k]) \in OrgEntities
    BY <2>1, Numbers DEF IngestTypeOK
  <2> QED BY <2>1, <2>2 DEF Seed, Kinds
<1>3. CASE \E k \in Ciks, e \in Companies : Link(r, e, k)
  <2>1. PICK k \in Ciks, e \in Companies : Link(r, e, k)
    BY <1>3
  <2>2. holder'[k] = e /\ e \in OrgEntities
    BY <2>1, Numbers DEF Link, IngestTypeOK
  <2> QED BY <2>1, <2>2 DEF Link, Kinds
<1>4. CASE \E e \in OrgEntities : RequestRead(r, e)
  BY <1>4 DEF RequestRead, Kinds
<1> QED BY <1>1, <1>2, <1>3, <1>4 DEF Requests

\* Follow-up reads: another row, for the same entity (edgar_ingest_runner.py).
LEMMA FollowUpRow ==
  ASSUME Typed, NEW r \in IngestRunIds, FollowUp(r)
  PROVE  \/ row' = row /\ task' = [task EXCEPT ![r] = NoTask]
         \/ \E s \in IngestRunIds :
              /\ s # r
              /\ row[r].cik \in Ciks /\ row[r].chain \in OrgEntities
              /\ row[r].chain \notin unlinking
              /\ holder[row[r].cik] = row[r].chain
              /\ Queue(s, "acquisition_read", row[r].cik, "followup", row[r].chain)
              /\ task' = [task EXCEPT ![r] = NoTask, ![s].pc = "queued"]
<1>1. CASE row' = row /\ task' = [task EXCEPT ![r] = NoTask]
  BY <1>1
<1>2. CASE ~(row' = row /\ task' = [task EXCEPT ![r] = NoTask])
  <2>1. PICK s \in IngestRunIds :
          /\ row[r].status = "succeeded" /\ row[r].chain \notin unlinking
          /\ holder[row[r].cik] = row[r].chain
          /\ Queue(s, "acquisition_read", row[r].cik, "followup", row[r].chain)
          /\ task' = [task EXCEPT ![r] = NoTask, ![s].pc = "queued"]
    BY <1>2 DEF FollowUp, StillHolds
  <2>2. row[s].status = "unused"
    BY <2>1 DEF Queue, NoRow
  <2>3. row[r].cik \in Ciks /\ row[r].chain \in OrgEntities
    BY <2>1 DEF Typed, FollowUp
  <2> QED BY <2>1, <2>2, <2>3
<1> QED BY <1>1, <1>2

------------------------------------------------------------------------------
(* Types.                                                                     *)

\* The tables of holders, relations and sections keep their types
\* (registrant_link.py, edgar_ingest_runner.py).
LEMMA TablesTyped ==
  ASSUME IngestTypeOK, Typed, [IngestNext]_ingestVars
  PROVE  TablesOK'
<1> USE DEF IngestTypeOK, TablesOK
<1>1. CASE UNCHANGED ingestVars
  BY <1>1 DEF ingestVars
<1>2. CASE Persons /\ UNCHANGED <<swept, due, mishaps>>
  <2>1. PICK e \in Companies : UnlinkCheck(e) \/ UnlinkCommit(e) \/ Decide(e)
    BY <1>2 DEF Persons
  <2>2. e \in OrgEntities
    BY Numbers
  <2>3. CASE UnlinkCheck(e)
    BY <2>3, <1>2 DEF UnlinkCheck
  <2>4. CASE UnlinkCommit(e)
    BY <2>2, <2>4, <1>2 DEF UnlinkCommit
  <2>5. CASE Decide(e)
    BY <2>2, <2>5, <1>2 DEF Decide
  <2> QED BY <2>1, <2>3, <2>4, <2>5
<1>3. ASSUME NEW r \in IngestRunIds, Requests(r), UNCHANGED <<swept, due, mishaps>>
      PROVE  /\ holder' \in [Ciks -> OrgEntities \cup {Nobody}]
             /\ UNCHANGED <<unlinking, edges, sections>>
  BY <1>3, Numbers DEF Requests, RequestIngest, Seed, Link, RequestRead
<1>4. ASSUME NEW r \in IngestRunIds, NEW ks \in SUBSET Ciks, task[r].entity \in OrgEntities
      PROVE  Relations(r, ks) \in [OrgEntities -> [Ciks -> {"none", "open", "confirmed"}]]
  BY <1>4 DEF Relations
<1>5. ASSUME NEW r \in IngestRunIds, Work(r), UNCHANGED <<swept, due, mishaps>>
      PROVE  /\ holder' \in [Ciks -> OrgEntities \cup {Nobody}]
             /\ unlinking' = unlinking
             /\ edges' \in [OrgEntities -> [Ciks -> {"none", "open", "confirmed"}]]
             /\ sections' \in [OrgEntities -> SUBSET Ciks]
  <2>1. CASE Ensure(r)
    BY <2>1, Numbers DEF Ensure
  <2>2. CASE Resolve(r) \/ LoadSections(r) \/ FollowUp(r)
    BY <2>2 DEF Resolve, LoadSections, FollowUp
  <2>3. CASE Relate(r)
    <3>1. task[r].entity \in OrgEntities
      BY <2>3 DEF Relate, Typed
    <3>2. {row[r].cik} \cap Ciks \in SUBSET Ciks
      OBVIOUS
    <3>3. Relations(r, {row[r].cik}) = Relations(r, {row[r].cik} \cap Ciks)
      BY DEF Relations
    <3> QED BY <2>3, <3>1, <3>2, <3>3, <1>4 DEF Relate
  <2>4. CASE ReadDeals(r)
    BY <2>4, <1>4 DEF ReadDeals, Typed, TaskType
  <2>5. CASE Store(r)
    <3>1. task[r].entity \in OrgEntities /\ row[r].cik \in Ciks
      BY <2>5 DEF Store, Typed, Pc
    <3> QED BY <2>5, <3>1 DEF Store
  <2> QED BY <1>5, <2>1, <2>2, <2>3, <2>4, <2>5 DEF Work
<1>6. ASSUME NEW r \in IngestRunIds, Begin(r) \/ End(r), UNCHANGED <<swept, due>>
      PROVE  UNCHANGED <<holder, unlinking, edges, sections>> /\ mishaps' \in 0..MaxMishaps
  BY <1>6, Numbers DEF Begin, End, Mark
<1>7. CASE IngestCrash
  <2>1. mishaps' \in 0..MaxMishaps
    BY <1>7, Numbers DEF IngestCrash
  <2>2. UNCHANGED <<holder, edges, sections>> /\ unlinking' = {} /\ due' = TRUE /\ swept' = FALSE
    BY <1>7 DEF IngestCrash
  <2> QED BY <2>1, <2>2
<1>8. CASE ReapIngests
  <2>1. mishaps' \in 0..MaxMishaps
    BY <1>8, Numbers DEF ReapIngests
  <2>2. UNCHANGED <<holder, unlinking, edges, sections>> /\ due' = FALSE /\ swept' = TRUE
    BY <1>8 DEF ReapIngests
  <2> QED BY <2>1, <2>2
<1>9. CASE Hour
  BY <1>9 DEF Hour
<1> QED BY <1>1, <1>2, <1>3, <1>5, <1>6, <1>7, <1>8, <1>9 DEF IngestNext

\* The rows keep their types, and a task knows what it needs to go on.
LEMMA RowsTyped ==
  ASSUME IngestTypeOK, Typed, [IngestNext]_ingestVars
  PROVE  Typed'
<1>1. CASE UNCHANGED <<row, task>>
  BY <1>1 DEF Typed, Pc
<1>2. ASSUME NEW r \in IngestRunIds, NEW k \in Ciks, NEW kd \in Kinds,
             NEW by \in {"manual", "seed", "link", "followup"},
             NEW c \in OrgEntities \cup {Nobody}, Queue(r, kd, k, by, c),
             kd = "acquisition_read" \/ by # "manual" => c \in OrgEntities,
             NEW was \in [IngestRunIds -> TaskType],
             \A s \in IngestRunIds : was[s] = task[s] \/ was[s] = NoTask,
             task' = [was EXCEPT ![r].pc = "queued"]
      PROVE  Typed'
  <2>1. /\ row' \in [IngestRunIds -> RowType]
        /\ row'[r] = [kind |-> kd, cik |-> k, by |-> by, chain |-> c,
                      status |-> "queued", age |-> 0, ran |-> Never]
        /\ \A s \in IngestRunIds : s # r => row'[s] = row[s]
    BY <1>2, QueueRow
  <2>2. /\ task' \in [IngestRunIds -> TaskType] /\ task'[r].pc = "queued"
        /\ \A s \in IngestRunIds : s # r => task'[s] = was[s]
    BY <1>2 DEF TaskType, Pcs
  <2> QED BY <2>1, <2>2, <1>2 DEF Typed, Pc, NoTask
<1>3. task \in [IngestRunIds -> TaskType]
  BY DEF Typed
<1>4. NoTask \in TaskType /\ \A r \in IngestRunIds : [NoTask EXCEPT !.pc = "chaining"] \in TaskType
  BY DEF NoTask, TaskType, Pcs
<1>5. ASSUME NEW r \in IngestRunIds, Requests(r)
      PROVE  Typed'
  BY <1>1, <1>2, <1>3, <1>5, RequestRow
<1>6. ASSUME NEW r \in IngestRunIds, row' = row, NEW t \in TaskType,
             task' = [task EXCEPT ![r] = t],
             t.pc \in {"relating", "storing", "reading"} => t.entity \in OrgEntities,
             t.pc # "chaining"
      PROVE  Typed'
  BY <1>6 DEF Typed, Pc
<1>7. ASSUME NEW r \in IngestRunIds, Work(r), ~FollowUp(r)
      PROVE  Typed'
  <2>0. task[r] \in TaskType
    BY <1>3
  <2>1. ASSUME NEW p \in Pcs \ {"relating", "chaining", "reading"}, NEW t \in TaskType, t = [task[r] EXCEPT !.pc = p],
                p = "storing" => Pc(r) = "relating"
         PROVE t.pc = p /\ (t.pc \in {"relating", "storing", "reading"} => t.entity \in OrgEntities)
    BY <2>0, <2>1 DEF Typed, TaskType
  <2>2. CASE Ensure(r)
    <3>1. PICK p \in {"ensured", "worked", "broken"} : task' = [task EXCEPT ![r].pc = p]
      BY <2>2 DEF Ensure
    <3>2. /\ [task[r] EXCEPT !.pc = p] \in TaskType
          /\ task' = [task EXCEPT ![r] = [task[r] EXCEPT !.pc = p]]
      BY <2>0, <3>1 DEF TaskType, Pcs
    <3> QED BY <2>1, <3>2, <2>2, <1>6 DEF Ensure, Pcs
  <2>3. CASE Resolve(r)
    <3> DEFINE e == holder[row[r].cik]
    <3>1. e \in OrgEntities \cup {Nobody}
      BY <2>3 DEF Resolve, Typed, IngestTypeOK, Pc
    <3>2. CASE e = Nobody
      <4>1. /\ [task[r] EXCEPT !.pc = "broken"] \in TaskType
            /\ task' = [task EXCEPT ![r] = [task[r] EXCEPT !.pc = "broken"]]
        BY <2>0, <2>3, <3>2 DEF TaskType, Pcs, Resolve
      <4> QED BY <2>1, <4>1, <2>3, <1>6 DEF Resolve, Pcs
    <3>3. CASE e # Nobody
      <4>1. /\ [task[r] EXCEPT !.pc = "relating", !.entity = e] \in TaskType
            /\ task' = [task EXCEPT ![r] = [task[r] EXCEPT !.pc = "relating", !.entity = e]]
        BY <2>0, <2>3, <3>1, <3>3 DEF TaskType, Pcs, Resolve
      <4>2. /\ [task[r] EXCEPT !.pc = "relating", !.entity = e].pc = "relating"
            /\ [task[r] EXCEPT !.pc = "relating", !.entity = e].entity = e
        BY <2>0 DEF TaskType
      <4> QED BY <4>1, <4>2, <3>1, <3>3, <2>3, <1>6 DEF Resolve
    <3> QED BY <3>2, <3>3
  <2>4. CASE Relate(r) \/ Store(r) \/ ReadDeals(r)
    <3>1. PICK p \in {"storing", "worked", "broken"} :
            /\ task' = [task EXCEPT ![r].pc = p] /\ (p = "storing" => Pc(r) = "relating")
      BY <2>4 DEF Relate, Store, ReadDeals
    <3>2. /\ [task[r] EXCEPT !.pc = p] \in TaskType
          /\ task' = [task EXCEPT ![r] = [task[r] EXCEPT !.pc = p]]
      BY <2>0, <3>1 DEF TaskType, Pcs
    <3> QED BY <2>1, <3>1, <3>2, <2>4, <1>6 DEF Relate, Store, ReadDeals, Pcs
  <2>5. CASE LoadSections(r)
    <3> DEFINE e == row[r].chain
    <3>1. e \in OrgEntities /\ sections[e] \in SUBSET Ciks
      BY <2>5 DEF LoadSections, Typed, IngestTypeOK, Pc
    <3>2. CASE sections[e] = {}
      <4>1. /\ [task[r] EXCEPT !.pc = "broken"] \in TaskType
            /\ task' = [task EXCEPT ![r] = [task[r] EXCEPT !.pc = "broken"]]
        BY <2>0, <2>5, <3>2 DEF TaskType, Pcs, LoadSections
      <4>2. row' = row
        BY <2>5 DEF LoadSections
      <4> QED BY <2>1, <4>1, <4>2, <1>6 DEF Pcs
    <3>3. CASE sections[e] # {}
      <4>1. /\ [pc |-> "reading", entity |-> e, found |-> sections[e]] \in TaskType
            /\ task' = [task EXCEPT ![r] = [pc |-> "reading", entity |-> e, found |-> sections[e]]]
        BY <2>5, <3>1, <3>3 DEF TaskType, Pcs, LoadSections
      <4>2. row' = row
        BY <2>5 DEF LoadSections
      <4> QED BY <4>1, <4>2, <3>1, <1>6
    <3> QED BY <3>2, <3>3
  <2> QED BY <1>7, <2>2, <2>3, <2>4, <2>5 DEF Work
<1>8. ASSUME NEW r \in IngestRunIds, FollowUp(r)
      PROVE  Typed'
  <2>1. CASE row' = row /\ task' = [task EXCEPT ![r] = NoTask]
    BY <2>1, <1>4, <1>6 DEF NoTask
  <2>2. ASSUME NEW s \in IngestRunIds,
               row[r].cik \in Ciks, row[r].chain \in OrgEntities,
               Queue(s, "acquisition_read", row[r].cik, "followup", row[r].chain),
               task' = [task EXCEPT ![r] = NoTask, ![s].pc = "queued"]
        PROVE  Typed'
    <3>1. /\ [task EXCEPT ![r] = NoTask] \in [IngestRunIds -> TaskType]
          /\ \A q \in IngestRunIds : \/ [task EXCEPT ![r] = NoTask][q] = task[q]
                                     \/ [task EXCEPT ![r] = NoTask][q] = NoTask
          /\ task' = [[task EXCEPT ![r] = NoTask] EXCEPT ![s].pc = "queued"]
      BY <1>3, <1>4, <2>2
    <3>2. row[r].chain \in OrgEntities \cup {Nobody} /\ "acquisition_read" \in Kinds
      BY <2>2 DEF Kinds
    <3> QED BY <2>2, <3>1, <3>2, <1>2
  <2> QED BY <2>1, <2>2, <1>8, FollowUpRow
<1>9. ASSUME NEW r \in IngestRunIds, Begin(r) \/ End(r)
      PROVE  Typed'
  <2>0. task[r] \in TaskType
    BY <1>3
  <2>1. /\ row' \in [IngestRunIds -> RowType]
        /\ \A s \in IngestRunIds : s # r => row'[s] = row[s]
        /\ row'[r].status # "unused" => row[r].status # "unused"
        /\ row'[r].cik = row[r].cik /\ row'[r].kind = row[r].kind
        /\ row'[r].by = row[r].by /\ row'[r].chain = row[r].chain
    <3>1. row[r] \in RowType
      BY DEF Typed
    <3>2. PICK st \in {"running", "succeeded", "failed"} : Mark(r, st)
      BY <1>9 DEF Begin, End
    <3>3. row[r].status # "unused"
      BY <1>9 DEF IngestTypeOK, Begin, End, Pc
    <3>4. \/ row'[r] = row[r] \/ row'[r] = Started(row[r]) \/ row'[r] = Finished(row[r], st)
      BY <3>2, MarkRow
    <3>5. row'[r].cik = row[r].cik /\ row'[r].kind = row[r].kind
          /\ row'[r].by = row[r].by /\ row'[r].chain = row[r].chain
      BY <3>1, <3>4 DEF Started, Finished, RowType
    <3> QED BY <3>2, <3>3, <3>5, MarkRow
  <2>2. PICK t \in TaskType :
           /\ task' = [task EXCEPT ![r] = t]
           /\ t.pc \notin {"relating", "storing", "reading"}
           /\ t.pc = "chaining" => row[r].by # "manual"
    <3>1. [task[r] EXCEPT !.pc = "begun"] \in TaskType
          /\ [task[r] EXCEPT !.pc = "begun"].pc = "begun"
      BY <2>0 DEF TaskType, Pcs
    <3>2. CASE Begin(r)
      BY <3>1, <3>2 DEF Begin
    <3>3. CASE End(r)
      BY <3>3, <1>4 DEF End, NoTask
    <3> QED BY <3>2, <3>3, <1>9
  <2> QED BY <2>1, <2>2 DEF Typed, Pc
<1>10. CASE IngestCrash
  BY <1>10, <1>4 DEF IngestCrash, Typed, Pc, NoTask
<1>11. CASE ReapIngests
  <2>1. ASSUME NEW r \in IngestRunIds
        PROVE  /\ row'[r] \in RowType
               /\ row'[r].status # "unused" => row[r].status # "unused"
               /\ row'[r].cik = row[r].cik /\ row'[r].kind = row[r].kind
               /\ row'[r].by = row[r].by /\ row'[r].chain = row[r].chain
    <3>1. row[r] \in RowType /\ 0 \in 0..MaxAge /\ 0 \in 0..Never
      BY Numbers DEF Typed
    <3>2. /\ Finished(row[r], "failed") \in RowType
          /\ \A f \in {"cik", "kind", "by", "chain"} : Finished(row[r], "failed")[f] = row[r][f]
      BY <3>1 DEF Finished, RowType, Statuses
    <3>3. row'[r] = row[r] \/ (ActiveRun(r) /\ row'[r] = Finished(row[r], "failed"))
      BY <1>11 DEF ReapIngests
    <3> QED BY <3>1, <3>2, <3>3 DEF ActiveRun
  <2>2. row' \in [IngestRunIds -> RowType]
    <3>1. row' = [r \in IngestRunIds |-> row'[r]]
      BY <1>11 DEF ReapIngests, Typed
    <3> QED BY <2>1, <3>1
  <2> QED BY <1>11, <2>1, <2>2 DEF ReapIngests, Typed, Pc
<1>12. CASE Hour
  <2>1. ASSUME NEW r \in IngestRunIds
        PROVE  /\ row'[r] \in RowType
               /\ row'[r].status # "unused" => row[r].status # "unused"
               /\ row'[r].cik = row[r].cik /\ row'[r].kind = row[r].kind
               /\ row'[r].by = row[r].by /\ row'[r].chain = row[r].chain
    <3>1. row[r] \in RowType /\ row[r].age < MaxAge
      BY <1>12 DEF Typed, Hour
    <3> DEFINE n == IF row[r].ran = Never THEN row[r].ran ELSE row[r].ran + 1
               x == [row[r] EXCEPT !.age = @ + 1, !.ran = n]
    <3>2. row[r].age + 1 \in 0..MaxAge /\ n \in 0..Never
      BY <3>1, Numbers DEF RowType
    <3>3. /\ x \in RowType
          /\ \A f \in {"cik", "kind", "by", "chain", "status"} : x[f] = row[r][f]
      BY <3>1, <3>2 DEF RowType
    <3>4. row'[r] = row[r] \/ row'[r] = x
      BY <1>12 DEF Hour
    <3> QED BY <3>1, <3>3, <3>4
  <2>2. row' \in [IngestRunIds -> RowType]
    <3>1. row' = [r \in IngestRunIds |-> row'[r]]
      BY <1>12 DEF Hour, Typed
    <3> QED BY <2>1, <3>1
  <2> QED BY <1>12, <2>1, <2>2 DEF Hour, Typed, Pc
<1>13. CASE Persons
  BY <1>13, <1>1 DEF Persons, UnlinkCheck, UnlinkCommit, Decide
<1> QED BY <1>1, <1>5, <1>7, <1>8, <1>9, <1>10, <1>11, <1>12, <1>13 DEF IngestNext, ingestVars

------------------------------------------------------------------------------
(* How a step may change the rows and the tasks.                              *)

\* A new row and its task; a task that ends may have asked for it.
NewRun(r) ==
  /\ row[r].status = "unused" /\ task'[r].pc = "queued"
  /\ row'[r].status = "queued" /\ row'[r].age = 0 /\ row'[r].ran = Never
  /\ RunOf(row'[r].kind, row'[r].cik) = {}
  /\ \A s \in IngestRunIds \ {r} :
       row'[s] = row[s] /\ (task'[s] = task[s] \/ task'[s].pc = "none")
  /\ Chained(r)' => row'[r].chain \notin unlinking /\ holder'[row'[r].cik] = row'[r].chain
  /\ UNCHANGED <<unlinking, due, mishaps>>
\* A task at work, or one that gives up its follow-up read.
Goes(r) ==
  /\ row' = row /\ Pc(r) # "none" /\ task'[r].pc # "queued"
  /\ Working(r) \/ task'[r].pc = "none"
  /\ ActiveRun(r) /\ Chained(r) /\ task'[r].pc \in {"relating", "storing", "reading"}
       => task'[r].entity = row[r].chain
  /\ \A s \in IngestRunIds \ {r} : task'[s] = task[s]
  /\ UNCHANGED <<unlinking, due, mishaps>>
\* A task that marks its row as begun or ended.
Marks(r) ==
  /\ \A s \in IngestRunIds \ {r} : row'[s] = row[s] /\ task'[s] = task[s]
  /\ row'[r].kind = row[r].kind /\ row'[r].cik = row[r].cik
  /\ row'[r].by = row[r].by /\ row'[r].chain = row[r].chain
  /\ \/ /\ Pc(r) = "queued" /\ task'[r].pc = "begun"
        /\ \/ row'[r] = row[r]
           \/ /\ ActiveRun(r) /\ row'[r].status = "running"
              /\ row'[r].age = row[r].age /\ row'[r].ran = 0
     \/ /\ Pc(r) \in {"worked", "broken"} /\ task'[r].pc \in {"none", "chaining"}
        /\ \/ row'[r] = row[r]
           \/ /\ row[r].ran # Never /\ row'[r].status \in {"succeeded", "failed"}
              /\ row'[r].ran = 0
  /\ mishaps' \in {mishaps, mishaps + 1} /\ UNCHANGED <<holder, unlinking, due>>
RunStep ==
  \/ UNCHANGED <<row, task, due, mishaps>>
  \/ \E r \in IngestRunIds : NewRun(r) \/ Goes(r) \/ Marks(r)
  \/ IngestCrash \/ ReapIngests \/ Hour

\* A queued run is a NewRun, whoever asks for it.
LEMMA QueueIsNewRun ==
  ASSUME Typed, NEW r \in IngestRunIds, NEW k \in Ciks, NEW kd \in Kinds,
         NEW by \in {"manual", "seed", "link", "followup"},
         NEW c \in OrgEntities \cup {Nobody}, Queue(r, kd, k, by, c),
         by \in {"link", "followup"} => c \notin unlinking /\ holder'[k] = c,
         NEW was \in [IngestRunIds -> TaskType],
         \A s \in IngestRunIds : was[s] = task[s] \/ was[s] = NoTask,
         task' = [was EXCEPT ![r].pc = "queued"],
         UNCHANGED <<unlinking, due, mishaps>>
  PROVE  NewRun(r)
<1>1. /\ row[r].status = "unused"
      /\ row'[r] = [kind |-> kd, cik |-> k, by |-> by, chain |-> c,
                    status |-> "queued", age |-> 0, ran |-> Never]
      /\ \A s \in IngestRunIds : s # r => row'[s] = row[s]
      /\ RunOf(kd, k) = {}
  BY QueueRow
<1>2. task'[r].pc = "queued" /\ \A s \in IngestRunIds : s # r => task'[s] = was[s]
  BY DEF TaskType
<1>3. \A s \in IngestRunIds \ {r} : task'[s] = task[s] \/ task'[s].pc = "none"
  BY <1>2 DEF NoTask
<1>4. Chained(r)' => row'[r].chain \notin unlinking /\ holder'[row'[r].cik] = row'[r].chain
  BY <1>1 DEF Chained
<1> QED BY <1>1, <1>2, <1>3, <1>4 DEF NewRun

\* The entity a task works for is the one its registrant or its read names.
LEMMA EntityKept ==
  ASSUME Typed, LinkKept, NEW r \in IngestRunIds, Work(r), ~FollowUp(r),
         ActiveRun(r), Chained(r), task'[r].pc \in {"relating", "storing", "reading"}
  PROVE  task'[r].entity = row[r].chain
<1>0. task \in [IngestRunIds -> TaskType] /\ task[r] \in TaskType
  BY DEF Typed
<1>1. CASE Ensure(r) \/ Store(r) \/ ReadDeals(r)
  <2>1. PICK p \in {"ensured", "worked", "broken"} : task' = [task EXCEPT ![r].pc = p]
    BY <1>1 DEF Ensure, Store, ReadDeals
  <2>2. task'[r].pc = p
    BY <1>0, <2>1 DEF TaskType
  <2> QED BY <2>2
<1>2. CASE Resolve(r)
  <2>1. holder[row[r].cik] = row[r].chain
    BY DEF LinkKept
  <2> QED BY <1>0, <1>2, <2>1 DEF Resolve, TaskType
<1>3. CASE Relate(r)
  <2>1. task[r].entity = row[r].chain
    BY <1>3 DEF LinkKept, Relate
  <2>2. task'[r].entity = task[r].entity
    BY <1>0, <1>3 DEF Relate, TaskType
  <2> QED BY <2>1, <2>2
<1>4. CASE LoadSections(r)
  <2>1. CASE sections[row[r].chain] = {}
    <3>1. task'[r].pc = "broken"
      BY <1>0, <1>4, <2>1 DEF LoadSections, TaskType
    <3> QED BY <3>1
  <2>2. CASE sections[row[r].chain] # {}
    <3>1. task'[r] = [pc |-> "reading", entity |-> row[r].chain, found |-> sections[row[r].chain]]
      BY <1>0, <1>4, <2>2 DEF LoadSections
    <3> QED BY <3>1
  <2> QED BY <2>1, <2>2
<1> QED BY <1>1, <1>2, <1>3, <1>4 DEF Work

\* Every step is one of these.
LEMMA RunSteps ==
  ASSUME IngestTypeOK, Typed, LinkKept, [IngestNext]_ingestVars
  PROVE  RunStep
<1>0. task \in [IngestRunIds -> TaskType]
  BY DEF Typed
<1>1. CASE UNCHANGED ingestVars \/ (Persons /\ UNCHANGED <<swept, due, mishaps>>)
  BY <1>1 DEF ingestVars, Persons, UnlinkCheck, UnlinkCommit, Decide, RunStep
<1>2. ASSUME NEW r \in IngestRunIds, Requests(r), UNCHANGED <<swept, due, mishaps>>
      PROVE  RunStep
  <2>1. CASE UNCHANGED <<row, task>>
    BY <1>2, <2>1 DEF RunStep
  <2>2. ASSUME NEW k \in Ciks, NEW kd \in Kinds, NEW by \in {"manual", "seed", "link"},
               NEW c \in OrgEntities \cup {Nobody}, Queue(r, kd, k, by, c),
               by = "link" => c \in Companies /\ c \notin unlinking /\ holder'[k] = c,
               task' = [task EXCEPT ![r].pc = "queued"]
        PROVE  NewRun(r)
    <3>1. UNCHANGED <<unlinking, due, mishaps>>
      BY <1>2 DEF Requests, RequestIngest, Seed, RequestRead, Link
    <3>2. /\ by \in {"manual", "seed", "link", "followup"}
          /\ by \in {"link", "followup"} => c \notin unlinking /\ holder'[k] = c
      BY <2>2
    <3> QED BY <2>2, <3>1, <3>2, <1>0, QueueIsNewRun
  <2> QED BY <1>2, <2>1, <2>2, RequestRow DEF RunStep
<1>3. ASSUME NEW r \in IngestRunIds, Work(r), ~FollowUp(r), UNCHANGED <<swept, due, mishaps>>
      PROVE  RunStep
  <2>1. /\ row' = row /\ UNCHANGED unlinking
        /\ Pc(r) \in {"begun", "ensured", "relating", "storing", "reading"}
        /\ \A s \in IngestRunIds \ {r} : task'[s] = task[s]
    BY <1>3, <1>0 DEF Work, Ensure, Resolve, Relate, Store, LoadSections, ReadDeals
  <2>2. ASSUME NEW p \in {"ensured", "worked", "broken", "storing"},
               task' = [task EXCEPT ![r].pc = p]
        PROVE  task'[r].pc # "queued"
    BY <1>0, <2>2 DEF TaskType
  <2>3. task'[r].pc # "queued"
    <3>1. CASE Ensure(r) \/ Relate(r) \/ Store(r) \/ ReadDeals(r)
      BY <2>2, <3>1 DEF Ensure, Relate, Store, ReadDeals
    <3>2. CASE Resolve(r)
      BY <1>0, <3>2 DEF Resolve, TaskType
    <3>3. CASE LoadSections(r)
      BY <1>0, <3>3 DEF LoadSections, TaskType
    <3> QED BY <1>3, <3>1, <3>2, <3>3 DEF Work
  <2>4. Working(r) /\ Pc(r) # "none"
    BY <2>1 DEF Working
  <2>5. Goes(r)
    BY <1>3, <2>1, <2>3, <2>4, EntityKept DEF Goes
  <2> QED BY <2>5 DEF RunStep
<1>4. ASSUME NEW r \in IngestRunIds, FollowUp(r), UNCHANGED <<swept, due, mishaps>>
      PROVE  RunStep
  <2>0. UNCHANGED <<holder, unlinking, due, mishaps>> /\ Pc(r) = "chaining"
    BY <1>4 DEF FollowUp
  <2>1. CASE row' = row /\ task' = [task EXCEPT ![r] = NoTask]
    <3>1. task'[r].pc = "none" /\ \A s \in IngestRunIds \ {r} : task'[s] = task[s]
      BY <2>1, <1>0 DEF NoTask
    <3>2. Goes(r)
      BY <3>1, <2>0, <2>1 DEF Goes
    <3> QED BY <3>2 DEF RunStep
  <2>2. ASSUME NEW s \in IngestRunIds,
               row[r].cik \in Ciks, row[r].chain \in OrgEntities,
               row[r].chain \notin unlinking, holder[row[r].cik] = row[r].chain,
               Queue(s, "acquisition_read", row[r].cik, "followup", row[r].chain),
               task' = [task EXCEPT ![r] = NoTask, ![s].pc = "queued"]
        PROVE  NewRun(s)
    <3> DEFINE was == [task EXCEPT ![r] = NoTask]
    <3>1. /\ was \in [IngestRunIds -> TaskType]
          /\ \A q \in IngestRunIds : was[q] = task[q] \/ was[q] = NoTask
          /\ task' = [was EXCEPT ![s].pc = "queued"]
      BY <1>0, <2>2 DEF NoTask, TaskType, Pcs
    <3>2. /\ row[r].chain \in OrgEntities \cup {Nobody} /\ "acquisition_read" \in Kinds
          /\ holder'[row[r].cik] = row[r].chain
      BY <2>0, <2>2 DEF Kinds
    <3> QED BY <2>0, <2>2, <3>1, <3>2, QueueIsNewRun
  <2> QED BY <1>4, <2>1, <2>2, FollowUpRow DEF RunStep
<1>5. ASSUME NEW r \in IngestRunIds, Begin(r) \/ End(r), UNCHANGED <<swept, due>>
      PROVE  RunStep
  <2>0. row[r] \in RowType /\ task[r] \in TaskType
    BY DEF Typed
  <2>1. /\ UNCHANGED <<holder, unlinking>> /\ mishaps' \in {mishaps, mishaps + 1}
        /\ \A s \in IngestRunIds \ {r} : task'[s] = task[s]
    BY <1>0, <1>5 DEF Begin, End, Mark
  <2>2. ASSUME NEW x, x = row[r] \/ x = Started(row[r])
                      \/ \E st \in {"succeeded", "failed"} : x = Finished(row[r], st)
        PROVE  x.kind = row[r].kind /\ x.cik = row[r].cik /\ x.by = row[r].by /\ x.chain = row[r].chain
    BY <2>0, <2>2 DEF Started, Finished, RowType
  <2>3. CASE Begin(r)
    <3>1. /\ \A s \in IngestRunIds \ {r} : row'[s] = row[s]
          /\ row'[r] = row[r] \/ (ActiveRun(r) /\ row'[r] = Started(row[r]))
      BY <2>3, MarkRow DEF Begin
    <3>2. /\ Started(row[r]).status = "running" /\ Started(row[r]).ran = 0
          /\ Started(row[r]).age = row[r].age
      BY <2>0 DEF Started, RowType
    <3>3. Pc(r) = "queued" /\ task'[r].pc = "begun"
      BY <2>3, <1>0 DEF Begin, TaskType
    <3>4. Marks(r)
      BY <1>5, <2>1, <2>2, <3>1, <3>2, <3>3 DEF Marks
    <3> QED BY <3>4 DEF RunStep
  <2>4. CASE End(r)
    <3>1. PICK st \in {"succeeded", "failed"} : Mark(r, st)
      BY <2>4 DEF End
    <3>2. /\ \A s \in IngestRunIds \ {r} : row'[s] = row[s]
          /\ row'[r] = row[r] \/ (row[r].ran # Never /\ row'[r] = Finished(row[r], st))
      BY <3>1, MarkRow
    <3>3. Finished(row[r], st).status = st /\ Finished(row[r], st).ran = 0
      BY <2>0 DEF Finished, RowType
    <3>4. Pc(r) \in {"worked", "broken"} /\ task'[r].pc \in {"none", "chaining"}
      BY <2>4, <1>0 DEF End, NoTask
    <3>5. Marks(r)
      BY <1>5, <2>1, <2>2, <3>1, <3>2, <3>3, <3>4 DEF Marks
    <3> QED BY <3>5 DEF RunStep
  <2> QED BY <1>5, <2>3, <2>4
<1> QED BY <1>1, <1>2, <1>3, <1>4, <1>5 DEF IngestNext, RunStep

\* What the sweep and the clock do to a row.
LEMMA SweptRow ==
  ASSUME Typed, ReapIngests, NEW r \in IngestRunIds
  PROVE  /\ row'[r].kind = row[r].kind /\ row'[r].cik = row[r].cik
         /\ row'[r].by = row[r].by /\ row'[r].chain = row[r].chain
         /\ \/ row'[r] = row[r]
            \/ ActiveRun(r) /\ row'[r].status = "failed" /\ row'[r].ran = 0
<1>1. row[r] \in RowType
  BY DEF Typed
<1>2. row'[r] = row[r] \/ (ActiveRun(r) /\ row'[r] = Finished(row[r], "failed"))
  BY DEF ReapIngests
<1> QED BY <1>1, <1>2 DEF Finished, RowType

\* What an hour does to a row.
LEMMA HourRow ==
  ASSUME Typed, Hour, NEW r \in IngestRunIds
  PROVE  /\ row'[r].kind = row[r].kind /\ row'[r].cik = row[r].cik
         /\ row'[r].by = row[r].by /\ row'[r].chain = row[r].chain
         /\ row'[r].status = row[r].status
         /\ ~ActiveRun(r) => row'[r] = row[r]
         /\ ActiveRun(r) => /\ row'[r].age = row[r].age + 1
                            /\ row'[r].ran = IF row[r].ran = Never THEN Never ELSE row[r].ran + 1
<1>1. row[r] \in RowType
  BY DEF Typed
<1>2. row'[r] = IF ~ActiveRun(r) THEN row[r]
                ELSE [row[r] EXCEPT !.age = @ + 1, !.ran = IF @ = Never THEN @ ELSE @ + 1]
  BY DEF Hour
<1> QED BY <1>1, <1>2 DEF RowType

------------------------------------------------------------------------------
(* The parts of the invariant, each over the kinds of step.                   *)

\* The rows' CHECKs and the unique index over unfinished runs.
RowChecks ==
  \A r \in IngestRunIds :
    /\ row[r].status = "unused" \/ (row[r].status = "queued") = (row[r].ran = Never)
    /\ task[r].pc # "none" => row[r].status # "unused"
    /\ ActiveRun(r) => \A s \in IngestRunIds :
         ActiveRun(s) /\ row[s].kind = row[r].kind /\ row[s].cik = row[r].cik => s = r

\* The types of the model are those of the tables, and the rows' checks.
LEMMA TypesNamed == Typed => (IngestTypeOK <=> TablesOK /\ RowChecks)
<1> SUFFICES ASSUME Typed PROVE IngestTypeOK <=> TablesOK /\ RowChecks
  OBVIOUS
<1>1. \A r \in IngestRunIds : row[r].status \in Statuses /\ row[r].kind \in Kinds
  BY DEF Typed, RowType
<1>2. \A r \in IngestRunIds : ActiveRun(r) =>
        (RunOf(row[r].kind, row[r].cik) = {r}
         <=> \A s \in IngestRunIds :
               ActiveRun(s) /\ row[s].kind = row[r].kind /\ row[s].cik = row[r].cik => s = r)
  BY DEF RunOf
<1> QED BY <1>1, <1>2 DEF IngestTypeOK, TablesOK, RowChecks

\* uq_entity_ingest_runs_active_kind_cik and the CHECKs of migration 0065.
LEMMA ChecksKept ==
  ASSUME Typed, RowChecks, SweptInTime, RunStep
  PROVE  RowChecks'
<1>0. Never \in Nat /\ 0 # Never
  BY Numbers DEF Never
<1>1. CASE UNCHANGED <<row, task, due, mishaps>>
  BY <1>1 DEF RowChecks, ActiveRun
<1>2. ASSUME NEW r \in IngestRunIds, NewRun(r)
      PROVE  RowChecks'
  <2>1. \A s \in IngestRunIds \ {r} : ActiveRun(s)' <=> ActiveRun(s)
    BY <1>2 DEF NewRun, ActiveRun
  <2>2. \A s \in IngestRunIds \ {r} :
          ActiveRun(s) => ~(row[s].kind = row'[r].kind /\ row[s].cik = row'[r].cik)
    BY <1>2 DEF NewRun, RunOf
  <2>3. ActiveRun(r)' /\ ~ActiveRun(r)
    BY <1>2 DEF NewRun, ActiveRun
  <2> QED BY <1>2, <2>1, <2>2, <2>3 DEF NewRun, RowChecks
<1>3. ASSUME NEW r \in IngestRunIds, Goes(r)
      PROVE  RowChecks'
  BY <1>3 DEF Goes, RowChecks, ActiveRun, Pc
<1>4. ASSUME NEW r \in IngestRunIds, Marks(r)
      PROVE  RowChecks'
  <2>1. \A s \in IngestRunIds :
          /\ ActiveRun(s)' => ActiveRun(s)
          /\ row'[s].kind = row[s].kind /\ row'[s].cik = row[s].cik
    BY <1>4 DEF Marks, ActiveRun
  <2>2. row[r].status # "unused"
    BY <1>4 DEF Marks, RowChecks, Pc
  <2>3. row'[r].status = "unused" \/ (row'[r].status = "queued") = (row'[r].ran = Never)
    BY <1>0, <1>4 DEF Marks, RowChecks
  <2>4. row'[r].status # "unused"
    BY <1>4, <2>2 DEF Marks
  <2> QED BY <1>4, <2>1, <2>3, <2>4 DEF Marks, RowChecks
<1>5. CASE IngestCrash
  BY <1>5 DEF IngestCrash, RowChecks, ActiveRun, NoTask
<1>6. CASE ReapIngests
  <2>1. \A s \in IngestRunIds :
          /\ ActiveRun(s)' => ActiveRun(s)
          /\ row'[s].kind = row[s].kind /\ row'[s].cik = row[s].cik
          /\ \/ row'[s] = row[s]
             \/ row'[s].status = "failed" /\ row'[s].ran = 0
    BY <1>6, SweptRow DEF ActiveRun
  <2> QED BY <1>0, <1>6, <2>1 DEF ReapIngests, RowChecks
<1>7. CASE Hour
  <2>1. \A s \in IngestRunIds :
          /\ row'[s].status = row[s].status
          /\ row'[s].kind = row[s].kind /\ row'[s].cik = row[s].cik
          /\ ActiveRun(s)' <=> ActiveRun(s)
          /\ (row'[s].ran = Never) <=> (row[s].ran = Never)
    <3> TAKE s \in IngestRunIds
    <3>1. row[s].ran \in Nat /\ row[s].age \in Nat
      BY Numbers DEF Typed, RowType
    <3>2. row[s].age < MaxAge
      BY <1>7 DEF Hour
    <3>3. ActiveRun(s) => row[s].ran = Never \/ row[s].ran <= row[s].age
      BY DEF RowChecks, SweptInTime, ActiveRun
    <3>4. ActiveRun(s) => ((row'[s].ran = Never) <=> (row[s].ran = Never))
      BY <1>7, <3>1, <3>2, <3>3, HourRow, Numbers
    <3>5. ActiveRun(s)' <=> ActiveRun(s)
      BY <1>7, HourRow DEF ActiveRun
    <3> QED BY <1>7, <3>4, <3>5, HourRow
  <2>2. task' = task
    BY <1>7 DEF Hour
  <2> QED BY <2>1, <2>2 DEF RowChecks
<1> QED BY <1>1, <1>2, <1>3, <1>4, <1>5, <1>6, <1>7 DEF RunStep

\* Each task works for an unfinished row, or one the reaper gave up.
LEMMA WorkKept ==
  ASSUME Typed, WorksOnOpenRow, RunStep
  PROVE  WorksOnOpenRow'
<1> USE DEF Pc, Working
<1>1. CASE UNCHANGED <<row, task, due, mishaps>>
  BY <1>1 DEF WorksOnOpenRow
<1>2. ASSUME NEW r \in IngestRunIds, NewRun(r)
      PROVE  WorksOnOpenRow'
  BY <1>2 DEF NewRun, WorksOnOpenRow
<1>3. ASSUME NEW r \in IngestRunIds, Goes(r)
      PROVE  WorksOnOpenRow'
  BY <1>3 DEF Goes, WorksOnOpenRow
<1>4. ASSUME NEW r \in IngestRunIds, Marks(r)
      PROVE  WorksOnOpenRow'
  BY <1>4 DEF Marks, WorksOnOpenRow, ActiveRun
<1>5. CASE IngestCrash
  BY <1>5 DEF IngestCrash, WorksOnOpenRow, NoTask
<1>6. CASE ReapIngests
  <2>1. \A s \in IngestRunIds : row'[s] = row[s] \/ row'[s].status = "failed"
    BY <1>6, SweptRow
  <2> QED BY <1>6, <2>1 DEF ReapIngests, WorksOnOpenRow
<1>7. CASE Hour
  <2>1. task' = task /\ \A s \in IngestRunIds : row'[s].status = row[s].status
    BY <1>7, HourRow DEF Hour
  <2> QED BY <2>1 DEF WorksOnOpenRow
<1> QED BY <1>1, <1>2, <1>3, <1>4, <1>5, <1>6, <1>7 DEF RunStep

\* A lost mark lets the sweeps be later, never earlier.
LEMMA LateGrows ==
  ASSUME mishaps \in Nat, mishaps' \in {mishaps, mishaps + 1}, due' = due
  PROVE  mishaps' >= mishaps /\ mishaps' \in Nat /\ Late' >= Late /\ Late \in Nat /\ Late' \in Nat
<1> DEFINE n == IF due THEN 1 ELSE 0
<1>1. Late = n + mishaps
  BY DEF Late
<1>2. Late' = n + mishaps'
  BY DEF Late
<1>3. n \in Nat
  OBVIOUS
<1> HIDE DEF n
<1>4. CASE mishaps' = mishaps
  BY <1>1, <1>2, <1>3, <1>4
<1>5. CASE mishaps' = mishaps + 1
  BY <1>1, <1>2, <1>3, <1>5
<1> QED BY <1>4, <1>5

\* The reaper's bookkeeping: one late sweep, and one more for each that failed.
LEMMA SweepKept ==
  ASSUME Typed, RowChecks, WorksOnOpenRow, SweptInTime, RunStep,
         due \in BOOLEAN, mishaps \in Nat
  PROVE  SweptInTime'
<1>0. \A r \in IngestRunIds : row[r].age \in Nat /\ row[r].ran \in Nat
  BY Numbers DEF Typed, RowType
<1> USE Numbers
<1>1. CASE UNCHANGED <<row, task, due, mishaps>>
  BY <1>1 DEF SweptInTime, Late
<1>2. ASSUME NEW r \in IngestRunIds, NewRun(r)
      PROVE  SweptInTime'
  BY <1>2 DEF NewRun, SweptInTime, Late
<1>3. ASSUME NEW r \in IngestRunIds, Goes(r)
      PROVE  SweptInTime'
  BY <1>3 DEF Goes, SweptInTime, Late
<1>4. ASSUME NEW r \in IngestRunIds, Marks(r)
      PROVE  SweptInTime'
  <2>1. ASSUME NEW s \in IngestRunIds, row'[s] = row[s]
        PROVE  /\ row'[s].status = "queued" => row'[s].age <= QueuedTimeout + Late'
               /\ row'[s].status = "running" =>
                    /\ row'[s].ran <= row'[s].age
                    /\ row'[s].age <= row'[s].ran + QueuedTimeout + 1 + mishaps'
                    /\ row'[s].age <= QueuedTimeout + RunningTimeout + 1 + Late'
    <3>0. mishaps' \in {mishaps, mishaps + 1} /\ due' = due
      BY <1>4 DEF Marks
    <3>1. mishaps' >= mishaps /\ mishaps' \in Nat /\ Late' >= Late /\ Late \in Nat /\ Late' \in Nat
      BY <3>0, LateGrows
    <3>2. /\ row[s].status = "queued" => row[s].age <= QueuedTimeout + Late
          /\ row[s].status = "running" =>
               /\ row[s].ran <= row[s].age
               /\ row[s].age <= row[s].ran + QueuedTimeout + 1 + mishaps
               /\ row[s].age <= QueuedTimeout + RunningTimeout + 1 + Late
      BY DEF SweptInTime
    <3> QED BY <1>0, <2>1, <3>1, <3>2
  <2>2. CASE row'[r] # row[r] /\ Pc(r) = "queued"
    <3>1. /\ row[r].status = "queued" /\ row'[r].status = "running"
          /\ row'[r].age = row[r].age /\ row'[r].ran = 0
      BY <1>4, <2>2 DEF Marks, WorksOnOpenRow, ActiveRun
    <3>2. row[r].age <= QueuedTimeout + Late
      BY <3>1 DEF SweptInTime
    <3>3. /\ row'[r].ran <= row'[r].age
          /\ row'[r].age <= row'[r].ran + QueuedTimeout + 1 + mishaps'
          /\ row'[r].age <= QueuedTimeout + RunningTimeout + 1 + Late'
      BY <1>0, <1>4, <3>1, <3>2 DEF Late, Marks
    <3> QED BY <1>4, <2>1, <3>1, <3>3 DEF Marks, SweptInTime
  <2>3. CASE row'[r] # row[r] /\ Pc(r) # "queued"
    <3>1. row'[r].status \in {"succeeded", "failed"}
      BY <1>4, <2>3 DEF Marks
    <3> QED BY <1>4, <2>1, <3>1 DEF Marks, SweptInTime
  <2> QED BY <1>4, <2>1, <2>2, <2>3 DEF Marks, SweptInTime
<1>5. CASE IngestCrash
  BY <1>0, <1>5 DEF IngestCrash, SweptInTime, Late
<1>6. CASE ReapIngests
  <2>1. CASE row' = row /\ mishaps' = mishaps + 1
    BY <1>0, <1>6, <2>1 DEF ReapIngests, SweptInTime, Late
  <2>2. CASE ~(row' = row /\ mishaps' = mishaps + 1)
    <3>1. /\ mishaps' = mishaps /\ due' = FALSE
          /\ \A s \in IngestRunIds : ActiveRun(s)' => row'[s] = row[s] /\ ~Stale(s)
      <4>1. /\ mishaps' = mishaps /\ due' = FALSE
            /\ row' = [r \in IngestRunIds |->
                        IF ActiveRun(r) /\ (~swept \/ Stale(r))
                        THEN Finished(row[r], "failed") ELSE row[r]]
        BY <1>6, <2>2 DEF ReapIngests
      <4>2. \A s \in IngestRunIds : ActiveRun(s)' => row'[s] = row[s]
        BY <1>6, SweptRow DEF ActiveRun
      <4>3. \A s \in IngestRunIds : Finished(row[s], "failed").status = "failed"
        BY DEF Finished, Typed, RowType
      <4> QED BY <4>1, <4>2, <4>3 DEF ActiveRun
    <3>2. ASSUME NEW s \in IngestRunIds, row'[s].status = "queued"
          PROVE  row'[s].age <= QueuedTimeout + Late'
      BY <1>0, <3>1, <3>2 DEF ActiveRun, Stale, Late
    <3>3. ASSUME NEW s \in IngestRunIds, row'[s].status = "running"
          PROVE  /\ row'[s].ran <= row'[s].age
                 /\ row'[s].age <= row'[s].ran + QueuedTimeout + 1 + mishaps'
                 /\ row'[s].age <= QueuedTimeout + RunningTimeout + 1 + Late'
      <4>1. row'[s] = row[s] /\ row[s].status = "running" /\ row[s].ran <= RunningTimeout
        <5>1. row'[s] = row[s] /\ ~Stale(s)
          BY <3>1, <3>3 DEF ActiveRun
        <5>2. ~(row[s].ran > RunningTimeout)
          BY <3>3, <5>1 DEF Stale
        <5> QED BY <1>0, <3>3, <5>1, <5>2
      <4> QED BY <1>0, <3>1, <4>1 DEF SweptInTime, Late
    <3> QED BY <3>2, <3>3 DEF SweptInTime
  <2> QED BY <2>1, <2>2
<1>7. CASE Hour
  <2>0. ~due /\ due' /\ mishaps' = mishaps
    BY <1>7 DEF Hour
  <2>1. Late = mishaps /\ Late' = mishaps + 1 /\ mishaps' = mishaps
    BY <2>0 DEF Late
  <2>2. ASSUME NEW s \in IngestRunIds, row'[s].status = "queued"
        PROVE  row'[s].age <= QueuedTimeout + Late'
    <3>1. row'[s].age = row[s].age + 1 /\ row[s].status = "queued"
      BY <1>7, <2>2, HourRow DEF ActiveRun
    <3>2. row[s].age <= QueuedTimeout + mishaps
      BY <2>1, <3>1 DEF SweptInTime
    <3> QED BY <1>0, <2>1, <3>1, <3>2
  <2>3. ASSUME NEW s \in IngestRunIds, row'[s].status = "running"
        PROVE  /\ row'[s].ran <= row'[s].age
               /\ row'[s].age <= row'[s].ran + QueuedTimeout + 1 + mishaps'
               /\ row'[s].age <= QueuedTimeout + RunningTimeout + 1 + Late'
    <3>1. /\ row'[s].age = row[s].age + 1 /\ row[s].status = "running"
          /\ row[s].ran # Never /\ row'[s].ran = row[s].ran + 1
      BY <1>7, <2>3, HourRow DEF ActiveRun, RowChecks
    <3>2. /\ row[s].ran <= row[s].age
          /\ row[s].age <= row[s].ran + QueuedTimeout + 1 + mishaps
          /\ row[s].age <= QueuedTimeout + RunningTimeout + 1 + mishaps
      BY <2>1, <3>1 DEF SweptInTime
    <3> QED BY <1>0, <2>1, <3>1, <3>2
  <2> QED BY <2>2, <2>3 DEF SweptInTime
<1> QED BY <1>1, <1>2, <1>3, <1>4, <1>5, <1>6, <1>7 DEF RunStep

\* Links and unlinks: registrant_link.unlink refuses while a run of the CIK is
\* active, and takes no other company's CIK (registrant_link.py).
LEMMA HoldersKept ==
  ASSUME IngestTypeOK, Typed, LinkKept, [IngestNext]_ingestVars
  PROVE  /\ \A j, k \in Ciks : holder'[j] = holder'[k] /\ holder'[j] \in Companies => j = k
         /\ \A r \in IngestRunIds : ActiveRun(r) /\ Chained(r) =>
              holder'[row[r].cik] = row[r].chain /\ row[r].chain \notin unlinking'
<1> DEFINE One(h) == \A j, k \in Ciks : h[j] = h[k] /\ h[j] \in Companies => j = k
           Held(h, u) == \A r \in IngestRunIds : ActiveRun(r) /\ Chained(r) =>
                           h[row[r].cik] = row[r].chain /\ row[r].chain \notin u
<1>1. One(holder) /\ Held(holder, unlinking)
  BY DEF LinkKept
<1>2. \A r \in IngestRunIds : ActiveRun(r) /\ Chained(r) =>
        row[r].cik \in Ciks /\ row[r].chain \in OrgEntities /\ row[r].kind \in Kinds
  BY DEF ActiveRun, Chained, Typed, RowType
<1>3. ASSUME NEW k \in Ciks, NEW e \in OrgEntities, holder[k] = Nobody,
             e \in Companies => \A j \in Ciks : holder[j] # e,
             holder' = [holder EXCEPT ![k] = e], unlinking' = unlinking
      PROVE  One(holder') /\ Held(holder', unlinking')
  <2>1. holder \in [Ciks -> OrgEntities \cup {Nobody}] /\ Nobody \notin OrgEntities
    BY Numbers DEF IngestTypeOK
  <2>2. One(holder')
    BY <1>1, <1>3, <2>1
  <2>3. Held(holder', unlinking')
    BY <1>1, <1>2, <1>3, <2>1
  <2> QED BY <2>2, <2>3
<1>4. \A k \in Ciks : k \in OrgEntities /\ k \notin Companies
  BY Numbers
<1>5. CASE UNCHANGED <<holder, unlinking>>
  BY <1>1, <1>5
<1>6. ASSUME NEW k \in Ciks, holder' = [holder EXCEPT ![k] = IF holder[k] = Nobody THEN k ELSE holder[k]],
             unlinking' = unlinking
      PROVE  One(holder') /\ Held(holder', unlinking')
  <2>1. CASE holder[k] = Nobody
    BY <1>3, <1>4, <1>6, <2>1
  <2>2. CASE holder[k] # Nobody
    <3>1. holder' = holder
      BY <1>6, <2>2 DEF IngestTypeOK
    <3> QED BY <3>1, <1>5, <1>6
  <2> QED BY <2>1, <2>2
<1>7. ASSUME NEW r \in IngestRunIds, Requests(r)
      PROVE  One(holder') /\ Held(holder', unlinking')
  <2>1. CASE (\E k \in Ciks : RequestIngest(r, k)) \/ (\E e \in OrgEntities : RequestRead(r, e))
    BY <1>5, <2>1 DEF RequestIngest, RequestRead
  <2>2. ASSUME NEW k \in Ciks, Seed(r, k)
        PROVE  One(holder') /\ Held(holder', unlinking')
    BY <1>6, <2>2 DEF Seed
  <2>3. ASSUME NEW k \in Ciks, NEW e \in Companies, Link(r, e, k)
        PROVE  One(holder') /\ Held(holder', unlinking')
    BY <1>3, <2>3, Numbers DEF Link
  <2> QED BY <1>7, <2>1, <2>2, <2>3 DEF Requests
<1>8. ASSUME NEW r \in IngestRunIds, Work(r)
      PROVE  One(holder') /\ Held(holder', unlinking')
  <2>1. CASE Ensure(r)
    <3>1. row[r].cik \in Ciks
      BY <2>1 DEF Ensure, IngestTypeOK, Typed, Pc
    <3>2. \/ UNCHANGED <<holder, unlinking>>
          \/ /\ holder' = [holder EXCEPT ![row[r].cik] =
                            IF holder[row[r].cik] = Nobody THEN row[r].cik ELSE holder[row[r].cik]]
             /\ unlinking' = unlinking
      BY <2>1 DEF Ensure
    <3> QED BY <1>5, <1>6, <3>1, <3>2
  <2>2. CASE ~Ensure(r)
    BY <1>5, <1>8, <2>2 DEF Work, Resolve, Relate, Store, LoadSections, ReadDeals, FollowUp
  <2> QED BY <2>1, <2>2
<1>9. ASSUME NEW e \in Companies, UnlinkCheck(e)
      PROVE  One(holder') /\ Held(holder', unlinking')
  <2>1. PICK k \in Ciks : holder[k] = e /\ \A kind \in Kinds : RunOf(kind, k) = {}
    BY <1>9 DEF UnlinkCheck, MayUnlink
  <2>2. ASSUME NEW r \in IngestRunIds, ActiveRun(r), Chained(r)
        PROVE  row[r].chain # e
    <3>1. row[r].cik \in Ciks /\ row[r].kind \in Kinds /\ holder[row[r].cik] = row[r].chain
      BY <1>1, <1>2, <2>2
    <3>2. row[r].cik # k
      BY <2>1, <2>2, <3>1 DEF RunOf
    <3> QED BY <1>1, <2>1, <3>1, <3>2
  <2> QED BY <1>1, <1>9, <2>2 DEF UnlinkCheck
<1>10. ASSUME NEW e \in Companies, UnlinkCommit(e)
       PROVE  One(holder') /\ Held(holder', unlinking')
  <2>1. /\ \A k \in Ciks : holder'[k] = IF holder[k] = e THEN Nobody ELSE holder[k]
        /\ e \in unlinking /\ unlinking' = unlinking \ {e}
    BY <1>10 DEF UnlinkCommit
  <2>2. Nobody \notin Companies
    BY Numbers
  <2>3. One(holder')
    BY <1>1, <2>1, <2>2
  <2>4. Held(holder', unlinking')
    BY <1>1, <1>2, <2>1
  <2> QED BY <2>3, <2>4
<1>11. CASE IngestCrash
  BY <1>1, <1>11 DEF IngestCrash
<1>12. CASE \/ UNCHANGED ingestVars \/ ReapIngests \/ Hour
            \/ \E e \in Companies : Decide(e)
            \/ \E r \in IngestRunIds : Begin(r) \/ End(r)
  BY <1>5, <1>12 DEF ingestVars, ReapIngests, Hour, Decide, Begin, End
<1>13. One(holder') /\ Held(holder', unlinking')
  BY <1>7, <1>8, <1>9, <1>10, <1>11, <1>12 DEF IngestNext, Persons
<1> QED BY <1>13

\* What a link started keeps its company and its CIK.
LEMMA LinksKept ==
  ASSUME IngestTypeOK, Typed, LinkKept, [IngestNext]_ingestVars
  PROVE  LinkKept'
<1> USE DEF Pc
<1> DEFINE Kept(r) == /\ holder[row[r].cik] = row[r].chain
                      /\ row[r].chain \notin unlinking
                      /\ Pc(r) \in {"relating", "storing", "reading"} => task[r].entity = row[r].chain
<1>0. \A r \in IngestRunIds : ActiveRun(r) /\ Chained(r) => Kept(r)
  BY DEF LinkKept
<1>1. \A r \in IngestRunIds : ActiveRun(r) /\ Chained(r) =>
        holder'[row[r].cik] = row[r].chain /\ row[r].chain \notin unlinking'
  BY HoldersKept
<1>2. \A j, k \in Ciks : holder'[j] = holder'[k] /\ holder'[j] \in Companies => j = k
  BY HoldersKept
<1>3. ASSUME NEW s \in IngestRunIds, ActiveRun(s)', Chained(s)',
             ActiveRun(s), row'[s].by = row[s].by, row'[s].cik = row[s].cik,
             row'[s].chain = row[s].chain,
             task'[s] = task[s] \/ task'[s].pc \notin {"relating", "storing", "reading"}
      PROVE  Kept(s)'
  BY <1>0, <1>1, <1>3 DEF Chained
<1>4. ASSUME NEW s \in IngestRunIds, ActiveRun(s)', Chained(s)'
      PROVE  Kept(s)'
  <2>1. CASE UNCHANGED <<row, task, due, mishaps>>
    BY <1>3, <1>4, <2>1 DEF ActiveRun
  <2>2. ASSUME NEW r \in IngestRunIds, NewRun(r)
        PROVE  Kept(s)'
    <3>1. CASE s = r
      BY <1>4, <2>2, <3>1 DEF NewRun
    <3>2. CASE s # r
      <4>1. row'[s] = row[s] /\ (task'[s] = task[s] \/ task'[s].pc = "none")
        BY <2>2, <3>2 DEF NewRun
      <4> QED BY <1>3, <1>4, <4>1 DEF ActiveRun
    <3> QED BY <3>1, <3>2
  <2>3. ASSUME NEW r \in IngestRunIds, Goes(r)
        PROVE  Kept(s)'
    <3>1. row' = row /\ ActiveRun(s) /\ Chained(s)
      BY <1>4, <2>3 DEF Goes, ActiveRun, Chained
    <3>2. CASE s = r
      BY <1>1, <2>3, <3>1, <3>2 DEF Goes
    <3>3. CASE s # r
      BY <1>3, <1>4, <2>3, <3>1, <3>3 DEF Goes
    <3> QED BY <3>2, <3>3
  <2>4. ASSUME NEW r \in IngestRunIds, Marks(r)
        PROVE  Kept(s)'
    <3>1. /\ ActiveRun(s)
          /\ row'[s].by = row[s].by /\ row'[s].cik = row[s].cik /\ row'[s].chain = row[s].chain
          /\ task'[s] = task[s] \/ task'[s].pc \notin {"relating", "storing", "reading"}
      BY <1>4, <2>4 DEF Marks, ActiveRun
    <3> QED BY <1>3, <1>4, <3>1
  <2>5. CASE IngestCrash
    <3>1. row' = row /\ task'[s].pc = "none"
      BY <2>5 DEF IngestCrash, NoTask
    <3> QED BY <1>3, <1>4, <3>1 DEF ActiveRun
  <2>6. CASE ReapIngests
    <3>1. /\ ActiveRun(s) /\ task' = task
          /\ row'[s].by = row[s].by /\ row'[s].cik = row[s].cik /\ row'[s].chain = row[s].chain
      BY <1>4, <2>6, SweptRow DEF ActiveRun, ReapIngests
    <3> QED BY <1>3, <1>4, <3>1
  <2>7. CASE Hour
    <3>1. /\ ActiveRun(s) /\ task' = task
          /\ row'[s].by = row[s].by /\ row'[s].cik = row[s].cik /\ row'[s].chain = row[s].chain
      BY <1>4, <2>7, HourRow DEF ActiveRun, Hour
    <3> QED BY <1>3, <1>4, <3>1
  <2> QED BY <2>1, <2>2, <2>3, <2>4, <2>5, <2>6, <2>7, RunSteps DEF RunStep
<1> QED BY <1>2, <1>4 DEF LinkKept

------------------------------------------------------------------------------
(* The theorems.                                                              *)

\* Where the tables begin: no run, no task, no link.
LEMMA IngestInvInit == IngestInit => IngestInv
<1> SUFFICES ASSUME IngestInit PROVE IngestInv
  OBVIOUS
<1> USE Numbers DEF IngestInit
<1>1. \A r \in IngestRunIds : row[r] = NoRow /\ task[r] = NoTask
  OBVIOUS
<1>2. NoRow \in RowType /\ NoTask \in TaskType
  BY DEF NoRow, NoTask, RowType, TaskType, Kinds, Statuses, Pcs
<1>3. NoRow.status = "unused" /\ NoRow.ran = Never /\ NoTask.pc = "none"
  BY DEF NoRow, NoTask
<1>4. Typed
  BY <1>1, <1>2, <1>3 DEF Typed, Pc
<1>5. RowChecks
  BY <1>1, <1>3 DEF RowChecks, ActiveRun
<1>6. IngestTypeOK
  <2>0. mishaps = 0 /\ swept = FALSE /\ due = TRUE /\ 0 \in 0..MaxMishaps
    OBVIOUS
  <2>1. mishaps \in 0..MaxMishaps /\ swept \in BOOLEAN /\ due \in BOOLEAN
    BY <2>0, Zenon
  <2>2. /\ edges \in [OrgEntities -> [Ciks -> {"none", "open", "confirmed"}]]
        /\ holder \in [Ciks -> OrgEntities \cup {Nobody}]
        /\ sections \in [OrgEntities -> SUBSET Ciks] /\ unlinking \subseteq Companies
    OBVIOUS
  <2>3. TablesOK
    BY <2>1, <2>2 DEF TablesOK
  <2> QED BY <1>4, <1>5, <2>3, TypesNamed
<1>7. WorksOnOpenRow /\ SweptInTime
  BY <1>1, <1>3 DEF WorksOnOpenRow, SweptInTime, Working, Pc
<1>8. LinkKept
  BY <1>1, <1>3 DEF LinkKept, ActiveRun
<1> QED BY <1>4, <1>6, <1>7, <1>8 DEF IngestInv

\* Every request, task, person, crash, sweep and hour keeps the invariant.
LEMMA IngestInvStep == IngestInv /\ [IngestNext]_ingestVars => IngestInv'
<1> SUFFICES ASSUME IngestInv, [IngestNext]_ingestVars PROVE IngestInv'
  OBVIOUS
<1> USE DEF IngestInv
<1>1. RunStep
  BY RunSteps
<1>2. RowChecks /\ due \in BOOLEAN /\ mishaps \in Nat
  BY TypesNamed, Numbers DEF TablesOK
<1>3. Typed'
  BY RowsTyped
<1>4. RowChecks'
  BY <1>1, <1>2, ChecksKept
<1>5. IngestTypeOK'
  <2>1. Typed' => (IngestTypeOK' <=> TablesOK' /\ RowChecks')
    BY TypesNamed, PTL
  <2> QED BY <1>3, <1>4, <2>1, TablesTyped
<1>6. WorksOnOpenRow' /\ SweptInTime' /\ LinkKept'
  BY <1>1, <1>2, WorkKept, SweepKept, LinksKept
<1> QED BY <1>3, <1>5, <1>6

\* The invariant holds of every state.
LEMMA IngestInvAlways == IngestSpec => []IngestInv
  BY IngestInvInit, IngestInvStep, PTL DEF IngestSpec

\* Types, the index over unfinished runs and the CHECKs of the table.
THEOREM IngestTypesAlways == IngestSpec => []IngestTypeOK
<1>1. IngestInv => IngestTypeOK
  BY DEF IngestInv
<1> QED BY <1>1, IngestInvAlways, PTL

\* Two concurrent ingests, or reads, of one filer do not race each other's upserts,
\* unless the reaper gave one of them up (migration 0065, edgar_ingest_runner.py).
THEOREM OneWriterAlways == IngestSpec => []OneWriter
<1>1. IngestInv => OneWriter
  <2> SUFFICES ASSUME IngestInv, NEW r \in IngestRunIds, NEW s \in IngestRunIds,
                      r # s, Working(r), Working(s),
                      row[r].kind = row[s].kind, row[r].cik = row[s].cik,
                      row[r].status # "failed", row[s].status # "failed"
               PROVE  FALSE
    BY DEF OneWriter
  <2>1. ActiveRun(r) /\ ActiveRun(s)
    BY DEF IngestInv, WorksOnOpenRow, ActiveRun
  <2>2. RowChecks
    BY TypesNamed DEF IngestInv, TablesOK
  <2> QED BY <2>1, <2>2 DEF RowChecks
<1> QED BY <1>1, IngestInvAlways, PTL

\* What a link started writes only to the company it linked, while it holds the CIK
\* (registrant_link.py, entities.py _run_ingest_then_read).
THEOREM ChainedStaysHomeAlways == IngestSpec => []ChainedStaysHome
<1>1. IngestInv => ChainedStaysHome
  <2> SUFFICES ASSUME IngestInv, NEW r \in IngestRunIds, row[r].by \in {"link", "followup"},
                      Pc(r) \in {"relating", "storing", "reading"}, row[r].status # "failed"
               PROVE  task[r].entity = row[r].chain /\ holder[row[r].cik] = row[r].chain
    BY DEF ChainedStaysHome
  <2>1. ActiveRun(r) /\ Chained(r)
    BY DEF IngestInv, WorksOnOpenRow, ActiveRun, Working, Chained
  <2> QED BY <2>1 DEF IngestInv, LinkKept
<1> QED BY <1>1, IngestInvAlways, PTL

\* A registrant is free again within both timeouts, two hours, and an hour for each
\* sweep that failed (scheduler.py _run_run_reaper, edgar_ingest_runner.py).
THEOREM CikFreedAlways == IngestSpec => []CikFreed
<1>1. IngestInv => CikFreed
  <2> SUFFICES ASSUME IngestInv, NEW r \in IngestRunIds, ActiveRun(r)
               PROVE  row[r].age <= QueuedTimeout + RunningTimeout + 2 + mishaps
    BY DEF CikFreed
  <2>1. row[r].age \in Nat /\ mishaps \in Nat /\ Late \in {mishaps, mishaps + 1}
    BY Numbers DEF IngestInv, IngestTypeOK, Typed, RowType, Late
  <2>2. \/ row[r].age <= QueuedTimeout + Late
        \/ row[r].age <= QueuedTimeout + RunningTimeout + 1 + Late
    BY DEF IngestInv, SweptInTime, ActiveRun
  <2> QED BY <2>1, <2>2, Numbers
<1> QED BY <1>1, IngestInvAlways, PTL

------------------------------------------------------------------------------
(* IngestRuns implements RunLifecycle.                                        *)

\* A row whose status stays, while its task stays or ends, is left alone.
LEMMA LeftAlone ==
  ASSUME NEW r \in IngestRunIds, row'[r].status = row[r].status,
         Working(r)' => Working(r)
  PROVE  Life!RowNext(r)
  BY DEF Life!RowNext, Life!Forget, Life!Vanish, Life!KeepsTask, StateOf

\* Every kind of step does to each row what RunLifecycle allows.
LEMMA LifeStep ==
  ASSUME IngestTypeOK, Typed, RunStep, NEW r \in IngestRunIds
  PROVE  Life!RowNext(r)
<1> USE DEF Pc, Working
<1>0. row[r].status \in Statuses
  BY DEF IngestTypeOK
<1>1. CASE UNCHANGED <<row, task, due, mishaps>>
  BY <1>1, LeftAlone
<1>2. ASSUME NEW q \in IngestRunIds, NewRun(q)
      PROVE  Life!RowNext(r)
  <2>1. CASE q # r
    BY <1>2, <2>1, LeftAlone DEF NewRun
  <2>2. CASE q = r
    <3>1. Life!Launch(r)
      BY <1>2, <2>2 DEF NewRun, StateOf, Life!Launch, Life!Open
    <3> QED BY <3>1 DEF Life!RowNext
  <2> QED BY <2>1, <2>2
<1>3. ASSUME NEW q \in IngestRunIds, Goes(q)
      PROVE  Life!RowNext(r)
  BY <1>3, LeftAlone DEF Goes
<1>4. ASSUME NEW q \in IngestRunIds, Marks(q)
      PROVE  Life!RowNext(r)
  <2>1. CASE q # r
    BY <1>4, <2>1, LeftAlone DEF Marks
  <2>2. CASE q = r /\ row'[r] = row[r]
    BY <1>4, <2>2, LeftAlone DEF Marks
  <2>3. CASE q = r /\ row'[r] # row[r] /\ Pc(r) = "queued"
    <3>1. Life!WriteRunning(r)
      BY <1>4, <2>3 DEF Marks, ActiveRun, StateOf, Life!WriteRunning, Life!Open
    <3> QED BY <3>1 DEF Life!RowNext
  <2>4. CASE q = r /\ row'[r] # row[r] /\ Pc(r) # "queued"
    <3>1. row[r].status # "unused"
      BY <1>4, <2>4 DEF Marks, IngestTypeOK
    <3>2. Life!WriteOutcome(r)
      BY <1>0, <1>4, <2>4, <3>1
         DEF Marks, StateOf, Statuses, Life!WriteOutcome, Life!Open, Life!Finished, Life!Outcomes
    <3> QED BY <3>2 DEF Life!RowNext
  <2> QED BY <1>4, <2>1, <2>2, <2>3, <2>4
<1>5. CASE IngestCrash
  BY <1>5, LeftAlone DEF IngestCrash, NoTask
<1>6. CASE ReapIngests
  <2>1. task' = task
    BY <1>6 DEF ReapIngests
  <2>2. CASE row'[r] = row[r]
    BY <2>1, <2>2, LeftAlone
  <2>3. CASE row'[r] # row[r]
    <3>1. ActiveRun(r) /\ row'[r].status = "failed"
      BY <1>6, <2>3, SweptRow
    <3>2. Life!Overrule(r)
      BY <2>1, <3>1 DEF ActiveRun, StateOf, Life!Overrule, Life!MayDecide, Life!Decisions,
         Life!KeepsTask, Life!Open
    <3> QED BY <3>2 DEF Life!RowNext
  <2> QED BY <2>2, <2>3
<1>7. CASE Hour
  <2>1. task' = task /\ row'[r].status = row[r].status
    BY <1>7, HourRow DEF Hour
  <2> QED BY <2>1, LeftAlone
<1> QED BY <1>1, <1>2, <1>3, <1>4, <1>5, <1>6, <1>7 DEF RunStep

\* Requests, tasks, lost marks, the reaper and crashes keep the lifecycle of
\* RunLifecycle, the one in which a finished row never runs again.
THEOREM RunLifecycleKept == IngestSpec => KeepsRunLifecycle
<1>1. IngestInit => Life!LifeInit
  BY DEF IngestInit, Life!LifeInit, StateOf, Working, Pc, NoRow, NoTask
<1>2. IngestInv /\ [IngestNext]_ingestVars => [Life!LifeNext]_(Life!lifeVars)
  BY RunSteps, LifeStep DEF IngestInv, Life!LifeNext
<1> QED BY IngestInvAlways, <1>1, <1>2, PTL DEF IngestSpec, KeepsRunLifecycle, Life!LifeSpec

\* What RunLifecycle makes of a step: settled verdicts stay, and no finished row
\* is reopened.
LEMMA LifeVerdicts ==
  ASSUME Life!LifeNext
  PROVE  Life!KeepsVerdicts /\ Life!ReopensOnlyToRerun
<1> SUFFICES ASSUME NEW r \in IngestRunIds
             PROVE  /\ Life!Settled(r) =>
                         Life!Settled(r)' /\ StateOf(r)' \in {StateOf(r), "gone"}
                    /\ StateOf(r) \in Life!Finished => StateOf(r)' \in Life!Finished \cup {"gone"}
  BY DEF Life!KeepsVerdicts, Life!ReopensOnlyToRerun
<1> QED
  BY DEF Life!LifeNext, Life!RowNext, Life!Launch, Life!WriteRunning, Life!WriteOutcome,
     Life!Vanish, Life!Decide, Life!Overrule, Life!Forget, Life!MayDecide,
     Life!KeepsTask, Life!Settled, Life!Decisions, Life!Open, Life!Outcomes, Life!Finished

\* Once the task of an ingest is gone its verdict is final: only a task that the
\* reaper gave up too early can still overwrite its failure (run_reaper.py).
THEOREM SettledIngestIsFinal == IngestSpec => Life!SettledIsFinal
<1>1. [Life!LifeNext]_(Life!lifeVars) => [Life!KeepsVerdicts]_(Life!lifeVars)
  BY LifeVerdicts
<1> QED BY RunLifecycleKept, <1>1, PTL DEF KeepsRunLifecycle, Life!LifeSpec, Life!SettledIsFinal

\* A finished ingest never shows as active again, so it never takes its
\* registrant's place in the unique index back (0065_entity_ingest_runs.py).
THEOREM FinishedIngestStaysFinished == IngestSpec => Life!FinishedStaysFinished
<1>1. [Life!LifeNext]_(Life!lifeVars) => [Life!ReopensOnlyToRerun]_(Life!lifeVars)
  BY LifeVerdicts
<1> QED
  BY RunLifecycleKept, <1>1, PTL
     DEF KeepsRunLifecycle, Life!LifeSpec, Life!FinishedStaysFinished
=============================================================================
