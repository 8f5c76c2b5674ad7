----------------------------- MODULE ProxyLogSink -----------------------------
(***************************************************************************)
(* The capture proxy's log of what each capture fetched (log_s3.py). The   *)
(* store has no append, so the records of a capture are gathered in a      *)
(* buffer and the whole log is PUT about a second later, again and again.  *)
(* One event loop runs every handler, timer and task; only a PUT is in a   *)
(* thread, and the loop goes on meanwhile. At shutdown close() flushes     *)
(* what is left while the last handlers may still log. A log is as long as *)
(* the number of its lines: each PUT holds all lines of its buffer.        *)
(***************************************************************************)
EXTENDS Integers, FiniteSets

CONSTANTS
  Captures,    \* capture ids
  MaxLines,    \* lines that fit in a buffer whatever their length (max_bytes)
  MaxBuffers,  \* MAX_BUFFERS
  MaxRecords,  \* bound: records of a capture
  MaxFaults    \* bound: PUTs that raise

ASSUME SinkAssumption ==
  /\ MaxLines \in Nat \ {0}
  /\ MaxBuffers \in Nat \ {0}
  /\ MaxRecords \in Nat
  /\ MaxFaults \in Nat

VARIABLES
  phase,     \* serving, in close(), or after it
  buffered,  \* the captures in _buffers
  old,       \* captures whose last record is further back than BUFFER_TTL_S
  lines,     \* how many lines a buffer holds
  full,      \* buffers that met the byte cap
  dirty,     \* buffers with lines that no PUT has begun to store
  handle,    \* buffers whose debounce timer is set
  task,      \* the flush task of a buffer: none, new (not yet run), putting
  body,      \* the lines in the PUT that the task waits for
  stored,    \* the lines of the object in the store
  left,      \* buffers close() has not come to
  cur,       \* the buffer close() is at: a set of at most one
  waits,     \* that buffer, while close() awaits its task
  closeBody, \* the lines in the PUT that close() waits for, 0 when none
  records,   \* history: records handed to add()
  failed,    \* history: buffers whose last PUT failed, with no record since
  atClose,   \* history: the lines of each buffer when close() began
  faults     \* history: faults so far

vars == <<phase, buffered, old, lines, full, dirty, handle, task, body, stored,
          left, cur, waits, closeBody, records, failed, atClose, faults>>
bufferVars == <<buffered, old, lines, full, records>>
closeVars == <<phase, left, atClose>>

TypeOK ==
  /\ phase \in {"serving", "closing", "closed"}
  /\ buffered \subseteq Captures
  /\ IsFiniteSet(buffered) /\ Cardinality(buffered) <= MaxBuffers
  /\ old \subseteq Captures
  /\ lines \in [Captures -> 0..MaxLines]
  /\ full \subseteq Captures
  /\ dirty \subseteq Captures
  /\ handle \subseteq Captures
  /\ task \in [Captures -> {"none", "new", "putting"}]
  /\ body \in [Captures -> Nat]
  /\ stored \in [Captures -> Nat]
  /\ left \subseteq Captures
  /\ cur \subseteq Captures
  /\ waits \subseteq Captures
  /\ closeBody \in Nat
  /\ records \in [Captures -> Nat]
  /\ failed \subseteq Captures
  /\ atClose \in [Captures -> Nat]
  /\ faults \in 0..MaxFaults

Init ==
  /\ phase = "serving"
  /\ buffered = {} /\ old = {} /\ full = {} /\ dirty = {} /\ handle = {}
  /\ left = {} /\ cur = {} /\ waits = {} /\ failed = {}
  /\ lines = [c \in Captures |-> 0]
  /\ task = [c \in Captures |-> "none"]
  /\ body = [c \in Captures |-> 0]
  /\ stored = [c \in Captures |-> 0]
  /\ records = [c \in Captures |-> 0]
  /\ atClose = [c \in Captures |-> 0]
  /\ closeBody = 0
  /\ faults = 0

Running == phase # "closed"

-----------------------------------------------------------------------------
(* A handler logs a record.                                                *)

\* the records of a capture end with its credential, which lives no longer
\* than BUFFER_TTL_S; the timer fires long before that
Age(c) ==
  /\ phase = "serving"
  /\ c \in buffered \ (old \union handle)
  /\ old' = old \union {c}
  /\ UNCHANGED <<closeVars, buffered, lines, full, dirty, handle, task, body,
                 stored, cur, waits, closeBody, records, failed, faults>>

\* broken variant: a flush task does not hold its buffer back
EvictableAnyTask == buffered \intersect old
Evictable == {c \in buffered \intersect old : task[c] = "none"}

Kept == buffered \ Evictable

\* broken variant: one buffer too many
RoomForOneMore == Cardinality(Kept) <= MaxBuffers
Room == Cardinality(Kept) < MaxBuffers

\* what a record does to failed: the next PUT is on its way
Rescheduled(c) == IF phase = "serving" THEN failed \ {c} ELSE failed

\* broken variant: a second task while the first waits for its PUT
StartedAgain(c) == [task EXCEPT ![c] = "new"]
Started(c) ==
  [task EXCEPT ![c] = IF task[c] = "none" THEN "new" ELSE task[c]]

\* the line fits: keep it, set the timer unless it is set
AppendLine(c) ==
  /\ c \notin full
  /\ lines[c] < MaxLines
  /\ lines' = [lines EXCEPT ![c] = @ + 1]
  /\ dirty' = dirty \union {c}
  /\ handle' = handle \union {c}
  /\ failed' = Rescheduled(c)
  /\ UNCHANGED <<full, task>>

\* the line would cross the byte cap: this one and all later ones are dropped,
\* and what is unsaved goes at once
MeetCap(c) ==
  /\ c \notin full
  /\ lines[c] > 0
  /\ full' = full \union {c}
  /\ IF c \in dirty
     THEN /\ handle' = handle \ {c}
          /\ task' = Started(c)
          /\ failed' = Rescheduled(c)
     ELSE UNCHANGED <<handle, task, failed>>
  /\ UNCHANGED <<lines, dirty>>

Ignore(c) ==
  c \in full /\ UNCHANGED <<lines, full, dirty, handle, task, failed>>

\* _add: an idle buffer makes room; without room the record is on stdout only
Add(c) ==
  /\ Running
  /\ c \notin old
  /\ records[c] < MaxRecords
  /\ records' = [records EXCEPT ![c] = @ + 1]
  /\ \/ /\ c \notin Kept
        /\ ~Room
        /\ buffered' = Kept
        /\ UNCHANGED <<lines, full, dirty, handle, task, failed>>
     \/ /\ c \in Kept \/ Room
        /\ buffered' = Kept \union {c}
        /\ AppendLine(c) \/ MeetCap(c) \/ Ignore(c)
  /\ UNCHANGED <<closeVars, old, body, stored, cur, waits, closeBody, faults>>

-----------------------------------------------------------------------------
(* The flush of one buffer.                                                *)

\* _start, by the timer
Timer(c) ==
  /\ Running
  /\ c \in handle
  /\ handle' = handle \ {c}
  /\ task' = Started(c)
  /\ UNCHANGED <<closeVars, bufferVars, dirty, body, stored, cur, waits,
                 closeBody, failed, faults>>

\* the top of _flush's loop, in the task: another PUT, or its end
\* broken variant: one PUT and no look at what came meanwhile
LoopOnce(c) ==
  IF task[c] = "new" /\ c \in dirty
  THEN /\ dirty' = dirty \ {c}
       /\ body' = [body EXCEPT ![c] = lines[c]]
       /\ task' = [task EXCEPT ![c] = "putting"]
       /\ waits' = waits
  ELSE /\ task' = [task EXCEPT ![c] = "none"]
       /\ waits' = waits \ {c}
       /\ UNCHANGED <<dirty, body>>
Loop(c) ==
  IF c \in dirty
  THEN /\ dirty' = dirty \ {c}
       /\ body' = [body EXCEPT ![c] = lines[c]]
       /\ task' = [task EXCEPT ![c] = "putting"]
       /\ waits' = waits
  ELSE /\ task' = [task EXCEPT ![c] = "none"]
       /\ waits' = waits \ {c}
       /\ UNCHANGED <<dirty, body>>

FlushBegin(c) ==
  /\ Running
  /\ task[c] = "new"
  /\ Loop(c)
  /\ UNCHANGED <<closeVars, bufferVars, handle, stored, cur, closeBody, failed,
                 faults>>

PutOk(c) ==
  /\ Running
  /\ task[c] = "putting"
  /\ stored' = [stored EXCEPT ![c] = body[c]]
  /\ Loop(c)
  /\ UNCHANGED <<closeVars, bufferVars, handle, cur, closeBody, failed,
                 faults>>

Fault == faults < MaxFaults /\ faults' = faults + 1

\* put_object raises, and the store may have kept the log all the same
MayBeStored(c, n) ==
  stored' \in {stored, [stored EXCEPT ![c] = n]}

PutFails(c) ==
  /\ Running
  /\ task[c] = "putting"
  /\ Fault
  /\ MayBeStored(c, body[c])
  /\ dirty' = dirty \union {c}
  /\ task' = [task EXCEPT ![c] = "none"]
  /\ waits' = waits \ {c}
  /\ failed' = failed \union {c}
  /\ UNCHANGED <<closeVars, bufferVars, handle, body, cur, closeBody>>

-----------------------------------------------------------------------------
(* Shutdown: close() goes through the buffers it finds, one after another. *)

CloseBegin ==
  /\ phase = "serving"
  /\ phase' = "closing"
  /\ handle' = {}
  /\ left' = buffered
  /\ atClose' = lines
  /\ failed' = {}
  /\ UNCHANGED <<bufferVars, dirty, task, body, stored, cur, waits, closeBody,
                 faults>>

\* broken variant: close() awaits the tasks and flushes nothing itself
CloseLoopNoFlush(c) ==
  cur' = {} /\ closeBody' = 0 /\ dirty' = dirty
\* the loop of the _flush that close() itself awaits; a buffer evicted
\* meanwhile is not flushed
CloseLoop(c) ==
  IF c \in dirty \intersect buffered
  THEN /\ dirty' = dirty \ {c}
       /\ closeBody' = lines[c]
       /\ cur' = {c}
  ELSE /\ cur' = {}
       /\ closeBody' = 0
       /\ dirty' = dirty

\* the next buffer: close() awaits its task if one runs
CloseTake(c) ==
  /\ phase = "closing"
  /\ cur = {}
  /\ c \in left
  /\ left' = left \ {c}
  /\ \/ /\ task[c] = "none"
        /\ CloseLoop(c)
        /\ waits' = waits
     \/ /\ task[c] # "none"
        /\ cur' = {c} /\ waits' = {c}
        /\ UNCHANGED <<dirty, closeBody>>
  /\ UNCHANGED <<phase, atClose, bufferVars, handle, task, body, stored,
                 failed, faults>>

\* the task has ended
CloseFlush(c) ==
  /\ Running
  /\ c \in cur \ waits
  /\ closeBody = 0
  /\ CloseLoop(c)
  /\ UNCHANGED <<closeVars, bufferVars, handle, waits, task, body, stored,
                 failed, faults>>

ClosePutOk(c) ==
  /\ Running
  /\ c \in cur
  /\ closeBody > 0
  /\ stored' = [stored EXCEPT ![c] = closeBody]
  /\ CloseLoop(c)
  /\ UNCHANGED <<closeVars, bufferVars, handle, waits, task, body, failed,
                 faults>>

ClosePutFails(c) ==
  /\ Running
  /\ c \in cur
  /\ closeBody > 0
  /\ Fault
  /\ MayBeStored(c, closeBody)
  /\ dirty' = dirty \union {c}
  /\ failed' = failed \union {c}
  /\ cur' = {} /\ closeBody' = 0
  /\ UNCHANGED <<closeVars, bufferVars, handle, waits, task, body>>

CloseEnd ==
  /\ phase = "closing"
  /\ left = {} /\ cur = {}
  /\ phase' = "closed"
  /\ UNCHANGED <<left, atClose, bufferVars, dirty, handle, task, body, stored,
                 cur, waits, closeBody, failed, faults>>

\* asyncio.run cancels the tasks and waits for their threads
LastPut(c) ==
  /\ phase = "closed"
  /\ task[c] = "putting"
  /\ MayBeStored(c, body[c])
  /\ task' = [task EXCEPT ![c] = "none"]
  /\ UNCHANGED <<closeVars, bufferVars, dirty, handle, body, cur, waits,
                 closeBody, failed, faults>>

-----------------------------------------------------------------------------
Flush(c) == Timer(c) \/ FlushBegin(c) \/ PutOk(c) \/ PutFails(c)
Close(c) == CloseTake(c) \/ CloseFlush(c) \/ ClosePutOk(c) \/ ClosePutFails(c)

Next ==
  \/ \E c \in Captures : Age(c) \/ Add(c) \/ Flush(c) \/ Close(c) \/ LastPut(c)
  \/ CloseBegin
  \/ CloseEnd

Spec == Init /\ [][Next]_vars

\* The event loop runs what is ready, and put_object has timeouts. Nobody has
\* to log, and nobody has to shut the proxy down.
LiveSpec == Spec /\ \A c \in Captures : WF_vars(Flush(c))

-----------------------------------------------------------------------------
(* What the sink promises.                                                 *)

\* No wakeup is lost: a buffer with unsaved lines has its timer set, or a task
\* that will look at it, or its last PUT failed and nothing was logged since.
DirtyHasFlush ==
  phase = "serving" =>
    \A c \in dirty : c \in handle \/ task[c] # "none" \/ c \in failed

\* A buffer that calls itself saved is saved whole: the PUTs of a log never
\* overtake each other and no line slips in behind one.
CleanMeansStored ==
  phase = "serving" =>
    \A c \in Captures :
      c \notin dirty /\ task[c] # "putting" => stored[c] = lines[c]

\* After close() the store has at least what each buffer held when it began,
\* unless a PUT failed meanwhile, although handlers log on.
ClosedMeansStored ==
  phase = "closed" =>
    \A c \in buffered \ failed : stored[c] >= atClose[c]

\* Eviction loses lines only of a buffer whose last PUT failed.
EvictionLosesOnlyFailed ==
  [][\A c \in buffered \ buffered' :
       phase = "serving" => stored[c] = lines[c] \/ c \in failed]_vars

\* While the proxy serves, a stored log never gets shorter.
StoredGrows ==
  [][phase = "serving" => \A c \in Captures : stored[c] <= stored'[c]]_vars

\* What is logged gets stored, unless its PUT fails or the proxy stops.
Uploaded ==
  \A c \in Captures :
    c \in dirty ~> \/ stored[c] = lines[c] \/ c \in failed
                   \/ phase # "serving"
=============================================================================
