------------------------- MODULE ProxyLogSink_proofs -------------------------
(***************************************************************************)
(* Proofs about ProxyLogSink, for every set of captures, every size of the *)
(* buffers and any number of records and failures.                         *)
(***************************************************************************)
EXTENDS ProxyLogSink, FiniteSetTheorems, TLAPS

\* Making room leaves at most as many buffers as there were, and one more fits
\* when there is room.
LEMMA KeptBounded ==
  ASSUME TypeOK
  PROVE  /\ Kept \subseteq buffered
         /\ IsFiniteSet(Kept) /\ Cardinality(Kept) <= MaxBuffers
         /\ \A c \in Captures :
              c \in Kept \/ Room =>
                /\ IsFiniteSet(Kept \union {c})
                /\ Cardinality(Kept \union {c}) <= MaxBuffers
<1>1. Kept \subseteq buffered
  BY DEF Kept
<1>2. IsFiniteSet(Kept) /\ Cardinality(Kept) <= Cardinality(buffered)
  BY <1>1, FS_Subset DEF TypeOK
<1>3. Cardinality(Kept) \in Nat /\ Cardinality(buffered) \in Nat
  BY <1>2, FS_CardinalityType DEF TypeOK
<1>4. Cardinality(Kept) <= MaxBuffers
  BY <1>2, <1>3, SinkAssumption DEF TypeOK
<1>5. ASSUME NEW c \in Captures, c \in Kept \/ Room
      PROVE  /\ IsFiniteSet(Kept \union {c})
             /\ Cardinality(Kept \union {c}) <= MaxBuffers
  <2>1. CASE c \in Kept
    <3>1. Kept \union {c} = Kept
      BY <2>1
    <3> QED
      BY <3>1, <1>2, <1>4
  <2>2. CASE c \notin Kept /\ Room
    <3>1. /\ IsFiniteSet(Kept \union {c})
          /\ Cardinality(Kept \union {c}) = Cardinality(Kept) + 1
      BY <2>2, <1>2, FS_AddElement
    <3> QED
      BY <3>1, <2>2, <1>3, SinkAssumption DEF Room
  <2> QED
    BY <1>5, <2>1, <2>2
<1> QED
  BY <1>1, <1>2, <1>4, <1>5

\* Every variable keeps its type; there are never more than MaxBuffers buffers
\* and no buffer is longer than the cap.
THEOREM Typing == Spec => []TypeOK
<1> USE SinkAssumption
<1>1. ASSUME Init PROVE TypeOK
  <2>1. IsFiniteSet(buffered) /\ Cardinality(buffered) = 0
    BY <1>1, FS_EmptySet DEF Init
  <2> QED
    BY <1>1, <2>1 DEF Init, TypeOK
<1>2. TypeOK /\ [Next]_vars => TypeOK'
  <2> SUFFICES ASSUME TypeOK, [Next]_vars PROVE TypeOK'
    OBVIOUS
  <2> USE DEF bufferVars, closeVars
  <2>1. ASSUME NEW c \in Captures, Age(c) PROVE TypeOK'
    BY <2>1 DEF Age, TypeOK
  <2>2. ASSUME NEW c \in Captures, Add(c) PROVE TypeOK'
    <3>1. /\ buffered' \subseteq Captures
          /\ IsFiniteSet(buffered') /\ Cardinality(buffered') <= MaxBuffers
      BY <2>2, KeptBounded DEF Add, TypeOK
    <3>2. /\ phase' = phase /\ old' = old /\ body' = body /\ stored' = stored
          /\ left' = left /\ cur' = cur /\ waits' = waits
          /\ closeBody' = closeBody /\ faults' = faults /\ atClose' = atClose
          /\ records' = [records EXCEPT ![c] = @ + 1]
      BY <2>2 DEF Add
    <3>3. /\ lines' \in [Captures -> 0..MaxLines]
          /\ task' \in [Captures -> {"none", "new", "putting"}]
      BY <2>2 DEF Add, AppendLine, MeetCap, Ignore, Started, TypeOK
    <3>4. /\ full' \subseteq Captures /\ dirty' \subseteq Captures
          /\ handle' \subseteq Captures /\ failed' \subseteq Captures
      BY <2>2 DEF Add, AppendLine, MeetCap, Ignore, Rescheduled, TypeOK
    <3>5. records' \in [Captures -> Nat]
      BY <3>2 DEF TypeOK
    <3>6. /\ phase' \in {"serving", "closing", "closed"}
          /\ old' \subseteq Captures
          /\ body' \in [Captures -> Nat] /\ stored' \in [Captures -> Nat]
          /\ left' \subseteq Captures /\ cur' \subseteq Captures
          /\ waits' \subseteq Captures /\ closeBody' \in Nat
          /\ atClose' \in [Captures -> Nat] /\ faults' \in 0..MaxFaults
      BY <3>2 DEF TypeOK
    <3> QED
      BY <3>1, <3>3, <3>4, <3>5, <3>6 DEF TypeOK
  <2>3. ASSUME NEW c \in Captures, Flush(c) PROVE TypeOK'
    <3>1. CASE Timer(c)
      BY <3>1 DEF Timer, Started, TypeOK
    <3>2. CASE FlushBegin(c)
      BY <3>2 DEF FlushBegin, Loop, TypeOK
    <3>3. CASE PutOk(c)
      BY <3>3 DEF PutOk, Loop, TypeOK
    <3>4. CASE PutFails(c)
      BY <3>4 DEF PutFails, Fault, MayBeStored, TypeOK
    <3> QED
      BY <2>3, <3>1, <3>2, <3>3, <3>4 DEF Flush
  <2>4. ASSUME NEW c \in Captures, Close(c) PROVE TypeOK'
    <3>1. CASE CloseTake(c)
      BY <3>1 DEF CloseTake, CloseLoop, TypeOK
    <3>2. CASE CloseFlush(c)
      BY <3>2 DEF CloseFlush, CloseLoop, TypeOK
    <3>3. CASE ClosePutOk(c)
      BY <3>3 DEF ClosePutOk, CloseLoop, TypeOK
    <3>4. CASE ClosePutFails(c)
      BY <3>4 DEF ClosePutFails, Fault, MayBeStored, TypeOK
    <3> QED
      BY <2>4, <3>1, <3>2, <3>3, <3>4 DEF Close
  <2>5. ASSUME NEW c \in Captures, LastPut(c) PROVE TypeOK'
    BY <2>5 DEF LastPut, MayBeStored, TypeOK
  <2>6. CASE CloseBegin
    BY <2>6 DEF CloseBegin, TypeOK
  <2>7. CASE CloseEnd
    BY <2>7 DEF CloseEnd, TypeOK
  <2>8. CASE UNCHANGED vars
    BY <2>8 DEF vars, TypeOK
  <2> QED
    BY <2>1, <2>2, <2>3, <2>4, <2>5, <2>6, <2>7, <2>8 DEF Next
<1> QED
  BY <1>1, <1>2, PTL DEF Spec

-----------------------------------------------------------------------------
(* While the proxy serves.                                                 *)

\* A buffer with unsaved lines is looked after.
Watched(c) == c \in dirty => c \in handle \/ task[c] # "none" \/ c \in failed
\* What a buffer that is not dirty has in the store, or on its way there.
Saved(c) ==
  c \notin dirty =>
    IF task[c] = "putting" THEN body[c] = lines[c] ELSE stored[c] = lines[c]
\* A PUT holds no fewer lines than the PUTs before it.
Growing(c) ==
  /\ stored[c] <= lines[c]
  /\ task[c] = "putting" => stored[c] <= body[c] /\ body[c] <= lines[c]
\* No timer of a buffer that may be evicted is set.
Rested(c) == c \in old => c \notin handle

FlushInv ==
  phase = "serving" =>
    /\ cur = {}
    /\ \A c \in Captures : Watched(c) /\ Saved(c) /\ Growing(c) /\ Rested(c)

\* The invariant of the serving proxy holds throughout.
LEMMA Flushing == Spec => []FlushInv
<1> USE SinkAssumption
<1> USE DEF FlushInv, Watched, Saved, Growing, Rested
<1>1. Init => FlushInv
  BY DEF Init
<1>2. TypeOK /\ FlushInv /\ [Next]_vars => FlushInv'
  <2> SUFFICES ASSUME TypeOK, FlushInv, [Next]_vars, phase' = "serving"
               PROVE  FlushInv'
    OBVIOUS
  <2> USE DEF bufferVars, closeVars, TypeOK
  <2>1. ASSUME NEW c \in Captures, Age(c) PROVE FlushInv'
    BY <2>1 DEF Age
  <2>2. ASSUME NEW c \in Captures, Add(c) PROVE FlushInv'
    <3>1. CASE UNCHANGED <<lines, full, dirty, handle, task, failed>>
      BY <2>2, <3>1 DEF Add
    <3>2. CASE AppendLine(c)
      BY <2>2, <3>2 DEF Add, AppendLine, Rescheduled
    <3>3. CASE MeetCap(c)
      BY <2>2, <3>3 DEF Add, MeetCap, Started, Rescheduled
    <3> QED
      BY <2>2, <3>1, <3>2, <3>3 DEF Add, Ignore
  <2>3. ASSUME NEW c \in Captures, Flush(c) PROVE FlushInv'
    <3>1. CASE Timer(c)
      BY <3>1 DEF Timer, Started
    <3>2. CASE FlushBegin(c)
      BY <3>2 DEF FlushBegin, Loop
    <3>3. CASE PutOk(c)
      BY <3>3 DEF PutOk, Loop
    <3>4. CASE PutFails(c)
      BY <3>4 DEF PutFails, MayBeStored
    <3> QED
      BY <2>3, <3>1, <3>2, <3>3, <3>4 DEF Flush
  <2>4. ASSUME NEW c \in Captures, Close(c) PROVE FlushInv'
    BY <2>4 DEF Close, CloseTake, CloseFlush, ClosePutOk, ClosePutFails
  <2>5. ASSUME NEW c \in Captures, LastPut(c) PROVE FlushInv'
    BY <2>5 DEF LastPut
  <2>6. CASE CloseBegin \/ CloseEnd
    BY <2>6 DEF CloseBegin, CloseEnd
  <2>7. CASE UNCHANGED vars
    BY <2>7 DEF vars
  <2> QED
    BY <2>1, <2>2, <2>3, <2>4, <2>5, <2>6, <2>7 DEF Next
<1> QED
  BY Typing, <1>1, <1>2, PTL DEF Spec

\* No wakeup is lost.
THEOREM NoLostWakeup == Spec => []DirtyHasFlush
<1>1. TypeOK /\ FlushInv => DirtyHasFlush
  BY DEF TypeOK, FlushInv, Watched, DirtyHasFlush
<1> QED
  BY Typing, Flushing, <1>1, PTL

\* A buffer that calls itself saved is saved whole.
THEOREM CleanIsStored == Spec => []CleanMeansStored
<1>1. FlushInv => CleanMeansStored
  BY DEF FlushInv, Saved, CleanMeansStored
<1> QED
  BY Flushing, <1>1, PTL

\* Eviction loses lines only of a buffer whose last PUT failed.
THEOREM EvictionSafe == Spec => EvictionLosesOnlyFailed
<1>1. TypeOK /\ FlushInv /\ [Next]_vars =>
        [\A c \in buffered \ buffered' :
           phase = "serving" => stored[c] = lines[c] \/ c \in failed]_vars
  <2> SUFFICES ASSUME TypeOK, FlushInv, Next, phase = "serving",
                      NEW c \in buffered \ buffered'
               PROVE  stored[c] = lines[c] \/ c \in failed
    OBVIOUS
  <2>1. c \in Evictable
    <3>1. \A d \in Captures : Add(d) => buffered \ buffered' \subseteq Evictable
      BY DEF Add, Kept
    <3>2. \A d \in Captures :
            Age(d) \/ Flush(d) \/ Close(d) \/ LastPut(d) => buffered' = buffered
      BY DEF Age, Flush, Timer, FlushBegin, PutOk, PutFails, Close, CloseTake,
         CloseFlush, ClosePutOk, ClosePutFails, LastPut, bufferVars
    <3>3. CloseBegin \/ CloseEnd => buffered' = buffered
      BY DEF CloseBegin, CloseEnd, bufferVars
    <3> QED
      BY <3>1, <3>2, <3>3 DEF Next
  <2> QED
    BY <2>1 DEF Evictable, FlushInv, Watched, Saved, Rested, TypeOK
<1> QED
  BY Typing, Flushing, <1>1, PTL DEF Spec, EvictionLosesOnlyFailed

\* While the proxy serves, a stored log never gets shorter.
THEOREM LogGrows == Spec => StoredGrows
<1>1. TypeOK /\ FlushInv /\ [Next]_vars =>
        [phase = "serving" =>
           \A c \in Captures : stored[c] <= stored'[c]]_vars
  <2> SUFFICES ASSUME TypeOK, FlushInv, Next, phase = "serving"
               PROVE  \A c \in Captures : stored[c] <= stored'[c]
    OBVIOUS
  <2> USE SinkAssumption DEF TypeOK, FlushInv, Growing, bufferVars, closeVars
  <2>1. CASE stored' = stored
    BY <2>1
  <2>2. ASSUME NEW d \in Captures, Age(d) \/ Add(d) PROVE stored' = stored
    BY <2>2 DEF Age, Add
  <2>3. ASSUME NEW d \in Captures, Flush(d)
        PROVE  \A c \in Captures : stored[c] <= stored'[c]
    <3>1. CASE Timer(d) \/ FlushBegin(d)
      BY <3>1 DEF Timer, FlushBegin
    <3>2. CASE PutOk(d)
      BY <3>2 DEF PutOk
    <3>3. CASE PutFails(d)
      BY <3>3 DEF PutFails, MayBeStored
    <3> QED
      BY <2>3, <3>1, <3>2, <3>3 DEF Flush
  <2>4. ASSUME NEW d \in Captures, Close(d) \/ LastPut(d) PROVE FALSE
    BY <2>4 DEF Close, CloseTake, CloseFlush, ClosePutOk, ClosePutFails, LastPut
  <2>5. CloseBegin \/ CloseEnd => stored' = stored
    BY DEF CloseBegin, CloseEnd
  <2> QED
    BY <2>1, <2>2, <2>3, <2>4, <2>5 DEF Next
<1> QED
  BY Typing, Flushing, <1>1, PTL DEF Spec, StoredGrows

-----------------------------------------------------------------------------
(* While close() runs.                                                     *)

\* A capture without a buffer that may still get one has no lines.
Unbuffered(c) == c \notin buffered \union old => lines[c] = 0
\* The buffers close() has not flushed yet, or whose task it awaits.
Ahead == left \union waits
\* Each buffer has what it held when close() began in the store, or close() is
\* about to put it there.
Due(c) ==
  /\ \/ stored[c] >= atClose[c]
     \/ c \in Ahead
     \/ c \in cur /\ closeBody > 0
  /\ c \in Ahead =>
       c \in dirty \/ task[c] = "putting" \/ stored[c] >= atClose[c]
\* A PUT that began before close() did is followed by another.
Overtaken(c) ==
  /\ task[c] = "putting" => body[c] >= atClose[c] \/ c \in dirty \intersect Ahead
  /\ c \in cur /\ closeBody > 0 => closeBody >= atClose[c]

CloseInv ==
  /\ \A c \in Captures : Unbuffered(c)
  /\ phase = "serving" => cur = {} /\ waits = {}
  /\ cur = {} => closeBody = 0
  /\ phase # "serving" =>
       /\ \A c \in Captures : atClose[c] <= lines[c]
       /\ waits \subseteq cur /\ left \intersect cur = {}
       /\ waits # {} => closeBody = 0
       /\ \A c \in buffered \ failed : Due(c) /\ Overtaken(c)
       /\ \A c, d \in cur : c = d
  /\ phase = "closed" => left = {} /\ cur = {}

\* The invariant of close() holds throughout.
LEMMA Closing == Spec => []CloseInv
<1> USE SinkAssumption
<1> USE DEF CloseInv, Unbuffered, Ahead, Due, Overtaken
<1>1. Init => CloseInv
  BY DEF Init
<1>2. TypeOK /\ FlushInv /\ CloseInv /\ [Next]_vars => CloseInv'
  <2> SUFFICES ASSUME TypeOK, FlushInv, CloseInv, [Next]_vars PROVE CloseInv'
    OBVIOUS
  <2> USE DEF bufferVars, closeVars, TypeOK, Running
  <2>1. ASSUME NEW c \in Captures, Age(c) PROVE CloseInv'
    BY <2>1 DEF Age
  <2>2. ASSUME NEW c \in Captures, Add(c) PROVE CloseInv'
    <3>1. Kept \subseteq buffered /\ buffered \ Kept \subseteq old
      BY DEF Kept, Evictable
    <3>2. CASE UNCHANGED <<lines, full, dirty, handle, task, failed>>
      BY <2>2, <3>1, <3>2 DEF Add
    <3>3. CASE AppendLine(c)
      BY <2>2, <3>1, <3>3 DEF Add, AppendLine, Rescheduled
    <3>4. CASE MeetCap(c)
      BY <2>2, <3>1, <3>4 DEF Add, MeetCap, Started, Rescheduled
    <3> QED
      BY <2>2, <3>2, <3>3, <3>4 DEF Add, Ignore
  <2>3. ASSUME NEW c \in Captures, Flush(c) PROVE CloseInv'
    <3>1. CASE Timer(c)
      BY <3>1 DEF Timer, Started
    <3>2. CASE FlushBegin(c)
      BY <3>2 DEF FlushBegin, Loop
    <3>3. CASE PutOk(c)
      BY <3>3 DEF PutOk, Loop
    <3>4. CASE PutFails(c)
      BY <3>4 DEF PutFails, MayBeStored
    <3> QED
      BY <2>3, <3>1, <3>2, <3>3, <3>4 DEF Flush
  <2>4. ASSUME NEW c \in Captures, Close(c) PROVE CloseInv'
    <3>1. CASE CloseTake(c)
      <4>1. /\ phase = "closing" /\ phase' = phase /\ cur = {} /\ waits = {}
            /\ closeBody = 0 /\ c \in left /\ left' = left \ {c}
            /\ UNCHANGED <<atClose, buffered, old, lines, task, body, stored,
                           failed>>
        BY <3>1 DEF CloseTake
      <4>2. CASE task[c] = "none" /\ c \in dirty \intersect buffered
        <5>1. /\ dirty' = dirty \ {c} /\ closeBody' = lines[c]
              /\ cur' = {c} /\ waits' = {}
          BY <3>1, <4>1, <4>2 DEF CloseTake, CloseLoop
        <5> QED
          BY <4>1, <4>2, <5>1
      <4>3. CASE task[c] = "none" /\ c \notin dirty \intersect buffered
        <5>1. dirty' = dirty /\ closeBody' = 0 /\ cur' = {} /\ waits' = {}
          BY <3>1, <4>1, <4>3 DEF CloseTake, CloseLoop
        <5> QED
          BY <4>1, <4>3, <5>1
      <4>4. CASE task[c] # "none"
        <5>1. /\ UNCHANGED <<dirty, closeBody>>
              /\ cur' = {c} /\ waits' = {c}
          BY <3>1, <4>4 DEF CloseTake
        <5> QED
          BY <4>1, <4>4, <5>1
      <4> QED
        BY <4>2, <4>3, <4>4
    <3>2. CASE CloseFlush(c)
      BY <3>2 DEF CloseFlush, CloseLoop
    <3>3. CASE ClosePutOk(c)
      BY <3>3 DEF ClosePutOk, CloseLoop
    <3>4. CASE ClosePutFails(c)
      BY <3>4 DEF ClosePutFails, MayBeStored
    <3> QED
      BY <2>4, <3>1, <3>2, <3>3, <3>4 DEF Close
  <2>5. ASSUME NEW c \in Captures, LastPut(c) PROVE CloseInv'
    BY <2>5 DEF LastPut, MayBeStored
  <2>6. CASE CloseBegin
    BY <2>6 DEF CloseBegin, FlushInv, Saved, Growing
  <2>7. CASE CloseEnd
    BY <2>7 DEF CloseEnd
  <2>8. CASE UNCHANGED vars
    BY <2>8 DEF vars
  <2> QED
    BY <2>1, <2>2, <2>3, <2>4, <2>5, <2>6, <2>7, <2>8 DEF Next
<1> QED
  BY Typing, Flushing, <1>1, <1>2, PTL DEF Spec

\* When close() returns, the store has what each buffer held when it began.
THEOREM ShutdownStores == Spec => []ClosedMeansStored
<1>1. CloseInv => ClosedMeansStored
  BY DEF CloseInv, Due, Ahead, ClosedMeansStored
<1> QED
  BY Closing, <1>1, PTL
==============================================================================
