-------------------------- MODULE SegmentPoolProofs --------------------------
(***************************************************************************)
(* Proofs about SegmentPool, for every number of segments, slots and       *)
(* retries, with and without part files and cancellation: whatever the     *)
(* order in which the goroutines are scheduled, the segments are written   *)
(* in order and all of them when the call succeeds, a context error always *)
(* has a cause, and with part files the output is replaced in one step.    *)
(***************************************************************************)
EXTENDS SegmentPool, SequenceTheorems, TLAPS

USE PoolAssumption DEF PoolAssumption

-----------------------------------------------------------------------------
(* Type correctness *)

\* What a write to the file being downloaded does to it.
LEMMA FileWritten ==
  ASSUME TypeOK, NEW v \in Seq(0..NSegments),
         disk' = [disk EXCEPT ![WritePath] = v]
  PROVE  /\ disk' \in [Paths -> Seq(0..NSegments)]
         /\ (disk[WritePath])' = v
         /\ UsePart => disk'["out"] = disk["out"]
         /\ ~UsePart => disk'["out"] = v
BY DEF TypeOK, Paths, WritePath

\* The file is a sequence, and stays one when an item is appended to it.
LEMMA FileAppended ==
  ASSUME TypeOK, NEW s \in Segments
  PROVE  LET f == disk[WritePath]
             g == Append(f, s)
         IN  /\ f \in Seq(0..NSegments) /\ Len(f) \in Nat
             /\ DOMAIN f = 1..Len(f) /\ \A i \in DOMAIN f : f[i] \in 0..NSegments
             /\ g \in Seq(0..NSegments)
             /\ DOMAIN g = 1..(Len(f) + 1)
             /\ \A i \in DOMAIN f : g[i] = f[i]
             /\ g[Len(f) + 1] = s
<1>1. disk[WritePath] \in Seq(0..NSegments)
  BY DEF TypeOK, Paths, WritePath
<1>2. s \in 0..NSegments
  BY DEF Segments
<1> QED
  BY <1>1, <1>2, AppendProperties, LenProperties, ElementOfSeq

\* The initial state is well typed.
LEMMA TypeInit == Init => TypeOK
<1> SUFFICES ASSUME Init PROVE TypeOK
  OBVIOUS
<1>1. Old \in Seq(0..NSegments) /\ <<>> \in Seq(0..NSegments)
  BY DEF Old
<1>2. disk \in [Paths -> Seq(0..NSegments)]
  BY <1>1 DEF Init, Paths
<1>3. /\ worker \in [Segments -> {"waiting", "fetching", "gone"}]
      /\ att \in [Segments -> 0..MaxRetries]
      /\ item \in [Segments -> ItemErrors \cup {"zero", "body"}]
  BY DEF Init
<1>4. ctxDone \in BOOLEAN /\ cancelled \in BOOLEAN
  BY DEF Init
<1>5. wpos \in 1..(NSegments + 1)
  BY DEF Init
<1> QED
  BY <1>2, <1>3, <1>4, <1>5 DEF Init, TypeOK

\* Every step of a goroutine keeps the types.
LEMMA WorkerType ==
  ASSUME TypeOK, NEW s \in Segments, WorkerStep(s)
  PROVE  TypeOK'
<1> USE DEF TypeOK
<1>1. CASE Acquire(s) \/ Quit(s)
  BY <1>1 DEF Acquire, Quit
<1>2. CASE FetchSucceeds(s)
  BY <1>2 DEF FetchSucceeds
<1>3. CASE FetchFails(s)
  <2> PICK e \in FetchErrors \cup {"ctx"} :
        IF MayRetry(e, att[s])
        THEN /\ att' = [att EXCEPT ![s] = @ + 1]
             /\ UNCHANGED <<worker, item, cancelled>>
        ELSE /\ worker' = [worker EXCEPT ![s] = "gone"]
             /\ item' = [item EXCEPT ![s] = e]
             /\ cancelled' = TRUE
             /\ UNCHANGED att
    BY <1>3 DEF FetchFails
  <2>1. MayRetry(e, att[s]) => att[s] + 1 \in 0..MaxRetries
    BY DEF MayRetry
  <2>2. /\ worker' \in [Segments -> {"waiting", "fetching", "gone"}]
        /\ att' \in [Segments -> 0..MaxRetries]
        /\ item' \in [Segments -> ItemErrors \cup {"zero", "body"}]
        /\ cancelled' \in BOOLEAN
    BY <2>1 DEF ItemErrors
  <2> QED
    BY <1>3, <2>2 DEF FetchFails
<1> QED
  BY <1>1, <1>2, <1>3 DEF WorkerStep

\* Every other step keeps the types.
LEMMA CallType ==
  ASSUME TypeOK,
         \/ Start \/ Create \/ FetchManifest \/ Join \/ WriteItem \/ WriteEnd
         \/ CloseFile \/ Rename \/ Return \/ Cancel \/ UNCHANGED vars
  PROVE  TypeOK'
<1> USE DEF TypeOK, poolVars, Fail
<1>1. CASE Create
  <2>1. <<>> \in Seq(0..NSegments)
    OBVIOUS
  <2>2. disk' \in [Paths -> Seq(0..NSegments)]
    BY <1>1, <2>1 DEF Create, Paths, WritePath
  <2> QED
    BY <1>1, <2>2 DEF Create, Errors, ItemErrors
<1>2. CASE FetchManifest
  BY <1>2 DEF FetchManifest, Errors, ItemErrors, FetchErrors
<1>3. CASE WriteItem
  <2>1. wpos \in Segments
    BY <1>3 DEF WriteItem, Segments
  <2> DEFINE g == Append(disk[WritePath], wpos)
  <2>4. g \in Seq(0..NSegments)
    BY <2>1, FileAppended
  <2>5. disk' = disk \/ disk' = [disk EXCEPT ![WritePath] = g]
    BY <1>3 DEF WriteItem
  <2>2. disk' \in [Paths -> Seq(0..NSegments)]
    <3> HIDE DEF g
    <3> QED
      BY <2>4, <2>5, FileWritten
  <2>3. wpos' \in 1..(NSegments + 1)
    BY <1>3 DEF WriteItem
  <2> QED
    BY <1>3, <2>2, <2>3 DEF WriteItem, Errors, ItemErrors
<1>4. CASE Rename
  <2>0. <<>> \in Seq(0..NSegments)
    OBVIOUS
  <2>1. disk' \in [Paths -> Seq(0..NSegments)]
    BY <1>4, <2>0 DEF Rename, Paths
  <2> QED
    BY <1>4, <2>1 DEF Rename, Errors, ItemErrors
<1>5. CASE Start \/ Join \/ WriteEnd \/ CloseFile \/ Return \/ Cancel \/ UNCHANGED vars
  BY <1>5 DEF Start, Join, WriteEnd, CloseFile, Return, Cancel, vars, Errors
<1> QED
  BY <1>1, <1>2, <1>3, <1>4, <1>5

\* Each variable keeps its type; in particular no retry counter passes
\* MaxRetries, and the position in the items never passes their end.
THEOREM TypeCorrect == Spec => []TypeOK
<1>1. TypeOK /\ [Next]_vars => TypeOK'
  BY WorkerType, CallType DEF Next, CallStep
<1> QED
  BY <1>1, TypeInit, PTL DEF Spec

-----------------------------------------------------------------------------
(* Every segment, in order *)

\* Old content at the output path is all there is before the first step.
LEMMA PoolInit == Init => PoolInv
<1> SUFFICES ASSUME Init PROVE PoolInv
  OBVIOUS
<1>1. TypeOK
  BY TypeInit
<1>2. disk[WritePath] = Old \/ disk[WritePath] = <<>>
  BY DEF Init, Paths, WritePath
<1>3. OrderKept
  BY <1>2 DEF OrderKept
<1>4. WholeOnSuccess /\ WorkersInv /\ WritingInv
  BY DEF Init, WholeOnSuccess, WorkersInv, WritingInv
<1> QED
  BY <1>1, <1>3, <1>4 DEF PoolInv

\* A goroutine works on its own item only, and gives it up with the reason.
LEMMA WorkerKeeps ==
  ASSUME PoolInv, NEW s \in Segments, WorkerStep(s)
  PROVE  PoolInv'
<1> USE DEF PoolInv
<1>1. TypeOK'
  BY WorkerType
<1>2. UNCHANGED <<disk, pc, result, ctxDone, wpos>>
  BY DEF WorkerStep, Acquire, Quit, FetchSucceeds, FetchFails
<1>3. pc = "fetch"
  BY DEF WorkerStep, Acquire, Quit, FetchSucceeds, FetchFails, WorkersInv
<1>5. WholeOnSuccess' /\ OrderKept' /\ WritingInv'
  BY <1>2, <1>3 DEF WholeOnSuccess, OrderKept, WritingInv, WritePath
<1>4. WorkersInv'
  <2> USE DEF WorkersInv, TypeOK, InnerDone
  <2>1. CASE Acquire(s)
    BY <2>1 DEF Acquire
  <2>2. CASE Quit(s)
    BY <2>2 DEF Quit
  <2>3. CASE FetchSucceeds(s)
    BY <2>3 DEF FetchSucceeds, ItemErrors, FetchErrors
  <2>4. CASE FetchFails(s)
    BY <2>4, PoolAssumption DEF FetchFails, ItemErrors, FetchErrors, MayRetry, PoolAssumption
  <2> QED
    BY <2>1, <2>2, <2>3, <2>4 DEF WorkerStep
<1> QED
  BY <1>1, <1>4, <1>5

\* An item is written behind the ones before it, or is left out when it is the
\* zero item.
LEMMA WriteItemKeeps ==
  ASSUME PoolInv, WriteItem
  PROVE  PoolInv'
<1> USE DEF PoolInv
<1>1. TypeOK'
  BY CallType
<1> DEFINE f == disk[WritePath]
           g == Append(f, wpos)
<1>2. /\ pc = "write" /\ wpos \in Segments
      /\ UNCHANGED <<ctxDone, worker, att, item, cancelled>>
  BY DEF WriteItem, TypeOK, Segments, poolVars
<1>3. WorkersInv'
  BY <1>2 DEF WorkersInv, WriteItem, Fail, InnerDone
<1>4. /\ f \in Seq(0..NSegments) /\ Len(f) \in Nat /\ DOMAIN f = 1..Len(f)
      /\ g \in Seq(0..NSegments) /\ DOMAIN g = 1..(Len(f) + 1)
      /\ \A i \in DOMAIN f : f[i] \in 0..NSegments /\ g[i] = f[i]
      /\ g[Len(f) + 1] = wpos
  BY <1>2, FileAppended
<1>5. /\ \A i \in DOMAIN f : f[i] < wpos
      /\ (\A s \in Segments : s < wpos => item[s] = "body") =>
           f = [i \in 1..(wpos - 1) |-> i]
      /\ \A s \in Segments : s < wpos => item[s] \in {"zero", "body"}
      /\ \A s \in Segments : worker[s] = "gone"
  BY <1>2 DEF WritingInv, WrittenSoFar
<1>6. \A i, j \in DOMAIN f : i < j => f[i] < f[j]
  <2>1. f # Old \/ DOMAIN f = 1..1
    BY DEF Old
  <2> QED
    BY <1>4, <2>1 DEF OrderKept
<1>7. CASE item[wpos] = "body" /\ disk' = [disk EXCEPT ![WritePath] = g]
             /\ wpos' = wpos + 1 /\ UNCHANGED <<pc, result>>
  <2>1. (disk[WritePath])' = g
    BY <1>4, <1>7, FileWritten DEF g
  <2>2. OrderKept'
    <3>1. \A i, j \in DOMAIN g : i < j => g[i] < g[j]
      <4> TAKE i, j \in DOMAIN g
      <4> HAVE i < j
      <4> HIDE DEF f, g
      <4>1. i \in DOMAIN f /\ g[i] = f[i] /\ f[i] \in Nat
        BY <1>4
      <4>2. CASE j \in DOMAIN f
        BY <1>4, <1>6, <4>1, <4>2
      <4>3. CASE j = Len(f) + 1
        BY <1>4, <1>5, <4>1, <4>3
      <4> QED
        BY <1>4, <4>2, <4>3
    <3> QED
      BY <2>1, <3>1 DEF OrderKept
  <2>3. \A i \in DOMAIN g : g[i] < wpos + 1
    <3> SUFFICES ASSUME NEW i \in DOMAIN g
                 PROVE  g[i] < wpos + 1
      OBVIOUS
    <3>1. wpos \in Nat /\ i \in 1..(Len(f) + 1)
      BY <1>2, <1>4 DEF Segments
    <3> HIDE DEF f, g
    <3>2. CASE i \in DOMAIN f
      <4>1. g[i] = f[i] /\ f[i] \in 0..NSegments /\ f[i] < wpos
        BY <1>4, <1>5, <3>2
      <4> QED
        BY <3>1, <4>1
    <3>3. CASE i = Len(f) + 1
      BY <1>4, <3>1, <3>3
    <3> QED
      BY <1>4, <3>1, <3>2, <3>3
  <2>4. ASSUME \A s \in Segments : s < wpos + 1 => item[s] = "body"
        PROVE  g = [i \in 1..((wpos + 1) - 1) |-> i]
    <3>1. f = [i \in 1..(wpos - 1) |-> i]
      BY <1>2, <1>5, <2>4 DEF Segments
    <3>2. Len(f) = wpos - 1
      BY <1>2, <1>4, <3>1 DEF Segments
    <3> QED
      BY <1>2, <1>4, <3>1, <3>2 DEF Segments
  <2>5. WrittenSoFar'
    BY <1>2, <1>7, <2>1, <2>3, <2>4 DEF WrittenSoFar
  <2>6. WritingInv'
    BY <1>2, <1>5, <1>7, <2>5 DEF WritingInv, Segments
  <2>7. WholeOnSuccess'
    BY <1>2, <1>7 DEF WholeOnSuccess, WritingInv
  <2> QED
    BY <1>1, <1>3, <2>2, <2>6, <2>7
<1>8. CASE item[wpos] = "zero" /\ UNCHANGED <<disk, pc, result>> /\ wpos' = wpos + 1
  <2> HIDE DEF f
  <2>4. \A i \in DOMAIN f : f[i] < wpos + 1
    BY <1>2, <1>4, <1>5 DEF Segments
  <2>5. ~ \A s \in Segments : s < wpos + 1 => item[s] = "body"
    BY <1>2, <1>8 DEF Segments
  <2>6. disk[WritePath]' = f
    BY <1>8 DEF f, WritePath
  <2>1. WrittenSoFar'
    BY <1>2, <1>8, <2>4, <2>5, <2>6 DEF WrittenSoFar
  <2>2. WritingInv'
    BY <1>2, <1>5, <1>8, <2>1 DEF WritingInv, Segments, WritePath
  <2>3. WholeOnSuccess' /\ OrderKept'
    BY <1>2, <1>8 DEF WholeOnSuccess, OrderKept, WritePath
  <2> QED
    BY <1>1, <1>3, <2>2, <2>3
<1>9. CASE pc' = "idle" /\ result' \notin {"ok", "none"} /\ UNCHANGED <<disk, wpos>>
  BY <1>1, <1>2, <1>3, <1>9
     DEF WholeOnSuccess, OrderKept, WritingInv, WritePath
<1> QED
  BY <1>2, <1>7, <1>8, <1>9 DEF WriteItem, Fail, ItemErrors, FetchErrors

\* Every other step of the call.
LEMMA CallKeeps ==
  ASSUME PoolInv,
         \/ Start \/ Create \/ FetchManifest \/ Join \/ WriteEnd
         \/ CloseFile \/ Rename \/ Return \/ Cancel \/ UNCHANGED vars
  PROVE  PoolInv'
<1> USE DEF PoolInv, poolVars, Fail
<1>1. TypeOK'
  BY CallType
<1>2. WorkersInv'
  BY DEF WorkersInv, TypeOK, InnerDone, Start, Create, FetchManifest, Join, WriteEnd,
         CloseFile, Rename, Return, Cancel, vars
<1>3. CASE Create
  <2>1. <<>> \in Seq(0..NSegments)
    OBVIOUS
  <2>2. (disk[WritePath])' = <<>> \/ (UNCHANGED disk /\ pc' = "idle")
    BY <1>3, <2>1, FileWritten DEF Create
  <2>3. OrderKept'
    BY <2>2 DEF OrderKept, WritePath
  <2>4. WholeOnSuccess' /\ WritingInv'
    BY <1>3, <2>2 DEF Create, WholeOnSuccess, WritingInv
  <2> QED
    BY <1>1, <1>2, <2>3, <2>4
<1>4. CASE FetchManifest
  BY <1>1, <1>2, <1>4 DEF FetchManifest, FetchErrors, WholeOnSuccess, OrderKept,
                          WritingInv, WritePath
<1>5. CASE Join
  <2>1. WrittenSoFar'
    BY <1>5 DEF Join, WritingInv, WrittenSoFar, WritePath, Segments
  <2>2. WritingInv'
    BY <1>5, <2>1 DEF Join, WritingInv, WritePath, Segments
  <2> QED
    BY <1>1, <1>2, <1>5, <2>2 DEF Join, WholeOnSuccess, OrderKept, WritePath
<1>6. CASE Start \/ Cancel \/ UNCHANGED vars
  <2>1. UNCHANGED <<disk, result, wpos, worker, item>>
    BY <1>6 DEF Start, Cancel, vars
  <2>2. WrittenSoFar' = WrittenSoFar /\ OrderKept'
    BY <2>1 DEF WrittenSoFar, OrderKept, WritePath
  <2>3. WholeOnSuccess'
    BY <1>6, <2>1 DEF Start, Cancel, vars, WholeOnSuccess
  <2>4. WritingInv'
    BY <1>6, <2>1, <2>2 DEF Start, Cancel, vars, WritingInv, WritePath
  <2> QED
    BY <1>1, <1>2, <2>2, <2>3, <2>4
<1>11. CASE WriteEnd
  <2>1. WrittenSoFar' = WrittenSoFar /\ OrderKept' /\ WholeOnSuccess'
    BY <1>11 DEF WriteEnd, WrittenSoFar, OrderKept, WholeOnSuccess, WritePath
  <2>2. WritingInv'
    BY <1>11, <2>1 DEF WriteEnd, WritingInv, WritePath
  <2> QED
    BY <1>1, <1>2, <2>1, <2>2
<1>7. ASSUME pc \in {"close", "rename"}, ~ctxDone
      PROVE  disk[WritePath] = Whole
  <2>1. \A s \in Segments : item[s] \in {"zero", "body"}
    BY <1>7 DEF WritingInv, Segments, TypeOK
  <2>2. ~cancelled
    BY <1>7, <2>1 DEF WorkersInv, ItemErrors, FetchErrors
  <2>3. \A s \in Segments : item[s] = "body"
    BY <1>7, <2>1, <2>2 DEF WorkersInv, WritingInv, InnerDone
  <2>4. wpos - 1 = NSegments
    BY <1>7 DEF WritingInv, TypeOK
  <2> QED
    BY <1>7, <2>3, <2>4 DEF WritingInv, WrittenSoFar, Whole, Segments
<1>8. CASE CloseFile
  <2>1. WholeOnSuccess'
    BY <1>7, <1>8 DEF CloseFile, WholeOnSuccess, WritePath
  <2> QED
    BY <1>1, <1>2, <1>8, <2>1 DEF CloseFile, OrderKept, WritingInv, WrittenSoFar, WritePath
<1>9. CASE Rename
  <2>1. UsePart
    BY <1>9 DEF Rename, WritingInv
  <2>2. WholeOnSuccess'
    BY <1>9 DEF Rename, WholeOnSuccess, WritingInv
  <2>3. OrderKept'
    BY <1>9, <2>1 DEF Rename, OrderKept, WritePath, TypeOK, Paths
  <2>4. pc' = "renamed" /\ ~ctxDone => disk'["out"] = Whole
    BY <1>7, <1>9, <2>1 DEF Rename, WritePath, TypeOK, Paths
  <2>5. pc' = "idle" \/ pc' = "renamed"
    BY <1>9 DEF Rename
  <2> QED
    BY <1>1, <1>2, <1>9, <2>1, <2>2, <2>3, <2>4, <2>5 DEF Rename, WritingInv
<1>10. CASE Return
  BY <1>1, <1>2, <1>10 DEF Return, WholeOnSuccess, OrderKept, WritingInv, WritePath
<1> QED
  BY <1>3, <1>4, <1>5, <1>6, <1>8, <1>9, <1>10, <1>11

\* The strengthening is inductive: why an item is what it is and how much of
\* the items the file holds are known at every step of every interleaving.
THEOREM PoolInvariant == Spec => []PoolInv
<1>1. PoolInv /\ [Next]_vars => PoolInv'
  BY WorkerKeeps, WriteItemKeeps, CallKeeps DEF Next, CallStep
<1> QED
  BY <1>1, PoolInit, PTL DEF Spec

\* A download that reports success before its context is done has put every
\* segment into the output, in order, whatever the order of the fetches; and
\* also when it fails no segment is out of order.
THEOREM SuccessIsWhole == Spec => [](WholeOnSuccess /\ OrderKept)
<1>1. PoolInv => WholeOnSuccess /\ OrderKept
  BY DEF PoolInv
<1> QED
  BY <1>1, PoolInvariant, PTL

-----------------------------------------------------------------------------
(* Why a call fails *)

\* A context error that the caller did not cause is that of a sibling stopped by
\* a later segment, which failed for good: the error the call hides.
THEOREM ContextErrorHasCause == Spec => []FailureHasCause
<1>1. Init => FailureHasCause
  BY DEF Init, FailureHasCause
<1>2. PoolInv /\ FailureHasCause /\ [Next]_vars => FailureHasCause'
  <2> SUFFICES ASSUME PoolInv, FailureHasCause, [Next]_vars,
                      result' = "ctx", ~ctxDone'
               PROVE  /\ wpos' \in Segments /\ item'[wpos'] = "ctx"
                      /\ \E s \in Segments : s > wpos' /\ GaveUp(s)'
    BY DEF FailureHasCause
  <2> USE DEF PoolInv, poolVars, Fail
  <2>1. CASE WriteItem
    <3>1. /\ wpos \in Segments /\ wpos \in Nat /\ pc = "write"
          /\ UNCHANGED <<item, att, ctxDone, cancelled>>
      BY <2>1, PoolAssumption DEF WriteItem, TypeOK, Segments, PoolAssumption
    <3>2. item[wpos] = "ctx" /\ wpos' = wpos
      BY <2>1, <3>1 DEF WriteItem, WritingInv
    <3>3. PICK s \in Segments : item[s] \in FetchErrors
      BY <3>1, <3>2 DEF WorkersInv, InnerDone
    <3>4. GaveUp(s)
      BY <3>3 DEF GaveUp, WorkersInv, FetchErrors
    <3>5. s > wpos
      <4>1. s # wpos /\ ~(s < wpos)
        BY <3>1, <3>2, <3>3 DEF WritingInv, FetchErrors
      <4> QED
        BY <3>1, <4>1, PoolAssumption DEF Segments, PoolAssumption
    <3> QED
      BY <3>1, <3>2, <3>4, <3>5 DEF GaveUp
  <2>2. ASSUME NEW s \in Segments, WorkerStep(s)
        PROVE  FALSE
    <3>1. pc = "fetch" /\ UNCHANGED result
      BY <2>2 DEF WorkerStep, Acquire, Quit, FetchSucceeds, FetchFails, WorkersInv
    <3> QED
      BY <3>1 DEF WritingInv
  <2>3. CASE \/ Start \/ Create \/ FetchManifest \/ Join \/ WriteEnd \/ CloseFile
             \/ Rename \/ Return \/ Cancel \/ UNCHANGED vars
    <3>1. /\ result = "ctx" /\ ~ctxDone /\ UNCHANGED <<item, att, wpos>>
      BY <2>3 DEF Start, Create, FetchManifest, Join, WriteEnd, CloseFile, Rename,
                  Return, Cancel, vars, FetchErrors
    <3> QED
      BY <3>1 DEF FailureHasCause, GaveUp
  <2> QED
    BY <2>1, <2>2, <2>3 DEF Next, CallStep
<1> QED
  BY <1>1, <1>2, PoolInvariant, PTL DEF Spec

-----------------------------------------------------------------------------
(* Atomic publication *)

\* With part files, and while the context is not done, a pool implements
\* AtomicPublish: the output goes from what was there to the whole stream in
\* one step, and the call then reports success.
THEOREM PublishIsAtomic ==
  ASSUME UsePart
  PROVE  Spec => PublishesAtomically
<1> USE DEF PublishedStatus
<1>1. Init => Abstract!Init
  BY DEF Init, Abstract!Init, Paths
<1>2. PoolInv /\ PoolInv' /\ [Next]_vars
        => ctxDone \/ [Abstract!Next]_<<disk["out"], PublishedStatus>>
  <2> SUFFICES ASSUME PoolInv, PoolInv', [Next]_vars, ~ctxDone
               PROVE  [Abstract!Next]_<<disk["out"], PublishedStatus>>
    OBVIOUS
  <2> USE DEF Abstract!Next, Abstract!Begin, Abstract!Publish, Abstract!Succeed, Abstract!GiveUp,
              poolVars, Fail
  <2>1. \A f : disk' = [disk EXCEPT !["part"] = f] => disk'["out"] = disk["out"]
    BY DEF PoolInv, TypeOK, Paths
  <2>2. CASE Start
    BY <2>2 DEF Start
  <2>3. CASE Create \/ FetchManifest \/ WriteItem
    BY <2>1, <2>3 DEF Create, FetchManifest, WriteItem, WritePath, FetchErrors, ItemErrors
  <2>4. CASE Join \/ WriteEnd \/ Cancel \/ UNCHANGED vars
    BY <2>4 DEF Join, WriteEnd, Cancel, vars
  <2>5. CASE CloseFile
    BY <2>5 DEF CloseFile
  <2>6. CASE Rename
    <3>1. ~ctxDone'
      BY <2>6 DEF Rename
    <3> QED
      BY <2>6, <3>1 DEF Rename, PoolInv, WritingInv
  <2>8. CASE Return
    BY <2>8 DEF Return, PoolInv, WritingInv
  <2>7. CASE \E s \in Segments : WorkerStep(s)
    BY <2>7 DEF WorkerStep, Acquire, Quit, FetchSucceeds, FetchFails
  <2> QED
    BY <2>2, <2>3, <2>4, <2>5, <2>6, <2>7, <2>8 DEF Next, CallStep
<1> QED
  BY <1>1, <1>2, PoolInvariant, PTL DEF Spec, PublishesAtomically
=============================================================================
