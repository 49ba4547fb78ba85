------------------------- MODULE FileTransferProofs -------------------------
(***************************************************************************)
(* Proofs about FileTransfer, for every media length, chunk size, number   *)
(* of workers, retries and runs: type correctness, and that a call which   *)
(* reports success has written the whole media, in every configuration in  *)
(* which parallel chunks are not combined with resuming and unless they    *)
(* are cancelled.  The runs FileTransfer_cancel and FileTransfer_resume    *)
(* show that neither condition can be dropped.                             *)
(***************************************************************************)
EXTENDS FileTransfer, TLAPS

USE TransferAssumption DEF TransferAssumption

-----------------------------------------------------------------------------
(* The chunks cover the media *)

\* Every chunk is a non-empty range of offsets of the media.
LEMMA ChunkBounds ==
  ASSUME NEW k \in Chunks
  PROVE  /\ First(k) \in Offsets
         /\ Last(k) \in First(k)..(Total - 1)
BY DEF Chunks, First, Last, Offsets

\* buildChunks leaves no byte out.
LEMMA ChunksCover ==
  ASSUME NEW p \in Offsets
  PROVE  \E k \in Chunks : p \in First(k)..Last(k)
<1> DEFINE k == p \div ChunkSize
<1>1. k \in Nat /\ k * ChunkSize <= p /\ p < k * ChunkSize + ChunkSize
  BY DEF Offsets
<1>2. k <= k * ChunkSize /\ k * ChunkSize \in Nat
  BY <1>1
<1>3. k \in Chunks
  BY <1>1, <1>2 DEF Chunks, Offsets
<1> HIDE DEF k
<1>4. p \in First(k)..Last(k)
  BY <1>1, <1>2 DEF First, Last, Offsets
<1> QED
  BY <1>3, <1>4

-----------------------------------------------------------------------------
(* Type correctness *)

\* The state every chunk goroutine begins in.
LEMMA FreshWorkerTypes ==
  /\ [k \in Chunks |-> "new"] \in [Chunks -> {"new", "waiting", "running",
                                   "body", "failing", "ok", "failed", "quit"}]
  /\ [k \in Chunks |-> First(k)] \in [Chunks -> Nat]
  /\ [k \in Chunks |-> 0] \in [Chunks -> 0..MaxRetries]
<1>1. \A k \in Chunks : First(k) \in Nat
  BY ChunkBounds DEF Offsets
<1> QED
  BY <1>1

\* Each variable keeps its type; in particular no byte is recorded as good
\* outside the media and no retry counter passes MaxRetries.
THEOREM TypeCorrect == Spec => []TypeOK
<1> USE DEF TypeOK, Paths
<1>1. Init => TypeOK
  <2> SUFFICES ASSUME Init PROVE TypeOK
    OBVIOUS
  <2>1. disk \in [Paths -> [size : Nat, good : SUBSET Offsets]]
    BY DEF Init, Empty, Foreign
  <2> QED
    <3>1. /\ cst \in [Chunks -> {"new", "waiting", "running", "body",
                                "failing", "ok", "failed", "quit"}]
          /\ cpos \in [Chunks -> Nat]
          /\ catt \in [Chunks -> 0..MaxRetries]
          /\ failure \in Errors \cup {"none"}
          /\ cancelled \in BOOLEAN
      BY FreshWorkerTypes, Zenon DEF Init, FreshWorkers
    <3>2. ctxDone \in BOOLEAN
      BY DEF Init
    <3>3. attempt \in 0..MaxRetries /\ runs \in 0..MaxRuns /\ rpos \in 0..Total
      BY DEF Init
    <3>4. start \in Nat /\ fpos \in Nat
      BY DEF Init
    <3>5. result \in Errors \cup {"none", "ok", "crashed"} /\ pc = "idle"
      BY DEF Init
    <3> QED
      BY <2>1, <3>1, <3>2, <3>3, <3>4, <3>5
<1>2. TypeOK /\ [Next]_vars => TypeOK'
  <2> SUFFICES ASSUME TypeOK, [Next]_vars PROVE TypeOK'
    OBVIOUS
  <2> USE DEF WritePath, Target, Fail, Succeed
  <2>1. CASE Start
    <3>1. start' \in Nat
      BY <2>1 DEF Start
    <3>2. runs' \in 0..MaxRuns
      BY <2>1 DEF Start
    <3>3. pc' \in {"open", "probe", "create"}
      BY <2>1 DEF Start, Fresh
    <3> QED
      <4>1. UNCHANGED <<disk, fpos, rpos, cst, cpos, catt, failure, cancelled>>
        BY <2>1 DEF Start, chunkVars
      <4>2. result' = "none" /\ ctxDone' = FALSE /\ attempt' = 0
        BY <2>1 DEF Start
      <4>3. ctxDone' \in BOOLEAN
        BY <4>2
      <4>4. attempt' \in 0..MaxRetries
        BY <4>2
      <4>5. result' \in Errors \cup {"none", "ok", "crashed"}
        BY <4>2
      <4>6. rpos' \in 0..Total /\ fpos' \in Nat
        BY <4>1
      <4>7. failure' \in Errors \cup {"none"} /\ cancelled' \in BOOLEAN
        BY <4>1
      <4>8. disk' \in [Paths -> [size : Nat, good : SUBSET Offsets]]
        BY <4>1
      <4> QED
        BY <3>1, <3>2, <3>3, <4>1, <4>3, <4>4, <4>5, <4>6, <4>7, <4>8
  <2>2. CASE Open \/ AppendRespond \/ AppendNotSatisfiable \/ AppendNotSupported
    BY <2>2 DEF Open, AppendRespond, AppendNotSatisfiable, AppendNotSupported,
                Fresh, chunkVars, streamVars
  <2>3. ASSUME NEW at \in {"appendBody", "rewriteBody"}, CopyByte(at)
        PROVE TypeOK'
    <3>1. Written(disk[WritePath], fpos, fpos = rpos)
            \in [size : Nat, good : SUBSET Offsets]
      BY <2>3 DEF CopyByte, Written, Offsets
    <3> QED
      BY <2>3, <3>1 DEF CopyByte, callVars, chunkVars
  <2>4. ASSUME NEW at \in {"appendBody", "rewriteBody"}, CopyEnd(at)
        PROVE TypeOK'
    BY <2>4 DEF CopyEnd, streamVars, chunkVars
  <2>5. CASE AppendFail
    <3> PICK e \in Errors : 
          IF MayRetry(e, attempt)
          THEN /\ disk' = [disk EXCEPT ![WritePath] = Truncated(@, start)]
               /\ fpos' = start
               /\ attempt' = attempt + 1
               /\ pc' = "append"
               /\ UNCHANGED result
          ELSE Fail(e) /\ UNCHANGED <<disk, fpos, attempt>>
      BY <2>5 DEF AppendFail
    <3>1. UNCHANGED <<ctxDone, runs, start, rpos, chunkVars>>
      BY <2>5 DEF AppendFail
    <3>2. CASE MayRetry(e, attempt)
      <4>1. Truncated(disk[WritePath], start)
              \in [size : Nat, good : SUBSET Offsets]
        BY DEF Truncated
      <4> QED
        BY <3>1, <3>2, <4>1 DEF MayRetry, chunkVars
    <3>3. CASE ~MayRetry(e, attempt)
      BY <3>1, <3>3 DEF chunkVars
    <3> QED
      BY <3>2, <3>3
  <2>6. CASE Create \/ RewriteRespond \/ RewriteBackoffCancelled
    BY <2>6 DEF Create, RewriteRespond, RewriteBackoffCancelled, Empty,
                Errors, chunkVars, streamVars
  <2>7. CASE RewriteTruncate
    BY <2>7 DEF RewriteTruncate, Truncated, chunkVars
  <2>8. CASE RewriteFail
    BY <2>8 DEF RewriteFail, MayRetry, chunkVars
  <2>9. CASE Rename \/ Return
    BY <2>9 DEF Rename, Return, Empty, streamVars, chunkVars
  <2>10. CASE FileAccessFails
    BY <2>10 DEF FileAccessFails, Errors, streamVars, chunkVars
  <2>11. CASE Probe
    BY <2>11 DEF Probe, Errors, streamVars, chunkVars
  <2>12. CASE Preallocate
    <3>1. Truncated(Empty, Total) \in [size : Nat, good : SUBSET Offsets]
      BY DEF Truncated, Empty
    <3> QED
      BY <2>12, <3>1, FreshWorkerTypes DEF Preallocate, streamVars
  <2>13. CASE LaunchBreak
    BY <2>13 DEF LaunchBreak, callVars, streamVars
  <2>14. CASE Join
    BY <2>14 DEF Join, streamVars, chunkVars
  <2>15. ASSUME NEW k \in Chunks, ChunkStep(k)
         PROVE TypeOK'
    <3>1. CASE Launch(k) \/ Acquire(k) \/ Quit(k) \/ ChunkEnd(k)
      BY <3>1 DEF Launch, Acquire, Quit, ChunkEnd, callVars, streamVars
    <3>2. CASE ChunkRespond(k)
      BY <3>2, ChunkBounds DEF ChunkRespond, Offsets, callVars, streamVars
    <3>3. CASE ChunkWrite(k)
      <4>1. cpos[k] \in Offsets
        BY <3>3, ChunkBounds DEF ChunkWrite, Offsets
      <4>2. Written(disk[WritePath], cpos[k], TRUE)
              \in [size : Nat, good : SUBSET Offsets]
        BY <4>1 DEF Written, Offsets
      <4> QED
        <5>1. disk' \in [Paths -> [size : Nat, good : SUBSET Offsets]]
          BY <3>3, <4>2 DEF ChunkWrite
        <5>2. cpos' \in [Chunks -> Nat]
          BY <3>3, <4>1 DEF ChunkWrite, Offsets
        <5> QED
          BY <3>3, <5>1, <5>2 DEF ChunkWrite, callVars, streamVars
    <3>4. CASE ChunkFail(k)
      <4>1. UNCHANGED <<disk, callVars, streamVars, cpos>>
        BY <3>4 DEF ChunkFail
      <4>2. cst' \in [Chunks -> {"new", "waiting", "running", "body",
                                 "failing", "ok", "failed", "quit"}]
        BY <3>4 DEF ChunkFail
      <4>3. catt' \in [Chunks -> 0..MaxRetries]
        BY <3>4 DEF ChunkFail, MayRetry
      <4>4. failure' \in Errors \cup {"none"} /\ cancelled' \in BOOLEAN
        BY <3>4 DEF ChunkFail, FirstFailure
      <4> QED
        BY <4>1, <4>2, <4>3, <4>4 DEF callVars, streamVars
    <3>5. CASE CancelSiblings(k)
      BY <3>5 DEF CancelSiblings, callVars, streamVars
    <3> QED
      BY <2>15, <3>1, <3>2, <3>3, <3>4, <3>5 DEF ChunkStep
  <2>16. CASE Cancel
    BY <2>16 DEF Cancel, streamVars, chunkVars
  <2>17. CASE Crash
    BY <2>17, FreshWorkerTypes DEF Crash, streamVars
  <2>18. CASE UNCHANGED vars
    BY <2>18 DEF vars, callVars, streamVars, chunkVars
  <2> QED
    BY <2>1, <2>2, <2>3, <2>4, <2>5, <2>6, <2>7, <2>8, <2>9, <2>10, <2>11,
       <2>12, <2>13, <2>14, <2>15, <2>16, <2>17, <2>18
    DEF Next, CallStep, StreamStep, AppendWrite, AppendEnd, RewriteWrite,
        RewriteEnd
<1> QED
  BY <1>1, <1>2, PTL DEF Spec

-----------------------------------------------------------------------------
(* A reported success is the whole media *)

\* What a write to the file being downloaded does to it.
LEMMA TargetWritten ==
  ASSUME TypeOK, NEW v, disk' = [disk EXCEPT ![WritePath] = v]
  PROVE  /\ (Target)' = v
         /\ (disk["part"])' = IF UsePart THEN v ELSE disk["part"]
BY DEF TypeOK, Paths, Target, WritePath

\* One more byte of the media makes a longer prefix.
LEMMA PrefixGrows ==
  ASSUME NEW n \in Nat
  PROVE  Written(Prefix(n), n, TRUE) = Prefix(n + 1)
<1>1. (0..(n - 1)) \cup {n} = 0..((n + 1) - 1)
  OBVIOUS
<1>2. Prefix(n).size = n /\ Prefix(n).good = 0..(n - 1)
  BY DEF Prefix
<1>3. Written(Prefix(n), n, TRUE)
        = [size |-> n + 1, good |-> (0..(n - 1)) \cup {n}]
  <2>1. ~(n < Prefix(n).size)
    BY <1>2
  <2> QED
    BY <1>2, <2>1, Zenon DEF Written
<1> QED
  BY <1>1, <1>3 DEF Prefix

\* The empty file is a prefix of the media.
LEMMA PrefixEmpty == Prefix(0) = Empty /\ Empty.size = 0
<1>1. 0..(0 - 1) = {}
  OBVIOUS
<1> QED
  BY <1>1 DEF Prefix, Empty

\* Cutting a prefix leaves a shorter prefix.
LEMMA PrefixCut ==
  ASSUME NEW n \in Nat, NEW m \in 0..n
  PROVE  Truncated(Prefix(n), m) = Prefix(m)
<1>1. (0..(n - 1)) \cap (0..(m - 1)) = 0..(m - 1)
  OBVIOUS
<1> QED
  BY <1>1 DEF Truncated, Prefix

\* A prefix as long as the media is the media.
LEMMA PrefixWhole == Prefix(Total) = Whole
BY DEF Prefix, Whole, Offsets

\* The goroutine that finishes the file it writes: renamed later, or done.
LEMMA SucceedKeeps ==
  ASSUME TypeOK, TransferInv, pc # "idle", Target = Whole \/ CutShort, Succeed,
         UNCHANGED <<disk, ctxDone, runs, streamVars, chunkVars>>
  PROVE  TransferInv'
<1> USE DEF TransferInv, PrefixWithoutChunks, ResumablePrefix, AppendInv, RewriteInv,
            ChunkInv, CallInv, WholeUnlessCancelled, WholeOnSuccess, CutShort, Appending,
            Target, WritePath,
            Succeed, streamVars
<1>1. CASE UsePart
  BY <1>1
<1>2. CASE ~UsePart
  BY <1>2
<1> QED
  BY <1>1, <1>2

\* A call that returns an error leaves nothing behind but the file.
LEMMA FailKeeps ==
  ASSUME TypeOK, TransferInv, NEW e, e # "ok", Fail(e),
         UNCHANGED <<disk, ctxDone>>
  PROVE  TransferInv'
BY DEF TransferInv, PrefixWithoutChunks, ResumablePrefix, AppendInv, RewriteInv,
       ChunkInv, CallInv, WholeUnlessCancelled, WholeOnSuccess, CutShort, Appending, Target,
       WritePath, Fail

\* The strengthened invariant holds initially.
LEMMA TransferInvInit == Init => TransferInv
<1> SUFFICES ASSUME Init PROVE TransferInv
  OBVIOUS
<1>1. pc = "idle" /\ result = "none" /\ ~ctxDone
  BY DEF Init
<1>2. ~EnableChunked /\ (Resume \/ UsePart) => Target = Empty
  BY DEF Init, Target, WritePath, Paths
<1>3. Empty.size = 0 /\ Prefix(0) = Empty
  BY PrefixEmpty
<1> QED
  BY <1>1, <1>2, <1>3
  DEF TransferInv, PrefixWithoutChunks, ResumablePrefix, AppendInv, RewriteInv,
      ChunkInv, CallInv, WholeUnlessCancelled, WholeOnSuccess, CutShort, Appending

\* A step of the single-stream strategies preserves the invariant.
LEMMA StreamStepKeeps ==
  ASSUME StartsOver, TypeOK, TransferInv, StreamStep
  PROVE  TransferInv'
<1> USE DEF StartsOver, TransferInv, PrefixWithoutChunks,
            ResumablePrefix, AppendInv, RewriteInv, ChunkInv, CallInv,
            WholeUnlessCancelled, WholeOnSuccess, CutShort, Appending
<1>0. Total \in Nat /\ fpos \in Nat /\ start \in Nat /\ Target.size \in Nat
  BY DEF TypeOK, Target, WritePath, Paths
<1>1. CASE Open
  BY <1>1 DEF Open, Target, WritePath, chunkVars
<1>2. CASE AppendRespond
  <2>1. Target = Prefix(start) /\ Resume /\ ~EnableChunked /\ start > 0
    BY <1>2 DEF AppendRespond
  <2>2. (Target)' = Target /\ fpos' = start /\ rpos' = start /\ start' = start
        /\ pc' = "appendBody" /\ result' = result /\ ctxDone' = ctxDone
    BY <1>2 DEF AppendRespond, Target, WritePath
  <2> QED
    BY <1>0, <1>2, <2>1, <2>2 DEF AppendRespond
<1>3. CASE AppendNotSatisfiable
  <2>1. Target = Whole
    BY <1>0, <1>3, PrefixWhole DEF AppendNotSatisfiable
  <2> QED
    BY <1>3, <2>1, SucceedKeeps DEF AppendNotSatisfiable
<1>4. CASE AppendNotSupported
  BY <1>4 DEF AppendNotSupported, Fresh, Target, WritePath, streamVars, chunkVars
<1>5. ASSUME NEW at \in {"appendBody", "rewriteBody"}, CopyByte(at)
      PROVE  TransferInv'
  <2>1. Target = Prefix(fpos) /\ fpos = rpos /\ rpos < Total
    BY <1>5 DEF CopyByte
  <2>2. (Target)' = Prefix(fpos + 1)
    <3>1. disk' = [disk EXCEPT ![WritePath] = Written(Target, fpos, TRUE)]
      BY <1>5, <2>1 DEF CopyByte, Target
    <3> QED
      BY <1>0, <2>1, <3>1, TargetWritten, PrefixGrows
  <2>3. (Target)'.size = fpos + 1
    BY <2>2 DEF Prefix
  <2>4. fpos' = fpos + 1 /\ rpos' = rpos + 1 /\ pc = at /\ pc' = at
        /\ result' = result /\ ctxDone' = ctxDone /\ start' = start
    BY <1>5 DEF CopyByte, callVars
  <2> QED
    BY <1>0, <2>1, <2>2, <2>3, <2>4
<1>6. ASSUME NEW at \in {"appendBody", "rewriteBody"}, CopyEnd(at)
      PROVE  TransferInv'
  <2>1. Target = Whole /\ pc # "idle"
    BY <1>6, PrefixWhole DEF CopyEnd
  <2> QED
    BY <1>6, <2>1, SucceedKeeps DEF CopyEnd
<1>7. CASE AppendFail
  <2> PICK e \in Errors :
        IF MayRetry(e, attempt)
        THEN /\ disk' = [disk EXCEPT ![WritePath] = Truncated(@, start)]
             /\ fpos' = start
             /\ attempt' = attempt + 1
             /\ pc' = "append"
             /\ UNCHANGED result
        ELSE Fail(e) /\ UNCHANGED <<disk, fpos, attempt>>
    BY <1>7 DEF AppendFail
  <2>1. /\ pc \in {"append", "appendBody"}
        /\ UNCHANGED <<ctxDone, runs, start, rpos, chunkVars>>
    BY <1>7 DEF AppendFail
  <2>2. CASE MayRetry(e, attempt)
    <3>1. (Target)' = Truncated(Target, start)
      BY <2>2, TargetWritten DEF Target
    <3>2. \E n \in Nat : n >= start /\ n <= Total /\ Target = Prefix(n)
      BY <1>0, <2>1 DEF TypeOK
    <3>3. Truncated(Target, start) = Prefix(start) /\ start <= Total
      BY <1>0, <3>2, PrefixCut
    <3>4. Prefix(start).size = start
      BY DEF Prefix
    <3> QED
      BY <2>1, <2>2, <3>1, <3>3, <3>4
  <2>3. CASE ~MayRetry(e, attempt)
    BY <2>1, <2>3, FailKeeps DEF Errors
  <2> QED
    BY <2>2, <2>3
<1>8. CASE Create
  <2>1. (Target)' = Prefix(0) /\ Prefix(0).size = 0
    BY <1>8, TargetWritten, PrefixEmpty DEF Create
  <2> QED
    BY <1>0, <1>8, <2>1 DEF Create
<1>9. CASE RewriteTruncate
  <2>1. (Target)' = Truncated(Target, 0)
    BY <1>9, TargetWritten DEF RewriteTruncate, Target
  <2>2. Truncated(Target, 0) = Empty /\ Prefix(0) = Empty /\ Empty.size = 0
    BY DEF Truncated, Prefix, Empty
  <2> QED
    BY <1>0, <1>9, <2>1, <2>2 DEF RewriteTruncate
<1>10. CASE RewriteRespond
  <2>1. Prefix(0) = Empty
    BY DEF Prefix, Empty
  <2> QED
    BY <1>10, <2>1 DEF RewriteRespond, Target, WritePath, chunkVars
<1>11. CASE RewriteFail
  <2> PICK e \in Errors :
        IF MayRetry(e, attempt)
        THEN pc' = "rewrite" /\ attempt' = attempt + 1 /\ UNCHANGED result
        ELSE Fail(e) /\ UNCHANGED attempt
    BY <1>11 DEF RewriteFail
  <2>1. UNCHANGED <<disk, ctxDone, runs, start, fpos, rpos, chunkVars>>
        /\ pc # "idle"
    BY <1>11 DEF RewriteFail
  <2>2. CASE MayRetry(e, attempt)
    BY <2>1, <2>2 DEF Target, WritePath
  <2>3. CASE ~MayRetry(e, attempt)
    BY <2>1, <2>3, FailKeeps DEF Errors
  <2> QED
    BY <2>2, <2>3
<1>12. CASE RewriteBackoffCancelled
  BY <1>12, FailKeeps DEF RewriteBackoffCancelled
<1>13. CASE Rename
  <2>1. disk'["out"] = Whole \/ CutShort
    BY <1>13 DEF Rename, TypeOK, Paths
  <2>2. (Target)' = Prefix(0) /\ Prefix(0).size = 0
    BY <1>13 DEF Rename, TypeOK, Paths, Target, WritePath, Empty, Prefix
  <2> QED
    BY <1>0, <1>13, <2>1, <2>2 DEF Rename
<1>14. CASE FileAccessFails
  BY <1>14, FailKeeps DEF FileAccessFails
<1>15. CASE Return
  BY <1>15 DEF Return, Target, WritePath
<1> QED
  BY <1>1, <1>2, <1>3, <1>4, <1>5, <1>6, <1>7, <1>8, <1>9, <1>10, <1>11,
     <1>12, <1>13, <1>14, <1>15
  DEF StreamStep, AppendWrite, AppendEnd, RewriteWrite, RewriteEnd

\* A range of written offsets grows by the next one.
LEMMA RangeExtends ==
  ASSUME NEW a \in Int, NEW c \in Int, NEW S, a..(c - 1) \subseteq S
  PROVE  a..c \subseteq S \cup {c}
OBVIOUS

\* A step of a chunk goroutine preserves the invariant.
LEMMA ChunkStepKeeps ==
  ASSUME StartsOver, TypeOK, TransferInv,
         NEW k \in Chunks, ChunkStep(k)
  PROVE  TransferInv'
<1> USE DEF StartsOver, TransferInv, CallInv, ChunkInv, InnerDone
<1>1. pc = "chunks" /\ EnableChunked /\ ctxDone' = ctxDone
  BY DEF ChunkStep, Launch, Acquire, Quit, ChunkRespond, ChunkWrite, ChunkEnd,
         ChunkFail, CancelSiblings, callVars
<1>2. UNCHANGED callVars
  BY DEF ChunkStep, Launch, Acquire, Quit, ChunkRespond, ChunkWrite, ChunkEnd,
         ChunkFail, CancelSiblings
<1>3. SUFFICES ChunkInv'
  BY <1>1, <1>2
  DEF PrefixWithoutChunks, AppendInv, RewriteInv, WholeUnlessCancelled, WholeOnSuccess,
      CutShort, Appending, callVars
<1>4. First(k) \in Nat /\ Last(k) \in Nat /\ First(k) <= Last(k)
      /\ Last(k) < Total
  BY ChunkBounds DEF Offsets
<1>5. CASE Launch(k) \/ Acquire(k)
  BY <1>1, <1>5 DEF Launch, Acquire, Target, WritePath, TypeOK
<1>6. CASE Quit(k)
  BY <1>1, <1>6 DEF Quit, InnerDone, Target, WritePath, TypeOK
<1>7. CASE ChunkRespond(k)
  BY <1>1, <1>4, <1>7 DEF ChunkRespond, Target, WritePath, TypeOK
<1>8. CASE ChunkWrite(k)
  <2> DEFINE f == Written(Target, cpos[k], TRUE)
  <2>1. (Target)' = f
    BY <1>8, TargetWritten DEF ChunkWrite, Target
  <2>2. f.size = Total /\ f.good = Target.good \cup {cpos[k]}
    BY <1>1, <1>4, <1>8 DEF ChunkWrite, Written
  <2>3. cpos' = [cpos EXCEPT ![k] = cpos[k] + 1] /\ cst[k] = "body"
        /\ cpos[k] <= Last(k)
        /\ UNCHANGED <<cst, failure, cancelled>>
    BY <1>8 DEF ChunkWrite
  <2> HIDE DEF f
  <2>4. \A j \in Chunks :
           /\ cpos'[j] \in First(j)..(Last(j) + 1)
           /\ cst'[j] = "body" => First(j)..(cpos'[j] - 1) \subseteq f.good
    <3> SUFFICES ASSUME NEW j \in Chunks
                 PROVE  /\ cpos'[j] \in First(j)..(Last(j) + 1)
                        /\ cst'[j] = "body"
                             => First(j)..(cpos'[j] - 1) \subseteq f.good
      OBVIOUS
    <3>1. CASE j = k
      <4>1. /\ cpos[k] \in First(k)..(Last(k) + 1)
            /\ First(k)..(cpos[k] - 1) \subseteq Target.good
        BY <1>1, <2>3
      <4>2. cpos'[k] = cpos[k] + 1
        BY <2>3 DEF TypeOK
      <4> HIDE DEF TransferInv, CallInv, ChunkInv, StartsOver
      <4>3. First(k)..cpos[k] \subseteq f.good
        BY <1>4, <2>2, <4>1, RangeExtends
      <4>4. cpos'[k] \in First(k)..(Last(k) + 1) /\ cpos'[k] - 1 = cpos[k]
        BY <1>4, <2>3, <4>1, <4>2
      <4> QED
        BY <3>1, <4>3, <4>4
    <3>2. CASE j # k
      BY <1>1, <2>2, <2>3, <3>2 DEF TypeOK
    <3> QED
      BY <3>1, <3>2
  <2> QED
    BY <1>1, <2>1, <2>2, <2>3, <2>4
<1>9. CASE ChunkEnd(k)
  <2>1. First(k)..Last(k) \subseteq Target.good
    BY <1>1, <1>4, <1>9 DEF ChunkEnd
  <2> QED
    BY <1>1, <1>9, <2>1 DEF ChunkEnd, Target, WritePath, TypeOK
<1>10. CASE ChunkFail(k)
  <2>1. UNCHANGED <<disk, cpos>>
    BY <1>10 DEF ChunkFail
  <2>2. \/ /\ cst' = [cst EXCEPT ![k] = "running"]
           /\ UNCHANGED <<failure, cancelled>>
        \/ /\ cst' = [cst EXCEPT ![k] = "failing"]
           /\ failure' # "none" /\ UNCHANGED cancelled
    BY <1>10 DEF ChunkFail, FirstFailure, Errors
  <2> QED
    BY <1>1, <2>1, <2>2 DEF Target, WritePath, TypeOK
<1>11. CASE CancelSiblings(k)
  BY <1>1, <1>11 DEF CancelSiblings, Target, WritePath, TypeOK
<1> QED
  BY <1>5, <1>6, <1>7, <1>8, <1>9, <1>10, <1>11 DEF ChunkStep

\* So do the remaining steps of the call and of its environment.
LEMMA OtherStepKeeps ==
  ASSUME StartsOver, TypeOK, TransferInv,
         Start \/ Probe \/ Preallocate \/ LaunchBreak \/ Join \/ Cancel \/ Crash
           \/ UNCHANGED vars
  PROVE  TransferInv'
<1> USE DEF StartsOver, TransferInv, PrefixWithoutChunks,
            ResumablePrefix, AppendInv, RewriteInv, ChunkInv, CallInv,
            WholeUnlessCancelled, WholeOnSuccess, CutShort, Appending
<1>1. CASE Start
  <2>1. Target.size \in Nat
    BY DEF TypeOK, Target, WritePath, Paths
  <2>2. Target' = Target
    BY <1>1 DEF Start, Target, WritePath
  <2>3. start' > 0 => Resume /\ ~EnableChunked /\ start' = Target.size
    BY <1>1, <2>1 DEF Start
  <2>4. pc' = IF start' > 0 THEN "open" ELSE Fresh
    BY <1>1 DEF Start
  <2>5. result' = "none" /\ ~ctxDone'
    BY <1>1 DEF Start
  <2> QED
    BY <2>2, <2>3, <2>4, <2>5 DEF Fresh
<1>2. CASE Probe
  <2>1. CASE Fail("ctx") \/ Fail("net")
    BY <1>2, <2>1, FailKeeps DEF Probe
  <2>2. CASE pc' \in {"preallocate", "create"} /\ UNCHANGED result
    BY <1>2, <2>2 DEF Probe, Target, WritePath
  <2> QED
    BY <1>2, <2>1, <2>2 DEF Probe
<1>3. CASE Preallocate
  <2>1. (Target)' = Truncated(Empty, Total)
    BY <1>3, TargetWritten DEF Preallocate
  <2>2. (Target)'.size = Total
    BY <2>1 DEF Truncated
  <2>3. \A k \in Chunks : First(k) \in First(k)..(Last(k) + 1)
    BY ChunkBounds DEF Offsets
  <2> QED
    BY <1>3, <2>2, <2>3 DEF Preallocate
<1>4. CASE LaunchBreak
  BY <1>4 DEF LaunchBreak, InnerDone, Target, WritePath, callVars
<1>5. CASE Join
  <2>1. CASE failure = "none"
    <3>1. CutShort \/ \A k \in Chunks : First(k)..Last(k) \subseteq Target.good
      BY <1>5, <2>1 DEF Join, Exited, InnerDone
    <3>2. CutShort \/ Offsets \subseteq Target.good
      BY <3>1, ChunksCover
    <3>3. Target \in [size : Nat, good : SUBSET Offsets]
      BY DEF TypeOK, Target, WritePath, Paths
    <3>4. Target = Whole \/ CutShort
      BY <1>5, <3>2, <3>3 DEF Join, Whole
    <3> QED
      BY <1>5, <2>1, <3>4, SucceedKeeps DEF Join
  <2>2. CASE failure = "norange"
    BY <1>5, <2>2 DEF Join, Target, WritePath, streamVars, chunkVars
  <2>3. CASE failure \notin {"none", "norange"}
    BY <1>5, <2>3, FailKeeps DEF Join, TypeOK, Errors
  <2> QED
    BY <2>1, <2>2, <2>3
<1>6. CASE Cancel
  <2>1. ctxDone' = TRUE /\ ~ctxDone /\ MayCancel /\ Target' = Target
        /\ UNCHANGED <<disk, pc, result, start, fpos, rpos, cst, cpos, failure, cancelled>>
    BY <1>6 DEF Cancel, Target, WritePath, streamVars, chunkVars
  <2>2. ChunkInv'
    BY <2>1 DEF InnerDone
  <2>3. (PrefixWithoutChunks /\ AppendInv /\ RewriteInv)'
    BY <2>1
  <2>4. (CallInv /\ WholeUnlessCancelled)'
    BY <2>1
  <2> QED
    BY <2>2, <2>3, <2>4
<1>7. CASE Crash
  BY <1>7 DEF Crash, Target, WritePath
<1>8. CASE UNCHANGED vars
  BY <1>8 DEF vars, callVars, streamVars, chunkVars, Target, WritePath, InnerDone
<1> QED
  BY <1>1, <1>2, <1>3, <1>4, <1>5, <1>6, <1>7, <1>8

\* The strengthening is inductive: at every moment the bytes on disk are what
\* the running strategy believes they are.
THEOREM TransferInvariant ==
  ASSUME StartsOver
  PROVE  Spec => []TransferInv
<1>1. TypeOK /\ TransferInv /\ [Next]_vars => TransferInv'
  BY StreamStepKeeps, ChunkStepKeeps, OtherStepKeeps DEF Next, CallStep
<1> QED
  BY <1>1, TransferInvInit, TypeCorrect, PTL DEF Spec

\* A call that reports success has written the whole media to the output path,
\* whatever failed, was retried, crashed or was cancelled before, unless its own
\* chunks were.
THEOREM SuccessIsWhole ==
  ASSUME StartsOver
  PROVE  Spec => []WholeUnlessCancelled
<1>1. TransferInv => WholeUnlessCancelled
  BY DEF TransferInv
<1> QED
  BY <1>1, TransferInvariant, PTL

\* Where chunks are not cancelled there is no exception.
LEMMA NeverCutShort ==
  ASSUME SoundConfiguration, TransferInv
  PROVE  ~CutShort
BY DEF SoundConfiguration, TransferInv, CallInv, CutShort

\* Hence success without exception in a sound configuration.
THEOREM SoundSuccess ==
  ASSUME SoundConfiguration
  PROVE  Spec => []WholeOnSuccess
<1>1. TransferInv => WholeOnSuccess
  BY NeverCutShort DEF TransferInv, WholeUnlessCancelled
<1>2. StartsOver
  BY DEF SoundConfiguration
<1> QED
  BY <1>1, <1>2, TransferInvariant, PTL

\* Without chunks, what is on disk may be appended to at every moment, also
\* after a crash: it is a prefix of the media.
THEOREM AlwaysResumable ==
  ASSUME ~EnableChunked, Resume \/ UsePart
  PROVE  Spec => []ResumablePrefix
<1>1. StartsOver
  BY DEF StartsOver
<1>2. TransferInv => ResumablePrefix
  BY DEF TransferInv, PrefixWithoutChunks
<1> QED
  BY <1>1, <1>2, TransferInvariant, PTL

\* No step of a call that appends takes away a byte it has found on disk.
THEOREM AppendKeepsBytes ==
  ASSUME StartsOver
  PROVE  Spec => ResumedBytesKept
<1>1. TypeOK /\ TransferInv /\ [Next]_vars
        => [Appending => ResumedBytes \subseteq (Target').good]_vars
  <2> SUFFICES ASSUME TypeOK, TransferInv, Next, Appending
               PROVE  ResumedBytes \subseteq (Target').good
    OBVIOUS
  <2>1. start \in Nat /\ fpos \in Nat
    BY DEF TypeOK
  <2>2. CASE CopyByte("appendBody")
    <3>1. fpos = rpos /\ start <= fpos
      BY <2>2 DEF CopyByte, TransferInv, AppendInv
    <3>2. Target' = Written(Target, fpos, TRUE)
      BY <2>2, <3>1, TargetWritten DEF CopyByte, Target
    <3> QED
      BY <3>2 DEF Written, ResumedBytes
  <2>3. CASE AppendFail
    <3>1. Target' = Target \/ Target' = Truncated(Target, start)
      BY <2>3, TargetWritten DEF AppendFail, Target, WritePath
    <3> QED
      BY <3>1 DEF Truncated, ResumedBytes
  <2>4. CASE UNCHANGED disk
    BY <2>4 DEF ResumedBytes, Target, WritePath
  <2>5. ~Start /\ pc \notin {"chunks", "create", "rewrite", "rewriteBody", "preallocate",
                             "rename"}
    BY DEF Appending, Start
  <2> QED
    BY <2>2, <2>3, <2>4, <2>5 DEF Next, CallStep, StreamStep, ChunkStep, Open, AppendRespond,
       AppendNotSatisfiable, AppendNotSupported, AppendWrite, AppendEnd, CopyEnd, Create,
       RewriteTruncate, RewriteRespond, RewriteWrite, CopyByte, RewriteEnd, RewriteFail,
       RewriteBackoffCancelled, Rename, Return, FileAccessFails, Probe, Preallocate, LaunchBreak,
       Join, Launch, Acquire, Quit, ChunkRespond, ChunkWrite, ChunkEnd, ChunkFail,
       CancelSiblings, Cancel, Crash
<1> QED
  BY <1>1, TypeCorrect, TransferInvariant, PTL DEF Spec, ResumedBytesKept

-----------------------------------------------------------------------------
(* The error that is reported *)

\* The siblings of a chunk are cancelled only when the slot of errCh is taken,
\* so that a context error in it is the caller's own.
CauseInv ==
  /\ RootCauseReported
  /\ pc = "chunks" =>
       /\ \A k \in Chunks : cst[k] = "failing" => failure # "none"
       /\ cancelled => failure # "none"
       /\ failure = "ctx" => ctxDone

\* A step keeps the cause.
LEMMA CauseStep == TypeOK /\ CauseInv /\ [Next]_vars => CauseInv'
<1> SUFFICES ASSUME TypeOK, CauseInv, [Next]_vars
             PROVE  CauseInv'
  OBVIOUS
<1> USE DEF CauseInv, RootCauseReported
<1>1. CASE Start
  BY <1>1 DEF Start, Fresh
<1>2. CASE StreamStep
  <2>1. ctxDone' = ctxDone /\ (pc' # "chunks")
        /\ (result' = "ctx" => ctxDone \/ result = "ctx")
    BY <1>2 DEF StreamStep, Open, AppendRespond,
       AppendNotSatisfiable, AppendNotSupported, AppendWrite, AppendEnd, CopyEnd, Create,
       RewriteTruncate, RewriteRespond, RewriteWrite, CopyByte, RewriteEnd, RewriteFail,
       RewriteBackoffCancelled, Rename, Return, FileAccessFails, AppendFail, Fail, Succeed, Fresh, callVars,
       MayRetry, Retryable, RequestErrors, BodyErrors
  <2> QED
    BY <2>1
<1>3. CASE Probe \/ Preallocate
  BY <1>3 DEF Probe, Preallocate, Fail, callVars
<1>9. CASE LaunchBreak
  <2>1. /\ UNCHANGED <<pc, result, ctxDone, failure, cancelled>>
        /\ \A j \in Chunks : cst'[j] = "failing" => cst[j] = "failing"
    BY <1>9 DEF LaunchBreak, callVars
  <2> QED
    BY <2>1
<1>4. CASE Join
  BY <1>4 DEF Join, Fail, Succeed, chunkVars
<1>5. ASSUME NEW k \in Chunks, ChunkStep(k)
      PROVE  CauseInv'
  <2>1. CASE \/ Launch(k) \/ Acquire(k) \/ Quit(k)
             \/ ChunkRespond(k) \/ ChunkWrite(k) \/ ChunkEnd(k)
    <3>1. /\ UNCHANGED <<pc, result, ctxDone, failure, cancelled>>
          /\ \A j \in Chunks : cst'[j] = "failing" => cst[j] = "failing"
      BY <2>1 DEF Launch, Acquire, Quit, ChunkRespond, ChunkWrite, ChunkEnd, callVars, TypeOK
    <3> QED
      BY <3>1
  <2>2. CASE ChunkFail(k)
    <3>1. UNCHANGED callVars /\ pc = "chunks"
      BY <2>2 DEF ChunkFail
    <3>2. PICK e \in Errors :
            /\ e = "ctx" => InnerDone
            /\ \/ UNCHANGED failure /\ cst' = [cst EXCEPT ![k] = "running"]
               \/ failure' = FirstFailure(e) /\ cst' = [cst EXCEPT ![k] = "failing"]
      BY <2>2 DEF ChunkFail, RequestErrors, BodyErrors
    <3>3. UNCHANGED cancelled
      BY <2>2 DEF ChunkFail
    <3>4. \/ UNCHANGED failure /\ \A j \in Chunks : cst'[j] = "failing" => cst[j] = "failing"
          \/ failure' = FirstFailure(e) /\ failure' # "none"
      BY <3>2 DEF FirstFailure, Errors, TypeOK
    <3> QED
      BY <3>1, <3>2, <3>3, <3>4 DEF callVars, InnerDone, FirstFailure, Errors
  <2>3. CASE CancelSiblings(k)
    BY <2>3 DEF CancelSiblings, callVars, TypeOK
  <2> QED
    BY <1>5, <2>1, <2>2, <2>3 DEF ChunkStep
<1>6. CASE Cancel
  BY <1>6 DEF Cancel, chunkVars
<1>7. CASE Crash
  BY <1>7 DEF Crash
<1>8. CASE UNCHANGED vars
  BY <1>8 DEF vars, callVars, chunkVars
<1> QED
  BY <1>1, <1>2, <1>3, <1>4, <1>5, <1>6, <1>7, <1>8, <1>9 DEF Next, CallStep

\* In every configuration, a call that reports a context error was cancelled
\* by its caller and not by a sibling's failure.
THEOREM CauseIsReported == Spec => []RootCauseReported
<1>1. Init => CauseInv
  BY DEF Init, CauseInv, RootCauseReported
<1>2. CauseInv => RootCauseReported
  BY DEF CauseInv
<1> QED
  BY <1>1, <1>2, TypeCorrect, CauseStep, PTL DEF Spec

-----------------------------------------------------------------------------
(* Atomic publication *)

\* A step of a call under part files: it goes on, renames, returns, or gives
\* up; only the rename touches the output path.
LEMMA CallStepPublishes ==
  ASSUME TypeOK, TransferInv, UsePart, CallStep
  PROVE  /\ pc # "idle"
         /\ \/ disk'["out"] = disk["out"] /\ pc' # "idle"
            \/ disk'["out"] = disk["out"] /\ pc' = "idle" /\ result' \in Errors
            \/ disk'["out"] = disk["part"] /\ pc = "rename" /\ pc' # "idle"
            \/ disk'["out"] = disk["out"] /\ pc = "renamed" /\ pc' = "idle"
                 /\ result' = "ok"
<1> USE DEF WritePath, Fail, Succeed, Errors
<1>1. ASSUME NEW f PROVE [disk EXCEPT !["part"] = f]["out"] = disk["out"]
  BY DEF TypeOK, Paths
<1>2. CASE \E k \in Chunks : ChunkStep(k)
  BY <1>1, <1>2 DEF ChunkStep, Launch, Acquire, Quit, ChunkRespond, ChunkWrite,
                    ChunkEnd, ChunkFail, CancelSiblings, callVars
<1>3. CASE Probe \/ Preallocate \/ LaunchBreak \/ Join
  <2>1. failure # "none" => failure \in Errors
    BY DEF TypeOK
  <2> QED
    BY <1>1, <1>3, <2>1 DEF Probe, Preallocate, LaunchBreak, Join, callVars
<1>4. CASE Rename
  <2>1. disk'["out"] = disk["part"]
    BY <1>4 DEF Rename, TypeOK, Paths
  <2> QED
    BY <1>4, <2>1 DEF Rename
<1>8. CASE Return
  BY <1>8 DEF Return
<1>5. CASE AppendFail
  BY <1>1, <1>5 DEF AppendFail
<1>6. CASE \/ Open \/ AppendRespond \/ AppendNotSatisfiable \/ AppendNotSupported
           \/ AppendWrite \/ AppendEnd
  BY <1>1, <1>6 DEF Open, AppendRespond, AppendNotSatisfiable, AppendNotSupported,
                    AppendWrite, AppendEnd, CopyByte, CopyEnd, Fresh, callVars
<1>7. CASE \/ Create \/ RewriteTruncate \/ RewriteRespond \/ RewriteWrite
           \/ RewriteEnd \/ RewriteFail \/ RewriteBackoffCancelled \/ FileAccessFails
  BY <1>1, <1>7 DEF Create, RewriteTruncate, RewriteRespond, RewriteWrite, RewriteEnd,
                    RewriteFail, RewriteBackoffCancelled, FileAccessFails, CopyByte,
                    CopyEnd, callVars
<1> QED
  BY <1>2, <1>3, <1>4, <1>5, <1>6, <1>7, <1>8 DEF CallStep, StreamStep

\* With part files the output path goes from what was there to the whole media
\* in one step, after which the call reports success or dies.
THEOREM PublishIsAtomic ==
  ASSUME SoundConfiguration, UsePart
  PROVE  Spec => PublishesAtomically
<1>0. StartsOver
  BY DEF SoundConfiguration
<1> USE DEF PublishedStatus
<1>1. Init => Abstract!Init
  BY DEF Init, Abstract!Init, Paths
<1>2. TypeOK /\ TransferInv /\ [Next]_vars
        => [Abstract!Next]_<<disk["out"], PublishedStatus>>
  <2> SUFFICES ASSUME TypeOK, TransferInv, [Next]_vars
               PROVE  [Abstract!Next]_<<disk["out"], PublishedStatus>>
    OBVIOUS
  <2> USE DEF Abstract!Next, Abstract!Begin, Abstract!Publish, Abstract!Succeed,
              Abstract!GiveUp
  <2>1. CASE Start
    <3>1. pc = "idle" /\ pc' # "idle" /\ UNCHANGED disk
      BY <2>1 DEF Start, Fresh
    <3> QED
      BY <3>1
  <2>2. CASE CallStep
    <3>1. /\ pc = "rename" => disk["part"] = Whole
          /\ pc = "renamed" => disk["out"] = Whole
      BY NeverCutShort DEF TransferInv, CallInv
    <3>2. \A e \in Errors : e # "ok" /\ e # "none"
      BY DEF Errors
    <3> QED
      BY <2>2, <3>1, <3>2, CallStepPublishes
  <2>3. CASE Cancel
    BY <2>3 DEF Cancel
  <2>4. CASE Crash
    BY <2>4 DEF Crash
  <2>5. CASE UNCHANGED vars
    BY <2>5 DEF vars, callVars
  <2> QED
    BY <2>1, <2>2, <2>3, <2>4, <2>5 DEF Next
<1> QED
  BY <1>0, <1>1, <1>2, TypeCorrect, TransferInvariant, PTL
     DEF Spec, PublishesAtomically, Abstract!Spec
=============================================================================
