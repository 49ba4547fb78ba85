---------------------------- MODULE FileTransfer ----------------------------
(***************************************************************************)
(* The direct media transfer of client/download.go: one call of            *)
(* downloadURLToPathWithHeadersAndPart at a time, repeated over the same   *)
(* files by later runs of the program (resume after a failure or a crash). *)
(*                                                                         *)
(* A call moves through up to three strategies: append to what is already  *)
(* on disk (downloadURLRangeAppend), parallel ranged chunks written at     *)
(* their offsets into a preallocated file (downloadURLChunked, one         *)
(* goroutine per chunk under a semaphore), and a single-stream rewrite     *)
(* (downloadURLFullRewrite).  With part files the result is renamed over   *)
(* the output (downloadURLToPathPart).                                     *)
(*                                                                         *)
(* A file is its size and the set of offsets that hold the media's own     *)
(* byte; every other offset below the size holds something else (the       *)
(* zeroes of a preallocated file, a foreign byte).  An absent file and an  *)
(* empty one are the same file: no branch of this code tells them apart.   *)
(*                                                                         *)
(* The server is honest: 206 bodies start at the requested offset, 416 is  *)
(* sent exactly for offsets at or past the end, and a truncated body is an *)
(* error (net/http compares it with Content-Length).                       *)
(***************************************************************************)
EXTENDS Integers, FiniteSets

CONSTANTS
  Total,            \* length of the media in bytes
  ChunkSize,        \* effectiveDownloadTransportConfig.ChunkSize
  MaxConcurrency,   \* effectiveDownloadTransportConfig.MaxConcurrency
  MaxRetries,       \* effectiveDownloadTransportConfig.MaxRetries
  EnableChunked,    \* effectiveDownloadTransportConfig.EnableChunked
  Resume,           \* DownloadOptions.Resume
  UsePart,          \* DownloadOptions.UsePartFiles
  MayCancel,        \* the caller's context may be cancelled or time out
  MayCrash,         \* the process may die in the middle of a call
  MaxRuns           \* bound: calls made over the same files

ASSUME TransferAssumption ==
  /\ Total \in Nat \ {0}
  /\ ChunkSize \in Nat \ {0}
  /\ MaxConcurrency \in Nat \ {0}
  /\ MaxRetries \in Nat
  /\ MaxRuns \in Nat
  /\ EnableChunked \in BOOLEAN
  /\ Resume \in BOOLEAN
  /\ UsePart \in BOOLEAN
  /\ MayCancel \in BOOLEAN
  /\ MayCrash \in BOOLEAN

VARIABLES
  disk,       \* the two files of the call: OUTPUT and OUTPUT.part
  pc,         \* where the calling goroutine is
  result,     \* what the last finished call returned
  ctxDone,    \* the caller's context is done
  runs,       \* calls started so far
  attempt,    \* the retry loop's counter (single-stream strategies)
  start,      \* startOffset of the call
  fpos,       \* the file position of the single-stream strategies
  rpos,       \* offset of the next media byte of the open response
  cst,        \* state of each chunk goroutine
  cpos,       \* downloadChunkOnce's offset, per chunk
  catt,       \* downloadChunkWithRetry's attempt, per chunk
  failure,    \* the one slot of errCh
  cancelled   \* the chunk phase's own context was cancelled by cancel()

callVars   == <<pc, result, ctxDone, runs>>
streamVars == <<attempt, start, fpos, rpos>>
chunkVars  == <<cst, cpos, catt, failure, cancelled>>
vars       == <<disk, callVars, streamVars, chunkVars>>

-----------------------------------------------------------------------------
(* Files *)

Offsets == 0..(Total - 1)

Empty  == [size |-> 0, good |-> {}]
Whole  == [size |-> Total, good |-> Offsets]
Prefix(n) == [size |-> n, good |-> 0..(n - 1)]

\* A file left at the output path by something else.
Foreign == [size |-> 1, good |-> {}]

\* os.File.Truncate(n): cuts, or extends with zeroes.
Truncated(f, n) == [size |-> n, good |-> f.good \cap 0..(n - 1)]

\* One byte written at offset p; right tells whether it is the media's byte p.
Written(f, p, right) ==
  [size |-> IF p < f.size THEN f.size ELSE p + 1,
   good |-> IF right THEN f.good \cup {p} ELSE f.good \ {p}]

Paths == {"out", "part"}

\* partPath := outputPath + ".part" is where the bytes go with part files.
WritePathDirect == "out"
WritePath == IF UsePart THEN "part" ELSE "out"
Target == disk[WritePath]

-----------------------------------------------------------------------------
(* Chunks: buildChunks *)

Chunks == {k \in Offsets : k * ChunkSize < Total}
First(k) == k * ChunkSize
LastExclusive(k) == IF First(k) + ChunkSize >= Total THEN Total - 1
                                                     ELSE First(k) + ChunkSize - 2
Last(k) == IF First(k) + ChunkSize - 1 >= Total THEN Total - 1
                                                ELSE First(k) + ChunkSize - 1

-----------------------------------------------------------------------------
(* Errors.  "net" stands for every error isRetryableError accepts:          *)
(* transport errors, short bodies, retryable statuses, throttling.          *)

Errors == {"ctx", "net", "status", "norange", "file"}
Retryable(e) == e \in {"net", "norange"}

\* for attempt <= MaxRetries: a failed attempt is followed by another one.
MayRetry(e, n) == Retryable(e) /\ n < MaxRetries

\* How a request may fail: once its context is done it can only report that.
RequestErrors(done) == IF done THEN {"ctx"} ELSE {"net", "status"}

\* How the copy of a response body may fail.
BodyErrors(done) == IF done THEN {"ctx"} ELSE {"net"}

-----------------------------------------------------------------------------

TypeOK ==
  /\ disk \in [Paths -> [size : Nat, good : SUBSET Offsets]]
  /\ pc \in {"idle", "open", "append", "appendBody", "probe", "preallocate",
             "chunks", "create", "rewrite", "rewriteRequest", "rewriteBody",
             "rename", "renamed"}
  /\ result \in Errors \cup {"none", "ok", "crashed"}
  /\ ctxDone \in BOOLEAN
  /\ runs \in 0..MaxRuns
  /\ attempt \in 0..MaxRetries
  /\ start \in Nat
  /\ fpos \in Nat
  /\ rpos \in 0..Total
  /\ cst \in [Chunks -> {"new", "waiting", "running", "body",
                         "failing", "ok", "failed", "quit"}]
  /\ cpos \in [Chunks -> Nat]
  /\ catt \in [Chunks -> 0..MaxRetries]
  /\ failure \in Errors \cup {"none"}
  /\ cancelled \in BOOLEAN

FreshWorkers ==
  /\ cst = [k \in Chunks |-> "new"]
  /\ cpos = [k \in Chunks |-> First(k)]
  /\ catt = [k \in Chunks |-> 0]
  /\ failure = "none"
  /\ cancelled = FALSE

Init ==
  /\ \E f \in IF Resume /\ ~UsePart THEN {Empty} ELSE {Empty, Foreign} :
       disk = [p \in Paths |-> IF p = "out" THEN f ELSE Empty]
  /\ pc = "idle"
  /\ result = "none"
  /\ ctxDone = FALSE
  /\ runs = 0
  /\ attempt = 0
  /\ start = 0
  /\ fpos = 0
  /\ rpos = 0
  /\ FreshWorkers

-----------------------------------------------------------------------------
(* Entry and exit of a call *)

\* Where a call goes when nothing can be appended to.
Fresh == IF EnableChunked THEN "probe" ELSE "create"

Fail(e) ==
  /\ pc' = "idle"
  /\ result' = e

\* The write path is finished; part files still have to be renamed.
Succeed ==
  IF UsePart
  THEN pc' = "rename" /\ UNCHANGED result
  ELSE pc' = "idle" /\ result' = "ok"

Start ==
  /\ pc = "idle"
  /\ runs < MaxRuns
  /\ runs' = runs + 1
  /\ result' = "none"
  /\ ctxDone' = FALSE
  /\ start' = IF Resume THEN Target.size ELSE 0
  /\ pc' = IF start' > 0 THEN "open" ELSE Fresh
  /\ attempt' = 0
  /\ UNCHANGED <<disk, fpos, rpos, chunkVars>>

Rename ==
  /\ pc = "rename"
  /\ disk' = [disk EXCEPT !["out"] = disk["part"], !["part"] = Empty]
  /\ pc' = "renamed"
  /\ UNCHANGED <<result, ctxDone, runs, streamVars, chunkVars>>

Return ==
  /\ pc = "renamed"
  /\ pc' = "idle"
  /\ result' = "ok"
  /\ UNCHANGED <<disk, ctxDone, runs, streamVars, chunkVars>>

\* retryFileAccess gives up: open, create or rename kept failing.
FileAccessFails ==
  /\ pc \in {"open", "preallocate", "create", "rename"}
  /\ Fail("file") \/ (ctxDone /\ Fail("ctx"))
  /\ UNCHANGED <<disk, ctxDone, runs, streamVars, chunkVars>>

-----------------------------------------------------------------------------
(* downloadURLRangeAppend *)

OpenTruncating ==
  /\ pc = "open"
  /\ disk' = [disk EXCEPT ![WritePath] = Empty]
  /\ pc' = "append"
  /\ attempt' = 0
  /\ fpos' = 0
  /\ UNCHANGED <<result, ctxDone, runs, start, rpos, chunkVars>>

Open ==
  /\ pc = "open"
  /\ pc' = "append"
  /\ attempt' = 0
  /\ fpos' = 0
  /\ UNCHANGED <<disk, result, ctxDone, runs, start, rpos, chunkVars>>

\* The file stays where opening it has put it.
AppendRespondUnsought ==
  /\ pc = "append"
  /\ ~ctxDone
  /\ start < Total
  /\ rpos' = start
  /\ pc' = "appendBody"
  /\ UNCHANGED <<disk, result, ctxDone, runs, attempt, start, fpos, chunkVars>>

\* 206: the file is positioned at startOffset and the body begins there.
AppendRespond ==
  /\ pc = "append"
  /\ ~ctxDone
  /\ start < Total
  /\ fpos' = start
  /\ rpos' = start
  /\ pc' = "appendBody"
  /\ UNCHANGED <<disk, result, ctxDone, runs, attempt, start, chunkVars>>

\* 416: the caller takes the file to be complete already.
AppendNotSatisfiable ==
  /\ pc = "append"
  /\ ~ctxDone
  /\ start >= Total
  /\ Succeed
  /\ UNCHANGED <<disk, ctxDone, runs, streamVars, chunkVars>>

\* 200: the server ignores ranges; download from scratch.
AppendNotSupported ==
  /\ pc = "append"
  /\ ~ctxDone
  /\ pc' = Fresh
  /\ UNCHANGED <<disk, result, ctxDone, runs, streamVars, chunkVars>>

\* One byte of the body is copied (single-stream strategies).
CopyByte(at) ==
  /\ pc = at
  /\ rpos < Total
  /\ disk' = [disk EXCEPT ![WritePath] = Written(@, fpos, fpos = rpos)]
  /\ fpos' = fpos + 1
  /\ rpos' = rpos + 1
  /\ UNCHANGED <<callVars, attempt, start, chunkVars>>

CopyEnd(at) ==
  /\ pc = at
  /\ rpos = Total
  /\ Succeed
  /\ UNCHANGED <<disk, ctxDone, runs, streamVars, chunkVars>>

AppendWrite == CopyByte("appendBody")
AppendEnd == CopyEnd("appendBody")

\* A retryable failure cuts the file back to startOffset; the last one and
\* a fatal one return with whatever was appended left in place.
AppendFail ==
  /\ \E e \in Errors :
       /\ \/ pc = "append" /\ e \in RequestErrors(ctxDone)
          \/ pc = "appendBody" /\ e \in BodyErrors(ctxDone)
       /\ IF MayRetry(e, attempt)
          THEN /\ disk' = [disk EXCEPT ![WritePath] = Truncated(@, start)]
               /\ fpos' = start
               /\ attempt' = attempt + 1
               /\ pc' = "append"
               /\ UNCHANGED result
          ELSE Fail(e) /\ UNCHANGED <<disk, fpos, attempt>>
  /\ UNCHANGED <<ctxDone, runs, start, rpos, chunkVars>>

-----------------------------------------------------------------------------
(* downloadURLFullRewrite *)

Create ==
  /\ pc = "create"
  /\ disk' = [disk EXCEPT ![WritePath] = Empty]
  /\ attempt' = 0
  /\ pc' = "rewrite"
  /\ UNCHANGED <<result, ctxDone, runs, start, fpos, rpos, chunkVars>>

\* Head of the retry loop: every attempt begins with an empty file.
RewriteTruncate ==
  /\ pc = "rewrite"
  /\ disk' = [disk EXCEPT ![WritePath] = Truncated(@, 0)]
  /\ fpos' = 0
  /\ pc' = "rewriteRequest"
  /\ UNCHANGED <<result, ctxDone, runs, attempt, start, rpos, chunkVars>>

RewriteRespond ==
  /\ pc = "rewriteRequest"
  /\ ~ctxDone
  /\ rpos' = 0
  /\ pc' = "rewriteBody"
  /\ UNCHANGED <<disk, result, ctxDone, runs, attempt, start, fpos, chunkVars>>

RewriteWrite == CopyByte("rewriteBody")
RewriteEnd == CopyEnd("rewriteBody")

RewriteFail ==
  /\ \E e \in Errors :
       /\ \/ pc = "rewriteRequest" /\ e \in RequestErrors(ctxDone)
          \/ pc = "rewriteBody" /\ e \in BodyErrors(ctxDone)
       /\ IF MayRetry(e, attempt)
          THEN pc' = "rewrite" /\ attempt' = attempt + 1 /\ UNCHANGED result
          ELSE Fail(e) /\ UNCHANGED attempt
  /\ UNCHANGED <<disk, ctxDone, runs, start, fpos, rpos, chunkVars>>

\* The context is done while waitBackoff waits for the next attempt.
RewriteBackoffCancelled ==
  /\ pc = "rewrite"
  /\ attempt > 0
  /\ ctxDone
  /\ Fail("ctx")
  /\ UNCHANGED <<disk, ctxDone, runs, streamVars, chunkVars>>

-----------------------------------------------------------------------------
(* downloadURLChunked: the calling goroutine *)

InnerDone == ctxDone \/ cancelled

\* probeContentLengthWithRange: a transport error is fatal, any answer that
\* is not a well-formed 206 sends the call to the single-stream rewrite.
Probe ==
  /\ pc = "probe"
  /\ \/ ctxDone /\ Fail("ctx")
     \/ ~ctxDone /\ Fail("net")
     \/ ~ctxDone /\ pc' \in {"preallocate", "create"} /\ UNCHANGED result
  /\ UNCHANGED <<disk, ctxDone, runs, streamVars, chunkVars>>

Preallocate ==
  /\ pc = "preallocate"
  /\ disk' = [disk EXCEPT ![WritePath] = Truncated(Empty, Total)]
  /\ pc' = "chunks"
  /\ cst' = [k \in Chunks |-> "new"]
  /\ cpos' = [k \in Chunks |-> First(k)]
  /\ catt' = [k \in Chunks |-> 0]
  /\ failure' = "none"
  /\ cancelled' = FALSE
  /\ UNCHANGED <<result, ctxDone, runs, streamVars>>

Launch(k) ==
  /\ pc = "chunks"
  /\ cst[k] = "new"
  /\ \A j \in Chunks : j < k => cst[j] # "new"
  /\ ~InnerDone
  /\ cst' = [cst EXCEPT ![k] = "waiting"]
  /\ UNCHANGED <<disk, callVars, streamVars, cpos, catt, failure, cancelled>>

\* "if ctx.Err() != nil { break }": the remaining chunks are never started.
LaunchBreak ==
  /\ pc = "chunks"
  /\ InnerDone
  /\ \E k \in Chunks : cst[k] = "new"
  /\ cst' = [k \in Chunks |-> IF cst[k] = "new" THEN "quit" ELSE cst[k]]
  /\ UNCHANGED <<disk, callVars, streamVars, cpos, catt, failure, cancelled>>

Exited == {"ok", "failed", "quit"}

\* wg.Wait() returned; the one slot of errCh decides.
Join ==
  /\ pc = "chunks"
  /\ \A k \in Chunks : cst[k] \in Exited
  /\ IF failure = "none" THEN Succeed
     ELSE IF failure = "norange" THEN pc' = "create" /\ UNCHANGED result
     ELSE Fail(failure)
  /\ UNCHANGED <<disk, ctxDone, runs, streamVars, chunkVars>>

-----------------------------------------------------------------------------
(* downloadURLChunked: one goroutine per chunk *)

\* Who holds a slot of sem: released by the deferred receive on every exit.
HoldingForever == {"running", "body", "failing", "ok", "failed"}
Holding == {"running", "body", "failing"}

Acquire(k) ==
  /\ pc = "chunks"
  /\ cst[k] = "waiting"
  /\ Cardinality({j \in Chunks : cst[j] \in Holding}) < MaxConcurrency
  /\ cst' = [cst EXCEPT ![k] = "running"]
  /\ UNCHANGED <<disk, callVars, streamVars, cpos, catt, failure, cancelled>>

\* "case <-ctx.Done(): return": no error is left behind.
Quit(k) ==
  /\ pc = "chunks"
  /\ cst[k] = "waiting"
  /\ InnerDone
  /\ cst' = [cst EXCEPT ![k] = "quit"]
  /\ UNCHANGED <<disk, callVars, streamVars, cpos, catt, failure, cancelled>>

ChunkRespond(k) ==
  /\ pc = "chunks"
  /\ cst[k] = "running"
  /\ ~InnerDone
  /\ cst' = [cst EXCEPT ![k] = "body"]
  /\ cpos' = [cpos EXCEPT ![k] = First(k)]
  /\ UNCHANGED <<disk, callVars, streamVars, catt, failure, cancelled>>

\* One byte of what a Read returned.  A single Read may return any number of
\* the remaining bytes, the end of the body included, so the check of the
\* context after each Read stops a worker at any byte (ChunkFail) or at none.
ChunkWrite(k) ==
  /\ pc = "chunks"
  /\ cst[k] = "body"
  /\ cpos[k] <= Last(k)
  /\ disk' = [disk EXCEPT ![WritePath] = Written(@, cpos[k], TRUE)]
  /\ cpos' = [cpos EXCEPT ![k] = @ + 1]
  /\ UNCHANGED <<callVars, streamVars, cst, catt, failure, cancelled>>

\* EOF with offset = end+1; the slot of the semaphore is released.
ChunkEnd(k) ==
  /\ pc = "chunks"
  /\ cst[k] = "body"
  /\ cpos[k] = Last(k) + 1
  /\ cst' = [cst EXCEPT ![k] = "ok"]
  /\ UNCHANGED <<disk, callVars, streamVars, cpos, catt, failure, cancelled>>

\* errCh has room for one error; later ones are dropped.
LastFailure(e) == e
FirstFailure(e) == IF failure = "none" THEN e ELSE failure

\* An attempt fails: retried, or its error is offered to errCh (dropped when
\* the slot is taken) ...
ChunkFail(k) ==
  /\ pc = "chunks"
  /\ \E e \in Errors :
       /\ \/ /\ cst[k] = "running"
             /\ e \in RequestErrors(InnerDone)
                        \cup (IF InnerDone THEN {} ELSE {"norange"})
          \/ cst[k] = "body" /\ e \in BodyErrors(InnerDone)
       /\ IF MayRetry(e, catt[k])
          THEN /\ cst' = [cst EXCEPT ![k] = "running"]
               /\ catt' = [catt EXCEPT ![k] = @ + 1]
               /\ UNCHANGED failure
          ELSE /\ cst' = [cst EXCEPT ![k] = "failing"]
               /\ failure' = FirstFailure(e)
               /\ UNCHANGED catt
  /\ UNCHANGED <<disk, callVars, streamVars, cpos, cancelled>>

\* ... before the siblings are cancelled, which may go on in between.
CancelSiblings(k) ==
  /\ pc = "chunks"
  /\ cst[k] = "failing"
  /\ cst' = [cst EXCEPT ![k] = "failed"]
  /\ cancelled' = TRUE
  /\ UNCHANGED <<disk, callVars, streamVars, cpos, catt, failure>>

-----------------------------------------------------------------------------
(* The environment *)

Cancel ==
  /\ MayCancel
  /\ pc # "idle"
  /\ ~ctxDone
  /\ ctxDone' = TRUE
  /\ UNCHANGED <<disk, pc, result, runs, streamVars, chunkVars>>

\* The process dies: goroutines and memory are gone, the files stay.
Crash ==
  /\ MayCrash
  /\ pc # "idle"
  /\ pc' = "idle"
  /\ result' = "crashed"
  /\ cst' = [k \in Chunks |-> "new"]
  /\ cpos' = [k \in Chunks |-> First(k)]
  /\ catt' = [k \in Chunks |-> 0]
  /\ failure' = "none"
  /\ cancelled' = FALSE
  /\ UNCHANGED <<disk, ctxDone, runs, streamVars>>

-----------------------------------------------------------------------------

StreamStep ==
  \/ Open \/ AppendRespond \/ AppendNotSatisfiable \/ AppendNotSupported
  \/ AppendWrite \/ AppendEnd \/ AppendFail
  \/ Create \/ RewriteTruncate \/ RewriteRespond \/ RewriteWrite
  \/ RewriteEnd \/ RewriteFail \/ RewriteBackoffCancelled
  \/ Rename \/ Return \/ FileAccessFails

ChunkStep(k) ==
  \/ Launch(k) \/ Acquire(k) \/ Quit(k)
  \/ ChunkRespond(k) \/ ChunkWrite(k) \/ ChunkEnd(k) \/ ChunkFail(k)
  \/ CancelSiblings(k)

CallStep ==
  \/ StreamStep
  \/ Probe \/ Preallocate \/ LaunchBreak \/ Join
  \/ \E k \in Chunks : ChunkStep(k)

Next == Start \/ CallStep \/ Cancel \/ Crash

Spec == Init /\ [][Next]_vars

\* Goroutines are scheduled and every request is eventually answered or
\* fails (the transport's own timeouts); nothing forces a new call.
FairSpec == Spec /\ WF_vars(CallStep)

-----------------------------------------------------------------------------
(* Properties *)

\* A call that reports success (downloadURLToPathWithHeadersAndPart returning
\* a nil error) has put the whole media at the output path, whichever mix of
\* strategies, retries and earlier interrupted runs led there.
WholeOnSuccess == result = "ok" => disk["out"] = Whole

\* The same of the configurations in which chunks may be cancelled, up to the
\* moment when the context ends: boundaries, probe, preallocation, retries and
\* the interleavings of the workers leave no hole behind.
CutShort == EnableChunked /\ ctxDone
WholeUnlessCancelled == WholeOnSuccess \/ CutShort

\* Without chunks the file being written holds at every moment a prefix of the
\* media, so that a later run may append to it: retries never leave duplicated
\* or shifted bytes (downloadURLRangeAppend's Truncate and Seek).
ResumablePrefix == Target.size <= Total /\ Target = Prefix(Target.size)

\* A call reports a context error only when the caller's context is done: the
\* cancel() with which a failed chunk stops its siblings never masks the error
\* that caused it (errCh has one slot and the cause is put there first).
RootCauseReported == result = "ctx" => ctxDone

Appending == pc \in {"open", "append", "appendBody"}

\* Parallel chunks preallocate the file, so its size says nothing about what
\* has arrived: they are sound only without resuming ...
StartsOver == EnableChunked => ~Resume

\* ... and without cancellation.
SoundConfiguration == StartsOver /\ (EnableChunked => ~MayCancel)

\* An output that something else left is neither appended to nor kept.
PrefixWithoutChunks == ~EnableChunked /\ (Resume \/ UsePart) => ResumablePrefix

\* Where an append begins is where the file ended.
AppendInv ==
  /\ Appending => Resume /\ ~EnableChunked /\ start > 0
  /\ pc \in {"open", "append"} => Target.size = start
  /\ pc = "appendBody" => fpos = rpos /\ Target = Prefix(fpos) /\ start <= fpos

RewriteInv ==
  /\ pc = "rewriteRequest" => Target = Empty /\ fpos = 0
  /\ pc = "rewriteBody" => fpos = rpos /\ Target = Prefix(fpos)

\* What a chunk has written so far, all of it, or the reason why it never will.
ChunkInv ==
  pc = "chunks" =>
    /\ Target.size = Total
    /\ \A k \in Chunks :
         /\ cpos[k] \in First(k)..(Last(k) + 1)
         /\ cst[k] = "body" => First(k)..(cpos[k] - 1) \subseteq Target.good
         /\ cst[k] = "ok" => First(k)..Last(k) \subseteq Target.good
         /\ cst[k] = "quit" => InnerDone
         /\ cst[k] \in {"failing", "failed"} => failure # "none"
    /\ cancelled => failure # "none"

CallInv ==
  /\ pc # "idle" => result = "none"
  /\ pc \in {"probe", "preallocate", "chunks"} => EnableChunked
  /\ pc = "rename" => UsePart /\ (disk["part"] = Whole \/ CutShort)
  /\ pc = "renamed" => UsePart /\ (disk["out"] = Whole \/ CutShort)
  /\ ctxDone => MayCancel

\* The strengthening of WholeUnlessCancelled that every step preserves.
TransferInv ==
  /\ PrefixWithoutChunks
  /\ AppendInv
  /\ RewriteInv
  /\ ChunkInv
  /\ CallInv
  /\ WholeUnlessCancelled

\* While a call appends, the bytes it found on disk stay there: no retry of
\* downloadURLRangeAppend costs the resumed part of the download.
ResumedBytes == Target.good \cap (0..(start - 1))

ResumedBytesKept ==
  [][Appending => ResumedBytes \subseteq (Target').good]_vars

\* A call that no crash interrupts returns: no worker waits for a semaphore
\* slot or a sibling forever, and retries are bounded.
CallReturns == pc # "idle" ~> pc = "idle"

\* The output path under part files: old content or the whole media, replaced
\* in one step (the rename), and by a call that then reports success unless it
\* dies first.
PublishedStatus ==
  IF pc # "idle" THEN "running"
  ELSE IF result = "ok" THEN "ok"
  ELSE IF result = "none" THEN "idle" ELSE "failed"

Abstract == INSTANCE AtomicPublish
              WITH Contents <- {Empty, Foreign},
                   file <- disk["out"], status <- PublishedStatus

PublishesAtomically == Abstract!Spec

\* What TestDownloadURLToPath_ChunkedCancel expects of a cancelled transfer:
\* it does not report success over a file with missing bytes.
CancelledTransferFails ==
  (result = "ok" /\ ctxDone) => disk["out"] = Whole

\* What the part-file contract says of a resumed download: continuing from an
\* existing .part file ends, on success, with the complete media.
ResumedPartCompletes == (result = "ok" /\ start > 0) => disk["out"] = Whole
=============================================================================
