----------------------------- MODULE SegmentPool -----------------------------
(***************************************************************************)
(* A static DASH stream fetched by parallel goroutines: downloadDASH of    *)
(* client/download.go around DASHDownloader.downloadSegmentsConcurrent     *)
(* (internal/downloader/dash.go).  Every segment has a goroutine that      *)
(* waits for a slot of the semaphore, fetches the segment with retries and *)
(* stores an item; once all have returned, the items are written in        *)
(* segment order to the file.                                              *)
(*                                                                         *)
(* A file is the sequence of the segments whose bytes it holds.  The       *)
(* bookkeeping of lastSeq and seenSegments (dash.go:227-228) is left out:  *)
(* a static stream is downloaded once and nothing reads it afterwards.     *)
(***************************************************************************)
EXTENDS Integers, Sequences, FiniteSets

CONSTANTS
  NSegments,       \* segments of the representation, 2 to maxConcurrentDASHSegments
  MaxConcurrency,  \* normalizeTransportConfig(...).MaxConcurrency
  MaxRetries,      \* normalizeTransportConfig(...).MaxRetries
  UsePart,         \* DownloadOptions.UsePartFiles
  MayCancel        \* the caller's context may be cancelled

ASSUME PoolAssumption ==
  /\ NSegments \in Nat /\ NSegments > 1
  /\ MaxConcurrency \in Nat /\ MaxConcurrency > 1
  /\ MaxRetries \in Nat
  /\ UsePart \in BOOLEAN
  /\ MayCancel \in BOOLEAN

VARIABLES
  disk,       \* OUTPUT and OUTPUT.part
  pc,         \* where the calling goroutine is
  result,     \* what the call returned
  ctxDone,    \* the caller's context is done
  worker,     \* state of each segment's goroutine
  att,        \* doGETBytesWithRetry's attempt, per segment
  item,       \* out[i]: the body, an error, or still the zero item
  cancelled,  \* cancel() was called
  wpos        \* the next item to write

poolVars == <<worker, att, item, cancelled>>
vars == <<disk, pc, result, ctxDone, poolVars, wpos>>

-----------------------------------------------------------------------------

Segments == 1..NSegments
Paths == {"out", "part"}

\* What was at the output path before; 0 is no segment of this stream.
Old == <<0>>
Whole == [i \in Segments |-> i]

WritePathDirect == "out"
WritePath == IF UsePart THEN "part" ELSE "out"

\* "net": what isRetryableError accepts; "status": a status it does not.
FetchErrors == {"net", "status"}
ItemErrors == FetchErrors \cup {"ctx"}
Errors == ItemErrors \cup {"tooMany", "file"}

\* for attempt <= MaxRetries: a failed attempt is followed by another one.
MayRetry(e, n) == e = "net" /\ n < MaxRetries

InnerDone == ctxDone \/ cancelled

TypeOK ==
  /\ disk \in [Paths -> Seq(0..NSegments)]
  /\ pc \in {"idle", "create", "manifest", "fetch", "write", "close", "rename",
             "renamed"}
  /\ result \in Errors \cup {"none", "ok"}
  /\ ctxDone \in BOOLEAN
  /\ worker \in [Segments -> {"waiting", "fetching", "gone"}]
  /\ att \in [Segments -> 0..MaxRetries]
  /\ item \in [Segments -> ItemErrors \cup {"zero", "body"}]
  /\ cancelled \in BOOLEAN
  /\ wpos \in 1..(NSegments + 1)

Init ==
  /\ disk = [p \in Paths |-> IF p = "out" THEN Old ELSE <<>>]
  /\ pc = "idle"
  /\ result = "none"
  /\ ctxDone = FALSE
  /\ worker = [s \in Segments |-> "waiting"]
  /\ att = [s \in Segments |-> 0]
  /\ item = [s \in Segments |-> "zero"]
  /\ cancelled = FALSE
  /\ wpos = 1

-----------------------------------------------------------------------------
(* downloadDASH and Download: the calling goroutine *)

Fail(e) ==
  /\ pc' = "idle"
  /\ result' = e

Start ==
  /\ pc = "idle"
  /\ result = "none"
  /\ pc' = "create"
  /\ UNCHANGED <<disk, result, ctxDone, poolVars, wpos>>

\* createFile truncates the write path; retryFileAccess may give up.
Create ==
  /\ pc = "create"
  /\ \/ /\ disk' = [disk EXCEPT ![WritePath] = <<>>]
        /\ pc' = "manifest"
        /\ UNCHANGED result
     \/ Fail("file") /\ UNCHANGED disk
     \/ ctxDone /\ Fail("ctx") /\ UNCHANGED disk
  /\ UNCHANGED <<ctxDone, poolVars, wpos>>

\* fetchManifest, parseDASH, extractSegments; a manifest that lists more than
\* maxConcurrentDASHSegments segments instead of these is refused.
FetchManifest ==
  /\ pc = "manifest"
  /\ \/ ctxDone /\ Fail("ctx")
     \/ ~ctxDone /\ \E e \in FetchErrors : Fail(e)
     \/ ~ctxDone /\ Fail("tooMany")
     \/ ~ctxDone /\ pc' = "fetch" /\ UNCHANGED result
  /\ UNCHANGED <<disk, ctxDone, poolVars, wpos>>

\* wg.Wait() without the goroutines that only wait for a slot.
JoinRunning ==
  /\ pc = "fetch"
  /\ \A s \in Segments : worker[s] # "fetching"
  /\ pc' = "write"
  /\ UNCHANGED <<disk, result, ctxDone, poolVars, wpos>>

\* wg.Wait() returned.
Join ==
  /\ pc = "fetch"
  /\ \A s \in Segments : worker[s] = "gone"
  /\ pc' = "write"
  /\ UNCHANGED <<disk, result, ctxDone, poolVars, wpos>>

\* The loop over the items, in order.  A goroutine that never fetched leaves
\* the zero item: no error, and an empty body that is "written".
WriteItem ==
  /\ pc = "write"
  /\ wpos <= NSegments
  /\ \/ /\ item[wpos] \in {"zero", "body"}
        /\ disk' = IF item[wpos] = "body"
                   THEN [disk EXCEPT ![WritePath] = Append(@, wpos)] ELSE disk
        /\ wpos' = wpos + 1
        /\ UNCHANGED <<pc, result>>
     \/ item[wpos] \in {"zero", "body"} /\ Fail("file") /\ UNCHANGED <<disk, wpos>>
     \/ /\ item[wpos] \in ItemErrors
        /\ Fail(item[wpos])
        /\ UNCHANGED <<disk, wpos>>
  /\ UNCHANGED <<ctxDone, poolVars>>

WriteEnd ==
  /\ pc = "write"
  /\ wpos > NSegments
  /\ pc' = "close"
  /\ UNCHANGED <<disk, result, ctxDone, poolVars, wpos>>

\* Sync and Close; only then may the file be renamed.
CloseFile ==
  /\ pc = "close"
  /\ \/ Fail("file")
     \/ UsePart /\ pc' = "rename" /\ UNCHANGED result
     \/ ~UsePart /\ pc' = "idle" /\ result' = "ok"
  /\ UNCHANGED <<disk, ctxDone, poolVars, wpos>>

Rename ==
  /\ pc = "rename"
  /\ \/ /\ disk' = [disk EXCEPT !["out"] = disk["part"], !["part"] = <<>>]
        /\ pc' = "renamed"
        /\ UNCHANGED result
     \/ Fail("file") /\ UNCHANGED disk
     \/ ctxDone /\ Fail("ctx") /\ UNCHANGED disk
  /\ UNCHANGED <<ctxDone, poolVars, wpos>>

\* What os.Stat says of the output is only reported.
Return ==
  /\ pc = "renamed"
  /\ pc' = "idle"
  /\ result' = "ok"
  /\ UNCHANGED <<disk, ctxDone, poolVars, wpos>>

-----------------------------------------------------------------------------
(* The goroutine of segment s *)

SlotsNeverReleased ==
  MaxConcurrency - Cardinality({s \in Segments : worker[s] = "fetching" \/ item[s] # "zero"})
Slots == MaxConcurrency - Cardinality({s \in Segments : worker[s] = "fetching"})

\* "case sem <- struct{}{}": possible also when the context is done already.
Acquire(s) ==
  /\ pc = "fetch"
  /\ worker[s] = "waiting"
  /\ Slots > 0
  /\ worker' = [worker EXCEPT ![s] = "fetching"]
  /\ UNCHANGED <<disk, pc, result, ctxDone, att, item, cancelled, wpos>>

\* "case <-ctx.Done(): return": the item stays zero.
Quit(s) ==
  /\ pc = "fetch"
  /\ worker[s] = "waiting"
  /\ InnerDone
  /\ worker' = [worker EXCEPT ![s] = "gone"]
  /\ UNCHANGED <<disk, pc, result, ctxDone, att, item, cancelled, wpos>>

\* Written to the file as soon as it has arrived.
FetchSucceedsUnordered(s) ==
  /\ worker[s] = "fetching"
  /\ ~InnerDone
  /\ worker' = [worker EXCEPT ![s] = "gone"]
  /\ disk' = [disk EXCEPT ![WritePath] = Append(@, s)]
  /\ UNCHANGED <<pc, result, ctxDone, att, item, cancelled, wpos>>

FetchSucceeds(s) ==
  /\ worker[s] = "fetching"
  /\ ~InnerDone
  /\ worker' = [worker EXCEPT ![s] = "gone"]
  /\ item' = [item EXCEPT ![s] = "body"]
  /\ UNCHANGED <<disk, pc, result, ctxDone, att, cancelled, wpos>>

\* The siblings are stopped by the first failed attempt.
FetchFailsStoppingAll(s) ==
  /\ worker[s] = "fetching"
  /\ \E e \in IF InnerDone THEN {"ctx"} ELSE FetchErrors :
       IF MayRetry(e, att[s])
       THEN /\ att' = [att EXCEPT ![s] = @ + 1]
            /\ UNCHANGED <<worker, item>>
       ELSE /\ worker' = [worker EXCEPT ![s] = "gone"]
            /\ item' = [item EXCEPT ![s] = e]
            /\ UNCHANGED att
  /\ cancelled' = TRUE
  /\ UNCHANGED <<disk, pc, result, ctxDone, wpos>>

\* A failed attempt is retried; the last one is stored and stops the others.
FetchFails(s) ==
  /\ worker[s] = "fetching"
  /\ \E e \in IF InnerDone THEN {"ctx"} ELSE FetchErrors :
       IF MayRetry(e, att[s])
       THEN /\ att' = [att EXCEPT ![s] = @ + 1]
            /\ UNCHANGED <<worker, item, cancelled>>
       ELSE /\ worker' = [worker EXCEPT ![s] = "gone"]
            /\ item' = [item EXCEPT ![s] = e]
            /\ cancelled' = TRUE
            /\ UNCHANGED att
  /\ UNCHANGED <<disk, pc, result, ctxDone, wpos>>

Cancel ==
  /\ MayCancel
  /\ pc # "idle"
  /\ ~ctxDone
  /\ ctxDone' = TRUE
  /\ UNCHANGED <<disk, pc, result, poolVars, wpos>>

-----------------------------------------------------------------------------

WorkerStep(s) == Acquire(s) \/ Quit(s) \/ FetchSucceeds(s) \/ FetchFails(s)

CallStep ==
  \/ Create \/ FetchManifest \/ Join \/ WriteItem \/ WriteEnd \/ CloseFile
  \/ Rename \/ Return
  \/ \E s \in Segments : WorkerStep(s)

Next == Start \/ CallStep \/ Cancel

Spec == Init /\ [][Next]_vars

\* Goroutines are scheduled; a request is answered or fails.
FairSpec == Spec /\ WF_vars(CallStep)

-----------------------------------------------------------------------------
(* Properties *)

\* A download that reports success before its context is done has put every
\* segment into the output, in order, whatever the order in which the
\* goroutines fetched them.  (After that it may leave segments out: the items
\* of goroutines that gave up waiting are written as empty bodies.)
WholeOnSuccess == result = "ok" /\ ~ctxDone => disk["out"] = Whole

\* Also when the call fails, the file never holds segments out of order.
OrderKept ==
  LET f == disk[WritePath]
  IN f # Old => \A i, j \in DOMAIN f : i < j => f[i] < f[j]

\* Segment s failed for good: a status that is no use retrying, or every attempt.
GaveUp(s) == item[s] = "status" \/ (item[s] = "net" /\ att[s] = MaxRetries)

\* The errors are looked at in segment order (dash.go:219-222), so a sibling
\* that was stopped may hide why.  A context error reported before the caller's
\* context is done is such a sibling's: a later segment failed for good and
\* stopped it, and an attempt that is still to be retried stops nobody.
FailureHasCause ==
  result = "ctx" /\ ~ctxDone =>
    /\ wpos \in Segments /\ item[wpos] = "ctx"
    /\ \E s \in Segments : s > wpos /\ GaveUp(s)

\* What has been written of the items before wpos: all that is theirs, unless
\* one of them is the zero item.
WrittenSoFar ==
  LET f == disk[WritePath]
  IN  /\ \A i \in DOMAIN f : f[i] < wpos
      /\ (\A s \in Segments : s < wpos => item[s] = "body") =>
           f = [i \in 1..(wpos - 1) |-> i]

\* Why an item holds what it holds.  A goroutine leaves a zero item behind, or
\* a context error, only when the pool or its caller gave up; and the pool gave
\* up only because some attempt failed.
WorkersInv ==
  /\ \A s \in Segments :
       /\ worker[s] = "fetching" => pc = "fetch"
       /\ worker[s] # "gone" => item[s] = "zero"
       /\ worker[s] = "gone" /\ item[s] = "zero" => InnerDone
       /\ item[s] = "ctx" => InnerDone
       /\ item[s] = "net" => att[s] = MaxRetries
  /\ cancelled => \E s \in Segments : item[s] \in ItemErrors
  /\ cancelled /\ ~ctxDone => \E s \in Segments : item[s] \in FetchErrors

\* Nothing is written before the last goroutine has gone, nor after the item
\* of one that failed.
WritingInv ==
  /\ pc # "idle" => result = "none"
  /\ result = "none" /\ pc \notin {"write", "close", "rename", "renamed"} => wpos = 1
  /\ pc \in {"manifest", "fetch"} => disk[WritePath] = <<>>
  /\ pc \in {"write", "close", "rename"} =>
       /\ \A s \in Segments : worker[s] = "gone"
       /\ \A s \in Segments : s < wpos => item[s] \in {"zero", "body"}
       /\ WrittenSoFar
  /\ pc \in {"close", "rename"} => wpos > NSegments
  /\ pc \in {"rename", "renamed"} => UsePart
  /\ pc = "renamed" /\ ~ctxDone => disk["out"] = Whole

\* What holds throughout the pool: the types, the two promises about the file,
\* why an item may still be zero, and what has been written so far.
PoolInv == TypeOK /\ WholeOnSuccess /\ OrderKept /\ WorkersInv /\ WritingInv

\* The call returns: no goroutine waits for a slot that is never given back.
CallReturns == pc # "idle" ~> pc = "idle"

\* The output path under part files: what was there, then the whole stream,
\* in one step, which is only then reported as a success, until the context is
\* done.
PublishedStatus ==
  IF pc # "idle" THEN "running"
  ELSE IF result = "ok" THEN "ok"
  ELSE IF result = "none" THEN "idle" ELSE "failed"

Abstract == INSTANCE AtomicPublish
              WITH Contents <- {Old}, file <- disk["out"], status <- PublishedStatus

PublishesAtomically ==
  /\ Abstract!Init
  /\ [][ctxDone \/ [Abstract!Next]_<<disk["out"], PublishedStatus>>]_vars
=============================================================================
