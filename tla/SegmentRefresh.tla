--------------------------- MODULE SegmentRefresh ---------------------------
(***************************************************************************)
(* The refresh loop that downloads a segmented stream one segment at a     *)
(* time: HLSDownloader.Download (internal/downloader/hls.go) inside        *)
(* downloadHLS, and DASHDownloader.Download (dash.go) inside downloadDASH  *)
(* for dynamic manifests.  Each round fetches the manifest, downloads the  *)
(* segments that are new in it, and, while the stream is live, waits and   *)
(* starts over; meanwhile the server publishes segments, drops the oldest  *)
(* ones, and finally ends the stream.                                      *)
(*                                                                         *)
(* A segment is its sequence number, and its URL is as unique.  The output *)
(* file is the sequence of the segments appended to it.  How long a round  *)
(* takes is not modelled: any number of segments may be published or       *)
(* dropped between two steps.                                              *)
(***************************************************************************)
EXTENDS Integers, Sequences, FiniteSets, SequencesExt

CONSTANTS
  MaxHead,      \* bound: segments the server publishes
  Window,       \* segments the server lists and keeps
  MaxRetries,   \* normalizeTransportConfig(...).MaxRetries
  SkipUnavailable, \* TransportConfig.SkipUnavailableFragments
  MaxSkipped,   \* TransportConfig.MaxSkippedFragments, 0 for no limit
  MayCancel     \* the caller's context may be cancelled

ASSUME RefreshAssumption ==
  /\ MaxHead \in Nat
  /\ Window \in Nat \ {0}
  /\ MaxRetries \in Nat
  /\ SkipUnavailable \in BOOLEAN
  /\ MaxSkipped \in Nat
  /\ MayCancel \in BOOLEAN

VARIABLES
  head,      \* segments published so far: their numbers are 0..head-1
  live,      \* the stream has not ended
  pc,        \* where the download is
  result,    \* what it returned
  ctxDone,   \* the caller's context is done
  manifest,  \* the last manifest: segments from..to-1, and whether live
  pos,       \* the segment of the manifest the loop is at
  att,       \* doGETBytesWithRetry's attempt
  lastSeq,   \* number of the last segment dealt with, -1 for none
  seen,      \* seenSegments
  skipped,   \* skippedFragments
  output,    \* the segments written to the file
  listed,    \* history: every segment of a manifest that was fetched
  lost       \* history: the segments skipped as unavailable

server == <<head, live>>
progress == <<lastSeq, seen, skipped, output, lost>>
vars == <<server, pc, result, ctxDone, manifest, pos, att, progress, listed>>

-----------------------------------------------------------------------------

Numbers == 0..(MaxHead - 1)
Oldest == IF head > Window THEN head - Window ELSE 0

\* "gone": 404 or 410; "net": what isRetryableError accepts; "status": any
\* other status, or a segment that cannot be decrypted.
Errors == {"ctx", "net", "gone", "status", "file"}

\* for attempt <= MaxRetries: a failed attempt is followed by another one.
MayRetry(e, n) == e = "net" /\ n < MaxRetries

TypeOK ==
  /\ head \in 0..MaxHead
  /\ live \in BOOLEAN
  /\ pc \in {"idle", "create", "manifest", "segments", "wait", "close", "rename"}
  /\ result \in Errors \cup {"none", "ok"}
  /\ ctxDone \in BOOLEAN
  /\ manifest \in [from : 0..MaxHead, to : 0..MaxHead, live : BOOLEAN]
  /\ pos \in 0..MaxHead
  /\ att \in 0..MaxRetries
  /\ lastSeq \in -1..(MaxHead - 1)
  /\ seen \subseteq Numbers
  /\ skipped \in 0..MaxHead
  /\ output \in Seq(Numbers)
  /\ listed \subseteq Numbers
  /\ lost \subseteq Numbers

Init ==
  /\ head \in 0..MaxHead
  /\ live \in BOOLEAN
  /\ pc = "idle"
  /\ result = "none"
  /\ ctxDone = FALSE
  /\ manifest = [from |-> 0, to |-> 0, live |-> TRUE]
  /\ pos = 0
  /\ att = 0
  /\ lastSeq = -1
  /\ seen = {}
  /\ skipped = 0
  /\ output = <<>>
  /\ listed = {}
  /\ lost = {}

-----------------------------------------------------------------------------
(* The server *)

Publish ==
  /\ live
  /\ head < MaxHead
  /\ head' = head + 1
  /\ UNCHANGED <<live, pc, result, ctxDone, manifest, pos, att, progress, listed>>

EndStream ==
  /\ live
  /\ live' = FALSE
  /\ UNCHANGED <<head, pc, result, ctxDone, manifest, pos, att, progress, listed>>

-----------------------------------------------------------------------------
(* The file: downloadHLS, downloadDASH *)

Fail(e) ==
  /\ pc' = "idle"
  /\ result' = e

Start ==
  /\ pc = "idle"
  /\ result = "none"
  /\ pc' = "create"
  /\ UNCHANGED <<server, result, ctxDone, manifest, pos, att, progress, listed>>

\* createFile and renameFile, each under retryFileAccess.
FileAccess(at, next) ==
  /\ pc = at
  /\ \/ next
     \/ Fail("file")
     \/ ctxDone /\ Fail("ctx")
  /\ UNCHANGED <<server, ctxDone, manifest, pos, att, progress, listed>>

Create == FileAccess("create", pc' = "manifest" /\ UNCHANGED result)
Rename == FileAccess("rename", pc' = "idle" /\ result' = "ok")

\* Sync and Close after a download without an error.
CloseFile ==
  /\ pc = "close"
  /\ \/ pc' = "rename" /\ UNCHANGED result
     \/ Fail("file")
  /\ UNCHANGED <<server, ctxDone, manifest, pos, att, progress, listed>>

-----------------------------------------------------------------------------
(* One round *)

\* What a request may answer when it does not succeed.
Refusals == IF ctxDone THEN {"ctx"} ELSE {"net", "gone", "status"}

\* The skip counter starts over in every round.
FetchManifestForgetting ==
  /\ pc = "manifest"
  /\ ~ctxDone
  /\ manifest' = [from |-> Oldest, to |-> head, live |-> live]
  /\ pos' = Oldest
  /\ listed' = listed \cup Oldest..(head - 1)
  /\ skipped' = 0
  /\ att' = 0
  /\ pc' = "segments"
  /\ UNCHANGED <<server, result, ctxDone, lastSeq, seen, output, lost>>

\* Whether the stream is live is read from the first manifest only.
FetchManifestOnce ==
  /\ pc = "manifest"
  /\ ~ctxDone
  /\ manifest' = [from |-> Oldest, to |-> head,
                  live |-> IF listed = {} THEN live ELSE manifest.live]
  /\ pos' = Oldest
  /\ listed' = listed \cup Oldest..(head - 1)
  /\ att' = 0
  /\ pc' = "segments"
  /\ UNCHANGED <<server, result, ctxDone, progress>>

FetchManifest ==
  /\ pc = "manifest"
  /\ ~ctxDone
  /\ manifest' = [from |-> Oldest, to |-> head, live |-> live]
  /\ pos' = Oldest
  /\ listed' = listed \cup Oldest..(head - 1)
  /\ att' = 0
  /\ pc' = "segments"
  /\ UNCHANGED <<server, result, ctxDone, progress>>

FetchManifestFails ==
  /\ pc = "manifest"
  /\ \E e \in Refusals :
       IF MayRetry(e, att)
       THEN att' = att + 1 /\ UNCHANGED <<pc, result>>
       ELSE Fail(e) /\ UNCHANGED att
  /\ UNCHANGED <<server, ctxDone, manifest, pos, progress, listed>>

\* The two tests that keep a refresh from downloading a segment again.
KnownOffByOne(s) == (s <= lastSeq + 1 /\ lastSeq # -1) \/ s \in seen
Known(s) == (s <= lastSeq /\ lastSeq # -1) \/ s \in seen

AtSegment == pc = "segments" /\ pos < manifest.to

SkipKnown ==
  /\ AtSegment
  /\ Known(pos)
  /\ pos' = pos + 1
  /\ UNCHANGED <<server, pc, result, ctxDone, manifest, att, progress, listed>>

\* The memory of what was dealt with misses the number.
DealtWithByURL ==
  /\ seen' = {pos}
  /\ pos' = pos + 1
  /\ att' = 0
  /\ UNCHANGED lastSeq

\* The segment at pos has been dealt with.
DealtWith ==
  /\ lastSeq' = pos
  /\ seen' = seen \cup {pos}
  /\ pos' = pos + 1
  /\ att' = 0

FetchSegment ==
  /\ AtSegment
  /\ ~Known(pos)
  /\ ~ctxDone
  /\ pos >= Oldest
  /\ output' = Append(output, pos)
  /\ DealtWith
  /\ UNCHANGED <<server, pc, result, ctxDone, manifest, skipped, listed, lost>>

\* shouldSkipFragmentError, for live streams only.
Skippable(e) == e = "gone" /\ manifest.live /\ SkipUnavailable
OverLimit(n) == MaxSkipped > 0 /\ n > MaxSkipped

SkipUnavailableSegment ==
  /\ AtSegment
  /\ ~Known(pos)
  /\ \E e \in Refusals :
       /\ Skippable(e)
       /\ skipped' = skipped + 1
       /\ IF OverLimit(skipped')
          THEN Fail(e) /\ UNCHANGED <<lastSeq, seen, pos, att, lost>>
          ELSE /\ DealtWith
               /\ lost' = lost \cup {pos}
               /\ UNCHANGED <<pc, result>>
  /\ UNCHANGED <<server, ctxDone, manifest, output, listed>>

\* Any other failure, or the file cannot be written.
FetchSegmentFails ==
  /\ AtSegment
  /\ ~Known(pos)
  /\ \E e \in Refusals \cup {"file"} :
       /\ ~Skippable(e)
       /\ IF MayRetry(e, att)
          THEN att' = att + 1 /\ UNCHANGED <<pc, result>>
          ELSE Fail(e) /\ UNCHANGED att
  /\ UNCHANGED <<server, ctxDone, manifest, pos, progress, listed>>

RoundEnds ==
  /\ pc = "segments"
  /\ pos >= manifest.to
  /\ pc' = IF manifest.live THEN "wait" ELSE "close"
  /\ UNCHANGED <<server, result, ctxDone, manifest, pos, att, progress, listed>>

Wait ==
  /\ pc = "wait"
  /\ \/ pc' = "manifest" /\ UNCHANGED result
     \/ ctxDone /\ Fail("ctx")
  /\ UNCHANGED <<server, ctxDone, manifest, pos, att, progress, listed>>

Cancel ==
  /\ MayCancel
  /\ pc # "idle"
  /\ ~ctxDone
  /\ ctxDone' = TRUE
  /\ UNCHANGED <<server, pc, result, manifest, pos, att, progress, listed>>

-----------------------------------------------------------------------------

CallStep ==
  \/ Create \/ FetchManifest \/ FetchManifestFails \/ SkipKnown \/ FetchSegment
  \/ SkipUnavailableSegment \/ FetchSegmentFails \/ RoundEnds \/ Wait
  \/ CloseFile \/ Rename

Next == Start \/ CallStep \/ Cancel \/ Publish \/ EndStream

Spec == Init /\ [][Next]_vars

\* The download is scheduled and its timer fires; the stream need not end.
FairSpec == Spec /\ WF_vars(CallStep)

-----------------------------------------------------------------------------
(* Properties *)

\* Refreshing never writes a segment twice or out of order.
OutputAscends ==
  \A i, j \in DOMAIN output : i < j => output[i] < output[j]

\* Whatever a round found in its manifest is in the file by the end of it, or
\* was skipped and counted; a segment is missing without a trace only if no
\* manifest ever listed it.
ListedIsHandled ==
  (pc \in {"wait", "close", "rename"} \/ result = "ok") =>
    listed = ToSet(output) \cup lost

\* Over the whole download no more segments are skipped than the limit says,
\* and only unavailable ones of a live stream.
SkipBudgetKept ==
  /\ MaxSkipped > 0 => Cardinality(lost) <= MaxSkipped
  /\ ToSet(output) \cap lost = {}

\* What the download remembers: the segments dealt with are those in the file
\* and those skipped, and the sequence number bounds them.
MemoryInv ==
  /\ seen = ToSet(output) \cup lost
  /\ seen \subseteq listed
  /\ \A s \in seen : s <= lastSeq
  /\ result = "none" => skipped = Cardinality(lost)

\* The manifests: each lists on from where the one before it ended, or from
\* behind a gap, but never again what an earlier one had dropped.
ManifestInv ==
  /\ listed \subseteq 0..(manifest.to - 1)
  /\ manifest.from..(manifest.to - 1) \subseteq listed
  /\ lastSeq < manifest.to
  /\ manifest.from <= manifest.to /\ manifest.to <= head
  /\ manifest.from <= Oldest

\* The round: what was listed before the position is dealt with, and so is
\* whatever the sequence number would pass over; between rounds nothing is left.
RoundInv ==
  /\ pc # "idle" => result = "none"
  /\ pc = "segments" =>
       /\ pos \in manifest.from..manifest.to
       /\ \A s \in listed : s < pos \/ s <= lastSeq => s \in seen
  /\ pc # "segments" /\ result = "none" => listed \subseteq seen

\* Where the download is in its manifest and what it has dealt with before.
RefreshInv ==
  /\ TypeOK
  /\ SkipBudgetKept
  /\ OutputAscends
  /\ ListedIsHandled
  /\ MemoryInv
  /\ ManifestInv
  /\ RoundInv

\* Once the stream has ended the download ends too: it notices the end in a
\* later manifest, however many rounds it has made before.
EndIsNoticed == ~live ~> pc = "idle"
=============================================================================
