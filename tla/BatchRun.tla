------------------------------- MODULE BatchRun -------------------------------
(***************************************************************************)
(* The command line working through its inputs: run and                    *)
(* processInputsWithExitCode (cmd/ytv1/main.go), processURL                *)
(* (video_workflow.go), processPlaylist and the archive and limit helpers  *)
(* (adapters.go), RunPlaylistItems (client/playlist_run.go) and the        *)
(* download archive on disk (client/download_archive.go).  The operator    *)
(* gives the same command again after it exits or is killed; the archive   *)
(* and the outputs are all that survives.                                  *)
(*                                                                         *)
(* A video is its ID.  Extraction and download are an outcome each, with   *)
(* the exit code classifyExitCode gives an error; what they do is the      *)
(* subject of ClientRace and DownloadWorkflow.  One output per video.      *)
(* Sidecar files, printing and sleeping are an extraction that may fail.   *)
(*                                                                         *)
(* The command line has a muxer (internal/cli/parser.go:1500) and no MP3   *)
(* transcoder: a selection of a video and an audio format is merged, into  *)
(* the output itself whether or not there are part files, and a download   *)
(* as MP3 fails before it opens its output.                                *)
(***************************************************************************)
EXTENDS Integers, Sequences

CONSTANTS
  Videos,     \* video IDs
  Batches,    \* command lines: sequences of inputs
  Options,    \* the options of the command
  ErrorCodes, \* exit codes of the failures that happen, from 1 to 10
  MayTear,    \* the write of an archive line may be cut short
  MaxRuns     \* bound: times the command is given

\* An input names one video, or a playlist with the items selected from it.
Input == [playlist : BOOLEAN, items : Seq(Videos)]

ASSUME BatchAssumption ==
  /\ \A b \in Batches :
       /\ b \in Seq(Input) /\ b # << >>
       /\ \A i \in DOMAIN b : ~b[i].playlist => Len(b[i].items) = 1
  /\ Options \subseteq
       [archive         : BOOLEAN,  \* --download-archive
        breakOnExisting : BOOLEAN,  \* --break-on-existing
        maxDownloads    : Nat,      \* --max-downloads, 0 for no limit
        abortOnError    : BOOLEAN,  \* --abort-on-error
        skipAfterErrors : Nat,      \* --skip-playlist-after-errors
        simulate        : BOOLEAN,  \* a listing or --skip-download run
        forceArchive    : BOOLEAN,  \* --force-write-archive
        noOverwrites    : BOOLEAN,  \* --no-overwrites
        noPostOverwrites : BOOLEAN, \* --no-post-overwrites
        part            : BOOLEAN,  \* no --no-part
        merges          : BOOLEAN]  \* the selection may have to be merged
  /\ ErrorCodes \subseteq 1..10
  /\ MayTear \in BOOLEAN
  /\ MaxRuns \in Nat

VARIABLES
  batch,    \* the inputs, the same at every run
  opts,     \* the options, the same at every run
  lines,    \* the IDs that have an archive line of their own
  tail,     \* what follows the last newline of the archive
  out,      \* the output file of each video
  pc,       \* where the process is
  runs,     \* times the command was given
  ids,      \* DownloadArchive.ids
  count,    \* activeDownloadLimit.Count
  exitCode, \* of the inputs processed so far
  in,       \* index of the input being processed
  item,     \* index of the item of its playlist
  summary,  \* PlaylistRunSummary
  err,      \* what processURL returned for the video
  failed,   \* observer: exit codes of the inputs that failed in this run
  recorded, \* observer: IDs for which Add returned nil, in any run
  lost      \* observer: IDs with a line appended to a fragment, in any run

command == <<batch, opts>>
disk == <<lines, tail, out>>
position == <<in, item, summary>>
observers == <<failed, recorded, lost>>
vars == <<command, disk, pc, runs, ids, count, exitCode, position, err,
          observers>>

-----------------------------------------------------------------------------

Nothing == "nothing"
Fragment == "fragment"   \* part of an ID, no newline

Success == 0
Generic == 1
\* errBreakOnExisting and errMaxDownloadsReached, which are no exit codes.
Break == -1
MaxReached == -2
Cutoffs == {Break, MaxReached}
\* nil is Success; a failure is the exit code it is classified as.
Results == {Success} \cup (1..10) \cup Cutoffs

NoSummary == [succeeded |-> 0, failed |-> 0, skipped |-> 0, aborted |-> FALSE]

Items == batch[in].items
Video == Items[item]
Remaining == Len(Items) - item

-----------------------------------------------------------------------------
(* The archive *)

\* A last line without its newline is scanned like any other.
ArchivedOnDisk == lines \cup (IF tail \in Videos THEN {tail} ELSE {})

AppendsUnterminated(v) ==
  /\ tail' = IF tail = Nothing THEN v ELSE Fragment
  /\ UNCHANGED lines

\* Whatever had no newline becomes the start of the line written after it,
\* which is then no ID.
AppendsLine(v) ==
  /\ lines' = IF tail = Nothing THEN lines \cup {v} ELSE lines
  /\ tail' = Nothing

SkippedByArchive == opts.archive /\ Video \in ids

-----------------------------------------------------------------------------
(* Counting and exit codes *)

LimitOffByOne(n) ==
  IF opts.maxDownloads > 0 /\ n > opts.maxDownloads THEN MaxReached ELSE Success

\* incrementDownloadLimit, the count having become n.
Limit(n) ==
  IF opts.maxDownloads > 0 /\ n >= opts.maxDownloads THEN MaxReached ELSE Success

Counted(n) == IF opts.maxDownloads > 0 THEN n + 1 ELSE n

LatestCode(code) == code

WorstCode(code) == IF code > exitCode THEN code ELSE exitCode

\* The loop over the inputs goes on, or the process exits.
NextInput == /\ pc' = IF in < Len(batch) THEN "input" ELSE "exited"
             /\ in' = IF in < Len(batch) THEN in + 1 ELSE in

\* What processInputsWithExitCode makes of the error of an input.
InputReturns(e) ==
  \/ /\ e = Success
     /\ NextInput
     /\ UNCHANGED <<exitCode, failed>>
  \/ /\ e \in Cutoffs
     /\ pc' = "exited"
     /\ UNCHANGED <<exitCode, failed, in>>
  \/ /\ e \in 1..10
     /\ exitCode' = WorstCode(e)
     /\ failed' = failed \cup {e}
     /\ IF opts.abortOnError THEN pc' = "exited" /\ UNCHANGED in ELSE NextInput

-----------------------------------------------------------------------------
(* One run *)

Init ==
  /\ batch \in Batches
  /\ opts \in Options
  /\ lines = {} /\ tail = Nothing
  /\ out = [v \in Videos |-> "none"]
  /\ pc = "exited"
  /\ runs = 0
  /\ ids = {}
  /\ count = 0
  /\ exitCode = Success
  /\ in = 1 /\ item = 1
  /\ summary = NoSummary
  /\ err = Success
  /\ failed = {} /\ recorded = {} /\ lost = {}

Run ==
  /\ pc \in {"exited", "dead"}
  /\ runs < MaxRuns
  /\ runs' = runs + 1
  /\ ids' = IF opts.archive THEN ArchivedOnDisk ELSE {}
  /\ count' = 0
  /\ exitCode' = Success
  /\ in' = 1 /\ item' = 1
  /\ summary' = NoSummary
  /\ err' = Success
  /\ failed' = {}
  /\ pc' = "input"
  /\ UNCHANGED <<command, disk, recorded, lost>>

\* processURL of an input that names a video.
TakeVideo ==
  /\ pc = "input" /\ ~batch[in].playlist
  /\ item' = 1
  /\ pc' = "archive?"
  /\ UNCHANGED <<command, disk, runs, ids, count, exitCode, in, summary, err,
                 observers>>

\* processPlaylist up to RunPlaylistItems; the selection may be empty.
TakePlaylist ==
  /\ pc = "input" /\ batch[in].playlist
  /\ summary' = NoSummary
  /\ item' = 1
  /\ pc' = IF Items = << >> THEN "playlistDone" ELSE "archive?"
  /\ UNCHANGED <<command, disk, runs, ids, count, exitCode, in, err,
                 observers>>

\* GetPlaylist, the selector or the playlist's sidecar fails.
PlaylistFails ==
  /\ pc = "input" /\ batch[in].playlist
  /\ \E code \in ErrorCodes : InputReturns(code)
  /\ UNCHANGED <<command, disk, runs, ids, count, item, summary, err,
                 recorded, lost>>

Returns(e) == err' = e /\ pc' = "returned"

\* shouldSkipDownloadByArchive and --break-on-existing.
CheckArchive ==
  /\ pc = "archive?"
  /\ IF SkippedByArchive
     THEN Returns(IF opts.breakOnExisting THEN Break ELSE Success)
     ELSE pc' = "extract" /\ UNCHANGED err
  /\ UNCHANGED <<command, disk, runs, ids, count, exitCode, position,
                 observers>>

\* GetVideo and the listings or sidecars that follow it.
Extract ==
  /\ pc = "extract"
  /\ \/ \E code \in ErrorCodes : Returns(code)
     \/ /\ opts.simulate
        /\ IF opts.forceArchive THEN pc' = "record" /\ UNCHANGED err
                                ELSE Returns(Success)
     \/ /\ ~opts.simulate
        /\ pc' = "download" /\ UNCHANGED err
  /\ UNCHANGED <<command, disk, runs, ids, count, exitCode, position,
                 observers>>

\* A file that exists may be taken for a completed download:
\* shouldSkipExistingOutput and shouldSkipExistingPostprocessedOutput.  The
\* latter predicts a merge from the formats before the policy filter, so that
\* it may or may not hold of a selection that may be merged.
MaySkip == opts.noOverwrites \/ (opts.noPostOverwrites /\ opts.merges)

\* Any file there will do.
SkipExistingAnyway ==
  /\ pc = "download" /\ out[Video] # "none"
  /\ pc' = "record"
  /\ UNCHANGED <<command, disk, runs, ids, count, exitCode, position, err,
                 observers>>

SkipExisting ==
  /\ pc = "download" /\ out[Video] # "none" /\ MaySkip
  /\ pc' = "record"
  /\ UNCHANGED <<command, disk, runs, ids, count, exitCode, position, err,
                 observers>>

\* Download begins; what it writes beside its output is not modelled here.
StartDownload ==
  /\ pc = "download" /\ ~(opts.noOverwrites /\ out[Video] # "none")
  /\ pc' = "transfer"
  /\ UNCHANGED <<command, disk, runs, ids, count, exitCode, position, err,
                 observers>>

\* A download may write to the output itself: without part files, and when it
\* merges two tracks, with part files or without.
InPlace == ~opts.part \/ opts.merges

\* The output is opened, and is incomplete until the download is over.
WriteInPlace ==
  /\ pc = "transfer" /\ InPlace
  /\ out' = [out EXCEPT ![Video] = "partial"]
  /\ UNCHANGED <<command, lines, tail, pc, runs, ids, count, exitCode,
                 position, err, observers>>

\* The download ends well, with the rename of a part file where nothing was
\* written in place, and then the mtime is set or is not.
DownloadSucceeds ==
  /\ pc = "transfer"
  /\ out' = [out EXCEPT ![Video] = "whole"]
  /\ \/ pc' = "record" /\ UNCHANGED err
     \/ Returns(Generic)
  /\ UNCHANGED <<command, lines, tail, runs, ids, count, exitCode, position,
                 observers>>

DownloadFailsRecorded ==
  /\ pc = "transfer"
  /\ pc' = "record"
  /\ UNCHANGED <<command, disk, runs, ids, count, exitCode, position, err,
                 observers>>

\* Whatever was written in place is left there.
DownloadFails ==
  /\ pc = "transfer"
  /\ \E code \in ErrorCodes : Returns(code)
  /\ UNCHANGED <<command, disk, runs, ids, count, exitCode, position,
                 observers>>

\* The record made, the limit may say that this was the last download.
Count(n) ==
  /\ count' = Counted(n)
  /\ Returns(Limit(Counted(n)))

\* recordCompletedDownload without an archive, or of an ID it holds.
RecordNothing ==
  /\ pc = "record" /\ (opts.archive => Video \in ids)
  /\ Count(count)
  /\ UNCHANGED <<command, disk, runs, ids, exitCode, position, observers>>

\* Add writes the line ...
WriteLine ==
  /\ pc = "record" /\ opts.archive /\ Video \notin ids
  /\ AppendsLine(Video)
  /\ lost' = IF tail = Nothing THEN lost ELSE lost \cup {Video}
  /\ pc' = "sync"
  /\ UNCHANGED <<command, out, runs, ids, count, exitCode, position, err,
                 failed, recorded>>

\* ... and syncs the file before it remembers the ID.
SyncLine ==
  /\ pc = "sync"
  /\ ids' = ids \cup {Video}
  /\ recorded' = recorded \cup {Video}
  /\ Count(count)
  /\ UNCHANGED <<command, disk, runs, exitCode, position, failed, lost>>

\* The write or the sync fails.
RecordFails ==
  /\ \/ pc = "record" /\ opts.archive /\ Video \notin ids
     \/ pc = "sync"
  /\ Returns(Generic)
  /\ UNCHANGED <<command, disk, runs, ids, count, exitCode, position,
                 observers>>

\* The error of a video is the error of its input.
VideoReturns ==
  /\ pc = "returned" /\ ~batch[in].playlist
  /\ InputReturns(err)
  /\ UNCHANGED <<command, disk, runs, ids, count, item, summary, err,
                 recorded, lost>>

-----------------------------------------------------------------------------
(* RunPlaylistItems *)

ReachedPlaylistFailureThreshold(n) ==
  opts.skipAfterErrors > 0 /\ n >= opts.skipAfterErrors

TallyForgetfully ==
  CASE err = Success -> [summary EXCEPT !.succeeded = @ + 1]
    [] err \in Cutoffs ->
         [summary EXCEPT !.aborted = TRUE, !.skipped = Remaining]
    [] OTHER -> [summary EXCEPT !.failed = @ + 1]

\* The summary after the item's processor returned err.
Tally ==
  LET failing == err \in 1..10
      aborting == \/ err \in Cutoffs
                  \/ failing /\ \/ opts.abortOnError
                                \/ ReachedPlaylistFailureThreshold(
                                     summary.failed + 1)
  IN [succeeded |-> summary.succeeded + (IF err \in {Success, MaxReached} THEN 1 ELSE 0),
      failed    |-> summary.failed + (IF failing THEN 1 ELSE 0),
      skipped   |-> IF aborting THEN Remaining ELSE summary.skipped,
      aborted   |-> aborting]

ItemReturns ==
  /\ pc = "returned" /\ batch[in].playlist
  /\ summary' = Tally
  /\ IF Tally.aborted \/ Remaining = 0
     THEN pc' = "playlistDone" /\ UNCHANGED item
     ELSE pc' = "archive?" /\ item' = item + 1
  /\ UNCHANGED <<command, disk, runs, ids, count, exitCode, in, err,
                 observers>>

\* A cutoff inside the playlist is not an error of the playlist.
PlaylistResult == IF summary.failed > 0 THEN Generic ELSE Success

PlaylistReturns ==
  /\ pc = "playlistDone"
  /\ InputReturns(PlaylistResult)
  /\ UNCHANGED <<command, disk, runs, ids, count, item, summary, err,
                 recorded, lost>>

-----------------------------------------------------------------------------
(* Faults.  The process may be killed at any point.                        *)

Killed == /\ pc \notin {"exited", "dead"}
          /\ pc' = "dead"
          /\ UNCHANGED err

Crash == /\ Killed
         /\ UNCHANGED <<command, disk, runs, ids, count, exitCode, position,
                        observers>>

\* The write of a line is cut short, by a kill or by an error it reports: part
\* of the ID is there, or all of it but the newline.
TearLine ==
  /\ MayTear
  /\ pc = "record" /\ opts.archive /\ Video \notin ids
  /\ tail' \in {Fragment, IF tail = Nothing THEN Video ELSE Fragment}
  /\ Killed \/ Returns(Generic)
  /\ UNCHANGED <<command, lines, out, runs, ids, count, exitCode, position,
                 observers>>

Next ==
  \/ Run \/ TakeVideo \/ TakePlaylist \/ PlaylistFails \/ CheckArchive
  \/ Extract \/ SkipExisting \/ StartDownload \/ WriteInPlace
  \/ DownloadSucceeds \/ DownloadFails \/ RecordNothing \/ WriteLine
  \/ SyncLine \/ RecordFails
  \/ VideoReturns \/ ItemReturns \/ PlaylistReturns \/ Crash \/ TearLine

Spec == Init /\ [][Next]_vars

-----------------------------------------------------------------------------

\* Types of every variable; a cutoff is never an exit code.
TypeOK ==
  /\ batch \in Batches /\ opts \in Options
  /\ lines \subseteq Videos /\ tail \in {Nothing, Fragment} \cup Videos
  /\ out \in [Videos -> {"none", "partial", "whole"}]
  /\ pc \in {"input", "archive?", "extract", "download", "transfer", "record",
             "sync", "returned", "playlistDone", "exited", "dead"}
  /\ runs \in 0..MaxRuns
  /\ ids \subseteq Videos /\ recorded \subseteq Videos /\ lost \subseteq Videos
  /\ count \in Nat
  /\ exitCode \in 0..10 /\ failed \subseteq 1..10
  /\ in \in 1..Len(batch) /\ item \in Nat \ {0}
  /\ summary \in [succeeded : Nat, failed : Nat, skipped : Nat,
                  aborted : BOOLEAN]
  /\ err \in Results

\* The exit code is that of the worst failure among the inputs, and zero
\* exactly when none failed, whatever the order they failed in and wherever
\* the batch was cut off (main.go:104-135).
ExitCodeIsWorst ==
  IF failed = {} THEN exitCode = Success
  ELSE exitCode \in failed /\ \A code \in failed : code <= exitCode

\* RunPlaylistItems accounts for every item of the playlist: the counts add up
\* to the total when it returns, but for the archived item that broke it off
\* (playlist_run.go:41-69).
EveryItemAccounted ==
  pc = "playlistDone" =>
    summary.succeeded + summary.failed + summary.skipped
      + (IF Items # << >> /\ err = Break THEN 1 ELSE 0) = Len(Items)

\* However many playlists swallow the cutoff, an input goes past
\* --max-downloads by one download at the most (adapters.go:734-743).
OverrunIsOnePerInput ==
  opts.maxDownloads > 0 => count < opts.maxDownloads + in

\* The counts of a batch, at every step of it.
CountsAreExact == TypeOK /\ EveryItemAccounted /\ OverrunIsOnePerInput

\* What the archive of a downloading run says is there in full, whatever was
\* interrupted before.  Where nothing is written in place, and no format is
\* merged, that is so of every ID with a line, also if an existing file was
\* taken for granted; where outputs are written in place, of every ID whose
\* record was completed and not lost, but only if no file is taken for granted
\* (video_workflow.go:150-207).  In place and taken for granted, it is not so:
\* see AppendedOnSuccess.
ArchivedIsWhole ==
  ~opts.simulate =>
    /\ ~InPlace => \A v \in lines : out[v] = "whole"
    /\ ~MaySkip => \A v \in recorded \ lost : out[v] = "whole"

\* With the archive in use, no video whose record was completed is downloaded
\* again, in this run or after any crash or restart.  A line that is cut short
\* costs no record but those appended to it (download_archive.go:86-107).
NeverDownloadedAgain ==
  pc = "transfer" /\ opts.archive => Video \notin recorded \ lost

\* What docs/IMPLEMENTATION_PLAN.md:444 says of the archive: a second run
\* skips the items completed before.
RecordedIsFinal ==
  pc = "transfer" /\ opts.archive => Video \notin recorded

\* What docs/IMPLEMENTATION_PLAN.md:58 says of it: an ID is appended on success.
AppendedOnSuccess == ~opts.simulate => \A v \in lines : out[v] = "whole"

\* What docs/IMPLEMENTATION_PLAN.md:875 says of --max-downloads: it stops after
\* that many downloads.
StopsAtLimit == opts.maxDownloads > 0 => count <= opts.maxDownloads
=============================================================================
