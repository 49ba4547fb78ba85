------------------------- MODULE DownloadWorkflow --------------------------
(***************************************************************************)
(* One video through the program: processURL's download part               *)
(* (cmd/ytv1/video_workflow.go) and Client.Download (client/download.go),  *)
(* called again and again over the same directory, with other options,     *)
(* other formats on offer, after failures and after a crash.               *)
(*                                                                         *)
(* The command line predicts the output's name from the formats it would   *)
(* select, may skip a file of that name, and gives the name to Download,   *)
(* which filters and selects for itself.  One selected format is fetched   *)
(* to the output; two are fetched to intermediate files, merged and        *)
(* cleaned up; an unsolved challenge falls back to the muxed formats, one  *)
(* after the other.                                                        *)
(*                                                                         *)
(* A file is the itags its bytes come from and whether it is complete.     *)
(* One media transfer is a single step with the outcomes FileTransfer and  *)
(* the segment modules give it: complete, failed with a prefix on disk,    *)
(* or failed with nothing written.  A prefix is a true prefix: chunked     *)
(* transfers, whose partial files have holes, are left to FileTransfer.    *)
(***************************************************************************)
EXTENDS FormatSelection

CONSTANTS
  Requests,      \* what the user may ask for
  Catalogs,      \* the format lists an extraction may yield
  Muxer,         \* Config.Muxer: "none", "ffmpeg" (deletes its inputs), "other"
  HasTranscoder, \* Config.MP3Transcoder is set
  MayCrash,      \* the process may die in the middle of a call
  MaxCalls       \* bound: calls made over the same directory

ASSUME WorkflowAssumption ==
  /\ Muxer \in {"none", "ffmpeg", "other"}
  /\ HasTranscoder \in BOOLEAN
  /\ MayCrash \in BOOLEAN
  /\ MaxCalls \in Nat
  /\ Catalogs \subseteq Seq(Formats)
  /\ Requests # {}
  /\ Requests \subseteq
       [cli : BOOLEAN, literal : BOOLEAN, format : STRING, extractAudio : BOOLEAN,
        audioFormat : STRING, resume : BOOLEAN, part : BOOLEAN, keep : BOOLEAN,
        noOverwrites : BOOLEAN, noPostOverwrites : BOOLEAN]

VARIABLES
  pc,       \* where the call is
  req,      \* the request of the call
  path,     \* DownloadOptions.OutputPath; NoPath when empty
  formats,  \* Download's formats, after the filter
  sel,      \* the format being fetched, or the video and the audio to merge
  track,    \* which of them is being fetched
  queue,    \* fallback formats not tried yet
  fellBack, \* the call is in downloadFallbackSingle
  done,     \* complete intermediate files with their cleanup deferred
  err,      \* what the strategy being left returned
  files,    \* the directory: path -> content
  result,   \* what the last finished call returned
  recorded, \* what recordCompletedDownload last stood for
  calls,    \* calls made so far
  spared,   \* ghost: intermediates left by a crash, a failed removal or -k
  foreign   \* ghost: the call resumed a file with another format's bytes

locals == <<path, formats, sel, track, queue, fellBack, err>>

vars == <<pc, req, locals, done, files, result, recorded, calls, spared, foreign>>

(***************************************************************************)
(* Files.  A path names its formats (empty for a literal name), says       *)
(* whether it ends in .mp3, of which track and format it is the            *)
(* intermediate file (empty for an output) and whether it is a .part file. *)
(***************************************************************************)
Path(name, mp3) == [name |-> name, mp3 |-> mp3, stage |-> <<>>, part |-> FALSE]

Literal == Path(<<>>, FALSE)

NoPath == Path(<<>>, TRUE)

Itags(s) == [i \in DOMAIN s |-> s[i].itag]

Holds(s, whole) == [of |-> ToSet(Itags(s)), whole |-> whole]

Put(fs, p, content) ==
  [q \in DOMAIN fs \cup {p} |-> IF q = p THEN content ELSE fs[q]]

Without(fs, p) == [q \in DOMAIN fs \ {p} |-> fs[q]]

IsOutput(p) == p.stage = <<>> /\ ~p.part

IsIntermediate(p) == p.stage # <<>> /\ ~p.part

(***************************************************************************)
(* Names.                                                                  *)
(***************************************************************************)
opts == BuildDownloadOptions(req)

\* defaultOutputPath and renderOutputPathTemplate for a single file.
OutputOf(f) ==
  IF path = NoPath THEN Path(<<f.itag>>, opts.mode = "mp3") ELSE path

\* The same for a merged file, and the two intermediate files beside it.
MergedPath == IF path = NoPath THEN Path(Itags(sel), FALSE) ELSE path

Intermediate(i) == [MergedPath EXCEPT !.stage = <<i, sel[i].itag>>]

\* PredictOutputFilename
IsMerged(s) == /\ \E f \in ToSet(s) : f.video /\ ~f.audio
               /\ \E f \in ToSet(s) : f.audio /\ ~f.video

Predicted(r, s) ==
  IF r.literal THEN Literal
  ELSE IF IsMerged(s) THEN Path(Itags(s), FALSE)
  ELSE Path(<<s[1].itag>>, BuildDownloadOptions(r).mode = "mp3")

(***************************************************************************)
(* A call's end.                                                           *)
(***************************************************************************)
NoResult == [err |-> "none", path |-> NoPath, of |-> {}]

\* Between calls the locals of a call are gone.
Forget ==
  /\ path' = NoPath
  /\ formats' = <<>>
  /\ sel' = <<>>
  /\ track' = 1
  /\ queue' = <<>>
  /\ fellBack' = FALSE
  /\ err' = "none"

\* Finish the call; a success of the command line is recorded.
Finish(e, p, itags) ==
  /\ pc' = "idle"
  /\ Forget
  /\ result' = [err |-> e, path |-> p, of |-> itags]
  /\ recorded' = IF e = "none" /\ req.cli THEN [path |-> p, skipped |-> FALSE]
                                          ELSE recorded

\* Leave a strategy: its deferred cleanups run next.
Leave(e) ==
  /\ pc' = "cleanup"
  /\ err' = e
  /\ UNCHANGED <<path, formats, sel, track, queue, fellBack>>

(***************************************************************************)
(* The command line's part.                                                *)
(***************************************************************************)
Init ==
  /\ pc = "idle"
  /\ req = CHOOSE r \in Requests : TRUE
  /\ path = NoPath
  /\ formats = <<>>
  /\ sel = <<>>
  /\ track = 1
  /\ queue = <<>>
  /\ fellBack = FALSE
  /\ err = "none"
  /\ done = <<>>
  /\ files = <<>>
  /\ result = NoResult
  /\ recorded = [path |-> NoPath, skipped |-> FALSE]
  /\ calls = 0
  /\ spared = {}
  /\ foreign = FALSE

\* A caller of the package starts Download with a name or without.
CallDownload(r) ==
  /\ ~r.cli
  /\ path' = IF r.literal THEN Literal ELSE NoPath
  /\ pc' = "download"
  /\ UNCHANGED <<result, recorded>>

\* shouldSkipExistingOutput and shouldSkipExistingPostprocessedOutput
SkipsExisting(r, s, p) ==
  /\ p \in DOMAIN files
  /\ \/ r.noOverwrites
     \/ r.noPostOverwrites
          /\ (BuildDownloadOptions(r).mode = "mp3" \/ IsMerged(s))

\* processURL after GetVideo: the name is predicted from all the formats,
\* unfiltered; a file of that name may be taken for the download's.
ProcessVideo(r, catalog) ==
  LET choices == SelectFormats(catalog, BuildDownloadOptions(r))
  IN /\ r.cli
     /\ \/ /\ choices = {}
           /\ result' = [NoResult EXCEPT !.err = "error"]
           /\ UNCHANGED <<pc, path, recorded>>
        \/ \E s \in choices :
             LET p == Predicted(r, s)
             IN IF SkipsExisting(r, s, p)
                THEN /\ recorded' = [path |-> p, skipped |-> TRUE]
                     /\ result' = NoResult
                     /\ UNCHANGED <<pc, path>>
                ELSE /\ path' = p
                     /\ pc' = "download"
                     /\ UNCHANGED <<result, recorded>>

Begin(r, catalog) ==
  /\ pc = "idle"
  /\ calls < MaxCalls
  /\ calls' = calls + 1
  /\ req' = r
  /\ foreign' = FALSE
  /\ CallDownload(r) \/ ProcessVideo(r, catalog)
  /\ UNCHANGED <<formats, sel, track, queue, fellBack, err, done, files, spared>>

(***************************************************************************)
(* Client.Download.                                                        *)
(***************************************************************************)

\* The video and the audio of a selection, in downloadAndMerge's loop: the
\* first format with video, and the first other one with audio.
MergeTracks(s) ==
  LET vids == {i \in DOMAIN s : s[i].video}
      vid == CHOOSE i \in vids : \A j \in vids : i <= j
      auds == {i \in DOMAIN s : s[i].audio /\ (vids # {} => i # vid)}
      aud == CHOOSE i \in auds : \A j \in auds : i <= j
  IN IF vids = {} \/ auds = {} THEN <<s[1]>> ELSE <<s[vid], s[aud]>>

\* Without a muxer several formats give way to the best single one.
Mergeable(playable, s) ==
  IF Len(s) > 1 /\ Muxer = "none"
  THEN SelectFormats(playable, Options(0, "best", "best")) ELSE {s}

\* Fetch a single format, or the tracks of a merge.
Attempt(s) ==
  /\ sel' = s
  /\ track' = 1
  /\ pc' = "resolve"

\* Download up to the choice of strategy.  The session of the extraction
\* may be gone, and another one yield other formats.
Choose(catalog) ==
  LET playable == Playable(catalog)
      choices == UNION {Mergeable(playable, s) :
                          s \in SelectFormats(playable, opts)}
  IN /\ pc = "download"
     /\ \/ /\ choices = {}
           /\ Finish("error", path, {})
        \/ \E s \in choices :
             /\ formats' = playable
             /\ Attempt(IF Len(s) = 1 THEN s ELSE MergeTracks(s))
             /\ UNCHANGED <<path, queue, fellBack, err, result, recorded>>
     /\ UNCHANGED <<req, done, files, calls, spared, foreign>>

\* GetVideo fails.
NoVideo ==
  /\ pc = "download"
  /\ Finish("error", path, {})
  /\ UNCHANGED <<req, done, files, calls, spared, foreign>>

(***************************************************************************)
(* One format: its URL, then its bytes.                                    *)
(***************************************************************************)
Merging == Len(sel) = 2

Transcoding == ~Merging /\ opts.mode = "mp3"

\* The URL of the format: solved, its challenge not solved, or another
\* error.  An MP3 without a transcoder fails before.
Resolve ==
  /\ pc = "resolve"
  /\ IF Transcoding /\ ~HasTranscoder THEN Leave("error")
     ELSE \/ pc' = "fetch" /\ UNCHANGED locals
          \/ Leave("challenge")
          \/ Leave("error")
  /\ UNCHANGED <<req, done, files, result, recorded, calls, spared, foreign>>

\* Where a transfer writes.
WritePathDirect(p) == IF IsOutput(p) THEN p ELSE [p EXCEPT !.part = req.part]

WritePath(p) == [p EXCEPT !.part = req.part]

\* Only direct transfers resume, whatever format the file there is of: its
\* name does not say.
Resumes(f, p) ==
  req.resume /\ WritePath(p) \in DOMAIN files /\ f.protocol = "https"

TakesForeign(f, p) == Resumes(f, p) /\ files[WritePath(p)].of # {f.itag}

\* The contract of one transfer of f to p: whether it succeeds, and the
\* directory after it.  A resumed one may be answered with the rest, with 416
\* (nothing is missing) or from the start.  The renaming of a complete part
\* file may fail.
Transfers(f, p) ==
  LET w == WritePath(p)
      fresh == Holds(<<f>>, TRUE)
      resumes == Resumes(f, p)
      old == files[w]
      own == old.of = {f.itag}
      appended == [of |-> old.of \cup {f.itag}, whole |-> own]
      complete == IF ~resumes THEN {fresh}
                  ELSE {fresh} \cup (IF own /\ old.whole THEN {} ELSE {appended})
                         \cup (IF own /\ ~old.whole THEN {} ELSE {old})
      partial == {Holds(<<f>>, FALSE)} \cup
                 (IF resumes /\ ~(own /\ old.whole)
                  THEN {[appended EXCEPT !.whole = FALSE]} ELSE {})
      publish(c) == Put(Without(files, w), p, c)
  IN {<<TRUE, publish(c)>> : c \in complete}
       \cup {<<FALSE, Put(files, w, c)>> : c \in partial}
       \cup {<<FALSE, files>>}
       \cup {<<FALSE, Put(files, w, c)>> : c \in IF req.part THEN complete ELSE {}}

TranscodesUnchecked(f, p) ==
  {<<TRUE, Put(files, p, Holds(<<f>>, b))>> : b \in BOOLEAN}

\* transcodeURLToMP3 into the output, created before the first byte.
Transcodes(f, p) ==
  {<<TRUE, Put(files, p, Holds(<<f>>, TRUE))>>,
   <<FALSE, Put(files, p, Holds(<<f>>, FALSE))>>, <<FALSE, files>>}

\* downloadSingle's transfer: a failure of it is never a challenge.
FetchSingle ==
  LET f == sel[1]
      p == OutputOf(f)
  IN /\ pc = "fetch"
     /\ ~Merging
     /\ \E t \in (IF Transcoding THEN Transcodes(f, p) ELSE Transfers(f, p)) :
          /\ files' = t[2]
          /\ Leave(IF t[1] THEN "none" ELSE "error")
     /\ foreign' = (~Transcoding /\ TakesForeign(f, p))
     /\ UNCHANGED <<req, done, result, recorded, calls, spared>>

FetchTrackLate ==
  /\ pc = "fetch"
  /\ Merging
  /\ \E t \in Transfers(sel[track], Intermediate(track)) :
       /\ files' = t[2]
       /\ IF t[1]
          THEN /\ done' = IF track = 2 THEN <<Intermediate(1), Intermediate(2)>> ELSE done
               /\ track' = track + 1
               /\ pc' = IF track = 2 THEN "merge" ELSE "resolve"
               /\ UNCHANGED <<path, formats, sel, queue, fellBack, err>>
          ELSE Leave("error") /\ UNCHANGED done
  /\ UNCHANGED <<req, result, recorded, calls, spared, foreign>>

\* downloadAndMerge fetches its video, then its audio; the cleanup of a
\* file is deferred once it is complete.
FetchTrack ==
  /\ pc = "fetch"
  /\ Merging
  /\ \E t \in Transfers(sel[track], Intermediate(track)) :
       /\ files' = t[2]
       /\ IF t[1]
          THEN /\ done' = Append(done, Intermediate(track))
               /\ track' = track + 1
               /\ pc' = IF track = 2 THEN "merge" ELSE "resolve"
               /\ UNCHANGED <<path, formats, sel, queue, fellBack, err>>
          ELSE Leave("error") /\ UNCHANGED done
  /\ UNCHANGED <<req, result, recorded, calls, spared, foreign>>

\* The muxer writes the output in place; it may fail before or after it has
\* opened it.  FFmpegMuxer removes its inputs when it has succeeded.
Merge ==
  LET inputs == {files[Intermediate(i)] : i \in 1..2}
      output == [of |-> UNION {c.of : c \in inputs},
                 whole |-> \A c \in inputs : c.whole]
      merged == Put(files, MergedPath, output)
  IN /\ pc = "merge"
     /\ \/ /\ files' = IF Muxer = "ffmpeg"
                       THEN Without(Without(merged, Intermediate(1)), Intermediate(2))
                       ELSE merged
           /\ Leave("none")
        \/ /\ files' \in {files, Put(files, MergedPath, [output EXCEPT !.whole = FALSE])}
           /\ Leave("error")
     /\ UNCHANGED <<req, done, result, recorded, calls, spared, foreign>>

(***************************************************************************)
(* Leaving a strategy.                                                     *)
(***************************************************************************)

\* cleanupIntermediateFile, last deferred first; it is kept on request, and
\* the removal may fail.
Cleanup ==
  LET p == Last(done)
  IN /\ pc = "cleanup"
     /\ done # <<>>
     /\ done' = Front(done)
     /\ \/ /\ ~req.keep
           /\ files' = Without(files, p)
           /\ spared' = spared \ {p}
        \/ /\ spared' = spared \cup {p}
           /\ UNCHANGED files
     /\ UNCHANGED <<pc, req, locals, result, recorded, calls, foreign>>

\* downloadFallbackSingle's list: the muxed formats, the plain ones if any.
Fallbacks(fs) ==
  LET candidates == Muxed(fs)
      preferred == Plain(candidates)
  IN IF preferred = <<>> THEN candidates ELSE preferred

FallsBackAlways == err = "challenge"

\* An unsolved challenge of a selection that was not forced has fallbacks.
FallsBack == err = "challenge" /\ opts.itag = 0

Remaining == IF fellBack THEN queue ELSE Fallbacks(formats)

\* The next fallback format is tried.
Fallback ==
  /\ pc = "cleanup"
  /\ done = <<>>
  /\ FallsBack
  /\ Remaining # <<>>
  /\ fellBack' = TRUE
  /\ queue' = Tail(Remaining)
  /\ Attempt(<<Head(Remaining)>>)
  /\ UNCHANGED <<req, path, formats, err, done, files, result, recorded, calls, spared, foreign>>

\* Download returns.
Return ==
  /\ pc = "cleanup"
  /\ done = <<>>
  /\ ~(FallsBack /\ Remaining # <<>>)
  /\ Finish(err, IF Merging THEN MergedPath ELSE OutputOf(sel[1]), ToSet(Itags(sel)))
  /\ UNCHANGED <<req, done, files, calls, spared, foreign>>

\* The process dies; nothing deferred runs.
Crash ==
  /\ MayCrash
  /\ pc # "idle"
  /\ pc' = "idle"
  /\ Forget
  /\ result' = [NoResult EXCEPT !.err = "error"]
  /\ done' = <<>>
  /\ spared' = spared \cup ToSet(done)
  /\ UNCHANGED <<req, files, recorded, calls, foreign>>

Next ==
  \/ \E r \in Requests, catalog \in Catalogs : Begin(r, catalog)
  \/ \E catalog \in Catalogs : Choose(catalog)
  \/ NoVideo \/ Resolve \/ FetchSingle \/ FetchTrack \/ Merge
  \/ Cleanup \/ Fallback \/ Return
  \/ Crash

Spec == Init /\ [][Next]_vars

(***************************************************************************)
(* Properties.                                                             *)
(***************************************************************************)

Contents == [of : SUBSET Int, whole : BOOLEAN]

Errors == {"none", "error", "challenge"}

\* Types of every variable; only files that are there are cleaned up later,
\* but for those a muxer has removed itself.
TypeOK ==
  /\ pc \in {"idle", "download", "resolve", "fetch", "merge", "cleanup"}
  /\ req \in Requests
  /\ IsOutput(path)
  /\ Len(sel) \in 0..2 /\ track \in 1..3
  /\ {sel, queue} \subseteq Seq(ToSet(formats))
  /\ fellBack \in BOOLEAN
  /\ \A p \in DOMAIN files : files[p] \in Contents
  /\ \A p \in ToSet(done) \cup spared : IsIntermediate(p)
  /\ err \in Errors /\ result.err \in Errors
  /\ \/ ToSet(done) \subseteq DOMAIN files
     \/ pc = "cleanup" /\ Muxer = "ffmpeg" /\ err = "none"
  /\ calls \in 0..MaxCalls
  /\ foreign \in BOOLEAN

\* A complete intermediate file outlives its call only when it was to be
\* kept, could not be removed or the process died: whichever of the two
\* transfers or the merge fails, and whatever falls back afterwards, the
\* deferred cleanups of downloadAndMerge have run.
NoStrayIntermediate ==
  pc = "idle" => \A p \in DOMAIN files :
    IsIntermediate(p) /\ files[p].whole => p \in spared

\* What Download reports as complete is the whole of the formats it names,
\* both tracks of a merge among them.  Only the single transfer that found
\* another format's bytes where it resumes may report something else: the name
\* does not tell formats apart and nothing else does.
Complete ==
  LET c == files[result.path]
  IN IF c.of = result.of THEN c.whole ELSE foreign

\* A requested itag is what is downloaded, in spite of the alternatives for
\* ciphered formats, a missing muxer and the fallbacks for challenges.
ForcedItagHonoured == opts.itag # 0 => result.of = {opts.itag}

\* A success is a complete file, of the formats that were asked for.
SuccessIsWhole ==
  /\ TypeOK
  /\ pc = "idle" /\ result.err = "none" /\ result.of # {} =>
       Complete /\ ForcedItagHonoured

\* A ciphered format is tried only where no plain one would do: for some
\* stream of the selector's group there is no plain format, and in the
\* fallback no plain muxed one.
CipheredOnlyIfNeeded ==
  LET plain == Plain(formats)
      texts == {DefaultSelector(opts)} \cup
               (IF Muxer = "none" THEN {"best"} ELSE {})
      picked(text, i) == \E s \in GroupPicks(formats, Syntax[text][i]) :
                            sel \in {s, MergeTracks(s)}
  IN pc \in {"resolve", "fetch"} /\ opts.itag = 0 /\ (\E f \in ToSet(sel) : f.ciphered) =>
       IF fellBack THEN Muxed(plain) = <<>>
       ELSE \E text \in texts : \E i \in DOMAIN Syntax[text] :
              picked(text, i) /\ GroupPicks(plain, Syntax[text][i]) = {}

\* With part files an output changes only into a complete file, whatever
\* fails or dies on the way; a merge and a transcoder write in place, and a
\* transfer that resumes another format's bytes may publish them.
OutputsAppearWhole ==
  [][\A p \in DOMAIN files' :
       IsOutput(p) /\ (p \in DOMAIN files => files'[p] # files[p]) =>
         \/ files'[p].whole
         \/ ~req.part
         \/ pc = "merge"
         \/ Transcoding
         \/ TakesForeign(sel[1], p) /\ files'[p].of # {sel[1].itag}]_vars
=============================================================================
