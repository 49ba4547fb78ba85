------------------------ MODULE MCDownloadWorkflow -------------------------
(***************************************************************************)
(* A small instance of DownloadWorkflow: plain and ciphered formats of all *)
(* kinds, the built-in selectors and two written out.                      *)
(***************************************************************************)
EXTENDS DownloadWorkflow

Format(itag, tracks, sub, height, ciphered, protocol) ==
  [itag |-> itag, video |-> "v" \in tracks, audio |-> "a" \in tracks,
   sub |-> sub, height |-> height, width |-> height, bitrate |-> itag, fps |-> 30,
   ciphered |-> ciphered, drm |-> FALSE, damaged |-> FALSE,
   protocol |-> protocol, source |-> "web"]

Muxed18 == Format(18, {"v", "a"}, "mp4", 360, FALSE, "https")
Muxed22 == Format(22, {"v", "a"}, "mp4", 720, TRUE, "https")
Muxed43 == Format(43, {"v", "a"}, "webm", 360, TRUE, "https")
Video137 == Format(137, {"v"}, "mp4", 1080, TRUE, "https")
Video248 == Format(248, {"v"}, "webm", 1080, FALSE, "hls")
Audio140 == Format(140, {"a"}, "mp4", 0, TRUE, "https")
Audio256 == Format(256, {"a"}, "mp4", 0, TRUE, "https")
Audio251 == Format(251, {"a"}, "webm", 0, FALSE, "https")

MCCatalogs ==
  {<<Muxed18, Video137, Audio140>>,
   <<Muxed22, Muxed43, Video137, Audio256, Audio251>>,
   <<Video248, Audio251, Audio256, [Muxed18 EXCEPT !.drm = TRUE]>>}

T(base) == [base |-> base, mods |-> <<>>]
Ext(base, ext) == [base |-> base, mods |-> <<[key |-> "ext", op |-> "=", value |-> ext]>>]

MCSyntax ==
  ("best" :> <<<<T("best")>>>>) @@
  ("bestvideo" :> <<<<T("bestvideo")>>>>) @@
  ("bestvideo[ext=mp4]" :> <<<<Ext("bestvideo", "mp4")>>>>) @@
  ("bestaudio/best" :> <<<<T("bestaudio")>>, <<T("best")>>>>) @@
  ("bestvideo+bestaudio/best" :>
     <<<<T("bestvideo"), T("bestaudio")>>, <<T("best")>>>>) @@
  ("bestvideo[ext=mp4]+bestaudio[ext=m4a]/best[ext=mp4]/best" :>
     <<<<Ext("bestvideo", "mp4"), Ext("bestaudio", "m4a")>>,
       <<Ext("best", "mp4")>>, <<T("best")>>>>) @@
  ("worst[height>=720]/wv+wa" :>
     <<<<[base |-> "worst",
          mods |-> <<[key |-> "height", op |-> ">=", value |-> 720]>>]>>,
       <<T("wv"), T("wa")>>>>)

MCNumber == "22" :> 22

MCFetchPolicies == <<>>
MCClientPolicies == "web" :> ("https" :> "required")

\* Requests differ from the command line's defaults in a few flags each.
Default ==
  [cli |-> TRUE, literal |-> FALSE, format |-> "", extractAudio |-> FALSE,
   audioFormat |-> "", resume |-> TRUE, part |-> TRUE, keep |-> FALSE,
   noOverwrites |-> FALSE, noPostOverwrites |-> FALSE]

MCRequests ==
  {Default,
   [Default EXCEPT !.literal = TRUE, !.noOverwrites = TRUE],
   [Default EXCEPT !.literal = TRUE, !.format = "22", !.resume = FALSE],
   [Default EXCEPT !.format = "mp4", !.part = FALSE, !.keep = TRUE],
   [Default EXCEPT !.extractAudio = TRUE, !.audioFormat = "mp3", !.noPostOverwrites = TRUE],
   [Default EXCEPT !.cli = FALSE, !.format = "worst[height>=720]/wv+wa", !.part = FALSE]}
=============================================================================
