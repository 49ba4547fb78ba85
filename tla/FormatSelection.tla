-------------------------- MODULE FormatSelection --------------------------
(***************************************************************************)
(* How a download request becomes a choice of formats: the options built   *)
(* from it (client/download_options.go), the formats a request may use     *)
(* (client/pot_filter.go), the selector language (internal/selector) and   *)
(* the choice Download makes with it, SelectFormatsForDownloadOptions      *)
(* (client/format_selection.go).                                           *)
(*                                                                         *)
(* A format is a record [itag, video, audio, sub, height, width, bitrate,  *)
(* fps, ciphered, drm, damaged, protocol, source]; a list of formats is a  *)
(* sequence.  sort.Slice is not stable, so among formats that compare      *)
(* equal any one may come first: a choice is a set of possible answers,    *)
(* empty where the code finds nothing.                                     *)
(*                                                                         *)
(* Strings are not taken apart: Syntax gives for each selector text the    *)
(* groups, tokens and modifiers it splits into at "/", "+" and "[", and    *)
(* Number the texts that are decimal itags.                                *)
(***************************************************************************)
EXTENDS Integers, Sequences, SequencesExt

CONSTANTS
  Syntax,          \* selector text -> sequence of groups of [base, mods]
  Number,          \* format text that is a number -> the number
  FetchPolicies,   \* Config.PoTokenFetchPolicy: protocol -> policy
  ClientPolicies,  \* the registry: source client -> protocol -> policy
  HasProvider      \* Config.PoTokenProvider is set

(***************************************************************************)
(* Data.                                                                   *)
(***************************************************************************)

\* types.FormatInfo, as far as a choice depends on it.
Formats ==
  [itag : Int, video : BOOLEAN, audio : BOOLEAN, sub : STRING, height : Int,
   width : Int, bitrate : Int, fps : Int, ciphered : BOOLEAN, drm : BOOLEAN,
   damaged : BOOLEAN, protocol : STRING, source : STRING]

\* A text splits into groups of at least one stream, and only positive
\* numbers are taken for itags.
ASSUME SelectionAssumption ==
  /\ \A text \in DOMAIN Syntax : LET groups == Syntax[text] IN
       /\ groups \in Seq(ToSet(groups))
       /\ \A group \in ToSet(groups) : group \in Seq(ToSet(group)) \ {<<>>}
  /\ \A text \in DOMAIN Number : Number[text] \in Nat \ {0}

\* The elements of a sequence at the places in I, in their order.
Sublist(s, I) ==
  LET Rank(i) == Cardinality({j \in I : j <= i})
  IN [k \in 1..Cardinality(I) |-> s[CHOOSE i \in I : Rank(i) = k]]

(***************************************************************************)
(* Options.                                                                *)
(***************************************************************************)

\* BuildDownloadOptions: the well-known selectors become modes, a number
\* an itag, anything else is left to the selector language.
Options(itag, mode, selector) ==
  [itag |-> itag, mode |-> mode, selector |-> selector]

WellKnown == {"", "best", "bestvideo+bestaudio", "bestaudio", "audioonly",
              "bestvideo", "videoonly", "mp4", "mp3"}

ModeOf(text) ==
  CASE text \in {"bestaudio", "audioonly"} -> "audioonly"
    [] text \in {"bestvideo", "videoonly"} -> "videoonly"
    [] text = "mp4" -> "mp4av"
    [] text = "mp3" -> "mp3"
    [] OTHER -> "best"

BuildDownloadOptions(req) ==
  LET raw == IF req.extractAudio /\ req.format \in {"", "best"}
             THEN IF req.audioFormat = "mp3" THEN "mp3" ELSE "bestaudio"
             ELSE req.format
      merge == raw = "bestvideo+bestaudio"
  IN IF raw \in WellKnown
       THEN Options(0, ModeOf(raw), IF merge THEN "bestvideo+bestaudio/best" ELSE "")
     ELSE IF raw \in DOMAIN Number THEN Options(Number[raw], "best", "")
     ELSE Options(0, "best", raw)

\* defaultFormatSelector
DefaultSelector(opts) ==
  IF opts.selector # "" THEN opts.selector
  ELSE CASE opts.mode \in {"audioonly", "mp3"} -> "bestaudio/best"
         [] opts.mode = "videoonly" -> "bestvideo"
         [] opts.mode = "mp4videoonly" -> "bestvideo[ext=mp4]"
         [] opts.mode = "mp4av" ->
              "bestvideo[ext=mp4]+bestaudio[ext=m4a]/best[ext=mp4]/best"
         [] OTHER -> "bestvideo+bestaudio/best"

(***************************************************************************)
(* Formats a request may use.                                              *)
(***************************************************************************)

\* protocolFromFormat
ProtocolOf(f) == IF f.protocol \in {"unknown", "dash", "hls"}
                 THEN f.protocol ELSE "https"

\* poTokenFetchPolicyForSourceClient: the caller's override, else what the
\* profile of the source client says (a required token is only a
\* recommendation there), else the default of the protocol.
FetchPolicy(f) ==
  LET protocol == ProtocolOf(f)
      profile == IF f.source \in DOMAIN ClientPolicies
                 THEN ClientPolicies[f.source] ELSE <<>>
  IN IF protocol \in DOMAIN FetchPolicies THEN FetchPolicies[protocol]
     ELSE IF protocol \in DOMAIN profile
       THEN IF profile[protocol] = "never" THEN "never" ELSE "recommended"
     ELSE IF protocol = "unknown" THEN "never" ELSE "recommended"

\* filterFormatsByPoTokenPolicy: what is left of the list.
Allowed(f) == /\ ~f.drm
              /\ ~f.damaged
              /\ FetchPolicy(f) = "required" => HasProvider

Playable(formats) == Sublist(formats, {i \in DOMAIN formats : Allowed(formats[i])})

(***************************************************************************)
(* The selector language.                                                  *)
(***************************************************************************)
Filter(type, value, op) == [type |-> type, value |-> value, op |-> op]

\* parseFilter: the base of a token, by its aliases.
BaseFilter ==
  [t \in {"best", "worst"} |-> Filter("builtin", t, "")] @@
  [t \in {"bestvideo", "bv"} |-> Filter("media", "video", "best")] @@
  [t \in {"worstvideo", "wv"} |-> Filter("media", "video", "worst")] @@
  [t \in {"bestaudio", "ba"} |-> Filter("media", "audio", "best")] @@
  [t \in {"worstaudio", "wa"} |-> Filter("media", "audio", "worst")] @@
  ("videoonly" :> Filter("media", "video", "")) @@
  ("audioonly" :> Filter("media", "audio", "")) @@
  [t \in {"mp4", "webm", "m4a", "mp3"} |-> Filter("ext", t, "")]

\* parseModifier: a modifier [key, op, value].  The extension's operator is
\* not kept.
ModKeys == {"ext", "res", "height", "width", "fps"}

ParseModifier(m) ==
  CASE m.key = "ext" -> Filter("ext", m.value, "")
    [] m.key \in {"res", "height"} -> Filter("res", m.value, m.op)
    [] OTHER -> Filter(m.key, m.value, m.op)

\* Parse: all of the text must be understood.  A token's base is a word, ""
\* when it has only modifiers, and a bare modifier parses like one in
\* brackets.
Parses(text) ==
  /\ text \in DOMAIN Syntax
  /\ \A g \in ToSet(Syntax[text]) : \A token \in ToSet(g) :
       /\ token.base \in DOMAIN BaseFilter \cup {""}
       /\ \A m \in ToSet(token.mods) : m.key \in ModKeys

\* parseStreamSpec
StreamSpec(token) ==
  (IF token.base = "" THEN <<>> ELSE <<BaseFilter[token.base]>>)
    \o [i \in DOMAIN token.mods |-> ParseModifier(token.mods[i])]

\* formatExt
FormatExt(f) == IF f.audio /\ ~f.video /\ f.sub = "mp4" THEN "m4a" ELSE f.sub

CheckOp(a, b, op) ==
  CASE op \in {":", "="} -> a = b
    [] op = "!=" -> a # b
    [] op = "<" -> a < b
    [] op = ">" -> a > b
    [] op = "<=" -> a <= b
    [] op = ">=" -> a >= b

Matches(f, flt) ==
  CASE flt.type = "builtin" -> TRUE
    [] flt.type = "media" -> /\ f.video = (flt.value = "video")
                             /\ f.audio = (flt.value = "audio")
    [] flt.type = "ext" -> FormatExt(f) = flt.value
    [] flt.type = "res" -> CheckOp(f.height, flt.value, flt.op)
    [] flt.type = "width" -> CheckOp(f.width, flt.value, flt.op)
    [] flt.type = "fps" -> CheckOp(f.fps, flt.value, flt.op)

WantsWorst(spec) ==
  \E i \in DOMAIN spec :
    \/ spec[i].type = "builtin" /\ spec[i].value = "worst"
    \/ spec[i].type = "media" /\ spec[i].op = "worst"

TrackRank(f) == IF f.audio /\ f.video THEN 3
                ELSE IF f.video THEN 2 ELSE IF f.audio THEN 1 ELSE 0

\* The first key that differs decides.
Exceeds(a, b) ==
  \E i \in DOMAIN a : a[i] > b[i] /\ \A j \in 1..(i - 1) : a[j] = b[j]

\* sortFormats, by the keys of the list it leaves in descending order.
RankKeys(f) ==
  <<TrackRank(f), f.height * f.width, f.bitrate, f.fps, f.itag>>

\* pickBest
PickBest(formats, spec) ==
  LET candidates == {f \in ToSet(formats) :
                       \A i \in DOMAIN spec : Matches(f, spec[i])}
  IN {f \in candidates : \A g \in candidates :
        ~ IF WantsWorst(spec) THEN Exceeds(RankKeys(f), RankKeys(g))
                              ELSE Exceeds(RankKeys(g), RankKeys(f))}

\* The picks of one merge group; {} when a stream has no format.
GroupPicks(formats, group) ==
  LET picks(i) == PickBest(formats, StreamSpec(group[i]))
      all == UNION {picks(i) : i \in DOMAIN group}
  IN {s \in [DOMAIN group -> all] : \A i \in DOMAIN group : s[i] \in picks(i)}

Satisfiable(formats, text) ==
  {i \in DOMAIN Syntax[text] : GroupPicks(formats, Syntax[text][i]) # {}}

\* Select: the first group all of whose streams have a format.
Select(formats, text) ==
  LET groups == Satisfiable(formats, text)
      first == CHOOSE i \in groups : \A j \in groups : i <= j
  IN IF groups = {} THEN {} ELSE GroupPicks(formats, Syntax[text][first])

Plain(formats) == Sublist(formats, {i \in DOMAIN formats : ~formats[i].ciphered})

Muxed(formats) ==
  Sublist(formats, {i \in DOMAIN formats : formats[i].video /\ formats[i].audio})

(***************************************************************************)
(* The choice.                                                             *)
(***************************************************************************)

\* The first format of a list with an itag, as a set.
WithItag(formats, itag) ==
  {formats[i] : i \in {i \in DOMAIN formats :
     /\ formats[i].itag = itag
     /\ \A j \in 1..(i - 1) : formats[j].itag # itag}}

AlternativesFirst(formats, text, selected) ==
  IF ~selected[1].ciphered THEN {selected}
  ELSE LET alt == Select(Plain(formats), text)
       IN IF alt = {} THEN {selected} ELSE alt

\* SelectFormatsForDownloadOptions: a forced itag, or what the selector
\* picks; a pick with a ciphered format is replaced by the selector's pick
\* among the plain ones if that has as many streams.
Alternatives(formats, text, selected) ==
  LET alt == Select(Plain(formats), text)
  IN IF (\A f \in ToSet(selected) : ~f.ciphered)
          \/ \A a \in alt : Len(a) < Len(selected)
     THEN {selected} ELSE alt

SelectFormats(formats, opts) ==
  LET text == DefaultSelector(opts)
  IN IF opts.itag > 0 THEN {<<f>> : f \in WithItag(formats, opts.itag)}
     ELSE IF ~Parses(text) THEN {}
     ELSE UNION {Alternatives(formats, text, s) : s \in Select(formats, text)}
=============================================================================
