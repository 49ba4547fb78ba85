---------------------------- MODULE PlaylistPages ----------------------------
(***************************************************************************)
(* How a playlist becomes the list of videos a run handles: GetPlaylist of *)
(* client/playlist_transcript.go reads the playlist's page and follows     *)
(* continuation tokens that only the server knows, page by page; then      *)
(* processPlaylist of cmd/ytv1/adapters.go numbers the videos, picks those *)
(* the selector names and puts them in order, and hands them to the loop   *)
(* that BatchRun models.                                                   *)
(*                                                                         *)
(* A video is <<page, place>>, the page being the token it came with, so   *)
(* that the same page twice shows as the same video twice.                 *)
(***************************************************************************)
EXTENDS PlaylistSelection

CONSTANTS
  Tokens,      \* continuation tokens the server may name
  NextTokens,  \* what a page may name: sets of tokens
  FirstPage,   \* the playlist's own page
  FirstSizes,  \* how many videos it may list
  Settings,    \* values of PlaylistContinuationMaxRequests
  DefaultMax,  \* bound: stands for its default, 100
  Requests     \* [items, start, end, reverse, random] of the command line

ASSUME PlaylistAssumption ==
  /\ FirstPage \notin Tokens
  /\ NextTokens \subseteq SUBSET Tokens /\ \A next \in NextTokens : IsFiniteSet(next)
  /\ FirstSizes \subseteq Nat
  /\ Settings \subseteq Int
  /\ DefaultMax \in Nat \ {0}
  /\ Requests \subseteq [items : Seq(Parts), start : Int, end : Int,
                          reverse : BOOLEAN, random : BOOLEAN]

VARIABLES
  phase,    \* where processPlaylist is
  setting,  \* PlaylistContinuationMaxRequests
  expired,  \* the request timeout of GetPlaylist has passed
  pending,  \* pendingContinuations
  seen,     \* seenContinuations
  stats,    \* ContinuationStats: requested, succeeded, failed, stopped
  warnings, \* ContinuationWarnings: <<token, reason>>
  videos,   \* Items
  request,  \* the options that choose from it
  chosen,   \* the items to handle: [video, index]
  served    \* history: page -> the tokens it named, of the pages that came

loopVars == <<pending, seen, stats, warnings, served>>
listVars == <<phase, setting, expired, loopVars, videos, request, chosen>>

-----------------------------------------------------------------------------

\* A setting of 0 or less means the default.
MaxRequests == IF setting <= 0 THEN DefaultMax ELSE setting

Numbered(list) == [i \in DOMAIN list |-> [video |-> list[i], index |-> i]]

Failed == "failed"

NoStats == [requested |-> 0, succeeded |-> 0, failed |-> 0, stopped |-> FALSE]

ListInit ==
  /\ phase = "page" /\ setting \in Settings /\ expired = FALSE
  /\ pending = <<>> /\ seen = {} /\ warnings = <<>> /\ stats = NoStats
  /\ videos = <<>> /\ served = <<>>
  /\ request = Open /\ chosen = <<>>

\* The request timeout of withDefaultTimeout covers every page.
Expire ==
  /\ phase \in {"page", "loop"} /\ ~expired
  /\ expired' = TRUE
  /\ UNCHANGED <<phase, setting, loopVars, videos, request, chosen>>

\* The page cannot be fetched, or holds no initial data.
PageFails ==
  /\ phase = "page"
  /\ phase' = Failed
  /\ UNCHANGED <<setting, expired, loopVars, videos, request, chosen>>

\* The page's data is searched with walkAny, which visits the members of an
\* object in no order: its tokens come out in any order.
PageArrives ==
  /\ phase = "page" /\ ~expired
  /\ \E size \in FirstSizes, next \in NextTokens :
       /\ videos' = [i \in 1..size |-> <<FirstPage, i>>]
       /\ pending' \in SetToSeqs(next)
       /\ served' = [page \in {FirstPage} |-> next]
  /\ phase' = "loop"
  /\ UNCHANGED <<setting, expired, seen, stats, warnings, request, chosen>>

-----------------------------------------------------------------------------
(* The loop of GetPlaylist over pendingContinuations.  A token that trims  *)
(* to nothing never gets into it: both searches drop it.                   *)

MoreToAsk == phase = "loop" /\ pending # <<>> /\ stats.requested < MaxRequests

StopAtLimit ==
  /\ phase = "loop" /\ pending # <<>> /\ stats.requested >= MaxRequests
  /\ stats' = [stats EXCEPT !.stopped = TRUE]
  /\ warnings' = Append(warnings, <<Head(pending), "max_requests_reached">>)
  /\ phase' = "listed"
  /\ UNCHANGED <<setting, expired, pending, seen, videos, request, chosen, served>>

\* A duplicate stays at the head.
SkipWithoutPop ==
  /\ MoreToAsk /\ Head(pending) \in seen
  /\ UNCHANGED listVars

\* A token that was asked for since it was put down is only counted, in a
\* statistic nothing reads.
SkipDuplicate ==
  /\ MoreToAsk /\ Head(pending) \in seen
  /\ pending' = Tail(pending)
  /\ UNCHANGED <<phase, setting, expired, seen, stats, warnings, videos, request, chosen, served>>

\* A token is remembered once its page has come.
AskForgetsFailure(outcome) ==
  /\ MoreToAsk /\ Head(pending) \notin seen
  /\ seen' = IF outcome = "failed" THEN seen ELSE seen \cup {Head(pending)}
  /\ stats' = [stats EXCEPT !.requested = @ + 1, ![outcome] = @ + 1]

\* A request is counted when it succeeds.
AskCountsAnswers(outcome) ==
  /\ MoreToAsk /\ Head(pending) \notin seen
  /\ seen' = seen \cup {Head(pending)}
  /\ stats' = [stats EXCEPT
       !.requested = IF outcome = "succeeded" THEN @ + 1 ELSE @, ![outcome] = @ + 1]

\* One pass of the loop that asks for a page.
Ask(outcome) ==
  /\ MoreToAsk /\ Head(pending) \notin seen
  /\ seen' = seen \cup {Head(pending)}
  /\ stats' = [stats EXCEPT !.requested = @ + 1, ![outcome] = @ + 1]

\* An HTTP status other than 200, or any other error: the loop goes on.
BrowseFails ==
  /\ Ask("failed")
  /\ pending' = Tail(pending)
  /\ \E reason \in {"http_status_error", "request_error"} :
       /\ expired => reason = "request_error"
       /\ warnings' = Append(warnings, <<Head(pending), reason>>)
  /\ UNCHANGED <<phase, setting, expired, videos, request, chosen, served>>

\* The page's videos are added as they come, its tokens, in the order of the
\* response, unless they have been asked for already; one that still waits is
\* put down a second time.
BrowseSucceeds ==
  /\ ~expired /\ Ask("succeeded")
  /\ \E next \in NextTokens :
       /\ videos' = Append(videos, <<Head(pending), 1>>)
       /\ \E fresh \in SetToSeqs(next \ seen') : pending' = Tail(pending) \o fresh
       /\ served' = [page \in DOMAIN served \cup {Head(pending)} |->
                       IF page = Head(pending) THEN next ELSE served[page]]
  /\ UNCHANGED <<phase, setting, expired, warnings, request, chosen>>

LoopEnds ==
  /\ phase = "loop" /\ pending = <<>>
  /\ phase' = "listed"
  /\ UNCHANGED <<setting, expired, loopVars, videos, request, chosen>>

-----------------------------------------------------------------------------
(* processPlaylist.                                                        *)

\* What GetPlaylist kept for its loop is gone, and of what it returns the
\* statistics and the warnings are read by nobody.
GetPlaylistReturns ==
  /\ phase = "listed"
  /\ phase' = "returned"
  /\ pending' = <<>> /\ seen' = {} /\ warnings' = <<>> /\ served' = <<>>
  /\ stats' = NoStats
  /\ UNCHANGED <<setting, expired, videos, request, chosen>>

\* The information file of the playlist cannot be written.
SidecarFails ==
  /\ phase = "returned"
  /\ phase' = Failed
  /\ UNCHANGED <<setting, expired, loopVars, videos, request, chosen>>

\* The places are given out after the selection.
SelectThenNumber(r) ==
  LET places == SelectPlaylistItems(SelectorOf(r), Len(videos))
  IN  Numbered([k \in DOMAIN places |-> videos[places[k]]])

\* withPlaylistIndexes, then SelectPlaylistItems.
Select(r) ==
  LET places == SelectPlaylistItems(SelectorOf(r), Len(videos))
  IN  [k \in DOMAIN places |-> Numbered(videos)[places[k]]]

\* A part that is an error ends the whole playlist.
ChooseItems ==
  /\ phase = "returned"
  /\ \E r \in Requests :
       /\ request' = r
       /\ IF \E k \in DOMAIN SelectorOf(r) : Rejects(SelectorOf(r)[k], Len(videos))
          THEN phase' = "rejected" /\ UNCHANGED chosen
          ELSE phase' = "chosen" /\ chosen' \in Orders(Select(r), r)
  /\ UNCHANGED <<setting, expired, loopVars, videos>>

Ended == phase \in {Failed, "rejected", "chosen"} /\ UNCHANGED listVars

ListNext ==
  \/ Expire
  \/ PageFails \/ PageArrives
  \/ StopAtLimit \/ SkipDuplicate \/ BrowseFails \/ BrowseSucceeds \/ LoopEnds
  \/ GetPlaylistReturns \/ SidecarFails \/ ChooseItems
  \/ Ended

ListSpec == ListInit /\ [][ListNext]_listVars

\* One goroutine does all of it.  That a fetch ends at all rests on the HTTP
\* client, and on the request timeout where one is set: there is none by
\* default.
FairSpec == ListSpec /\ WF_listVars(ListNext)

-----------------------------------------------------------------------------
(* Properties.                                                             *)

\* Types of every variable.
ListTypeOK ==
  /\ phase \in {"page", "loop", "listed", "returned", Failed, "rejected", "chosen"}
  /\ setting \in Settings /\ expired \in BOOLEAN
  /\ pending \in Seq(Tokens) /\ seen \subseteq Tokens
  /\ stats \in [requested : 0..MaxRequests, succeeded : 0..MaxRequests,
                failed : 0..MaxRequests, stopped : BOOLEAN]
  /\ warnings \in
       Seq(Tokens \X {"max_requests_reached", "http_status_error", "request_error"})
  /\ videos \in Seq(({FirstPage} \cup Tokens) \X (Nat \ {0}))
  /\ request \in Requests \cup {Open}
  /\ chosen \in Seq([video : ({FirstPage} \cup Tokens) \X (Nat \ {0}), index : Nat \ {0}])
  /\ DOMAIN served \subseteq {FirstPage} \cup Tokens
  /\ \A page \in DOMAIN served : served[page] \subseteq Tokens

Named == UNION {served[page] : page \in DOMAIN served}

\* The places of a list that hold what came with a token, or was said of it.
Of(token, list) == {i \in DOMAIN list : list[i][1] = token}

\* The places of the warnings about a page that did not come.
Failures == {i \in DOMAIN warnings : warnings[i][2] # "max_requests_reached"}

\* Pages asked for, those that failed included, never exceed the setting, and
\* the loop gives up only when it has been used up.
RequestsBounded ==
  /\ phase \in {"loop", "listed"} =>
       Cardinality(DOMAIN served) - 1 + Cardinality(Failures) <= MaxRequests
  /\ stats.stopped => stats.succeeded + stats.failed = MaxRequests

\* The list GetPlaylist returns is the playlist without repetitions: every
\* token some page named has been asked for, once, and left either its page's
\* videos in the list or one warning, unless the limit, and nothing but the
\* limit, cut the loop short.
EveryPageOnce ==
  /\ ListTypeOK
  /\ RequestsBounded
  /\ phase = "listed" =>
       /\ ~stats.stopped => seen = Named
       /\ \A token \in seen :
            Cardinality(Of(token, videos))
              + Cardinality(Failures \cap Of(token, warnings)) = 1
       /\ \A i, j \in DOMAIN videos : videos[i] = videos[j] => i = j

\* The places a part stands for, said without the code's arithmetic: from the
\* first place of the playlist the part reaches, every step-th one.
Denotes(part, total) ==
  LET from == FirstOf(part, total)
      to   == LastOf(part, total)
      step == StepOf(part)
      low  == Larger(from, 1)
      high == Smaller(from, total)
  IN  IF step > 0 THEN {i \in 1..total : i >= low /\ i <= to /\ (i - low) % step = 0}
      ELSE {i \in 1..total : i <= high /\ i >= to /\ (high - i) % (-step) = 0}

\* Whatever the selection and the order, a video is named and counted by its
\* place in the whole playlist.
KeepsItsIndex ==
  \A k \in DOMAIN chosen :
    chosen[k].index \in DOMAIN videos /\ videos[chosen[k].index] = chosen[k].video

\* The run handles the videos the selector's parts stand for, each of them
\* once and under its place in the whole playlist; and a selector is turned
\* down only for a part that is no part or stands for no video of this
\* playlist.
SelectionAsAsked ==
  LET selector == SelectorOf(request)
      total    == Len(videos)
      places   == IF selector = <<>> THEN 1..total
                  ELSE UNION {Denotes(selector[k], total) : k \in DOMAIN selector}
  IN  /\ KeepsItsIndex
      /\ phase = "chosen" =>
           /\ {chosen[k].video : k \in DOMAIN chosen} = {videos[i] : i \in places}
           /\ Len(chosen) = Cardinality(places)
      /\ phase = "rejected" => \E k \in DOMAIN selector :
           \/ 0 \in {selector[k].from, selector[k].to, selector[k].step}
           \/ Denotes(selector[k], total) = {}

\* The listing ends though the tokens come from the server, pages naming one
\* another in a circle included.
ListingEnds == <>(phase \in {Failed, "rejected", "chosen"})
=============================================================================
