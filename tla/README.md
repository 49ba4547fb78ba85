# ytv1 in TLA+

Specifications of the concurrent and failure-prone parts of `ytv1` (a Go
client and command line for extracting and downloading videos), TLC
configurations that check them on small instances, and TLAPS proofs of the
results that matter most. Paths are relative to the repository; every
definition that models code is listed with its lines in `PROJECT.json` (`map`).

    tlc -config FileTransfer_single.cfg FileTransfer.tla   # one check
    tlapm FileTransferProofs.tla                           # one set of proofs

## 1. The system

One process. `cmd/ytv1` works through its inputs one after another; concurrency
exists inside a call: goroutines per Innertube client, per chunk, per segment,
and, for users of the `client` package, several callers of one `Client`.

    cmd/ytv1 (batch, archive) -> client.Client.GetVideo / Download
       GetVideo  -> orchestrator.Engine.GetVideoInfo (race of clients)
                      -> innertube requests, watch page data, PO tokens
                 -> challenge priming (player JS) -> session cache
       Download  -> ResolveStreamURL (session cache, challenge cache)
                 -> direct transfer | HLS | DASH -> merge -> muxer

| Component | State | Operations | What is hard | What makes it correct |
| --- | --- | --- | --- | --- |
| Direct transfer (`client/download.go` 427-1224) | output and `.part` file, retry counters, one goroutine and offset per chunk, error slot, semaphore | append, chunked download, full rewrite, rename | interleaved chunk writes, truncation and retry, crash and resume, cancellation | a success is the whole media; what is left for a resume is a prefix; publication is atomic; the cause of a failure is what is reported |
| Client race (`internal/orchestrator/engine.go`) | result channel, pending map, next order, attempts | launch, hedge, token, fetch with retries, deliver, commit, fall back | out-of-order results, hedging, timeouts, goroutines that outlive the call | the winner is deterministic; fallback is a last resort; failures are reported completely; nothing blocks |
| Segment downloaders (`internal/downloader`) | item per segment, semaphore; lastSeq, seen, skipped for live streams | fetch, retry, join, write; refresh, skip | out-of-order arrival, sliding windows, skip budget, cancellation | order and completeness; nothing twice; the end is noticed |
| Session cache (`client/client.go` 517-664) | map of sessions under a mutex | getSession, putSession, evictions, ensureSession, ensureSessionPlayerURL | a clock read outside the lock, eviction between two steps of one call, refreshing | size bound, age bound, LRU order |
| Batch and archive (`cmd/ytv1`, `client/playlist_run.go`, `client/download_archive.go`) | exit code, download count, summaries, archive on disk and in memory, outputs | process inputs, run playlists, skip, download, record, cut off | kills and reruns, torn archive lines, options that interact, cutoffs inside playlists | worst exit code, complete summaries, limit, archived means complete and stays archived |
| Download workflow and merge (`client/download.go` 56-361, `cmd/ytv1/video_workflow.go` 143-249) | the directory: outputs, intermediate and part files | predict a name, skip, choose, resolve, fetch, merge, fall back, clean up | one of several steps failing; names that do not tell formats apart; reruns with other options | intermediates removed or kept as documented; a success is the complete file of the formats asked for |
| Format selection (`client/format_selection.go`, `pot_filter.go`, `internal/selector`) | none | filter by policy, parse, rank, pick, replace ciphered picks | precedence between rules that each make sense alone | ciphered formats are a last resort; a forced itag is honoured |
| Challenge cache and solver (`client/challenge_cache.go`, `internal/challenge/solver.go`) | solutions per player with an age | prime, look up, decode, store, evict | expiry between two passes over the same cache, callers that share it, providers that fail | no expired solution; the verdict of a priming is true |
| Player JS (`internal/playerjs`) | cache of scripts | find the player's URL, fetch from several locations, cache, run in an interpreter | two caches keyed differently; the bound | a script is that of its player; oldest first |
| Watch page data (`internal/innertube/apikey.go`) | entry per client: API key, visitor data, timestamp | four resolutions, fetch of page and script, store | concurrent fetches of one client; failed ones store something too | an entry is of its own client and final |
| Playlists (`client/playlist_transcript.go`, `playlist_selection.go`, `playlist_order.go`) | pending and seen tokens, within one call | continuation loop, selection, numbering, order | tokens from the server, ranges at the boundaries | termination, each page once, the items asked for |
| Subtitles, transcripts, options, names of output, small helpers | none | pure functions | precedence rules | |

Components interact by calls and errors only, except for three kinds of shared
state: the files on disk (transfers of consecutive runs, the archive), the
caches of one `Client` (several callers), and contexts, by which one goroutine
stops others. These are the places the modules concentrate on. `PROJECT.json`
lists, under `hazards`, each spot that is hard to test, with the properties
that cover it or the reason why none does.

## 2. Modules

| Module | Models | Checked in | Proved in |
| --- | --- | --- | --- |
| `FileTransfer` | direct transfer: `downloadURLToPathWithHeadersAndPart` and all below it | `transfer_*` | `FileTransferProofs` |
| `AtomicPublish` | what a transfer into a part file promises: the output path holds old content or the whole new one, changes in one step, and is whole when success is reported | as a property | `FileTransferProofs` |
| `ClientRace` | `GetVideoInfo`, `tryPhase`, `fetch`, `applyPoToken` | `race` | `ClientRaceProofs` |
| `SegmentPool` | `downloadDASH` with `downloadSegmentsConcurrent` | `pool` | `SegmentPoolProofs` |
| `SegmentRefresh` | `HLSDownloader.Download` in `downloadHLS`, `DASHDownloader.Download` for dynamic manifests | `refresh` | `SegmentRefreshProofs` |
| `SessionCache`, `MCSessionCache` | sessions of one `Client` under concurrent callers | `sessions` | `ClientCacheProofs` |
| `ChallengeCache`, `MCChallengeCache` | `primeChallengeSolutions`, the batch solver over a chain of providers, the decoding of one challenge, `GetPlayerURL`, `GetPlayerJS`, the caches of solutions and scripts | `challenges` | `ChallengeCacheProofs` |
| `WatchData`, `MCWatchData` | `APIKeyResolver` under the goroutines of the client race | `watch` | `ClientCacheProofs` |
| `FormatSelection` | `BuildDownloadOptions`, the policy filter, the selector language, `SelectFormatsForDownloadOptions`, as functions | with `download` | `DownloadWorkflowProofs` |
| `DownloadWorkflow`, `MCDownloadWorkflow` | the download part of `processURL`, `Client.Download` with `downloadSingle`, `downloadAndMerge`, `downloadFallbackSingle`, over several calls | `download` | `DownloadWorkflowProofs` |
| `PlaylistSelection` | `SelectPlaylistItems` and the ranges of its selectors, `OrderPlaylistItems`, as functions | with `playlist` | `PlaylistRunProofs` |
| `PlaylistPages`, `MCPlaylistPages` | `GetPlaylist` and what `processPlaylist` does with the list | `playlist` | `PlaylistRunProofs` |
| `BatchRun`, `MCBatchRun` | `run`, `processURL`, `processPlaylist`, `RunPlaylistItems`, `DownloadArchive`, over several runs | `batch_*` | `PlaylistRunProofs` |

How the modules fit together: `FileTransfer`, `SegmentPool` and
`SegmentRefresh` each model one transfer down to its bytes, and the first two
are shown to implement `AtomicPublish`. `DownloadWorkflow` uses a transfer as one step
with the outcomes they give it (complete; failed, with a prefix where it was
writing or nothing), and `BatchRun` uses a download the same way.
`DownloadWorkflow` extends `FormatSelection` and `PlaylistPages` extends
`PlaylistSelection` with the functions they call; the list `PlaylistPages` ends with is
the `Items` of `BatchRun`. `WatchData` is what the goroutines of
`ClientRace` do before their request; `ChallengeCache` and `SessionCache` are
the two caches a `Client` consults when it resolves a stream.

How the models relate to the code:

**FileTransfer.** A file is its size and the set of offsets that hold the
media's own byte, so a hole, a shifted byte and a foreign byte are all "not
good". `pc` is the place of the calling goroutine: `open`, `append`,
`appendBody` (downloadURLRangeAppend); `probe`, `preallocate`, `chunks`
(downloadURLChunked); `create`, `rewrite`, `rewriteRequest`, `rewriteBody`
(downloadURLFullRewrite); `rename`, `renamed`. Chunk goroutines have `cst`, `cpos`, `catt`;
`failure` is the one-slot `errCh` and `cancelled` the effect of `cancel()`, two steps of
a goroutine that failed (`ChunkFail`, `CancelSiblings`) between which others run. A
`Crash` loses everything but the files; `Start` is the next call over them. An
absent file and an empty one coincide because no branch distinguishes them.
The server is honest: bodies match their ranges, 416 is sent only past the end.

**ClientRace.** Clients are numbered in selector order, primary before fallback.
Each goroutine is `hedge` (timer), `ready`, `fetching`, `sending` or `gone`.
The buffered channel is a set, as its reader puts everything into a map.
Requests and responses are outcomes, in the classes that
`shouldRunFallbackPhase` and `isRetryableMetadataError` distinguish.

**SegmentPool, SegmentRefresh.** A file is the sequence of segment numbers
appended to it. In the pool `item` is the slice `out` of results, whose zero
value is also what a goroutine leaves that never got a slot. In the refresh
loop the server publishes, drops and ends at any time between two steps.

**SessionCache.** A critical section is one step. `Stamp` and `PutSession` are
two, because putSession reads the clock before it takes the lock. `born` is a
history of when a session was first stamped.

**ChallengeCache.** A URL is a player and a location; `Canonical` is the key of
the solutions, `ScriptKey` that of the scripts. A response is a set of streams
that need `n`, `sig` or both; running a script is knowing which of them the
player's script solves. Every lock is one step, every fetch, decoding and
clock tick another, so expiry and other callers fall between the two passes of a priming.

**WatchData.** A goroutine goes through its four resolutions in the order of
`tryPhase` and `fetch`: visitor data, signature timestamp, API key, and for
clients with cookies the auth context. Each reads the cache (`get`), fetches
(`page`, `script`) and stores (`set`) in separate steps, as the code does
without holding the lock. What is in a page is reduced to whether it has
each of the parts, and where it came from. A client's page is chosen by the
prefix of its ID (`EmbeddedIDs`, `TVIDs`), as in `watchPageURLForProfile`.

**FormatSelection, DownloadWorkflow.** `sort.Slice` is not stable, so a choice
is a set of possible answers. Texts of selectors are given already split, by
the constant `Syntax`. A file is the itags its bytes come from and whether it is
complete; `foreign` is an observer that says whether the transfer of this call found
another format's bytes where it resumed. A path is the formats its name tells (none for a literal name), its
extension where that matters, `.part`, and its stage: empty for an output,
track and itag for an intermediate file. `done` is the stack of deferred cleanups. A download may find other formats than the
command line predicted the name from, because the session may be gone.

**PlaylistSelection, PlaylistPages.** A video is its page's token and its place
there, so a page that is listed twice shows. A page names a set of tokens, which
come in any order because `walkAny` ranges over maps. `served` is a history of what
pages named. `PlaylistSelection` follows the code's arithmetic on ranges, while
`Denotes`, the reference it is checked against, is written without it. The loop of
`SelectPlaylistItems` is stated by what it keeps: of the places its parts name,
in the order of the loop (`Earlier`), those that exist and were not named before
(`Picked`, `InOrder`).

**BatchRun.** The workflow of one process, killed anywhere and started again
with the same command. The archive is the set of complete lines plus what
follows the last newline. Extraction and download are outcomes here (their
insides are the other modules), but where a download writes its output in place
is told: without part files, and in a merge, with part files or without, because
the muxer is given the output path itself (`download.go:349`, `muxer/ffmpeg.go:100-101`).
There the output is incomplete (`WriteInPlace`) until the download ends well, and stays so
after a failure or a kill. The command line has a muxer always (`parser.go:1500`) and
an MP3 transcoder never, so that MP3 fails before its output is opened. `SkipExisting` is
either of the two skips that take an existing file for a download, `--no-overwrites` and
`--no-post-overwrites`. `recorded` and `lost` are observers: the IDs for which `Add` returned
nil, and those whose line was appended to a fragment.

## 3. What is checked

Every run ends within a minute and a half.

| Run | Shows | Bounds, and why they suffice |
| --- | --- | --- |
| `transfer_single` | `ResumablePrefix`, `ResumedBytesKept`, and `PublishesAtomically` (refinement of AtomicPublish, so a success is whole) for resumable single-stream transfers with crash and cancellation | 3 bytes, 1 retry, 3 calls: a prefix, a middle and an end; interrupt, resume, interrupt again |
| `transfer_chunked` | `WholeUnlessCancelled`: parallel chunks leave no hole behind a success unless the context has ended; `RootCauseReported`: a stopped sibling's context error never hides the cause; `CallReturns` under fairness | 5 bytes in chunks of 2: a short last chunk; 3 chunks on 2 slots so that one waits; 1 retry, 1 call (a call without resume truncates what an earlier one left; the proofs cover any number of calls) |
| `transfer_cancel` | a counterexample, see section 5 | |
| `race` | `WinnerIsFirst`, `FallbackIsLastResort`, `FailureReportComplete` (in order and without a gap after a timeout too, complete without one), `CallReturns`, `NoGoroutineLeak` | 3 primary clients (two results can overtake the first), 1 fallback, 1 retry |
| `pool` | `PoolInv` (types, `WholeOnSuccess`, `OrderKept`, and why a zero item is there), `FailureHasCause`: behind a stopped sibling's context error is a later segment's final failure, `PublishesAtomically`, `CallReturns` | 4 segments on 2 slots, 1 retry: two wait, two fetch |
| `refresh` | `OutputAscends`, `ListedIsHandled`, `RefreshInv` (with `SkipBudgetKept`), `EndIsNoticed` | 4 segments, a window of 2: segments leave before they are fetched; 1 skip allowed |
| `sessions` | `CacheInv` (the bound), `ServedWithinTTL`, `LeavesByAgeOrUse` | 2 callers with 2 calls, 3 videos, 2 entries, TTL of 1 in 4 ticks: overflow, expiry and refresh all overlap. Threads and videos are interchangeable, hence the symmetry |
| `challenges` | `SolutionsOfPlayer`: entries and scripts belong to their player; `SolutionNeverStale`; `VerdictIsTrue`: success, partial success and failure each mean what a caller may rely on, and what the solver was asked for is never reported wrongly, clock or no clock; `EvictsOldestFirst` | 2 callers, 2 calls in all, players with localised and canonical locations, 2 cached scripts, both TTLs (solutions and scripts) 1 in 2 ticks: one caller primes while the other's solutions expire or are stored |
| `watch` | `FromOwnPage` (with `OneGoodPage`), `KeylessOnlyOnFailure`, `SettledForGood` | 2 goroutines, 4 requests: two racing over an empty cache and two over what those left; 3 clients that share a host, one of each prefix family, with and without a key of their own, with and without cookies |
| `download` | `NoStrayIntermediate`, `SuccessIsWhole` (with `ForcedItagHonoured`), `CipheredOnlyIfNeeded`, `OutputsAppearWhole` | 2 calls: whatever one leaves, the other meets; 6 kinds of requests that differ in name, format, resume, part files and skips; 3 lists of formats: plain and ciphered, muxed and not, HLS, one with DRM |
| `playlist` | `EveryPageOnce` (with `RequestsBounded`), `SelectionAsAsked` (with `KeepsItsIndex`), `ListingEnds` | 3 tokens, pages that name up to 2, themselves and each other included, limits of 2 and 3 requests; lists of 0 to 5 videos under every kind of bound and step |
| `batch_rerun` | `ExitCodeIsWorst`, `CountsAreExact` (`EveryItemAccounted`, `OverrunIsOnePerInput`), `ArchivedIsWhole`, `NeverDownloadedAgain` under every combination of options, merges and both skips included | 2 videos that inputs repeat, 2 inputs, playlists of 0 to 2 items, 2 error codes, 2 runs: a rerun after every possible kill |

The type invariant of a module is a conjunct of one of the invariants above;
those of FileTransfer, ClientRace and BatchRun are proved instead (section 4), as are
`TransferInv` and `RaceInv`. An inductive invariant that a proof module adds to
those of its component was checked by TLC on the component's run too.

**Fairness.** Only the runs with liveness use it, as weak fairness of the
program's own steps: goroutines are scheduled, timers fire, and a request
is answered or fails (the HTTP client's timeouts and the context see to that).
In ClientRace it is stated per goroutine; in the other modules it covers the
call as a whole, which is enough because every step of a call is
progress (retries are bounded, and a refresh round ends). In PlaylistPages that
a fetch ends rests on the HTTP client, and on the request timeout where one is
configured: by default there is none. Nothing is assumed of the
environment: no cancellation, no crash, no publication has to happen, and the
operator need not start another call. In `EndIsNoticed` the end of the stream
is the antecedent, not an assumption.

**Deadlock** is checked in `playlist`, whose end is a step of its own (`Ended`).
In the other runs the check is off: a finished call, an exited process or a thread at
its bound of calls stops; that nothing stops earlier is what `CallReturns`,
`NoGoroutineLeak` and `EndIsNoticed` say.

## 4. What is proved

Eight modules of proofs; `ClientCacheProofs` (SessionCache and WatchData) and
`PlaylistRunProofs` (BatchRun and PlaylistPages) cover two components each. Each
theorem holds for every value of the constants: for any number of goroutines,
callers, segments, runs, formats, pages or entries, of which the runs check two or three. The theorems, by module:

| Module | Theorems (the property of a run that each states) |
| --- | --- |
| `FileTransferProofs` | `TypeCorrect`, `TransferInvariant`, `SuccessIsWhole` (`WholeUnlessCancelled`), `SoundSuccess`, `AlwaysResumable` (`ResumablePrefix`), `AppendKeepsBytes` (`ResumedBytesKept`), `CauseIsReported` (`RootCauseReported`), `PublishIsAtomic` (`PublishesAtomically`) |
| `ClientRaceProofs` | `TypeCorrect`, `RaceInvariant`, `DeterministicWinner` (`WinnerIsFirst`), `CompleteFailureReport` (`FailureReportComplete`), `FallbackNeverOvertakes` (`FallbackIsLastResort`) |
| `SegmentPoolProofs` | `TypeCorrect`, `PoolInvariant` (`PoolInv`), `SuccessIsWhole`, `ContextErrorHasCause` (`FailureHasCause`), `PublishIsAtomic` (`PublishesAtomically`) |
| `SegmentRefreshProofs` | `RefreshInvariant` (`RefreshInv`), `NeverTwice` (`OutputAscends`), `NothingListedIsMissed` (`ListedIsHandled`) |
| `ClientCacheProofs` | SessionCache: `TypeCorrect`, `CacheInvariant` (`CacheInv`), `NeverServedStale` (`ServedWithinTTL`), `OnlyOldOrLeastUsedLeave` (`LeavesByAgeOrUse`); WatchData: `OwnPagesOnly` (`FromOwnPage`), `EntriesSettle` (`SettledForGood`), `KeylessNeedsFailure` (`KeylessOnlyOnFailure`) |
| `ChallengeCacheProofs` | `CacheInvariant`, `OwnSolutions` (`SolutionsOfPlayer`), `NeverServedStale` (`SolutionNeverStale`), `OldestLeavesFirst` (`EvictsOldestFirst`), `VerdictsAreTrue` (`VerdictIsTrue`) |
| `DownloadWorkflowProofs` | `WorkflowInvariant`, `NoIntermediateLeft` (`NoStrayIntermediate`), `SuccessesAreWhole` (`SuccessIsWhole`), `CipheredFormatsNeeded` (`CipheredOnlyIfNeeded`), `OutputsAppear` (`OutputsAppearWhole`) |
| `PlaylistRunProofs` | BatchRun: `TypeCorrect`, `ItemsInOrder`, `WorstCodeWins` (`ExitCodeIsWorst`), `ExactCounts` (`CountsAreExact`), `ArchivedOutputs` (`ArchivedIsWhole`), `NoSecondDownload` (`NeverDownloadedAgain`); PlaylistPages: `PagesInvariant`, `PagesListedOnce` (`EveryPageOnce`), `ChosenAsAsked` (`SelectionAsAsked`) |

All follow one line: an inductive invariant is shown to hold initially and to
survive every action, one step of the proof per action; an invariant of a run
is a consequence of it, an action property is shown of every step taken from a
state in which it holds, and a refinement by a step simulation. What makes
each invariant inductive:

**FileTransfer.** `WholeUnlessCancelled` needs to know that the file is a prefix
while appending (`AppendInv`: the append begins where the file ended), that a
rewrite starts from nothing (`RewriteInv`), what each chunk has written up to
its offset, that a chunk that gave up has left a reason in `errCh`, and that one
that never started was cancelled (`ChunkInv`), and that a file about to be renamed
is whole but after a cancellation (`CallInv`). `TransferInv` is their
conjunction. The heart of the chunk proof is that the chunks' ranges cover
`0..Total-1` and that no write undoes another. `CauseIsReported` has an
invariant of its own (`CauseInv`): the siblings are cancelled only once the
slot of `errCh` is taken.

The hypotheses are conditions on the configuration. `StartsOver` (chunks exclude
resuming) and, for `SoundSuccess` and `PublishIsAtomic`, `SoundConfiguration`
(they exclude cancellation too) cannot be dropped: `transfer_cancel` and
`FileTransfer_resume.cfg` (section 5) are configurations without them.
`PublishIsAtomic` asks for part files as well, and `AlwaysResumable` for
calls without chunks, whose file may be continued only if something of ours
was there (`Resume` or part files). The rename and the return are two steps, so a kill
between them is a state: `GiveUp` of AtomicPublish with the file replaced.

**ClientRace.** `RaceInv` adds that a result in the channel or the map belongs
to a goroutine that is gone (`GoroutineInv`), that outside its phase a client
is untouched or gone (`PhaseInv`), and that the attempts are those of all clients
below the next order, which failed, but in a fallback phase begun after the timeout,
where nobody is asked any more, while without a timeout nothing finished above it is lost
(`CommitInv`).

**SegmentPool.** That a success is whole rests on what has been written at each
moment (`WrittenSoFar`: nothing from the position on; and everything before it
if no item is missing) and on why an item can be missing (`WorkersInv`: the
pool or its caller gave up, and the pool only because an attempt failed).

**SegmentRefresh.** `MemoryInv` ties what the loop remembers to what it wrote or
skipped, `ManifestInv` says how successive windows lie, and `RoundInv` what is
behind the position and behind `lastSeq`. The last is what makes skipping by
sequence number sound: nothing listed is behind it that has not been dealt with.

**SessionCache.** The age that is compared is that of the first stamp
(`AgesInv`), although putSession stamps outside the lock and other threads
replace entries in between. The LRU property follows from what a store does to
the map, whatever the victims.

**ChallengeCache.** `CallInv` says of each call that it asks for one player at
locations of that player, so that what it loads, decodes and stores is of
the entry it stores it in, although scripts and solutions are kept under
different keys. `VerdictIsTrue` needs `PrimingInv`: in each phase of a priming every
challenge of the response is asked for or cached (unless the clock has moved
since), once a script was loaded whatever can be decoded is decoded, and what was
reported as failed is beyond the player, or was not asked for and the clock has moved. Other callers only add to the cache
while the clock stands, which is why they cannot disturb it.

**WatchData.** `FetchInv` says what a goroutine's unfinished fetch holds, and
`OwnData` that it comes from its own page; clients that share a host are told
apart by the cache key alone, which is where the injectivity of `CacheKey`
on clients is used.

**BatchRun.** `ItemInv` relates the place in a playlist to its summary, `LimitInv`
the count of downloads to the place in the batch, `OutputInv` what is
recorded to what is on disk, and `ArchiveInv` what has been recorded and not `lost` to the
archive's lines and the running process's copy of them. `ArchivedOutputs` has two halves:
where nothing is written in place, an existing output is complete, so that a skip may rely
on it; where no file is taken for granted, a record follows a download of its own, and a video
that is recorded is not downloaded, nor its output opened, again.

**DownloadWorkflow.** `WorkflowInv` says what each file can hold and whose it is.
An intermediate file's name tells its format, so whatever was left under that
name, and resumed, is of that format (`FilesInv`); the output's name need not tell, which is
why `SuccessIsWhole` excepts the single transfer that found other bytes where it resumed (`foreign`). What is being fetched comes from the
filtered list, a forced itag by itself and a fallback from the single-file formats
(`SelectionInv`, from lemmas about the parser and the sorts: whatever they return
is a sublist of what they were given). The deferred cleanups are those of the
tracks fetched so far, in their order, and those files are there and complete
until the merge (`TracksInv`); hence a complete intermediate file is either about
to be removed or one that a crash, a failed removal or `-k` has spared (`StrayInv`). A strategy
that ends without an error has put the formats it chose at its target (`OutputInv`).

**PlaylistPages.** In `LoopInv` the counters of the loop are those of its lists:
per token, videos of its page and warnings that it failed add up to one if it was asked for
and to none before, and the tokens named so far are those asked for or
waiting. `BoundsInv` says that only the limit or an empty list ends
the loop. `ChosenAsAsked` has no induction in it but arithmetic: the numbers of a range
that the code computes are those `Denotes` describes by their remainder, in the
same direction (`StepsUp`, `StepsDown`, from facts about division), and they are no
error unless they denote nothing. The places named are ranked by the loop's order, which is
total, so the picked ones form a list without repetition whose order is that of
the first mentions (`InOrderLists`, `FirstMention`); each order of the
list keeps its items and their numbers (`OrdersKeep`).

The assumptions are the modules' `ASSUME`s: types and signs of the constants,
and what the callers guarantee: a batch is not empty and an input that is no
playlist has one item (`BatchAssumption`); splitting a selector's text yields
no empty list, and a number that parses as an itag is positive (`SelectionAssumption`);
catalogs and requests have the fields and types of the code (`WorkflowAssumption`);
a page names finitely many tokens, none of which is the first page
(`PlaylistAssumption`), and an open bound is no number (`OpenAssumption`); client IDs are unique and hosts not empty
(`WatchAssumption`); the scripts cached to begin with fit the cache, and the
locales include those the code knows (`ChallengeAssumption`). `StringLiterals`
(WatchData) says that six string constants are strings, which TLC evaluates and
the provers must be told.

Only model-checked: all liveness (`CallReturns`, `NoGoroutineLeak`,
`EndIsNoticed`, `ListingEnds`), which is outside the prover's reach. Every
safety invariant and action property of a run is proved. What the proofs of
DownloadWorkflow leave to TLC is the meaning of a selector: they show that a
choice comes from the formats it was given and keeps the policy's rules, not
that it is the best of them, which depends on the texts in `Syntax`.

## 5. Disagreements between code and documents

With a run (`findings` in `PROJECT.json` quotes the lines):

- `transfer_cancel`: a context that is done while chunks have not started
  leaves no error behind; the call reports success over holes.

With a configuration that is not one of the runs; TLC shows each one in a few
seconds:

- `tlc -config BatchRun_brokenMerge.cfg MCBatchRun.tla` violates
  `AppendedOnSuccess`: a merge that fails or is killed leaves a broken file at the output
  path, part files or not; a rerun with `--no-post-overwrites` (or `--no-overwrites`)
  takes it for complete and records it (`video_workflow.go:150-167`).
  `docs/IMPLEMENTATION_PLAN.md:58`: "append-on-success persistence". `ArchivedIsWhole`
  says when an archived output is complete: where nothing is written in place, or where no
  existing file is taken for a download.
- `tlc -config BatchRun_limit.cfg MCBatchRun.tla` violates `StopsAtLimit`: a
  cutoff inside a playlist ends the playlist, not the batch
  (`adapters.go:167`), and the next input downloads one more.
  `docs/IMPLEMENTATION_PLAN.md:875`: "`--max-downloads N` stops after N successful
  downloads". `CountsAreExact` says that it is never more than one per input.
- `tlc -config BatchRun_lostRecord.cfg MCBatchRun.tla` violates
  `RecordedIsFinal`: a record written after a torn line is appended to the fragment
  (`download_archive.go:97`) and is lost on the next read, so that a completed video is
  downloaded again. `docs/IMPLEMENTATION_PLAN.md:444`: "Second run with archive enabled
  skips already-completed items deterministically."
- `tlc -config SessionCache_lost.cfg MCSessionCache.tla` violates
  `ChallengeErrorIsTrue`: the session that GetVideo stored for a call is evicted by other
  callers' stores before the call looks it up again (`client.go:253`, `617`), and the call
  answers `ErrChallengeNotSolved`. `client/errors.go:14`: "indicates URL deciphering is
  still required".
- `tlc -config FileTransfer_resume.cfg FileTransfer.tla` violates
  `ResumedPartCompletes`: an interrupted chunked download leaves a part file of full size
  (`download.go:1044`); resuming it is answered 416, which is taken for
  "complete". `docs/IMPLEMENTATION_PLAN.md:1478`: "resume can continue from an
  existing `.part`".

Met while modelling, visible in the modules, without a run of their own:

- SegmentPool `Quit`, then `WriteItem`: a cancelled pool may succeed with segments missing,
  which is why `WholeOnSuccess` there says `~ctxDone`.
- SegmentPool `WriteItem`: the errors are looked at in segment order (`dash.go:219-222`), so the
  error reported may be the context error of a sibling that a later segment's failure stopped;
  the cause is lost. `FailureHasCause` says what is behind such an error.
- ClientRace: after a timeout results may be dropped (`Deliver`), and a call
  whose clients did fail ends with "no clients"; so does a call whose order
  names fallback clients only. `FailureReportComplete` asks for every failure only under
  `~ctxDone`, and for failures in order and without a gap always.
- BatchRun `SkipExisting` leads to `Count`: a skipped video counts towards
  `--max-downloads` (`docs/IMPLEMENTATION_PLAN.md:875`: "skips/failures do not increment the
  counter"). With `--no-part` a download that fails leaves a partial output that
  `--no-overwrites` later skips and records, as after a broken merge.
- DownloadWorkflow `Merge`, `Transcodes`: a muxer or transcoder that fails leaves
  a broken file at the final path even with part files (for what follows see
  `BatchRun_brokenMerge.cfg`). `OutputsAppearWhole` excludes the two.
- DownloadWorkflow `Transfers`: a literal name, or a name that two requests
  share, does not tell formats apart; resuming then appends the bytes of one format to those of
  another and reports success. `SuccessIsWhole` and `OutputsAppearWhole` except the one
  transfer that finds such bytes where it resumes (`TakesForeign`), and nothing else.
- DownloadWorkflow `Merge`: the ffmpeg muxer removes its inputs, so
  `KeepIntermediateFiles` (`config.go:121`) keeps nothing; a track that was complete is cleaned
  up, the part file of one that failed is not.
- DownloadWorkflow `ProcessVideo`: the name is predicted from the formats before the policy
  filter and without regard to a missing muxer or a fallback, so the name
  may tell formats that are not in the file.
- FormatSelection `ParseModifier`: the operator of `ext` is dropped
  (`selector/parser.go:113`), so `ext!=webm` selects webm.
- ChallengeCache: solutions that expire between the two passes of a priming
  are reported as unsolved although they could be decoded again, because the solver was not
  asked for them. `VerdictIsTrue` allows this once the clock has moved, and no more: what the
  solver was asked for is reported as unsolved only if the player's JS cannot decode it.
- WatchData `ToStore`: a failed fetch stores the bare fallback key, which
  then counts as an entry forever: there is no expiry (`SettledForGood`), so visitor data and
  timestamp stay blank for this client.
- PlaylistPages `ChooseItems`: an open range that begins past the end (`3:` on 2
  items, or `--playlist-start 3`) is rejected as descending and ends the playlist, while `3:5`
  is just empty; so is `::` on an empty playlist.
- PlaylistPages `StopAtLimit`: a token that waits twice gives a warning and
  `StoppedByLimit` although every page has been asked for. The
  statistics, and the warnings that say a timeout has cut the list short, are read by nobody.

## 6. Left out, and the plan

Not modelled: the writer-only transfer (MP3 transcoding) below its outcome;
`OpenStream` with its own choice of format; manifest syntax and decryption;
building requests and parsing responses; running the player's JavaScript;
the PO token cache; the order of clients; subtitles and transcripts; formatting of names, sidecars and
listings; flag parsing. They are pure I/O, data shapes or string work, or
beyond what TLC can reach. Timing is abstracted to order everywhere except in
SessionCache and ChallengeCache. Two processes on one archive are left out
of BatchRun, whose state space has no room for them yet.

What could follow, in this order: a refinement of AtomicPublish by
DownloadWorkflow, under the conditions of `OutputsAppearWhole`; two processes on one
archive; the live window that slides past segments while a refresh sleeps
(`hls.go:136`); and the stream whose context ends with the request timeout
(`stream_api.go:18`). The last three are hazards no property covers yet.
