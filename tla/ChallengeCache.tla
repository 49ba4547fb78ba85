--------------------------- MODULE ChallengeCache ---------------------------
(***************************************************************************)
(* Solving the n and signature challenges of a video's streams:            *)
(* client/challenge_cache.go, the provider chain of                        *)
(* internal/challenge/solver.go, the player JS resolver and its cache      *)
(* (internal/playerjs/resolver.go, cache.go), as GetVideo uses them to     *)
(* prime the solutions and ResolveStreamURL to decode one.                 *)
(*                                                                         *)
(* The two caches are shared by the callers.  What is done under one lock  *)
(* is one step, a request is one step, and the clock may tick between any  *)
(* two.  A player URL is its player, the locale in its path ("none" where  *)
(* the path has no such part) and whether it is absolute; a body or a      *)
(* decoded value is the player it comes from.                              *)
(***************************************************************************)
EXTENDS Integers, Sequences, FiniteSets

CONSTANTS
  Callers,      \* concurrent calls of the client
  Players,      \* versions of the player
  Locales,      \* locales in a player's path
  URLs,         \* what a watch page may name: [player, locale, abs]
  Responses,    \* player responses: sets of streams [direct, n, s]
  Decoders,     \* what each player's JS may decode: [player -> challenges]
  Known,        \* sets of scripts that may be cached to begin with
  Preferred,    \* PlayerJSPreferredLocale
  TTL,          \* SessionCacheTTL or its default
  ScriptTTL,    \* defaultPlayerJSCacheTTL
  MaxEntries,   \* maxPlayerJSCacheEntries
  MaxTime,      \* bound: ticks of the clock
  MaxCalls      \* bound: calls of all callers

None == "none"

URL == [player : Players, locale : Locales, abs : BOOLEAN]

ASSUME ChallengeAssumption ==
  /\ {TTL, ScriptTTL, MaxEntries, MaxTime, MaxCalls} \subseteq Nat
  /\ MaxEntries > 0
  /\ None \notin Players /\ {None, "en", Preferred} \subseteq Locales
  /\ URLs \subseteq URL
  /\ \A S \in Known :
       S \subseteq URL /\ IsFiniteSet(S) /\ Cardinality(S) <= MaxEntries

VARIABLES
  clock,       \* time.Now()
  solves,      \* what each player's JS decodes
  challenges,  \* Client.challenges: solutions by canonical player
  items,       \* memoryCache.items: player JS by player and variant
  call,        \* what each caller does
  calls        \* calls begun

vars == <<clock, solves, challenges, items, call, calls>>

-----------------------------------------------------------------------------
(* Player URLs and the challenges of a response *)

NoURL == [player |-> None, locale |-> None, abs |-> FALSE]

Localised(u, locale) ==
  [u EXCEPT !.abs = FALSE, !.locale = IF @ = None THEN None ELSE locale]

\* The variant alone, without the player.
ScriptKeyVariant(u) == [Localised(u, Preferred) EXCEPT !.player = None]

\* canonicalPlayerCacheKey, normalizePlayerPath and playerCacheKey.
Canonical(u) == Localised(u, "en")
ScriptPath(u) == Localised(u, Preferred)
ScriptKey(u) == ScriptPath(u)

NotNone(S) == {t \in S : t[2] # None}

\* The n of a ciphered URL is overlooked.
CollectDirect(resp) ==
  NotNone({<<"n", f.n>> : f \in {g \in resp : g.direct}}
          \cup {<<"sig", f.s>> : f \in resp})

\* A stream with a URL of its own has at most an n challenge; a ciphered one
\* has a signature, and maybe an n in the URL it hides.
Collect(resp) ==
  NotNone({<<"n", f.n>> : f \in resp} \cup {<<"sig", f.s>> : f \in resp})

\* What ResolveStreamURL must decode for a stream.
Needs(f) ==
  NotNone(IF f.direct THEN {<<"n", f.n>>} ELSE {<<"sig", f.s>>, <<"n", f.n>>})

Tasks == UNION {Collect(resp) : resp \in Responses}

\* What decodes each challenge, and what has been decoded so far.
Unsolved == [t \in Tasks |-> None]
SolvedIn(solved) == {t \in Tasks : solved[t] # None}

\* The n challenges are gone through first.
NextOf(S) == LET N == {t \in S : t[1] = "n"} IN IF N = {} THEN S ELSE N

\* The solver's providers, and the locations each tries.
Providers(u) == IF Canonical(u) = u THEN <<u>> ELSE <<u, Canonical(u)>>
Locations(u) == IF ScriptPath(u) = u THEN <<u>> ELSE <<ScriptPath(u), u>>

-----------------------------------------------------------------------------
(* The caches *)

Empty == [k \in {} |-> None]
Drop(f, K) == [k \in (DOMAIN f) \ K |-> f[k]]
Put(f, k, v) == [l \in (DOMAIN f) \cup {k} |-> IF l = k THEN v ELSE f[l]]

Expired(s) == clock - s.created > TTL
EvictExpiredChallenges ==
  Drop(challenges, {k \in DOMAIN challenges : Expired(challenges[k])})

\* getChallengeN and getChallengeSig: an expired entry stays, unused.
Cached(u, t) ==
  LET k == Canonical(u) IN
  /\ k \in DOMAIN challenges
  /\ ~Expired(challenges[k])
  /\ t \in DOMAIN challenges[k].sols

\* Every store makes the entry young again.
EntryRenewed(f, k) ==
  [sols |-> IF k \in DOMAIN f THEN f[k].sols ELSE Empty, created |-> clock]

\* setChallengeN and setChallengeSig: an entry's age is that of its first
\* solution.
EntryBefore(f, k) ==
  IF k \in DOMAIN f THEN f[k] ELSE [sols |-> Empty, created |-> clock]
WithSolution(u, t, player) ==
  LET kept == EvictExpiredChallenges
      k == Canonical(u)
      s == EntryBefore(kept, k)
  IN  Put(kept, k, [sols |-> Put(s.sols, t, [by |-> player, at |-> clock]),
                    created |-> s.created])

\* memoryCache.Set: after the expired entries, the oldest makes room, even
\* when the key is there already; the map's order decides between equals.
LiveScripts == {k \in DOMAIN items : clock - items[k].created <= ScriptTTL}
NewestVictims(K) ==
  {k \in K : \A l \in K : items[k].created >= items[l].created}
Victims(K) == {k \in K : \A l \in K : items[k].created <= items[l].created}
WithScript(k, player, next) ==
  LET stored(K) == Put([l \in K |-> items[l]], k,
                       [body |-> player, created |-> clock])
  IN  IF Cardinality(LiveScripts) >= MaxEntries
      THEN \E v \in Victims(LiveScripts) : next = stored(LiveScripts \ {v})
      ELSE next = stored(LiveScripts)

-----------------------------------------------------------------------------

Idle == [pc |-> "idle", url |-> NoURL,
         resp |-> {}, began |-> 0, left |-> {}, pending |-> {}, solved |-> Unsolved,
         prov |-> 1, loc |-> 1, body |-> None, loadErr |-> FALSE,
         task |-> <<None, None>>, failed |-> {}, told |-> None]

Decoding(c) == call[c].resp = {}
Provider(c) == Providers(call[c].url)[call[c].prov]
Solved(c) == SolvedIn(call[c].solved)

Set(c, r) == call' = [call EXCEPT ![c] = r]
End(c, told, failed) == Set(c, [Idle EXCEPT !.told = told, !.failed = failed])

Init ==
  /\ clock = 0
  /\ solves \in Decoders
  /\ challenges = Empty
  /\ \E S \in Known : items = [k \in S |-> [body |-> k.player, created |-> 0]]
  /\ call = [c \in Callers |-> Idle]
  /\ calls = 0

Called(c) ==
  /\ call[c].pc = "idle"
  /\ calls < MaxCalls
  /\ calls' = calls + 1
  /\ UNCHANGED <<clock, solves, challenges, items>>

\* GetVideo with the response of the winning client: without challenges the
\* player's URL is not even asked for.
GetVideo(c) ==
  /\ Called(c)
  /\ \E resp \in Responses :
       Set(c, [Idle EXCEPT !.resp = resp,
                           !.pc = IF Collect(resp) = {} THEN "idle" ELSE "page"])

\* decodeNWithCache and decodeSignatureWithCache for a stream of a session.
Decode(c) ==
  /\ Called(c)
  /\ \E u \in URLs, t \in Tasks :
       Set(c, [Idle EXCEPT !.url = u, !.task = t, !.pc = "get"])

\* GetPlayerURL: the watch page names the player, or mentions the iframe API,
\* whose page is asked next; an error ends the priming without a word.
WatchPage(c) ==
  /\ call[c].pc \in {"page", "iframe"}
  /\ \/ End(c, None, {})
     \/ call[c].pc = "page" /\ Set(c, [call[c] EXCEPT !.pc = "iframe"])
     \/ \E u \in URLs :
          Set(c, [call[c] EXCEPT !.url = u, !.pc = "first", !.began = clock,
                                 !.left = Collect(call[c].resp)])
  /\ UNCHANGED <<clock, solves, challenges, items, calls>>

\* The first pass asks the solver for what is not cached; with nothing to
\* solve the solver returns at once.
AddOrSkip(c) ==
  /\ call[c].pc = "first"
  /\ \E t \in NextOf(call[c].left) :
       LET left == call[c].left \ {t}
           pending == IF Cached(call[c].url, t) THEN call[c].pending
                                                ELSE call[c].pending \cup {t}
       IN  IF left # {}
           THEN Set(c, [call[c] EXCEPT !.left = left, !.pending = pending])
           ELSE Set(c, [call[c] EXCEPT !.left = Collect(call[c].resp),
                                       !.pending = pending,
                                       !.pc = IF pending = {} THEN "second" ELSE "load"])
  /\ UNCHANGED <<clock, solves, challenges, items, calls>>

-----------------------------------------------------------------------------
(* loadDecipherer for the solver's current provider, or for a decoding *)

LoadScript(c) ==
  /\ call[c].pc = "load"
  /\ IF ScriptKey(Provider(c)) \in LiveScripts
     THEN Set(c, [call[c] EXCEPT !.pc = "decipher",
                                 !.body = items[ScriptKey(Provider(c))].body])
     ELSE Set(c, [call[c] EXCEPT !.pc = "fetch", !.loc = 1])
  /\ UNCHANGED <<clock, solves, challenges, items, calls>>

\* Any provider that could not load is enough.
SolverFailsEasily(solved, loadErr) == loadErr

\* No error is ever passed on.
SolverNeverFails(solved, loadErr) == FALSE

\* Solve's verdict: an error only if nothing at all was solved and a provider
\* could not load.
SolverFails(solved, loadErr) == SolvedIn(solved) = {} /\ loadErr

\* The next provider, unless there is none or nothing is left to solve.
NextProvider(c, solved, loadErr) ==
  LET r == [call[c] EXCEPT !.solved = solved, !.loadErr = loadErr, !.body = None]
  IN  IF call[c].prov < Len(Providers(call[c].url)) /\ call[c].pending # SolvedIn(solved)
      THEN Set(c, [r EXCEPT !.prov = @ + 1, !.pc = "load"])
      ELSE IF SolverFails(solved, loadErr)
           THEN End(c, "failure", {})
           ELSE Set(c, [r EXCEPT !.pc = "second"])

\* fetchPlayerJS, from the normalised location and then from the URL itself.
FetchFails(c) ==
  /\ call[c].pc = "fetch"
  /\ IF call[c].loc < Len(Locations(Provider(c)))
     THEN Set(c, [call[c] EXCEPT !.loc = @ + 1])
     ELSE IF Decoding(c) THEN End(c, "error", {})
                         ELSE NextProvider(c, call[c].solved, TRUE)
  /\ UNCHANGED <<clock, solves, challenges, items, calls>>

Fetched(c) ==
  /\ call[c].pc = "fetch"
  /\ Set(c, [call[c] EXCEPT !.pc = "cache", !.body = Locations(Provider(c))[call[c].loc].player])
  /\ UNCHANGED <<clock, solves, challenges, items, calls>>

CacheScript(c) ==
  /\ call[c].pc = "cache"
  /\ WithScript(ScriptKey(Provider(c)), call[c].body, items')
  /\ Set(c, [call[c] EXCEPT !.pc = "decipher"])
  /\ UNCHANGED <<clock, solves, challenges, calls>>

\* A challenge the JS cannot decode is left to the next provider.
Decipher(c) ==
  /\ call[c].pc = "decipher"
  /\ LET body == call[c].body
         asked == IF Decoding(c) THEN {call[c].task} ELSE call[c].pending \ Solved(c)
         solved == [t \in Tasks |-> IF t \in asked \cap solves[body] THEN body
                                    ELSE call[c].solved[t]]
     IN  CASE ~Decoding(c) -> NextProvider(c, solved, call[c].loadErr)
           [] Decoding(c) /\ SolvedIn(solved) # {} ->
                Set(c, [call[c] EXCEPT !.solved = solved, !.pc = "store"])
           [] Decoding(c) /\ SolvedIn(solved) = {} -> End(c, "error", {})
  /\ UNCHANGED <<clock, solves, challenges, items, calls>>

-----------------------------------------------------------------------------
(* The second pass of the priming, and the cache around one decoding *)

\* One challenge done: what is told at the end says how many are unsolved.
Handled(c, t, failed) ==
  LET left == call[c].left \ {t}
  IN  IF left # {}
      THEN Set(c, [call[c] EXCEPT !.left = left, !.failed = failed, !.pc = "second"])
      ELSE End(c, IF failed = {} THEN "success" ELSE "partial", failed)

\* What is cached is passed over, by now also what other callers solved.
StoreOrSkip(c) ==
  /\ call[c].pc = "second"
  /\ \E t \in NextOf(call[c].left) :
       CASE Cached(call[c].url, t) -> Handled(c, t, call[c].failed)
         [] ~Cached(call[c].url, t) /\ t \notin Solved(c) ->
              Handled(c, t, call[c].failed \cup {t})
         [] ~Cached(call[c].url, t) /\ t \in Solved(c) ->
              Set(c, [call[c] EXCEPT !.pc = "store", !.task = t])
  /\ UNCHANGED <<clock, solves, challenges, items, calls>>

StoreSolution(c) ==
  /\ call[c].pc = "store"
  /\ challenges' = WithSolution(call[c].url, call[c].task, call[c].solved[call[c].task])
  /\ IF Decoding(c) THEN End(c, "decoded", {})
                    ELSE Handled(c, call[c].task, call[c].failed)
  /\ UNCHANGED <<clock, solves, items, calls>>

\* A hit ends a decoding.
GetSolution(c) ==
  /\ call[c].pc = "get"
  /\ IF Cached(call[c].url, call[c].task)
     THEN End(c, "served", {})
     ELSE Set(c, [call[c] EXCEPT !.pc = "load"])
  /\ UNCHANGED <<clock, solves, challenges, items, calls>>

Tick ==
  /\ clock < MaxTime
  /\ clock' = clock + 1
  /\ UNCHANGED <<solves, challenges, items, call, calls>>

CallerStep(c) ==
  \/ GetVideo(c) \/ Decode(c) \/ WatchPage(c) \/ AddOrSkip(c)
  \/ LoadScript(c) \/ FetchFails(c) \/ Fetched(c) \/ CacheScript(c) \/ Decipher(c)
  \/ StoreOrSkip(c) \/ StoreSolution(c) \/ GetSolution(c)

Next == Tick \/ \E c \in Callers : CallerStep(c)

Spec == Init /\ [][Next]_vars

-----------------------------------------------------------------------------
(* Properties *)

Times == 0..MaxTime

Call == [pc      : {"idle", "page", "iframe", "first", "get", "load", "fetch",
                    "cache", "decipher", "second", "store"},
         url     : URLs \cup {NoURL},
         resp    : Responses \cup {{}},
         began   : Times,
         left    : SUBSET Tasks,
         pending : SUBSET Tasks,
         solved  : [Tasks -> Players \cup {None}],
         prov    : {1, 2},
         loc     : {1, 2},
         body    : Players \cup {None},
         loadErr : BOOLEAN,
         task    : Tasks \cup {<<None, None>>},
         failed  : SUBSET Tasks,
         told    : {None, "success", "partial", "failure", "error", "served",
                    "decoded"}]

TypeOK ==
  /\ clock \in Times
  /\ calls \in 0..MaxCalls
  /\ solves \in Decoders
  /\ DOMAIN challenges \subseteq URL
  /\ \A k \in DOMAIN challenges :
       /\ challenges[k].created \in Times
       /\ DOMAIN challenges[k].sols \subseteq Tasks
       /\ \A t \in DOMAIN challenges[k].sols : challenges[k].sols[t].at \in Times
  /\ DOMAIN items \subseteq URL /\ IsFiniteSet(DOMAIN items)
  /\ \A k \in DOMAIN items : items[k].created \in Times
  /\ call \in [Callers -> Call]

\* Both caches agree on whose entry is whose although one is keyed by the
\* canonical locale and the other by the preferred one: a script is that of
\* the player it is kept for, and a solution was decoded by the JS of the
\* player it is kept for, whatever location or provider answered.
SolutionsOfPlayer ==
  /\ TypeOK
  /\ \A k \in DOMAIN items : items[k].body = k.player
  /\ \A k \in DOMAIN challenges, t \in Tasks :
       t \in DOMAIN challenges[k].sols =>
         /\ challenges[k].sols[t].by = k.player
         /\ t \in solves[k.player]

\* A solution served to a caller was stored no longer than the TTL ago, even
\* when others keep adding to the entry it is in.
SolutionNeverStale ==
  [][\A c \in Callers :
        (call[c].pc = "get" /\ call'[c].told = "served") =>
          LET s == challenges[Canonical(call[c].url)].sols[call[c].task]
          IN  clock - s.at <= TTL]_vars

Told(c, what) == call[c].pc # "idle" /\ call'[c].told = what

\* After a success every stream of the response, from the URL the call had,
\* resolves from the cache.
AllCached(c) ==
  \A u \in {call[c].url}, f \in call[c].resp : \A t \in Needs(f) : Cached(u, t)'

\* After a failure nothing any provider has solved was thrown away, although
\* another one could not load.
NothingThrownAway(c) ==
  /\ Solved(c) = {}
  /\ call[c].body # None => call[c].pending \cap solves[call[c].body] = {}

\* After a partial success the player's JS cannot decode what is reported:
\* never because of another challenge, another caller or a failed location.
\* The code is wrong only of what it did not ask for, as it was cached then,
\* and the clock has moved since.
BeyondThePlayer(c) ==
  LET wrong == call'[c].failed \cap solves[call[c].url.player]
  IN  /\ wrong \cap call[c].pending = {}
      /\ wrong # {} => clock # call[c].began

\* The verdict of a priming is what a caller may rely on, whichever providers
\* and locations failed and whoever shares the cache: success, failure and
\* partial success each mean what their parts above say, the first as long as
\* the clock has not moved and nothing that was cached may have expired.
VerdictIsTrue ==
  [][\A c \in Callers :
       /\ Told(c, "success") => AllCached(c) \/ clock # call[c].began
       /\ Told(c, "failure") => NothingThrownAway(c)
       /\ Told(c, "partial") => BeyondThePlayer(c)]_vars

\* The JS cache never outgrows its bound, and below its age limit only the
\* oldest entry leaves it.
EvictsOldestFirst ==
  [][/\ Cardinality(DOMAIN items') <= MaxEntries
     /\ \A k \in LiveScripts \ DOMAIN items' :
          \A l \in DOMAIN items \cap DOMAIN items' :
            items'[l] = items[l] => items[k].created <= items[l].created]_vars
=============================================================================
