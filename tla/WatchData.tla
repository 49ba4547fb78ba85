------------------------------ MODULE WatchData ------------------------------
(***************************************************************************)
(* What a client's request takes from a watch page: internal/innertube/    *)
(* apikey.go as the engine of internal/orchestrator uses it.  Each attempt *)
(* of a client resolves its visitor data, signature timestamp, API key and *)
(* cookie context one after the other; each resolution looks into the      *)
(* shared cache, on a miss fetches the watch page with no lock held, and   *)
(* stores what it makes of it under a rule of its own.                     *)
(*                                                                         *)
(* The data of a page is which parts it has and the address it came from.  *)
(***************************************************************************)
EXTENDS Integers, Sequences

CONSTANTS
  Callers,     \* attempts of a client, of concurrent extractions
  Profiles,    \* clients: [id, host, key, cookies], key "" for none of its own
  EmbeddedIDs, \* the IDs that begin with "web_embedded"
  TVIDs,       \* the IDs that begin with "tv"
  Pages,       \* watch pages: [key, visitor, delegated, user, sync, sts, player]
  MaxCalls     \* bound: attempts of all callers

\* The clients of the registry have a host, and an ID of their own.
ASSUME WatchAssumption ==
  /\ Profiles \subseteq [id : STRING, host : STRING, key : STRING, cookies : BOOLEAN]
  /\ \A p \in Profiles : p.host # ""
  /\ \A p, q \in Profiles : p.id = q.id => p = q
  /\ {"mweb", "web_creator"} \cap (EmbeddedIDs \cup TVIDs) = {}
  /\ EmbeddedIDs \cap TVIDs = {}
  /\ Pages \subseteq [key : BOOLEAN, visitor : STRING, delegated : STRING,
                      user : STRING, sync : Seq(STRING), sts : BOOLEAN,
                      player : BOOLEAN]
  /\ MaxCalls \in Nat

\* True of any strings, but the provers must be told.
ASSUME StringLiterals ==
  {"", "default", "m.youtube.com/watch", "www.youtube.com/embed",
   "studio.youtube.com", "www.youtube.com/tv"} \subseteq STRING

VARIABLES
  cache,   \* APIKeyResolver.cache
  step,    \* what each caller is resolving
  at,      \* where it is in that
  profile, \* the client it works for
  data,    \* what it made of the page: resolvedWatchData
  failed,  \* the fetch ended with an error
  got,     \* the request's parts so far
  good,    \* history: fetches of this request that found an API key
  calls    \* attempts begun

callVars == <<step, at, profile, data, failed, got, good, calls>>
vars == <<cache, callVars>>

-----------------------------------------------------------------------------

\* The host alone tells two clients apart.
CacheKeyHost(p) == <<p.host, "">>

\* profileCacheKey.
CacheKey(p) == <<p.host, p.id>>

\* watchPageURLForProfile: by ID, or by what the ID begins with.
WatchURL(p) ==
  CASE p.id = "mweb" -> "m.youtube.com/watch"
    [] p.id \in EmbeddedIDs -> "www.youtube.com/embed"
    [] p.id = "web_creator" -> "studio.youtube.com"
    [] p.id \in TVIDs -> "www.youtube.com/tv"
    [] OTHER -> p.host

\* parseDataSyncID: <<delegated, user>> of an ID in two halves, of which the
\* second may be blank; an ID alone is the user's.
SyncIDs(sync) ==
  CASE sync = <<>> -> <<"", "">>
    [] Len(sync) = 2 /\ sync[2] # "" -> sync
    [] OTHER -> <<"", sync[1]>>

Or(a, b) == IF a # "" THEN a ELSE b

Data == [key : STRING, visitor : STRING, delegated : STRING, user : STRING,
         sts : BOOLEAN, from : STRING]
Nothing == [key |-> "", visitor |-> "", delegated |-> "", user |-> "",
            sts |-> FALSE, from |-> ""]

\* fetchFromWatch, the parts found in the page itself.
PartsOf(page, url) ==
  [key |-> IF page.key THEN url ELSE "", visitor |-> page.visitor,
   delegated |-> Or(page.delegated, SyncIDs(page.sync)[1]),
   user |-> Or(page.user, SyncIDs(page.sync)[2]),
   sts |-> page.sts, from |-> url]

Fallback(p) == Or(p.key, "default")
Bare(p) == [Nothing EXCEPT !.key = Fallback(p)]

Unusable(d, err) == err /\ d.key = "" /\ d.visitor = ""

\* Looking for the timestamp keeps nothing.
ToStoreNoSTS(s, p, d, err) ==
  CASE s = "visitor" -> IF err THEN {} ELSE {d}
    [] s = "sts" -> {}
    [] s = "auth" -> IF Unusable(d, err) THEN {} ELSE {d}
    [] s = "key" -> IF err \/ d.key = "" THEN {Bare(p)} ELSE {d}

\* What each of the four resolutions stores: at most one entry.
ToStore(s, p, d, err) ==
  CASE s = "visitor" -> IF err THEN {} ELSE {d}
    [] s \in {"sts", "auth"} -> IF Unusable(d, err) THEN {} ELSE {d}
    [] s = "key" -> IF err \/ d.key = "" THEN {Bare(p)} ELSE {d}

-----------------------------------------------------------------------------

NoRequest == [visitor |-> Nothing, sts |-> Nothing, key |-> "", auth |-> Nothing]

Init ==
  /\ cache = [k \in {} |-> Nothing]
  /\ step = [c \in Callers |-> "idle"]
  /\ at = [c \in Callers |-> "get"]
  /\ \E p \in Profiles : profile = [c \in Callers |-> p]
  /\ data = [c \in Callers |-> Nothing]
  /\ failed = [c \in Callers |-> FALSE]
  /\ got = [c \in Callers |-> NoRequest]
  /\ good = [c \in Callers |-> 0]
  /\ calls = 0

\* A step of caller c without effect on the cache.
Local(c, v) == UNCHANGED cache /\ UNCHANGED v

Begin(c) ==
  /\ step[c] = "idle"
  /\ calls < MaxCalls
  /\ calls' = calls + 1
  /\ \E p \in Profiles : profile' = [profile EXCEPT ![c] = p]
  /\ step' = [step EXCEPT ![c] = "visitor"]
  /\ got' = [got EXCEPT ![c] = NoRequest]
  /\ good' = [good EXCEPT ![c] = 0]
  /\ Local(c, <<at, data, failed>>)

\* A client that sends no cookies needs no context for them.
StepAfter(c) ==
  CASE step[c] = "visitor" -> "sts"
    [] step[c] = "sts" -> "key"
    [] step[c] = "key" -> IF profile[c].cookies THEN "auth" ELSE "idle"
    [] step[c] = "auth" -> "idle"

GoOn(c) ==
  /\ step' = [step EXCEPT ![c] = StepAfter(c)]
  /\ at' = [at EXCEPT ![c] = "get"]
  /\ data' = [data EXCEPT ![c] = Nothing]
  /\ failed' = [failed EXCEPT ![c] = FALSE]
  /\ UNCHANGED <<profile, calls>>

Take(c, part, x) == got' = [got EXCEPT ![c] = [@ EXCEPT ![part] = x]]

\* The cached key as it is, even when it is blank.
CachedKeyAsIs(p, d) == d.key

\* Resolve on a hit.
CachedKey(p, d) == Or(d.key, Fallback(p))

\* An entry without an API key is looked for again.
CachedWithKey(c) ==
  LET k == CacheKey(profile[c]) IN k \in DOMAIN cache /\ cache[k].key # ""

\* get: any entry counts, and none is ever removed.
Cached(c) == CacheKey(profile[c]) \in DOMAIN cache

\* set.
Set(k, d) == [x \in (DOMAIN cache) \cup {k} |-> IF x = k THEN d ELSE cache[x]]

\* resolveVisitorData: what is configured or in the cookies comes first.
VisitorConfigured(c) ==
  /\ step[c] = "visitor" /\ at[c] = "get"
  /\ GoOn(c)
  /\ Local(c, <<got, good>>)

Hit(c) ==
  /\ step[c] # "idle" /\ at[c] = "get"
  /\ Cached(c)
  /\ LET d == cache[CacheKey(profile[c])] IN
     Take(c, step[c], IF step[c] = "key" THEN CachedKey(profile[c], d) ELSE d)
  /\ GoOn(c)
  /\ Local(c, good)

Miss(c) ==
  /\ step[c] # "idle" /\ at[c] = "get"
  /\ ~Cached(c)
  /\ at' = [at EXCEPT ![c] = "page"]
  /\ Local(c, <<step, profile, data, failed, got, good, calls>>)

FetchFails(c) ==
  /\ at[c] = "page"
  /\ at' = [at EXCEPT ![c] = "set"]
  /\ failed' = [failed EXCEPT ![c] = TRUE]
  /\ Local(c, <<step, profile, data, got, good, calls>>)

\* A page without an API key is an error with what else was found.
FetchPage(c) ==
  /\ at[c] = "page"
  /\ \E page \in Pages :
       LET d == PartsOf(page, WatchURL(profile[c])) IN
       /\ data' = [data EXCEPT ![c] = d]
       /\ failed' = [failed EXCEPT ![c] = d.key = ""]
       /\ good' = [good EXCEPT ![c] = @ + IF d.key = "" THEN 0 ELSE 1]
       /\ at' = [at EXCEPT ![c] = IF ~d.sts /\ page.player THEN "script" ELSE "set"]
  /\ Local(c, <<step, profile, got, calls>>)

\* extractSignatureTimestampFromPlayerJS; without it the timestamp stays 0.
FetchScript(c) ==
  /\ at[c] = "script"
  /\ \E found \in BOOLEAN : data' = [data EXCEPT ![c].sts = found]
  /\ at' = [at EXCEPT ![c] = "set"]
  /\ Local(c, <<step, profile, failed, got, good, calls>>)

\* The end of a resolution that fetched.  An error leaves the engine with the
\* profile's own key, and the visitor data and the others with nothing unless
\* they keep what was found.
Answer(c) ==
  LET p == profile[c]
      d == data[c]
  IN  CASE step[c] = "key" -> IF failed[c] THEN p.key ELSE Or(d.key, Fallback(p))
        [] step[c] = "visitor" -> IF failed[c] THEN Nothing ELSE d
        [] OTHER -> IF Unusable(d, failed[c]) THEN Nothing ELSE d

Store(c) ==
  /\ at[c] = "set"
  /\ LET k == CacheKey(profile[c])
         new == ToStore(step[c], profile[c], data[c], failed[c])
     IN  IF new = {} THEN UNCHANGED cache
         ELSE \E d \in new : cache' = Set(k, d)
  /\ Take(c, step[c], Answer(c))
  /\ GoOn(c)
  /\ UNCHANGED good

CallerStep(c) ==
  \/ Begin(c) \/ VisitorConfigured(c) \/ Hit(c) \/ Miss(c)
  \/ FetchFails(c) \/ FetchPage(c) \/ FetchScript(c) \/ Store(c)

Next == \E c \in Callers : CallerStep(c)

Spec == Init /\ [][Next]_vars

-----------------------------------------------------------------------------
(* Properties *)

Requests == [visitor : Data, sts : Data, key : STRING, auth : Data]

TypeOK ==
  /\ DOMAIN cache \subseteq {CacheKey(p) : p \in Profiles}
  /\ \A k \in DOMAIN cache : cache[k] \in Data
  /\ step \in [Callers -> {"idle", "visitor", "sts", "key", "auth"}]
  /\ at \in [Callers -> {"get", "page", "script", "set"}]
  /\ profile \in [Callers -> Profiles]
  /\ data \in [Callers -> Data]
  /\ failed \in [Callers -> BOOLEAN]
  /\ got \in [Callers -> Requests]
  /\ good \in [Callers -> Nat]
  /\ calls \in 0..MaxCalls

\* What was found in the watch page of client p, with or without an API key.
OfPage(d, p) == d.from = WatchURL(p) /\ d.key \in {"", WatchURL(p)}

\* An entry is of its client's own page, or its bare fallback key.
EntriesOwn ==
  \A p \in Profiles : CacheKey(p) \in DOMAIN cache =>
    LET d == cache[CacheKey(p)] IN d = Bare(p) \/ OfPage(d, p)

\* A fetch has nothing until its page is there; it fails for want of a page or
\* of a key.  A request that has found a key has left it in the cache, or is
\* about to.
FetchInv(c) ==
  LET p == profile[c] IN
  /\ step[c] = "idle" => at[c] = "get"
  /\ at[c] \in {"get", "page"} => data[c] = Nothing /\ ~failed[c]
  /\ at[c] = "script" => OfPage(data[c], p) /\ (failed[c] <=> data[c].key = "")
  /\ at[c] = "set" => \/ data[c] = Nothing /\ failed[c]
                      \/ OfPage(data[c], p) /\ (failed[c] <=> data[c].key = "")
  /\ at[c] = "page" => good[c] = 0
  /\ good[c] = 1 => Cached(c) \/ (at[c] \in {"script", "set"} /\ ~failed[c])

\* Clients that share a host do not share data: every part of a request, cached
\* or fresh, is blank, of the client's own watch page, or its fallback key,
\* whichever clients use the resolver at the same time.
OwnData(c) ==
  LET p == profile[c]
      own == {"", WatchURL(p)}
  IN  /\ {got[c].visitor.from, got[c].sts.from, got[c].auth.from} \subseteq own
      /\ got[c].key \in own \cup {Fallback(p)}

\* A request fetches at most one watch page that has an API key: whichever of
\* the four resolutions is the first to find one, the others use it.
OneGoodPage(c) == good[c] <= 1

\* What a request is made of comes from its client's own page, fetched once,
\* in every interleaving of the clients that share the resolver.
FromOwnPage ==
  /\ TypeOK /\ EntriesOwn
  /\ \A c \in Callers : FetchInv(c) /\ OwnData(c) /\ OneGoodPage(c)

\* A request is sent without an API key only if its client has none of its own
\* and its fetch for the key failed just now: never because of what the other
\* resolutions have left in the cache.
KeylessOnlyOnFailure ==
  [][\A c \in Callers :
        (step[c] = "key" /\ step'[c] # "key" /\ got'[c].key = "") =>
          at[c] = "set" /\ failed[c] /\ profile[c].key = ""]_vars

Fetching(k) == \E c \in Callers : CacheKey(profile[c]) = k /\ at[c] # "get"

\* Once a client has an entry and no fetch for it is under way, the entry is
\* final, a bare fallback key as much as a whole page: only attempts that
\* missed before the first store can replace it.
SettledForGood ==
  [][\A k \in DOMAIN cache :
        ~Fetching(k) => ~Fetching(k)' /\ cache'[k] = cache[k]]_vars
=============================================================================
