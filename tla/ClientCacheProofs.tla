------------------------- MODULE ClientCacheProofs --------------------------
(***************************************************************************)
(* Proofs about two caches that the calls on one Client share.             *)
(*                                                                         *)
(* WatchData, for every set of clients, callers and pages: clients that    *)
(* share a host never get each other's data, an entry without a fetch      *)
(* under way is final, and only a failure of its own leaves a request      *)
(* without a key.                                                          *)
(*                                                                         *)
(* SessionCache, for every number of callers, videos and entries and every *)
(* TTL: the cache stays within its bound, no session is served when it is  *)
(* older than the TTL, and only age or a full cache make a session leave.  *)
(***************************************************************************)
EXTENDS WatchData, SessionCache, FiniteSetTheorems, TLAPS

-----------------------------------------------------------------------------
(* Clients, addresses and pages *)

\* The parts of a sequence and of a pair.
LEMMA SeqParts ==
  ASSUME NEW T, NEW s \in Seq(T), s # <<>>
  PROVE  s[1] \in T /\ (Len(s) = 2 => s[2] \in T)
<1>1. s[1] \in T
  OBVIOUS
<1>2. ASSUME Len(s) = 2
      PROVE  s[2] \in T
  <2>1. 2 \in 1..Len(s)
    BY <1>2
  <2> QED
    BY <2>1
<1> QED
  BY <1>1, <1>2

LEMMA PairParts ==
  ASSUME NEW a, NEW b
  PROVE  <<a, b>>[1] = a /\ <<a, b>>[2] = b
OBVIOUS

LEMMA EmptyIsNoPair == Len(<<>>) # 2
OBVIOUS

\* The halves of a data sync ID are texts.
LEMMA SyncTexts ==
  ASSUME NEW sync \in Seq(STRING), "" \in STRING
  PROVE  SyncIDs(sync)[1] \in STRING /\ SyncIDs(sync)[2] \in STRING
<1>1. CASE sync = <<>>
  <2>1. SyncIDs(sync) = <<"", "">>
    BY <1>1, EmptyIsNoPair, Zenon DEF SyncIDs
  <2> QED
    BY <2>1, PairParts, Zenon
<1>2. CASE sync # <<>>
  <2>1. sync[1] \in STRING /\ (Len(sync) = 2 => sync[2] \in STRING)
    BY <1>2, SeqParts, Zenon
  <2>2. (Len(sync) = 2 /\ SyncIDs(sync) = sync) \/ SyncIDs(sync) = <<"", sync[1]>>
    BY <1>2, Zenon DEF SyncIDs
  <2>3. CASE Len(sync) = 2 /\ SyncIDs(sync) = sync
    BY <2>1, <2>3, Zenon
  <2>4. CASE SyncIDs(sync) = <<"", sync[1]>>
    <3>1. <<"", sync[1]>>[1] = "" /\ <<"", sync[1]>>[2] = sync[1]
      BY PairParts, Zenon
    <3>2. SyncIDs(sync)[1] = "" /\ SyncIDs(sync)[2] = sync[1]
      BY <2>4, <3>1, Zenon
    <3> QED
      BY <2>1, <3>2, Zenon
  <2> QED
    BY <2>2, <2>3, <2>4, Zenon
<1> QED
  BY <1>1, <1>2, Zenon

\* The key of an entry tells its client.
LEMMA KeyOfClient ==
  ASSUME NEW p \in Profiles, NEW q \in Profiles, CacheKey(p) = CacheKey(q)
  PROVE  p = q
BY WatchAssumption DEF WatchAssumption, CacheKey

\* The bound of attempts is a number.
LEMMA BoundOfCalls == MaxCalls \in Nat
BY WatchAssumption DEF WatchAssumption

\* No client's address or last key is blank.
LEMMA NeverBlank ==
  ASSUME NEW p \in Profiles
  PROVE  /\ WatchURL(p) \in STRING /\ WatchURL(p) # ""
         /\ Fallback(p) \in STRING /\ Fallback(p) # ""
         /\ p.key # "" => Fallback(p) = p.key
<1> USE StringLiterals
<1>1. p.host \in STRING /\ p.key \in STRING /\ p.host # ""
  BY WatchAssumption DEF WatchAssumption
<1>2. WatchURL(p) \in STRING /\ WatchURL(p) # ""
  BY <1>1 DEF WatchURL
<1>3. Fallback(p) \in STRING /\ Fallback(p) # "" /\ (p.key # "" => Fallback(p) = p.key)
  BY <1>1 DEF Fallback, Or
<1> QED
  BY <1>2, <1>3

\* Blank data and a bare key are data.
LEMMA BareData ==
  /\ Nothing \in Data /\ Nothing.key = "" /\ Nothing.visitor = "" /\ Nothing.from = ""
  /\ \A p \in Profiles : Bare(p) \in Data /\ Bare(p).key = Fallback(p) /\ Bare(p).from = ""
<1> USE StringLiterals
<1>1. Nothing \in Data /\ Nothing.key = "" /\ Nothing.visitor = "" /\ Nothing.from = ""
  BY DEF Nothing, Data
<1>2. ASSUME NEW p \in Profiles
      PROVE  Bare(p) \in Data /\ Bare(p).key = Fallback(p) /\ Bare(p).from = ""
  BY NeverBlank DEF Bare, Nothing, Data
<1> QED
  BY <1>1, <1>2

\* What a page yields is of the address it was fetched from.
LEMMA PageData ==
  ASSUME NEW p \in Profiles, NEW page \in Pages
  PROVE  PartsOf(page, WatchURL(p)) \in Data /\ OfPage(PartsOf(page, WatchURL(p)), p)
<1> DEFINE url == WatchURL(p)
           d == PartsOf(page, url)
<1> USE StringLiterals
<1>1. url \in STRING
  BY NeverBlank
<1>2. /\ page.visitor \in STRING /\ page.delegated \in STRING /\ page.user \in STRING
      /\ page.sync \in Seq(STRING) /\ page.sts \in BOOLEAN
  BY WatchAssumption DEF WatchAssumption
<1>3. SyncIDs(page.sync)[1] \in STRING /\ SyncIDs(page.sync)[2] \in STRING
  BY <1>2, SyncTexts
<1>4. /\ Or(page.delegated, SyncIDs(page.sync)[1]) \in STRING
      /\ Or(page.user, SyncIDs(page.sync)[2]) \in STRING
  BY <1>2, <1>3 DEF Or
<1> HIDE DEF url
<1>5. d \in Data /\ d.from = url /\ d.key \in {"", url}
  BY <1>1, <1>2, <1>4 DEF PartsOf, Data
<1> QED
  BY <1>5 DEF OfPage, url

-----------------------------------------------------------------------------
(* The steps of a resolution *)

\* What a resolution stores is of its client's page or a bare key, and it
\* stores something unless its fetch failed.
LEMMA ToStoreOwn ==
  ASSUME NEW p \in Profiles, NEW s \in {"visitor", "sts", "key", "auth"}, NEW d \in Data,
         NEW err \in BOOLEAN,
         (d = Nothing /\ err) \/ (OfPage(d, p) /\ (err <=> d.key = ""))
  PROVE  /\ \A x \in ToStore(s, p, d, err) : x \in Data /\ (x = Bare(p) \/ OfPage(x, p))
         /\ ~err => ToStore(s, p, d, err) # {}
<1> USE BareData
<1>1. CASE s = "visitor"
  BY <1>1 DEF ToStore
<1>2. CASE s \in {"sts", "auth"}
  BY <1>2 DEF ToStore, Unusable
<1>3. CASE s = "key"
  BY <1>3 DEF ToStore
<1> QED
  BY <1>1, <1>2, <1>3

\* A store is the new entry, if there is one, among the old ones.
LEMMA StoreEffect ==
  ASSUME NEW c \in Callers, TypeOK, FetchInv(c), Store(c)
  PROVE  LET k == CacheKey(profile[c])
         IN  \/ cache' = cache /\ failed[c]
             \/ \E d \in Data :
                  /\ d = Bare(profile[c]) \/ OfPage(d, profile[c])
                  /\ DOMAIN cache' = (DOMAIN cache) \cup {k}
                  /\ cache'[k] = d
                  /\ \A x \in DOMAIN cache : x # k => cache'[x] = cache[x]
<1> DEFINE p == profile[c]
           k == CacheKey(p)
           new == ToStore(step[c], p, data[c], failed[c])
<1>1. /\ p \in Profiles /\ data[c] \in Data /\ failed[c] \in BOOLEAN
      /\ step[c] \in {"visitor", "sts", "key", "auth"}
      /\ (data[c] = Nothing /\ failed[c]) \/ (OfPage(data[c], p) /\ (failed[c] <=> data[c].key = ""))
  BY DEF TypeOK, FetchInv, Store
<1>2. /\ \A x \in new : x \in Data /\ (x = Bare(p) \/ OfPage(x, p))
      /\ ~failed[c] => new # {}
  BY <1>1, ToStoreOwn
<1>3. \/ new = {} /\ cache' = cache
      \/ \E d \in new : cache' = Set(k, d)
  BY DEF Store
<1> HIDE DEF new, k
<1>4. ASSUME NEW d, cache' = Set(k, d)
      PROVE  /\ DOMAIN cache' = (DOMAIN cache) \cup {k}
             /\ cache'[k] = d
             /\ \A x \in DOMAIN cache : x # k => cache'[x] = cache[x]
  BY <1>4 DEF Set
<1> QED
  BY <1>2, <1>3, <1>4 DEF k

\* What a request becomes when one part of it is replaced.
Replaced(r, s, x, q) ==
  /\ q \in Requests
  /\ q.visitor = IF s = "visitor" THEN x ELSE r.visitor
  /\ q.sts = IF s = "sts" THEN x ELSE r.sts
  /\ q.key = IF s = "key" THEN x ELSE r.key
  /\ q.auth = IF s = "auth" THEN x ELSE r.auth

LEMMA TakePart ==
  \A r \in Requests : \A s \in {"visitor", "sts", "key", "auth"} : \A x :
    (IF s = "key" THEN x \in STRING ELSE x \in Data) =>
      Replaced(r, s, x, [r EXCEPT ![s] = x])
<1> SUFFICES ASSUME NEW r \in Requests, NEW s \in {"visitor", "sts", "key", "auth"}, NEW x,
                    IF s = "key" THEN x \in STRING ELSE x \in Data
             PROVE  Replaced(r, s, x, [r EXCEPT ![s] = x])
  OBVIOUS
<1> USE DEF Requests, Replaced
<1>1. CASE s = "visitor"
  BY <1>1
<1>2. CASE s = "sts"
  BY <1>2
<1>3. CASE s = "key"
  BY <1>3
<1>4. CASE s = "auth"
  BY <1>4
<1> QED
  BY <1>1, <1>2, <1>3, <1>4

\* A part of a request that is client p's own: its address or fallback key, or
\* nothing.
Fits(s, x, p) ==
  IF s = "key" THEN x \in STRING /\ x \in {"", WatchURL(p), Fallback(p)}
               ELSE x \in Data /\ x.from \in {"", WatchURL(p)}

\* The end of a resolution with a part that fits.
LEMMA ResolutionEnds ==
  ASSUME NEW c \in Callers, TypeOK, step[c] # "idle", NEW x, Fits(step[c], x, profile[c]),
         Take(c, step[c], x), GoOn(c)
  PROVE  /\ got' \in [Callers -> Requests]
         /\ \A u \in Callers : u # c => got'[u] = got[u] /\ step'[u] = step[u]
         /\ OwnData(c) => OwnData(c)'
         /\ step' \in [Callers -> {"idle", "visitor", "sts", "key", "auth"}]
         /\ step'[c] # step[c]
         /\ step[c] = "key" => got'[c].key = x
<1> DEFINE p == profile[c]
           q == [got[c] EXCEPT ![step[c]] = x]
<1>1. /\ step[c] \in {"visitor", "sts", "key", "auth"} /\ got[c] \in Requests
      /\ profile' = profile
  BY DEF TypeOK, GoOn
<1>2. IF step[c] = "key" THEN x \in STRING ELSE x \in Data
  BY DEF Fits
<1>4. got' = [got EXCEPT ![c] = q]
  BY DEF Take
<1> HIDE DEF q
<1>3. Replaced(got[c], step[c], x, q)
  BY <1>1, <1>2, TakePart DEF q
<1>5. StepAfter(c) \in {"idle", "sts", "key", "auth"} /\ StepAfter(c) # step[c]
  BY <1>1 DEF StepAfter
<1>6. step' = [step EXCEPT ![c] = StepAfter(c)]
  BY DEF GoOn
<1>7. got'[c] = q
  BY <1>4 DEF TypeOK
<1>8. OwnData(c) => OwnData(c)'
  BY <1>1, <1>3, <1>7 DEF OwnData, Fits, Replaced
<1> QED
  BY <1>3, <1>4, <1>5, <1>6, <1>7, <1>8 DEF TypeOK, Replaced

\* What a fetch answers fits, with whatever it ended.
LEMMA AnswerFits ==
  ASSUME NEW c \in Callers, TypeOK, FetchInv(c), Store(c)
  PROVE  step[c] # "idle" /\ Fits(step[c], Answer(c), profile[c])
<1> DEFINE p == profile[c]
<1>1. /\ p \in Profiles /\ data[c] \in Data /\ failed[c] \in BOOLEAN
      /\ step[c] \in {"visitor", "sts", "key", "auth"}
      /\ (data[c] = Nothing /\ failed[c]) \/ (OfPage(data[c], p) /\ (failed[c] <=> data[c].key = ""))
  BY DEF TypeOK, FetchInv, Store
<1>2. /\ data[c].from \in {"", WatchURL(p)} /\ data[c].key \in {"", WatchURL(p)}
      /\ data[c].key \in STRING
  BY <1>1, BareData DEF OfPage, Data
<1>3. CASE step[c] = "key"
  <2>1. Answer(c) = IF failed[c] THEN p.key ELSE Or(data[c].key, Fallback(p))
    BY <1>3 DEF Answer
  <2>2. p.key \in STRING /\ p.key \in {"", Fallback(p)} /\ Fallback(p) \in STRING
    BY <1>1, NeverBlank, StringLiterals, WatchAssumption DEF WatchAssumption
  <2> QED
    BY <1>2, <1>3, <2>1, <2>2 DEF Fits, Or
<1>4. CASE step[c] # "key"
  <2>1. Answer(c) \in {Nothing, data[c]}
    BY <1>1, <1>4 DEF Answer
  <2> QED
    BY <1>1, <1>2, <1>4, <2>1, BareData DEF Fits
<1> QED
  BY <1>1, <1>3, <1>4

\* What a hit takes from the cache.
Found(c) ==
  LET d == cache[CacheKey(profile[c])]
  IN  IF step[c] = "key" THEN CachedKey(profile[c], d) ELSE d

\* It fits as well, and is never a blank key.
LEMMA FoundFits ==
  ASSUME NEW c \in Callers, TypeOK, EntriesOwn, Cached(c)
  PROVE  Fits(step[c], Found(c), profile[c]) /\ (step[c] = "key" => Found(c) # "")
<1> DEFINE p == profile[c]
           d == cache[CacheKey(p)]
<1>1. p \in Profiles /\ d \in Data /\ (d = Bare(p) \/ OfPage(d, p))
  BY DEF TypeOK, EntriesOwn, Cached
<1>2. /\ d.from \in {"", WatchURL(p)} /\ d.key \in {"", WatchURL(p), Fallback(p)}
      /\ d.key \in STRING
  BY <1>1, BareData DEF OfPage, Data
<1>3. Fallback(p) \in STRING /\ Fallback(p) # ""
  BY <1>1, NeverBlank
<1>4. Found(c) = IF step[c] = "key" THEN Or(d.key, Fallback(p)) ELSE d
  BY DEF Found, CachedKey
<1>5. CASE step[c] = "key"
  <2>1. Or(d.key, Fallback(p)) # ""
    BY <1>3, Zenon DEF Or
  <2>2. Or(d.key, Fallback(p)) \in {d.key, Fallback(p)}
    BY Zenon DEF Or
  <2> HIDE DEF d
  <2>3. Found(c) \in STRING /\ Found(c) \in {"", WatchURL(p), Fallback(p)} /\ Found(c) # ""
    BY <1>2, <1>3, <1>4, <1>5, <2>1, <2>2
  <2> QED
    BY <1>5, <2>3 DEF Fits
<1>6. CASE step[c] # "key"
  BY <1>1, <1>2, <1>4, <1>6 DEF Fits
<1> QED
  BY <1>5, <1>6

-----------------------------------------------------------------------------
(* Clients keep to their own pages *)

\* What holds of every caller.
CallerInv(c) == FetchInv(c) /\ OwnData(c) /\ OneGoodPage(c)

\* A caller that does nothing is not disturbed: entries are never removed.
LEMMA OthersUndisturbed ==
  ASSUME NEW u \in Callers, CallerInv(u), DOMAIN cache \subseteq DOMAIN cache',
         step'[u] = step[u], at'[u] = at[u], profile'[u] = profile[u], data'[u] = data[u],
         failed'[u] = failed[u], got'[u] = got[u], good'[u] = good[u]
  PROVE  CallerInv(u)'
BY DEF CallerInv, FetchInv, OwnData, OneGoodPage, Cached

\* The cache of a step that stores nothing.
LEMMA CacheUnchanged ==
  ASSUME TypeOK, EntriesOwn, UNCHANGED cache
  PROVE  /\ EntriesOwn' /\ DOMAIN cache \subseteq DOMAIN cache'
         /\ DOMAIN cache' \subseteq {CacheKey(p) : p \in Profiles}
         /\ \A k \in DOMAIN cache' : cache'[k] \in Data
BY DEF TypeOK, EntriesOwn

\* A step keeps data with its client.
LEMMA WatchStep == FromOwnPage /\ [Next]_vars => FromOwnPage'
<1> SUFFICES ASSUME FromOwnPage, [Next]_vars
             PROVE  FromOwnPage'
  OBVIOUS
<1>0. TypeOK /\ EntriesOwn /\ \A c \in Callers : CallerInv(c)
  BY DEF FromOwnPage, CallerInv
<1>1. CASE UNCHANGED vars
  BY <1>0, <1>1 DEF vars, callVars, FromOwnPage, TypeOK, EntriesOwn, CallerInv, FetchInv,
                    OwnData, OneGoodPage, Cached
<1>2. ASSUME NEW c \in Callers, CallerStep(c)
      PROVE  FromOwnPage'
  <2> SUFFICES TypeOK' /\ EntriesOwn' /\ CallerInv(c)'
               /\ \A u \in Callers : u # c => CallerInv(u)'
    BY DEF FromOwnPage, CallerInv
  <2>0. TypeOK /\ EntriesOwn /\ FetchInv(c) /\ OwnData(c) /\ OneGoodPage(c)
    BY <1>0 DEF CallerInv
  <2> DEFINE p == profile[c]
  <2>a. p \in Profiles
    BY <2>0 DEF TypeOK
  <2>b. good \in [Callers -> Nat] /\ good[c] <= 1
    BY <2>0 DEF TypeOK, OneGoodPage
  <2>c. good[c] \in {0, 1}
    BY <2>b
  <2>d. Nothing \in Data
    BY BareData
  <2>e. UNCHANGED good => OneGoodPage(c)'
    BY <2>0 DEF OneGoodPage
  <2>1. CASE Begin(c)
    <3>1. UNCHANGED cache /\ step[c] = "idle" /\ at[c] = "get"
      BY <2>0, <2>1 DEF Begin, Local, FetchInv
    <3>2. NoRequest \in Requests
      BY BareData, StringLiterals DEF NoRequest, Requests
    <3>a. /\ UNCHANGED <<at, data, failed>>
          /\ profile' \in [Callers -> Profiles]
          /\ \A u \in Callers : u # c => profile'[u] = profile[u]
          /\ step' = [step EXCEPT ![c] = "visitor"]
          /\ got' = [got EXCEPT ![c] = NoRequest]
          /\ good' = [good EXCEPT ![c] = 0]
      BY <2>0, <2>1 DEF Begin, Local, TypeOK
    <3>b. calls' \in 0..MaxCalls
      <4>1. calls \in 0..MaxCalls
        BY <2>0 DEF TypeOK
      <4>2. calls < MaxCalls /\ calls' = calls + 1
        BY <2>1 DEF Begin
      <4> QED
        BY <4>1, <4>2, BoundOfCalls
    <3>3. TypeOK'
      BY <2>0, <2>d, <3>1, <3>2, <3>a, <3>b, CacheUnchanged DEF TypeOK
    <3>4. CallerInv(c)'
      <4>1. got'[c] = NoRequest /\ good'[c] = 0 /\ at'[c] = "get"
            /\ data'[c] = Nothing /\ ~failed'[c]
        BY <2>0, <3>1, <3>a DEF FetchInv, TypeOK
      <4>a. good'[c] <= 1
        BY <4>1
      <4>2. FetchInv(c)' /\ OneGoodPage(c)'
        BY <4>1, <4>a DEF FetchInv, OneGoodPage
      <4>3. OwnData(c)'
        <5>1. /\ got'[c].visitor = Nothing /\ got'[c].sts = Nothing /\ got'[c].auth = Nothing
              /\ got'[c].key = ""
          <6>1. /\ NoRequest.visitor = Nothing /\ NoRequest.sts = Nothing
                /\ NoRequest.auth = Nothing /\ NoRequest.key = ""
            BY DEF NoRequest
          <6> QED
            BY <4>1, <6>1, Zenon
        <5> QED
          BY <5>1, BareData DEF OwnData
      <4> QED
        BY <4>2, <4>3 DEF CallerInv
    <3>5. \A u \in Callers : u # c => CallerInv(u)'
      BY <1>0, <2>0, <3>1, <3>a, CacheUnchanged, OthersUndisturbed DEF TypeOK
    <3> QED
      BY <2>0, <3>1, <3>3, <3>4, <3>5, CacheUnchanged
  <2>2. CASE VisitorConfigured(c)
    <3>1. UNCHANGED <<cache, got, good, profile, calls>>
      BY <2>2 DEF VisitorConfigured, Local, GoOn
    <3>2. /\ step[c] = "visitor" /\ StepAfter(c) = "sts"
          /\ step' = [step EXCEPT ![c] = "sts"]
          /\ at' = [at EXCEPT ![c] = "get"]
          /\ data' = [data EXCEPT ![c] = Nothing]
          /\ failed' = [failed EXCEPT ![c] = FALSE]
          /\ at[c] = "get"
      BY <2>2 DEF VisitorConfigured, GoOn, StepAfter
    <3>3. TypeOK'
      BY <2>0, <2>d, <3>1, <3>2, CacheUnchanged DEF TypeOK
    <3>4. CallerInv(c)'
      <4>1. FetchInv(c)' /\ OneGoodPage(c)'
        BY <2>0, <2>e, <3>1, <3>2 DEF FetchInv, TypeOK, Cached
      <4>2. OwnData(c)'
        BY <2>0, <3>1 DEF OwnData
      <4> QED
        BY <4>1, <4>2 DEF CallerInv
    <3>5. \A u \in Callers : u # c => CallerInv(u)'
      BY <1>0, <2>0, <3>1, <3>2, CacheUnchanged, OthersUndisturbed DEF TypeOK
    <3> QED
      BY <2>0, <3>1, <3>3, <3>4, <3>5, CacheUnchanged
  <2>3. CASE Hit(c)
    <3>1. UNCHANGED <<cache, good, profile, calls>> /\ step[c] # "idle" /\ Cached(c)
      BY <2>3 DEF Hit, Local, GoOn
    <3>2. Take(c, step[c], Found(c)) /\ GoOn(c)
      BY <2>3 DEF Hit, Found
    <3>3. Fits(step[c], Found(c), p)
      BY <2>0, <3>1, FoundFits
    <3>4. /\ got' \in [Callers -> Requests]
          /\ \A u \in Callers : u # c => got'[u] = got[u] /\ step'[u] = step[u]
          /\ OwnData(c)'
          /\ step' \in [Callers -> {"idle", "visitor", "sts", "key", "auth"}]
      BY <2>0, <3>1, <3>2, <3>3, ResolutionEnds
    <3>5. /\ at' = [at EXCEPT ![c] = "get"]
          /\ data' = [data EXCEPT ![c] = Nothing]
          /\ failed' = [failed EXCEPT ![c] = FALSE]
      BY <3>2 DEF GoOn
    <3>6. TypeOK'
      BY <2>0, <2>d, <3>1, <3>4, <3>5, CacheUnchanged DEF TypeOK
    <3>7. CallerInv(c)'
      <4>1. FetchInv(c)' /\ OneGoodPage(c)'
        BY <2>0, <2>e, <3>1, <3>5 DEF FetchInv, TypeOK, Cached
      <4> QED
        BY <3>4, <4>1 DEF CallerInv
    <3>8. \A u \in Callers : u # c => CallerInv(u)'
      BY <1>0, <2>0, <3>1, <3>4, <3>5, CacheUnchanged, OthersUndisturbed DEF TypeOK
    <3> QED
      BY <2>0, <3>1, <3>6, <3>7, <3>8, CacheUnchanged
  <2>4. CASE Miss(c)
    <3>1. UNCHANGED <<cache, step, profile, data, failed, got, good, calls>>
      BY <2>4 DEF Miss, Local
    <3>2. at[c] = "get" /\ ~Cached(c) /\ step[c] # "idle" /\ at' = [at EXCEPT ![c] = "page"]
      BY <2>4 DEF Miss
    <3>3. TypeOK'
      BY <2>0, <2>d, <3>1, <3>2, CacheUnchanged DEF TypeOK
    <3>4. CallerInv(c)'
      <4>1. good[c] = 0
        BY <2>0, <2>c, <3>2 DEF FetchInv
      <4>2. FetchInv(c)' /\ OneGoodPage(c)'
        BY <2>0, <2>e, <3>1, <3>2, <4>1 DEF FetchInv, TypeOK
      <4>3. OwnData(c)'
        BY <2>0, <3>1 DEF OwnData
      <4> QED
        BY <4>2, <4>3 DEF CallerInv
    <3>5. \A u \in Callers : u # c => CallerInv(u)'
      BY <1>0, <2>0, <3>1, <3>2, CacheUnchanged, OthersUndisturbed DEF TypeOK
    <3> QED
      BY <2>0, <3>1, <3>3, <3>4, <3>5, CacheUnchanged
  <2>5. CASE FetchFails(c)
    <3>1. UNCHANGED <<cache, step, profile, data, got, good, calls>>
      BY <2>5 DEF FetchFails, Local
    <3>2. /\ at[c] = "page" /\ at' = [at EXCEPT ![c] = "set"]
          /\ failed' = [failed EXCEPT ![c] = TRUE]
      BY <2>5 DEF FetchFails
    <3>3. TypeOK'
      BY <2>0, <2>d, <3>1, <3>2, CacheUnchanged DEF TypeOK
    <3>4. CallerInv(c)'
      <4>1. FetchInv(c)' /\ OneGoodPage(c)'
        BY <2>0, <2>e, <3>1, <3>2 DEF FetchInv, TypeOK
      <4>2. OwnData(c)'
        BY <2>0, <3>1 DEF OwnData
      <4> QED
        BY <4>1, <4>2 DEF CallerInv
    <3>5. \A u \in Callers : u # c => CallerInv(u)'
      BY <1>0, <2>0, <3>1, <3>2, CacheUnchanged, OthersUndisturbed DEF TypeOK
    <3> QED
      BY <2>0, <3>1, <3>3, <3>4, <3>5, CacheUnchanged
  <2>6. CASE FetchPage(c)
    <3>1. UNCHANGED <<cache, step, profile, got, calls>> /\ at[c] = "page"
      BY <2>6 DEF FetchPage, Local
    <3>2. PICK page \in Pages :
            LET d == PartsOf(page, WatchURL(p))
            IN  /\ data' = [data EXCEPT ![c] = d]
                /\ failed' = [failed EXCEPT ![c] = d.key = ""]
                /\ good' = [good EXCEPT ![c] = @ + IF d.key = "" THEN 0 ELSE 1]
                /\ at' = [at EXCEPT ![c] = IF ~d.sts /\ page.player THEN "script" ELSE "set"]
      BY <2>6 DEF FetchPage
    <3> DEFINE d == PartsOf(page, WatchURL(p))
    <3>3. d \in Data /\ OfPage(d, p) /\ good[c] = 0
      BY <2>0, <2>a, <3>1, PageData DEF FetchInv
    <3> HIDE DEF d
    <3>4. /\ data' = [data EXCEPT ![c] = d]
          /\ failed' = [failed EXCEPT ![c] = d.key = ""]
          /\ good' = [good EXCEPT ![c] = good[c] + IF d.key = "" THEN 0 ELSE 1]
          /\ \/ at' = [at EXCEPT ![c] = "script"]
             \/ at' = [at EXCEPT ![c] = "set"]
      BY <3>2 DEF d
    <3> DEFINE n == IF d.key = "" THEN 0 ELSE 1
    <3>a. n \in {0, 1}
      OBVIOUS
    <3>b. n = 1 => d.key # ""
      <4>1. CASE d.key = ""
        <5>1. n = 0
          BY <4>1, Zenon
        <5>2. 0 # 1
          OBVIOUS
        <5> QED
          BY <5>1, <5>2, Zenon
      <4> QED
        BY <4>1, Zenon
    <3>m. good' = [good EXCEPT ![c] = good[c] + n]
      BY <3>4
    <3> HIDE DEF n
    <3>5. good' = [good EXCEPT ![c] = n] /\ n \in Nat /\ n <= 1
      <4>1. good[c] + n = n /\ n \in Nat /\ n <= 1
        <5>1. good[c] = 0
          BY <3>3
        <5> QED
          BY <3>a, <5>1
      <4> QED
        BY <3>m, <4>1, Zenon
    <3>6. TypeOK'
      <4>1. good' \in [Callers -> Nat]
        BY <2>b, <3>5
      <4>2. data' \in [Callers -> Data] /\ failed' \in [Callers -> BOOLEAN]
        BY <2>0, <3>3, <3>4 DEF TypeOK
      <4>3. at' \in [Callers -> {"get", "page", "script", "set"}]
        BY <2>0, <3>4 DEF TypeOK
      <4> QED
        BY <2>0, <3>1, <4>1, <4>2, <4>3, CacheUnchanged DEF TypeOK
    <3>7. CallerInv(c)'
      <4>1. /\ data'[c] = d /\ (failed'[c] <=> d.key = "") /\ at'[c] \in {"script", "set"}
            /\ good'[c] = n
        BY <2>0, <3>4, <3>5 DEF TypeOK
      <4>2. FetchInv(c)' /\ OneGoodPage(c)'
        BY <2>0, <3>b, <3>1, <3>3, <3>5, <4>1 DEF FetchInv, OneGoodPage, OfPage
      <4>3. OwnData(c)'
        BY <2>0, <3>1 DEF OwnData
      <4> QED
        BY <4>2, <4>3 DEF CallerInv
    <3>8. \A u \in Callers : u # c => CallerInv(u)'
      BY <1>0, <2>0, <3>1, <3>4, <3>5, CacheUnchanged, OthersUndisturbed DEF TypeOK
    <3> QED
      BY <2>0, <3>1, <3>6, <3>7, <3>8, CacheUnchanged
  <2>7. CASE FetchScript(c)
    <3>1. UNCHANGED <<cache, step, profile, failed, got, good, calls>> /\ at[c] = "script"
      BY <2>7 DEF FetchScript, Local
    <3>2. PICK found \in BOOLEAN : data' = [data EXCEPT ![c].sts = found]
      BY <2>7 DEF FetchScript
    <3> DEFINE d == [data[c] EXCEPT !.sts = found]
    <3>3. d \in Data /\ d.from = data[c].from /\ d.key = data[c].key
      BY <2>0 DEF TypeOK, Data
    <3>4. data' = [data EXCEPT ![c] = d] /\ at' = [at EXCEPT ![c] = "set"]
      BY <2>7, <3>2 DEF FetchScript
    <3> HIDE DEF d
    <3>5. TypeOK'
      BY <2>0, <2>d, <3>1, <3>3, <3>4, CacheUnchanged DEF TypeOK
    <3>6. CallerInv(c)'
      <4>1. data'[c] = d /\ at'[c] = "set"
        BY <2>0, <3>4 DEF TypeOK
      <4>2. FetchInv(c)' /\ OneGoodPage(c)'
        BY <2>0, <2>e, <3>1, <3>3, <4>1 DEF FetchInv, OfPage, Cached
      <4>3. OwnData(c)'
        BY <2>0, <3>1 DEF OwnData
      <4> QED
        BY <4>2, <4>3 DEF CallerInv
    <3>7. \A u \in Callers : u # c => CallerInv(u)'
      BY <1>0, <2>0, <3>1, <3>4, CacheUnchanged, OthersUndisturbed DEF TypeOK
    <3> QED
      BY <2>0, <3>1, <3>5, <3>6, <3>7, CacheUnchanged
  <2>8. CASE Store(c)
    <3> DEFINE k == CacheKey(p)
    <3>1. UNCHANGED <<good, profile, calls>>
      BY <2>8 DEF Store, GoOn
    <3>2. step[c] # "idle" /\ Fits(step[c], Answer(c), p)
      BY <2>0, <2>8, AnswerFits
    <3>3. Take(c, step[c], Answer(c)) /\ GoOn(c)
      BY <2>8 DEF Store
    <3>4. /\ got' \in [Callers -> Requests]
          /\ \A u \in Callers : u # c => got'[u] = got[u] /\ step'[u] = step[u]
          /\ OwnData(c)'
          /\ step' \in [Callers -> {"idle", "visitor", "sts", "key", "auth"}]
      BY <2>0, <3>2, <3>3, ResolutionEnds
    <3>5. /\ at' = [at EXCEPT ![c] = "get"]
          /\ data' = [data EXCEPT ![c] = Nothing]
          /\ failed' = [failed EXCEPT ![c] = FALSE]
      BY <3>3 DEF GoOn
    <3>6. /\ EntriesOwn' /\ DOMAIN cache \subseteq DOMAIN cache'
          /\ DOMAIN cache' \subseteq {CacheKey(q) : q \in Profiles}
          /\ \A x \in DOMAIN cache' : cache'[x] \in Data
          /\ ~failed[c] => k \in DOMAIN cache'
      <4>1. CASE cache' = cache /\ failed[c]
        BY <2>0, <4>1, CacheUnchanged
      <4>2. ASSUME NEW d \in Data,
                   d = Bare(p) \/ OfPage(d, p),
                   DOMAIN cache' = (DOMAIN cache) \cup {k},
                   cache'[k] = d,
                   \A x \in DOMAIN cache : x # k => cache'[x] = cache[x]
            PROVE  /\ EntriesOwn'
                   /\ DOMAIN cache' \subseteq {CacheKey(q) : q \in Profiles}
                   /\ \A x \in DOMAIN cache' : cache'[x] \in Data
        <5>1. ASSUME NEW q \in Profiles, CacheKey(q) \in DOMAIN cache'
              PROVE  cache'[CacheKey(q)] = Bare(q) \/ OfPage(cache'[CacheKey(q)], q)
          <6>1. CASE CacheKey(q) = k
            BY <2>a, <4>2, <6>1, KeyOfClient
          <6>2. CASE CacheKey(q) # k
            BY <2>0, <4>2, <5>1, <6>2 DEF EntriesOwn
          <6> QED
            BY <6>1, <6>2
        <5> HIDE DEF k
        <5>2. \A x \in DOMAIN cache' : cache'[x] \in Data
          BY <2>0, <4>2 DEF TypeOK
        <5>3. DOMAIN cache' \subseteq {CacheKey(q) : q \in Profiles}
          BY <2>0, <2>a, <4>2 DEF TypeOK, k
        <5> QED
          BY <5>1, <5>2, <5>3 DEF EntriesOwn
      <4> QED
        BY <2>0, <2>8, <4>1, <4>2, StoreEffect
    <3>7. TypeOK'
      BY <2>0, <2>d, <3>1, <3>4, <3>5, <3>6 DEF TypeOK
    <3>8. CallerInv(c)'
      <4>1. FetchInv(c)' /\ OneGoodPage(c)'
        BY <2>0, <2>e, <3>1, <3>5, <3>6 DEF FetchInv, TypeOK, Cached
      <4> QED
        BY <3>4, <4>1 DEF CallerInv
    <3>9. \A u \in Callers : u # c => CallerInv(u)'
      BY <1>0, <2>0, <3>1, <3>4, <3>5, <3>6, OthersUndisturbed DEF TypeOK
    <3> QED
      BY <3>6, <3>7, <3>8, <3>9
  <2> QED
    BY <1>2, <2>1, <2>2, <2>3, <2>4, <2>5, <2>6, <2>7, <2>8 DEF CallerStep
<1> QED
  BY <1>1, <1>2 DEF Next

\* Clients that share the resolver never mix their data, and a request fetches
\* at most one page with a key.
THEOREM OwnPagesOnly == Spec => []FromOwnPage
<1>1. Init => FromOwnPage
  <2> SUFFICES ASSUME Init
               PROVE  FromOwnPage
    OBVIOUS
  <2>1. DOMAIN cache = {}
    BY DEF Init
  <2>2. NoRequest \in Requests
    BY BareData, StringLiterals DEF NoRequest, Requests
  <2>a. 0 \in 0..MaxCalls
    BY BoundOfCalls
  <2>3. TypeOK
    BY <2>1, <2>2, <2>a, BareData DEF Init, TypeOK
  <2>4. EntriesOwn
    BY <2>1 DEF EntriesOwn
  <2>5. ASSUME NEW c \in Callers
        PROVE  FetchInv(c) /\ OwnData(c) /\ OneGoodPage(c)
    <3>a. good[c] = 0
      BY DEF Init
    <3>1. good[c] = 0 /\ good[c] <= 1
      BY <3>a
    <3>2. FetchInv(c) /\ OneGoodPage(c)
      BY <3>1 DEF Init, FetchInv, OneGoodPage
    <3>3. OwnData(c)
      BY BareData DEF Init, OwnData, NoRequest
    <3> QED
      BY <3>2, <3>3
  <2> QED
    BY <2>3, <2>4, <2>5 DEF FromOwnPage
<1> QED
  BY <1>1, WatchStep, PTL DEF Spec

-----------------------------------------------------------------------------
(* Entries without a fetch are final *)

\* Once a client has an entry and nobody fetches for it, it is never replaced.
THEOREM EntriesSettle == Spec => SettledForGood
<1>1. FromOwnPage /\ [Next]_vars =>
        [\A k \in DOMAIN cache :
           ~Fetching(k) => ~Fetching(k)' /\ cache'[k] = cache[k]]_vars
  <2> SUFFICES ASSUME FromOwnPage, Next, NEW k \in DOMAIN cache, ~Fetching(k)
               PROVE  ~Fetching(k)' /\ cache'[k] = cache[k]
    BY DEF vars, callVars
  <2>0. TypeOK /\ \A c \in Callers : FetchInv(c)
    BY DEF FromOwnPage
  <2>1. \A u \in Callers : CacheKey(profile[u]) = k => at[u] = "get"
    BY DEF Fetching
  <2> SUFFICES /\ cache'[k] = cache[k]
               /\ \A u \in Callers : CacheKey(profile'[u]) = k => at'[u] = "get"
    BY DEF Fetching
  <2>2. PICK c \in Callers : CallerStep(c)
    BY DEF Next
  <2>3. CASE Begin(c)
    <3>1. step[c] = "idle" /\ UNCHANGED <<cache, at>>
      BY <2>3 DEF Begin, Local
    <3>2. at[c] = "get"
      BY <2>0, <3>1 DEF FetchInv
    <3>3. \A u \in Callers : u # c => profile'[u] = profile[u]
      BY <2>0, <2>3 DEF Begin, TypeOK
    <3> QED
      BY <2>1, <3>1, <3>2, <3>3
  <2>4. CASE VisitorConfigured(c) \/ Hit(c)
    <3>1. UNCHANGED <<cache, profile>> /\ at' = [at EXCEPT ![c] = "get"]
      BY <2>4 DEF VisitorConfigured, Hit, GoOn, Local
    <3> QED
      BY <2>0, <2>1, <3>1 DEF TypeOK
  <2>5. CASE Miss(c)
    <3>1. UNCHANGED <<cache, profile>> /\ at' = [at EXCEPT ![c] = "page"]
      BY <2>5 DEF Miss, Local
    <3>2. CacheKey(profile[c]) # k
      BY <2>5 DEF Miss, Cached
    <3> QED
      BY <2>0, <2>1, <3>1, <3>2 DEF TypeOK
  <2>6. CASE FetchFails(c) \/ FetchPage(c) \/ FetchScript(c)
    <3>1. UNCHANGED <<cache, profile>> /\ at[c] # "get"
      BY <2>6 DEF FetchFails, FetchPage, FetchScript, Local
    <3>2. \A u \in Callers : u # c => at'[u] = at[u]
      BY <2>0, <2>6 DEF FetchFails, FetchPage, FetchScript, TypeOK
    <3> QED
      BY <2>1, <3>1, <3>2
  <2>7. CASE Store(c)
    <3>1. UNCHANGED profile /\ at' = [at EXCEPT ![c] = "get"] /\ at[c] = "set"
      BY <2>7 DEF Store, GoOn
    <3>2. CacheKey(profile[c]) # k
      BY <2>1, <3>1
    <3>3. cache'[k] = cache[k]
      BY <2>0, <2>7, <3>2, StoreEffect
    <3> QED
      BY <2>0, <2>1, <3>1, <3>3 DEF TypeOK
  <2> QED
    BY <2>2, <2>3, <2>4, <2>5, <2>6, <2>7 DEF CallerStep
<1> QED
  BY <1>1, OwnPagesOnly, PTL DEF Spec, SettledForGood

-----------------------------------------------------------------------------
(* Requests without a key *)

\* Only the failure of its own fetch, just now, leaves the request of a client
\* that has no key of its own without one.
THEOREM KeylessNeedsFailure == Spec => KeylessOnlyOnFailure
<1>1. FromOwnPage /\ [Next]_vars =>
        [\A c \in Callers :
           (step[c] = "key" /\ step'[c] # "key" /\ got'[c].key = "") =>
             at[c] = "set" /\ failed[c] /\ profile[c].key = ""]_vars
  <2> SUFFICES ASSUME FromOwnPage, Next, NEW c \in Callers,
                      step[c] = "key", step'[c] # "key", got'[c].key = ""
               PROVE  at[c] = "set" /\ failed[c] /\ profile[c].key = ""
    BY DEF vars, callVars
  <2>0. TypeOK /\ EntriesOwn /\ FetchInv(c)
    BY DEF FromOwnPage
  <2>1. PICK u \in Callers : CallerStep(u)
    BY DEF Next
  <2>2. u = c /\ (Hit(c) \/ Store(c))
    <3>1. \A w \in Callers : w # u => step'[w] = step[w]
      BY <2>0, <2>1 DEF CallerStep, Begin, VisitorConfigured, Hit, Miss, FetchFails, FetchPage,
                        FetchScript, Store, Local, GoOn, TypeOK
    <3>2. u = c
      BY <3>1
    <3> QED
      BY <2>1, <3>2 DEF CallerStep, Begin, VisitorConfigured, Miss, FetchFails, FetchPage,
                        FetchScript, Local
  <2>3. CASE Hit(c)
    <3>1. Cached(c) /\ Take(c, step[c], Found(c)) /\ GoOn(c)
      BY <2>3 DEF Hit, Found
    <3>2. Fits(step[c], Found(c), profile[c]) /\ Found(c) # ""
      BY <2>0, <3>1, FoundFits
    <3>3. got'[c].key = Found(c)
      BY <2>0, <3>1, <3>2, ResolutionEnds
    <3> QED
      BY <3>2, <3>3
  <2>4. CASE Store(c)
    <3>1. Fits(step[c], Answer(c), profile[c])
      BY <2>0, <2>4, AnswerFits
    <3>2. Take(c, step[c], Answer(c)) /\ GoOn(c) /\ at[c] = "set"
      BY <2>4 DEF Store
    <3>3. Answer(c) = ""
      BY <2>0, <3>1, <3>2, ResolutionEnds
    <3>4. profile[c] \in Profiles /\ failed[c] \in BOOLEAN
      BY <2>0 DEF TypeOK
    <3>5. Answer(c) = IF failed[c] THEN profile[c].key ELSE Or(data[c].key, Fallback(profile[c]))
      BY DEF Answer
    <3>6. Or(data[c].key, Fallback(profile[c])) # ""
      BY <3>4, NeverBlank, Zenon DEF Or
    <3> QED
      BY <3>2, <3>3, <3>4, <3>5, <3>6
  <2> QED
    BY <2>2, <2>3, <2>4
<1> QED
  BY <1>1, OwnPagesOnly, PTL DEF Spec, KeylessOnlyOnFailure

-----------------------------------------------------------------------------
(* What happens to a session *)

USE SessionAssumption DEF SessionAssumption

\* Looking up: the entry found is the one there was, used now, and what is not
\* found is gone; nothing else changes.
LEMMA LookupEffect ==
  ASSUME NEW t \in Threads, SessionTypeOK, GetSession(t) \/ GetSessionAgain(t)
  PROVE  \/ /\ video[t] \in CachedVideos
            /\ ~Expired(sessions[video[t]], clock)
            /\ DOMAIN sessions' = CachedVideos
            /\ sessions'[video[t]] = [sessions[video[t]] EXCEPT !.lastAccess = clock]
            /\ \A w \in CachedVideos : w # video[t] => sessions'[w] = sessions[w]
            /\ local' = [local EXCEPT ![t] = sessions'[video[t]]]
            /\ pc' = [pc EXCEPT ![t] = "use"]
         \/ /\ video[t] \in CachedVideos => Expired(sessions[video[t]], clock)
            /\ DOMAIN sessions' = CachedVideos \ {video[t]}
            /\ \A w \in DOMAIN sessions' : sessions'[w] = sessions[w]
            /\ \/ local' = local /\ pc' = [pc EXCEPT ![t] = "fetch"]
               \/ local' = [local EXCEPT ![t] = NoSession] /\ pc' = [pc EXCEPT ![t] = "idle"]
<1> DEFINE v == video[t]
           s == [sessions[v] EXCEPT !.lastAccess = clock]
<1>1. CASE v \in CachedVideos /\ ~Expired(sessions[v], clock)
  <2>1. /\ sessions' = [sessions EXCEPT ![v] = s]
        /\ local' = [local EXCEPT ![t] = s]
        /\ pc' = [pc EXCEPT ![t] = "use"]
    BY <1>1 DEF GetSession, GetSessionAgain, Lookup, Goto
  <2> HIDE DEF s
  <2>2. /\ DOMAIN sessions' = CachedVideos
        /\ sessions'[v] = s
        /\ \A w \in CachedVideos : w # v => sessions'[w] = sessions[w]
    BY <1>1, <2>1 DEF CachedVideos
  <2> USE DEF s
  <2> QED
    BY <1>1, <2>1, <2>2
<1>2. CASE ~(v \in CachedVideos /\ ~Expired(sessions[v], clock))
  <2>1. /\ sessions' = Drop(sessions, {v})
        /\ \/ local' = local /\ pc' = [pc EXCEPT ![t] = "fetch"]
           \/ local' = [local EXCEPT ![t] = NoSession] /\ pc' = [pc EXCEPT ![t] = "idle"]
    BY <1>2 DEF GetSession, GetSessionAgain, Lookup, Goto, Return
  <2>2. /\ DOMAIN sessions' = CachedVideos \ {v}
        /\ \A w \in DOMAIN sessions' : sessions'[w] = sessions[w]
    BY <2>1 DEF CachedVideos, Drop
  <2> QED
    BY <1>2, <2>1, <2>2
<1> QED
  BY <1>1, <1>2

\* The table a store evicts from: what had not expired when the lock was asked
\* for, and the new session.
Dead(t) == ExpiredAt(local[t].lastAccess)
Table(t) == StoreSession(Drop(sessions, Dead(t)), video[t], local[t])

\* What is in it.
LEMMA TableContents ==
  ASSUME NEW t
  PROVE  /\ DOMAIN Table(t) = (CachedVideos \ Dead(t)) \cup {video[t]}
         /\ Table(t)[video[t]] = local[t]
         /\ \A w \in CachedVideos \ Dead(t) : w # video[t] => Table(t)[w] = sessions[w]
<1> DEFINE kept == Drop(sessions, Dead(t))
<1>1. /\ DOMAIN kept = CachedVideos \ Dead(t)
      /\ \A w \in CachedVideos \ Dead(t) : kept[w] = sessions[w]
  BY DEF CachedVideos, Drop
<1>2. Table(t) = StoreSession(kept, video[t], local[t])
  BY DEF Table
<1> HIDE DEF kept
<1> QED
  BY <1>1, <1>2 DEF StoreSession

\* Storing a session.
LEMMA PutEffect ==
  ASSUME NEW t, PutSession(t)
  PROVE  /\ DOMAIN sessions' \subseteq DOMAIN Table(t)
         /\ \A w \in DOMAIN sessions' : sessions'[w] = Table(t)[w]
         /\ \/ /\ ~(MaxEntries > 0 /\ Cardinality(DOMAIN Table(t)) > MaxEntries)
               /\ DOMAIN sessions' = DOMAIN Table(t)
            \/ /\ MaxEntries > 0 /\ Cardinality(DOMAIN Table(t)) > MaxEntries
               /\ \E v \in DOMAIN Table(t) :
                    /\ LeastRecent(Table(t), v)
                    /\ DOMAIN sessions' = (DOMAIN Table(t)) \ {v}
<1>1. EvictLRU(Table(t), sessions')
  BY DEF PutSession, Table, Dead
<1> HIDE DEF Table
<1>2. CASE MaxEntries > 0 /\ Cardinality(DOMAIN Table(t)) > MaxEntries
  <2>1. PICK v \in Victims(Table(t)) : sessions' = Drop(Table(t), {v})
    BY <1>1, <1>2 DEF EvictLRU
  <2>2. /\ DOMAIN sessions' = (DOMAIN Table(t)) \ {v}
        /\ \A w \in (DOMAIN Table(t)) \ {v} : sessions'[w] = Table(t)[w]
    BY <2>1 DEF Drop
  <2>3. v \in DOMAIN Table(t) /\ LeastRecent(Table(t), v)
    BY DEF Victims
  <2> QED
    BY <1>2, <2>2, <2>3
<1>3. CASE ~(MaxEntries > 0 /\ Cardinality(DOMAIN Table(t)) > MaxEntries)
  BY <1>1, <1>3 DEF EvictLRU
<1> QED
  BY <1>2, <1>3

\* Stamping a session: it is used now, and cached since the first time.
LEMMA StampEffect ==
  ASSUME NEW t \in Threads, SessionTypeOK, Stamp(t)
  PROVE  \E s \in Sessions :
           /\ local' = [local EXCEPT ![t] = s]
           /\ s.lastAccess = clock
           /\ s.cachedAt # 0
           /\ local[t].born = local[t].cachedAt => s.born = s.cachedAt
<1> DEFINE old == local[t]
           c == IF old.cachedAt = 0 THEN clock ELSE old.cachedAt
           b == IF old.born = 0 THEN clock ELSE old.born
           s == [old EXCEPT !.cachedAt = c, !.lastAccess = clock, !.born = b]
<1>1. /\ old \in Sessions /\ clock \in 1..MaxTime
      /\ old.cachedAt \in 0..MaxTime /\ old.born \in 0..MaxTime
  BY DEF SessionTypeOK, Sessions
<1>2. /\ c \in 0..MaxTime /\ c # 0 /\ b \in 0..MaxTime /\ clock \in 0..MaxTime
      /\ old.born = old.cachedAt => b = c
  BY <1>1
<1>3. local' = [local EXCEPT ![t] = s]
  BY DEF Stamp, Stamped
<1> HIDE DEF c, b
<1>4. s \in Sessions
  BY <1>1, <1>2 DEF Sessions
<1>5. s.cachedAt = c /\ s.lastAccess = clock /\ s.born = b
  BY <1>1 DEF Sessions
<1> QED
  BY <1>2, <1>3, <1>4, <1>5

\* A session nobody has stored yet.
LEMMA Unstored == NoSession \in Sessions /\ \A b \in BOOLEAN : [NoSession EXCEPT !.player = b] \in Sessions
BY DEF NoSession, Sessions

-----------------------------------------------------------------------------
(* Types *)

\* A step keeps the types.
LEMMA TypeStep == SessionTypeOK /\ [SessionNext]_sessionVars => SessionTypeOK'
<1> SUFFICES ASSUME SessionTypeOK, [SessionNext]_sessionVars
             PROVE  SessionTypeOK'
  OBVIOUS
<1> USE Unstored
<1>1. CASE UNCHANGED sessionVars
  BY <1>1 DEF sessionVars, threadVars, SessionTypeOK, CachedVideos
<1>2. CASE Tick
  BY <1>2 DEF Tick, threadVars, SessionTypeOK, CachedVideos
<1>3. ASSUME NEW t \in Threads, ThreadStep(t)
      PROVE  SessionTypeOK'
  <2>1. CASE Call(t)
    BY <2>1 DEF Call, SessionTypeOK, CachedVideos
  <2>2. CASE GetSession(t) \/ GetSessionAgain(t)
    <3>1. UNCHANGED <<clock, op, video, callsMade>>
      BY <2>2 DEF GetSession, GetSessionAgain
    <3>2. CachedVideos' \subseteq Videos /\ \A v \in CachedVideos' : sessions'[v] \in Sessions
      <4>1. video[t] \in CachedVideos => [sessions[video[t]] EXCEPT !.lastAccess = clock] \in Sessions
        BY DEF SessionTypeOK, Sessions
      <4> QED
        BY <2>2, <4>1, LookupEffect DEF SessionTypeOK, CachedVideos
    <3>3. local' \in [Threads -> Sessions]
      BY <2>2, <3>2, LookupEffect DEF SessionTypeOK, CachedVideos
    <3>4. pc' \in [Threads -> {"idle", "lookup", "fetch", "stamp", "insert",
                               "relookup", "use", "player"}]
      BY <2>2, LookupEffect DEF SessionTypeOK
    <3> QED
      BY <3>1, <3>2, <3>3, <3>4 DEF SessionTypeOK, CachedVideos
  <2>3. CASE GetVideo(t)
    BY <2>3 DEF GetVideo, Return, Goto, SessionTypeOK, CachedVideos
  <2>4. CASE Stamp(t)
    <3>1. local' \in [Threads -> Sessions]
      BY <2>4, StampEffect DEF SessionTypeOK
    <3> QED
      BY <2>4, <3>1 DEF Stamp, Stamped, Goto, SessionTypeOK, CachedVideos
  <2>5. CASE PutSession(t)
    <3>1. CachedVideos' \subseteq Videos /\ \A v \in CachedVideos' : sessions'[v] \in Sessions
      <4>. /\ DOMAIN Table(t) = (CachedVideos \ Dead(t)) \cup {video[t]}
           /\ Table(t)[video[t]] = local[t]
           /\ \A w \in CachedVideos \ Dead(t) : w # video[t] => Table(t)[w] = sessions[w]
        BY TableContents
      <4>1. DOMAIN Table(t) \subseteq Videos
        BY DEF SessionTypeOK
      <4>2. \A v \in DOMAIN Table(t) : Table(t)[v] \in Sessions
        BY DEF SessionTypeOK
      <4>3. /\ DOMAIN sessions' \subseteq DOMAIN Table(t)
            /\ \A v \in DOMAIN sessions' : sessions'[v] = Table(t)[v]
        BY <2>5, PutEffect
      <4> QED
        BY <4>1, <4>2, <4>3 DEF CachedVideos
    <3> QED
      BY <2>5, <3>1 DEF PutSession, Return, Goto, SessionTypeOK, CachedVideos
  <2>6. CASE Resolve(t)
    BY <2>6 DEF Resolve, Return, Goto, SessionTypeOK, CachedVideos
  <2>7. CASE FetchPlayerURL(t)
    <3>1. [local[t] EXCEPT !.player = TRUE] \in Sessions
      BY DEF SessionTypeOK, Sessions
    <3>2. local' \in [Threads -> Sessions]
      BY <2>7, <3>1 DEF FetchPlayerURL, Return, SessionTypeOK
    <3> QED
      BY <2>7, <3>2 DEF FetchPlayerURL, Return, Goto, SessionTypeOK, CachedVideos
  <2> QED
    BY <1>3, <2>1, <2>2, <2>3, <2>4, <2>5, <2>6, <2>7 DEF ThreadStep
<1> QED
  BY <1>1, <1>2, <1>3 DEF SessionNext

\* Every variable keeps its type.
THEOREM TypeCorrect == SessionSpec => []SessionTypeOK
<1>1. SessionInit => SessionTypeOK
  BY Unstored DEF SessionInit, SessionTypeOK, CachedVideos
<1> QED
  BY <1>1, TypeStep, PTL DEF SessionSpec

-----------------------------------------------------------------------------
(* The bound, and the ages *)

\* A store leaves the bound as it was: at most one entry is new, and then at
\* most one is too many.
LEMMA PutKeepsBound ==
  ASSUME NEW t \in Threads, SessionTypeOK, PutSession(t), IsFiniteSet(CachedVideos), CacheBounded
  PROVE  IsFiniteSet(CachedVideos)' /\ CacheBounded'
<1> DEFINE Kept == CachedVideos \ Dead(t)
           D == DOMAIN Table(t)
<1>1. D = Kept \cup {video[t]}
  BY TableContents
<1>2. /\ IsFiniteSet(Kept) /\ Cardinality(Kept) \in Nat
      /\ Cardinality(CachedVideos) \in Nat /\ Cardinality(Kept) <= Cardinality(CachedVideos)
  BY FS_Subset, FS_CardinalityType
<1>3. /\ IsFiniteSet(D) /\ Cardinality(D) \in Nat
      /\ Cardinality(D) <= Cardinality(Kept) + 1
  <2>1. /\ IsFiniteSet(Kept \cup {video[t]})
        /\ Cardinality(Kept \cup {video[t]}) =
             IF video[t] \in Kept THEN Cardinality(Kept) ELSE Cardinality(Kept) + 1
    BY <1>2, FS_AddElement
  <2> QED
    BY <1>1, <1>2, <2>1
<1> HIDE DEF Kept, D
<1>4. CASE ~(MaxEntries > 0 /\ Cardinality(D) > MaxEntries) /\ DOMAIN sessions' = D
  BY <1>3, <1>4 DEF CacheBounded, CachedVideos
<1>5. CASE /\ MaxEntries > 0
           /\ \E v \in D : DOMAIN sessions' = D \ {v}
  <2>1. PICK v \in D : DOMAIN sessions' = D \ {v}
    BY <1>5
  <2>2. IsFiniteSet(D \ {v}) /\ Cardinality(D \ {v}) = Cardinality(D) - 1
    BY <1>3, FS_RemoveElement
  <2>3. Cardinality(CachedVideos) <= MaxEntries
    BY <1>5 DEF CacheBounded
  <2> QED
    BY <1>2, <1>3, <2>1, <2>2, <2>3 DEF CacheBounded, CachedVideos
<1> QED
  BY <1>4, <1>5, PutEffect DEF D

\* A step keeps the bound and the ages.
LEMMA CacheStep == CacheInv /\ [SessionNext]_sessionVars => CacheInv'
<1> SUFFICES ASSUME CacheInv, [SessionNext]_sessionVars
             PROVE  CacheInv'
  OBVIOUS
<1> USE DEF CacheInv
<1>0. SessionTypeOK'
  BY TypeStep
<1>1. CASE UNCHANGED sessionVars
  BY <1>0, <1>1 DEF sessionVars, threadVars, CacheBounded, AgesInv, CachedVideos
<1>2. CASE Tick
  <2>1. clock <= clock'
    BY <1>2 DEF Tick, SessionTypeOK
  <2>2. \A t \in Threads : local[t].lastAccess \in Int
    BY DEF SessionTypeOK, Sessions
  <2> QED
    BY <1>0, <1>2, <2>1, <2>2 DEF Tick, threadVars, CacheBounded, AgesInv, CachedVideos, SessionTypeOK
<1>3. ASSUME NEW t \in Threads, ThreadStep(t)
      PROVE  CacheInv'
  <2>1. clock' = clock
    BY <1>3 DEF ThreadStep, Call, GetSession, GetVideo, Stamp, Stamped, PutSession,
                GetSessionAgain, Resolve, FetchPlayerURL
  <2> DEFINE InTime(s) == s.born = s.cachedAt /\ s.lastAccess <= clock
  <2>2. InTime(NoSession) /\ \A b \in BOOLEAN : InTime([NoSession EXCEPT !.player = b])
    BY DEF NoSession, SessionTypeOK
  <2> SUFFICES /\ IsFiniteSet(CachedVideos)' /\ CacheBounded'
               /\ \A v \in CachedVideos' :
                    sessions'[v].cachedAt # 0 /\ sessions'[v].born = sessions'[v].cachedAt
               /\ \A u \in Threads :
                    /\ InTime(local'[u])
                    /\ pc'[u] = "insert" => local'[u].cachedAt # 0
    BY <1>0, <2>1 DEF AgesInv
  <2>3. \A u \in Threads : InTime(local[u]) /\ (pc[u] = "insert" => local[u].cachedAt # 0)
    BY DEF AgesInv
  <2>4. \A v \in CachedVideos : sessions[v].cachedAt # 0 /\ sessions[v].born = sessions[v].cachedAt
    BY DEF AgesInv
  <2> HIDE DEF InTime
  <2>5. CASE Call(t) \/ GetVideo(t) \/ Stamp(t) \/ Resolve(t) \/ FetchPlayerURL(t)
    <3>0. UNCHANGED sessions
      BY <2>5 DEF Call, GetVideo, Stamp, Stamped, Resolve, FetchPlayerURL
    <3>1. /\ IsFiniteSet(CachedVideos)' /\ CacheBounded'
          /\ \A v \in CachedVideos' :
               sessions'[v].cachedAt # 0 /\ sessions'[v].born = sessions'[v].cachedAt
      BY <2>4, <3>0 DEF CacheBounded, CachedVideos
    <3>2. CASE Call(t)
      BY <2>3, <3>1, <3>2 DEF Call, SessionTypeOK
    <3>3. CASE GetVideo(t)
      BY <2>2, <2>3, <3>1, <3>3 DEF GetVideo, Return, Goto, SessionTypeOK
    <3>4. CASE Stamp(t)
      <4>1. PICK s \in Sessions :
              /\ local' = [local EXCEPT ![t] = s]
              /\ s.lastAccess = clock /\ s.cachedAt # 0
              /\ local[t].born = local[t].cachedAt => s.born = s.cachedAt
        BY <3>4, StampEffect
      <4>2. InTime(s)
        BY <2>3, <4>1 DEF InTime, SessionTypeOK
      <4> QED
        BY ZenonT(40), <2>3, <3>1, <3>4, <4>1, <4>2 DEF Stamp, Stamped, Goto, SessionTypeOK
    <3>5. CASE Resolve(t)
      BY <2>2, <2>3, <3>1, <3>5 DEF Resolve, Return, Goto, SessionTypeOK
    <3>6. CASE FetchPlayerURL(t)
      <4>1. InTime([local[t] EXCEPT !.player = TRUE])
        BY <2>3 DEF InTime, SessionTypeOK, Sessions
      <4> QED
        BY <2>2, <2>3, <3>1, <3>6, <4>1 DEF FetchPlayerURL, Return, Goto, SessionTypeOK
    <3> QED
      BY <2>5, <3>2, <3>3, <3>4, <3>5, <3>6
  <2>6. CASE GetSession(t) \/ GetSessionAgain(t)
    <3> DEFINE v == video[t]
    <3>1. CASE /\ v \in CachedVideos
               /\ DOMAIN sessions' = CachedVideos
               /\ sessions'[v] = [sessions[v] EXCEPT !.lastAccess = clock]
               /\ \A w \in CachedVideos : w # v => sessions'[w] = sessions[w]
               /\ local' = [local EXCEPT ![t] = sessions'[v]]
               /\ pc' = [pc EXCEPT ![t] = "use"]
      <4>1. /\ sessions'[v].cachedAt = sessions[v].cachedAt
            /\ sessions'[v].born = sessions[v].born
            /\ sessions'[v].lastAccess = clock
        BY <3>1 DEF SessionTypeOK, Sessions
      <4>2. InTime(sessions'[v])
        BY <2>4, <3>1, <4>1 DEF InTime, SessionTypeOK
      <4>3. \A w \in CachedVideos' :
              sessions'[w].cachedAt # 0 /\ sessions'[w].born = sessions'[w].cachedAt
        BY ZenonT(40), <2>4, <3>1, <4>1 DEF CachedVideos
      <4>4. IsFiniteSet(CachedVideos)' /\ CacheBounded'
        BY <3>1 DEF CacheBounded, CachedVideos
      <4> QED
        BY <2>3, <3>1, <4>2, <4>3, <4>4 DEF SessionTypeOK
    <3>2. CASE /\ DOMAIN sessions' = CachedVideos \ {v}
               /\ \A w \in DOMAIN sessions' : sessions'[w] = sessions[w]
               /\ \/ local' = local /\ pc' = [pc EXCEPT ![t] = "fetch"]
                  \/ local' = [local EXCEPT ![t] = NoSession] /\ pc' = [pc EXCEPT ![t] = "idle"]
      <4>1. /\ IsFiniteSet(CachedVideos \ {v}) /\ Cardinality(CachedVideos \ {v}) \in Nat
            /\ Cardinality(CachedVideos) \in Nat /\ Cardinality(CachedVideos \ {v}) <= Cardinality(CachedVideos)
        BY FS_Subset, FS_CardinalityType
      <4>2. IsFiniteSet(CachedVideos)' /\ CacheBounded'
        BY <3>2, <4>1 DEF CacheBounded, CachedVideos
      <4>3. \A w \in CachedVideos' :
              sessions'[w].cachedAt # 0 /\ sessions'[w].born = sessions'[w].cachedAt
        BY <2>4, <3>2 DEF CachedVideos
      <4> QED
        BY <2>2, <2>3, <3>2, <4>2, <4>3 DEF SessionTypeOK
    <3> QED
      BY <2>6, <3>1, <3>2, LookupEffect
  <2>7. CASE PutSession(t)
    <3>1. IsFiniteSet(CachedVideos)' /\ CacheBounded'
      BY <2>7, PutKeepsBound
    <3>2. /\ DOMAIN Table(t) = (CachedVideos \ Dead(t)) \cup {video[t]}
          /\ Table(t)[video[t]] = local[t]
          /\ \A w \in CachedVideos \ Dead(t) : w # video[t] => Table(t)[w] = sessions[w]
      BY TableContents
    <3>3. /\ DOMAIN sessions' \subseteq DOMAIN Table(t)
          /\ \A w \in DOMAIN sessions' : sessions'[w] = Table(t)[w]
      BY <2>7, PutEffect
    <3>4. local[t].cachedAt # 0 /\ local[t].born = local[t].cachedAt
      BY <2>3, <2>7 DEF PutSession, InTime
    <3>5. \A w \in CachedVideos' :
            sessions'[w].cachedAt # 0 /\ sessions'[w].born = sessions'[w].cachedAt
      BY <2>4, <3>2, <3>3, <3>4 DEF CachedVideos
    <3> QED
      BY <2>2, <2>3, <2>7, <3>1, <3>5 DEF PutSession, Return, Goto, SessionTypeOK
  <2> QED
    BY <1>3, <2>5, <2>6, <2>7 DEF ThreadStep
<1> QED
  BY <1>1, <1>2, <1>3 DEF SessionNext

\* The cache is never above its bound, and every session carries the time of
\* its first storing.
THEOREM CacheInvariant == SessionSpec => []CacheInv
<1>1. SessionInit => CacheInv
  <2> SUFFICES ASSUME SessionInit
               PROVE  CacheInv
    OBVIOUS
  <2>1. SessionTypeOK
    BY Unstored DEF SessionInit, SessionTypeOK, CachedVideos
  <2>2. IsFiniteSet(CachedVideos) /\ Cardinality(CachedVideos) = 0
    BY FS_EmptySet DEF SessionInit, CachedVideos
  <2> QED
    BY <2>1, <2>2 DEF SessionInit, CacheInv, CacheBounded, AgesInv, NoSession, CachedVideos
<1> QED
  BY <1>1, CacheStep, PTL DEF SessionSpec

-----------------------------------------------------------------------------
(* Who is served, and who leaves *)

\* A session is served only while its age, counted from its first storing, is
\* within the TTL, however often and by whomever it is stored again.
THEOREM NeverServedStale == SessionSpec => ServedWithinTTL
<1>1. CacheInv /\ [SessionNext]_sessionVars =>
        [\A t \in Threads :
           (pc[t] \in {"lookup", "relookup"} /\ pc'[t] = "use" /\ TTL > 0) =>
             clock - local'[t].born <= TTL]_sessionVars
  <2> SUFFICES ASSUME CacheInv, SessionNext, NEW t \in Threads,
                      pc[t] \in {"lookup", "relookup"}, pc'[t] = "use", TTL > 0
               PROVE  clock - local'[t].born <= TTL
    BY DEF sessionVars, threadVars
  <2> USE DEF CacheInv
  <2>1. GetSession(t) \/ GetSessionAgain(t)
    BY ZenonT(40) DEF SessionNext, Tick, threadVars, ThreadStep, Call, GetSession, GetVideo, Stamp, Stamped,
           PutSession, GetSessionAgain, Resolve, FetchPlayerURL, Return, Goto, Lookup, SessionTypeOK
  <2> DEFINE v == video[t]
  <2>2. /\ v \in CachedVideos /\ ~Expired(sessions[v], clock)
        /\ sessions'[v] = [sessions[v] EXCEPT !.lastAccess = clock]
        /\ local' = [local EXCEPT ![t] = sessions'[v]]
    BY <2>1, LookupEffect DEF SessionTypeOK
  <2>3. local'[t].born = sessions[v].born
    BY <2>2 DEF SessionTypeOK, Sessions
  <2>4. sessions[v].cachedAt # 0 /\ sessions[v].born = sessions[v].cachedAt
    BY <2>2 DEF AgesInv
  <2>5. sessions[v].cachedAt \in Int /\ clock \in Int
    BY <2>2 DEF SessionTypeOK, Sessions
  <2> QED
    BY <2>2, <2>3, <2>4, <2>5 DEF Expired
<1> QED
  BY <1>1, CacheInvariant, PTL DEF SessionSpec, ServedWithinTTL

\* A session leaves the cache because of its age, or because the cache is full
\* and none that stays was used before it.
THEOREM OnlyOldOrLeastUsedLeave == SessionSpec => LeavesByAgeOrUse
<1>1. CacheInv /\ [SessionNext]_sessionVars =>
        [\A v \in CachedVideos \ DOMAIN sessions' :
           \/ Expired(sessions[v], clock)
           \/ \A w \in CachedVideos \cap DOMAIN sessions' :
                sessions[v].lastAccess <= sessions[w].lastAccess]_sessionVars
  <2> SUFFICES ASSUME CacheInv, SessionNext, NEW v \in CachedVideos \ DOMAIN sessions',
                      ~Expired(sessions[v], clock),
                      NEW w \in CachedVideos \cap DOMAIN sessions'
               PROVE  sessions[v].lastAccess <= sessions[w].lastAccess
    BY DEF sessionVars, threadVars, CachedVideos
  <2> USE DEF CacheInv
  <2>1. PICK t \in Threads : GetSession(t) \/ GetSessionAgain(t) \/ PutSession(t)
    BY DEF SessionNext, Tick, threadVars, ThreadStep, Call, GetVideo, Stamp, Stamped, Resolve,
           FetchPlayerURL, CachedVideos
  <2>2. CASE GetSession(t) \/ GetSessionAgain(t)
    BY <2>2, LookupEffect
  <2>3. CASE PutSession(t)
    <3>1. /\ DOMAIN Table(t) = (CachedVideos \ Dead(t)) \cup {video[t]}
          /\ \A x \in CachedVideos \ Dead(t) : x # video[t] => Table(t)[x] = sessions[x]
      BY TableContents
    <3>2. v \notin Dead(t)
      <4>1. /\ sessions[v].cachedAt \in Int /\ clock \in Int /\ local[t].lastAccess \in Int
            /\ local[t].lastAccess <= clock
        BY DEF SessionTypeOK, Sessions, AgesInv
      <4> QED
        BY <4>1 DEF Dead, ExpiredAt, Expired
    <3>3. v \in DOMAIN Table(t) /\ v \notin DOMAIN sessions'
      BY <3>1, <3>2
    <3>4. /\ MaxEntries > 0 /\ Cardinality(DOMAIN Table(t)) > MaxEntries
          /\ \E x \in DOMAIN Table(t) :
               LeastRecent(Table(t), x) /\ DOMAIN sessions' = (DOMAIN Table(t)) \ {x}
      BY <2>3, <3>3, PutEffect
    <3>5. LeastRecent(Table(t), v) /\ DOMAIN sessions' = (DOMAIN Table(t)) \ {v}
      BY <3>3, <3>4
    <3>6. video[t] \notin CachedVideos
      <4>1. CASE video[t] \in CachedVideos
        <5>1. DOMAIN Table(t) \subseteq CachedVideos
          BY <3>1, <4>1
        <5>2. /\ Cardinality(DOMAIN Table(t)) \in Nat /\ Cardinality(CachedVideos) \in Nat
              /\ Cardinality(DOMAIN Table(t)) <= Cardinality(CachedVideos)
          BY <5>1, FS_Subset, FS_CardinalityType
        <5> QED
          BY <3>4, <5>2 DEF CacheBounded
      <4> QED
        BY <4>1
    <3>7. w \in DOMAIN Table(t) /\ Table(t)[w] = sessions[w] /\ Table(t)[v] = sessions[v]
      BY <3>1, <3>3, <3>5, <3>6
    <3> QED
      BY <3>5, <3>7 DEF LeastRecent
  <2> QED
    BY <2>1, <2>2, <2>3
<1> QED
  BY <1>1, CacheInvariant, PTL DEF SessionSpec, LeavesByAgeOrUse
=============================================================================
