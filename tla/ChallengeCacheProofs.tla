------------------------- MODULE ChallengeCacheProofs -------------------------
(***************************************************************************)
(* Proofs about ChallengeCache, for any number of callers, players,        *)
(* responses and ages: no solution and no script is ever kept for a player *)
(* it does not come from, none is served past its age, the JS cache stays  *)
(* in its bound and gives up the oldest first, and the verdict of a        *)
(* priming is true.                                                        *)
(***************************************************************************)
EXTENDS ChallengeCache, FiniteSetTheorems, TLAPS

-----------------------------------------------------------------------------
(* Player URLs *)

\* A locale says nothing about the player.
LEMMA Variants ==
  ASSUME NEW u \in URL
  PROVE  /\ Canonical(u) \in URL /\ Canonical(u).player = u.player
         /\ ScriptPath(u) \in URL /\ ScriptPath(u).player = u.player
         /\ ScriptKey(u) = ScriptPath(u)
<1>1. ASSUME NEW l \in Locales
      PROVE  Localised(u, l) \in URL /\ Localised(u, l).player = u.player
  BY <1>1, ChallengeAssumption DEF ChallengeAssumption, Localised, URL
<1> QED
  BY <1>1, ChallengeAssumption
     DEF ChallengeAssumption, Canonical, ScriptPath, ScriptKey

\* There are one or two providers, and each asks for the same player ...
LEMMA ProvidersOf ==
  ASSUME NEW u \in URL
  PROVE  /\ Len(Providers(u)) \in {1, 2}
         /\ \A i \in 1..Len(Providers(u)) :
              Providers(u)[i] \in URL /\ Providers(u)[i].player = u.player
<1>1. Canonical(u) \in URL /\ Canonical(u).player = u.player
  BY Variants
<1> QED
  BY <1>1 DEF Providers

\* ... at one location or two.
LEMMA LocationsOf ==
  ASSUME NEW u \in URL
  PROVE  /\ Len(Locations(u)) \in {1, 2}
         /\ \A i \in 1..Len(Locations(u)) :
              Locations(u)[i] \in URL /\ Locations(u)[i].player = u.player
<1>1. ScriptPath(u) \in URL /\ ScriptPath(u).player = u.player
  BY Variants
<1> QED
  BY <1>1 DEF Locations

-----------------------------------------------------------------------------
(* Challenges *)

\* What a response needs is among the challenges there are.
LEMMA CollectTasks ==
  ASSUME NEW resp \in Responses
  PROVE  Collect(resp) \subseteq Tasks
BY DEF Tasks

\* Every challenge of each of its streams is collected.
LEMMA CollectsNeeds ==
  ASSUME NEW resp, NEW f \in resp
  PROVE  Needs(f) \subseteq Collect(resp)
BY Zenon DEF Needs, Collect, NotNone

\* The next challenge is one of those left.
LEMMA NextIsLeft ==
  ASSUME NEW S
  PROVE  NextOf(S) \subseteq S
BY DEF NextOf

-----------------------------------------------------------------------------
(* The inductive invariant *)

\* Before the solver is asked.
Early == {"idle", "page", "iframe", "first", "get"}

\* What a call knows belongs to the player it asks for, and it has asked for
\* it at a location there is.
CallInv(r) ==
  /\ r.pc \notin {"idle", "page", "iframe"} =>
       r.url \in URLs /\ r.prov \in 1..Len(Providers(r.url))
  /\ r.pc \in Early => r.prov = 1 /\ r.solved = Unsolved
  /\ r.pc \in Early \cup {"load", "fetch"} => r.body = None
  /\ r.pc \in {"cache", "decipher"} => r.body = r.url.player
  /\ r.pc = "fetch" => r.loc \in 1..Len(Locations(Providers(r.url)[r.prov]))
  /\ r.pc \in {"page", "iframe", "first", "second"} => r.resp # {}
  /\ r.pc = "get" => r.resp = {}
  /\ r.pc # "idle" => r.told = None
  /\ r.pc # "idle" /\ r.resp = {} =>
       r.task \in Tasks /\ (r.pc # "store" => r.solved = Unsolved)
  /\ r.pc = "store" => r.task \in SolvedIn(r.solved)
  /\ \A t \in SolvedIn(r.solved) :
       r.solved[t] = r.url.player /\ t \in solves[r.url.player]
  /\ r.began <= clock

\* A script is that of the player it is kept for, and there is room for it.
ScriptsInv ==
  /\ \A k \in DOMAIN items : items[k].body = k.player
  /\ Cardinality(DOMAIN items) <= MaxEntries

\* So is a solution, which is no older than the entry it is in.
SolutionsInv ==
  \A k \in DOMAIN challenges :
    /\ challenges[k].created <= clock
    /\ \A t \in DOMAIN challenges[k].sols :
         /\ challenges[k].sols[t].by = k.player
         /\ t \in solves[k.player]
         /\ challenges[k].created <= challenges[k].sols[t].at

CacheInv ==
  /\ TypeOK
  /\ ScriptsInv
  /\ SolutionsInv
  /\ \A c \in Callers : CallInv(call[c])

-----------------------------------------------------------------------------
(* The caches *)

\* A script put into the cache.
LEMMA ScriptStored ==
  ASSUME TypeOK, ScriptsInv, NEW k \in URL, WithScript(k, k.player, items')
  PROVE  /\ DOMAIN items' \subseteq URL /\ IsFiniteSet(DOMAIN items')
         /\ \A l \in DOMAIN items' : items'[l].created \in Times
         /\ ScriptsInv'
         /\ \A l \in LiveScripts \ DOMAIN items' :
              \A m \in DOMAIN items \cap DOMAIN items' :
                items'[m] = items[m] => items[l].created <= items[m].created
<1> DEFINE new == [body |-> k.player, created |-> clock]
           kept(K) == Put([l \in K |-> items[l]], k, new)
<1>a. /\ clock \in Nat /\ clock \in Times /\ ScriptTTL \in Nat /\ MaxEntries \in Nat
      /\ MaxEntries > 0 /\ clock - clock <= ScriptTTL
      /\ \A l \in DOMAIN items : items[l].created \in Nat
  BY ChallengeAssumption DEF ChallengeAssumption, TypeOK, Times
<1>b. /\ LiveScripts \subseteq DOMAIN items /\ IsFiniteSet(LiveScripts)
      /\ Cardinality(LiveScripts) <= MaxEntries
      /\ Cardinality(LiveScripts) \in Nat
  BY <1>a, FS_Subset, FS_CardinalityType DEF LiveScripts, TypeOK, ScriptsInv
<1>1. PICK K \in SUBSET LiveScripts :
        /\ items' = kept(K)
        /\ Cardinality(K) + 1 <= MaxEntries
        /\ \A l \in LiveScripts \ K : \A m \in LiveScripts :
             items[l].created <= items[m].created
  <2>1. CASE Cardinality(LiveScripts) >= MaxEntries
    <3>1. PICK v \in Victims(LiveScripts) : items' = kept(LiveScripts \ {v})
      BY <2>1 DEF WithScript
    <3>2. v \in LiveScripts /\ \A m \in LiveScripts : items[v].created <= items[m].created
      BY <3>1 DEF Victims
    <3>3. Cardinality(LiveScripts \ {v}) = Cardinality(LiveScripts) - 1
      BY <1>b, <3>2, FS_RemoveElement
    <3>4. Cardinality(LiveScripts \ {v}) + 1 <= MaxEntries
      BY <1>a, <1>b, <3>3
    <3> QED
      BY <3>1, <3>2, <3>4
  <2>2. CASE ~(Cardinality(LiveScripts) >= MaxEntries)
    <3>1. items' = kept(LiveScripts)
      BY <2>2 DEF WithScript
    <3>2. Cardinality(LiveScripts) + 1 <= MaxEntries
      BY <1>a, <1>b, <2>2
    <3> QED
      BY <3>1, <3>2
  <2> QED
    BY <2>1, <2>2
<1>2. DOMAIN items' = K \cup {k}
  BY <1>1 DEF Put
<1>3. \A l \in K \cup {k} : items'[l] = IF l = k THEN new ELSE items[l]
  BY <1>1 DEF Put
<1>4. IsFiniteSet(K \cup {k}) /\ Cardinality(K \cup {k}) <= Cardinality(K) + 1
      /\ Cardinality(K) \in Nat /\ Cardinality(K \cup {k}) \in Nat
  <2>1. IsFiniteSet(K)
    BY <1>1, <1>b, FS_Subset
  <2>2. /\ IsFiniteSet(K \cup {k})
        /\ Cardinality(K \cup {k}) = IF k \in K THEN Cardinality(K) ELSE Cardinality(K) + 1
    BY <2>1, FS_AddElement
  <2>3. Cardinality(K) \in Nat
    BY <2>1, FS_CardinalityType
  <2> QED
    BY <2>2, <2>3
<1>5. DOMAIN items' \subseteq URL /\ IsFiniteSet(DOMAIN items')
  BY <1>1, <1>2, <1>4, <1>b DEF TypeOK
<1>6. \A l \in DOMAIN items' : items'[l].created \in Times
  BY <1>1, <1>2, <1>3, <1>a, <1>b DEF TypeOK
<1>7. ScriptsInv'
  <2>1. \A l \in DOMAIN items' : items'[l].body = l.player
    BY <1>1, <1>2, <1>3, <1>b DEF ScriptsInv
  <2>2. Cardinality(DOMAIN items') <= MaxEntries
    BY <1>1, <1>2, <1>4, <1>a
  <2> QED
    BY <2>1, <2>2 DEF ScriptsInv
<1>8. ASSUME NEW l \in LiveScripts \ DOMAIN items', NEW m \in DOMAIN items \cap DOMAIN items',
             items'[m] = items[m]
      PROVE  items[l].created <= items[m].created
  <2>1. l \in LiveScripts \ K
    BY <1>2, <1>8
  <2>2. m \in LiveScripts
    <3>1. m \in K \/ items[m].created = clock
      BY <1>2, <1>3, <1>8
    <3> QED
      BY <1>1, <1>8, <1>a, <3>1 DEF LiveScripts
  <2> QED
    BY <1>1, <2>1, <2>2
<1> QED
  BY <1>5, <1>6, <1>7, <1>8

\* A solution put into the cache: what was there and is not expired stays.
LEMMA SolutionStored ==
  ASSUME TypeOK, SolutionsInv, NEW u \in URL, NEW t \in Tasks,
         t \in solves[u.player], challenges' = WithSolution(u, t, u.player),
         UNCHANGED <<clock, solves>>
  PROVE  /\ DOMAIN challenges' \subseteq URL
         /\ \A k \in DOMAIN challenges' :
              /\ challenges'[k].created \in Times
              /\ DOMAIN challenges'[k].sols \subseteq Tasks
              /\ \A s \in DOMAIN challenges'[k].sols : challenges'[k].sols[s].at \in Times
         /\ SolutionsInv'
         /\ \A w, s : Cached(w, s) => Cached(w, s)'
         /\ Cached(u, t)'
<1> DEFINE key == Canonical(u)
           kept == EvictExpiredChallenges
           old == EntryBefore(kept, key)
           sol == [by |-> u.player, at |-> clock]
           new == [sols |-> Put(old.sols, t, sol), created |-> old.created]
<1>a. clock \in Nat /\ clock \in Times /\ TTL \in Nat /\ clock - clock <= TTL
  BY ChallengeAssumption DEF ChallengeAssumption, TypeOK, Times
<1>b. key \in URL /\ key.player = u.player
  BY Variants
<1>1. /\ DOMAIN kept = {k \in DOMAIN challenges : ~Expired(challenges[k])}
      /\ \A k \in DOMAIN kept : kept[k] = challenges[k]
  BY DEF EvictExpiredChallenges, Drop
<1>2. /\ old.created \in Times /\ old.created <= clock /\ ~Expired(old)
      /\ DOMAIN old.sols \subseteq Tasks
      /\ \A s \in DOMAIN old.sols :
           /\ old.sols[s].at \in Times /\ old.sols[s].by = key.player
           /\ s \in solves[key.player] /\ old.created <= old.sols[s].at
  <2>1. CASE key \in DOMAIN kept
    <3>1. old = challenges[key] /\ key \in DOMAIN challenges /\ ~Expired(challenges[key])
      BY <1>1, <2>1 DEF EntryBefore
    <3> QED
      BY <3>1 DEF TypeOK, SolutionsInv
  <2>2. CASE key \notin DOMAIN kept
    <3>1. old = [sols |-> Empty, created |-> clock] /\ DOMAIN Empty = {}
      BY <2>2 DEF EntryBefore, Empty
    <3>2. old.sols = Empty /\ old.created = clock
      BY <3>1
    <3> HIDE DEF old
    <3> QED
      BY <1>a, <3>1, <3>2 DEF Expired
  <2> QED
    BY <2>1, <2>2
<1>3. challenges' = Put(kept, key, new)
  BY DEF WithSolution
<1> HIDE DEF key, kept, old
<1>4. /\ new.created = old.created /\ DOMAIN new.sols = DOMAIN old.sols \cup {t}
      /\ \A s \in DOMAIN new.sols : new.sols[s] = IF s = t THEN sol ELSE old.sols[s]
  BY DEF Put
<1>5. /\ DOMAIN challenges' = DOMAIN kept \cup {key}
      /\ \A k \in DOMAIN challenges' : challenges'[k] = IF k = key THEN new ELSE challenges[k]
  BY <1>1, <1>3 DEF Put
<1>6. sol.by = key.player /\ sol.at = clock
  BY <1>b
<1> HIDE DEF new, sol
<1>7. \A s \in DOMAIN new.sols :
         /\ s \in Tasks /\ new.sols[s].at \in Times
         /\ new.sols[s].by = key.player
         /\ s \in solves[key.player] /\ new.created <= new.sols[s].at
  BY <1>2, <1>4, <1>6, <1>a, <1>b
<1>8. new.created \in Times /\ new.created <= clock /\ ~Expired(new)
  BY <1>2, <1>4 DEF Expired
<1>9. DOMAIN challenges' \subseteq URL
  BY <1>1, <1>5, <1>b DEF TypeOK
<1>10. ASSUME NEW k \in DOMAIN challenges'
       PROVE  /\ challenges'[k].created \in Times /\ challenges'[k].created <= clock
              /\ DOMAIN challenges'[k].sols \subseteq Tasks
              /\ \A s \in DOMAIN challenges'[k].sols :
                   /\ challenges'[k].sols[s].at \in Times
                   /\ challenges'[k].sols[s].by = k.player
                   /\ s \in solves[k.player]
                   /\ challenges'[k].created <= challenges'[k].sols[s].at
  <2>1. CASE k = key
    BY <1>5, <1>7, <1>8, <2>1
  <2>2. CASE k # key
    <3>1. k \in DOMAIN challenges /\ challenges'[k] = challenges[k]
      BY <1>1, <1>5, <2>2
    <3> QED
      BY <3>1 DEF TypeOK, SolutionsInv
  <2> QED
    BY <2>1, <2>2
<1>11. SolutionsInv'
  BY <1>10 DEF SolutionsInv
<1>12. ASSUME NEW w, NEW s, Cached(w, s)
       PROVE  Cached(w, s)'
  <2>1. /\ Canonical(w) \in DOMAIN challenges
        /\ ~Expired(challenges[Canonical(w)])
        /\ s \in DOMAIN challenges[Canonical(w)].sols
    BY <1>12 DEF Cached
  <2>2. Canonical(w) \in DOMAIN kept
    BY <1>1, <2>1
  <2>3. CASE Canonical(w) # key
    <3>1. challenges'[Canonical(w)] = challenges[Canonical(w)]
          /\ Canonical(w) \in DOMAIN challenges'
      BY <1>5, <2>2, <2>3
    <3> QED
      BY <2>1, <3>1 DEF Cached, Expired
  <2>4. CASE Canonical(w) = key
    <3>1. old = challenges[key]
      BY <1>1, <2>2, <2>4 DEF old, EntryBefore
    <3>2. s \in DOMAIN new.sols
      BY <1>4, <2>1, <2>4, <3>1
    <3> QED
      BY <1>5, <1>8, <2>4, <3>2 DEF Cached, Expired
  <2> QED
    BY <2>3, <2>4
<1>13. Cached(u, t)'
  BY <1>4, <1>5, <1>8 DEF Cached, Expired, key
<1> QED
  BY <1>9, <1>10, <1>11, <1>12, <1>13

-----------------------------------------------------------------------------
(* What a call becomes *)

\* One call changes, and the others stay what they are.
LEMMA Changes ==
  ASSUME CacheInv, NEW c \in Callers, NEW r \in Call, CallInv(r), Set(c, r),
         UNCHANGED <<clock, solves>>
  PROVE  /\ call' \in [Callers -> Call] /\ call'[c] = r
         /\ \A d \in Callers : CallInv(call[d])'
         /\ \A d \in Callers : d # c => call'[d] = call[d]
<1>1. call \in [Callers -> Call] /\ \A d \in Callers : CallInv(call[d])
  BY DEF CacheInv, TypeOK
<1>2. call' \in [Callers -> Call] /\ call'[c] = r
      /\ \A d \in Callers : d # c => call'[d] = call[d]
  BY <1>1 DEF Set
<1>3. ASSUME NEW d \in Callers
      PROVE  CallInv(call[d])'
  <2>1. call'[d] = r \/ call'[d] = call[d]
    BY <1>2
  <2>2. CASE call'[d] = r
    BY <2>2 DEF CallInv
  <2>3. CASE call'[d] = call[d]
    BY SMTT(30), <1>1, <2>3 DEF CallInv
  <2> QED
    BY <2>1, <2>2, <2>3
<1> QED
  BY <1>2, <1>3

\* Nothing is solved to begin with.
LEMMA UnsolvedIsNothing ==
  Unsolved \in [Tasks -> Players \cup {None}] /\ SolvedIn(Unsolved) = {}
BY DEF Unsolved, SolvedIn

\* A call that has not begun.
LEMMA IdleCall ==
  ASSUME TypeOK
  PROVE  /\ Idle \in Call /\ Idle.pc = "idle" /\ Idle.prov = 1 /\ Idle.solved = Unsolved
         /\ Idle.body = None /\ Idle.began = 0 /\ Idle.told = None /\ Idle.resp = {}
         /\ 0 <= clock
<1>1. 0 \in Times /\ 0 <= clock
  BY ChallengeAssumption DEF ChallengeAssumption, TypeOK, Times
<1>2. Idle \in Call
  BY <1>1, UnsolvedIsNothing DEF Idle, Call
<1> QED
  BY <1>1, <1>2 DEF Idle

\* A call that is over.
Over(told, failed) == [Idle EXCEPT !.told = told, !.failed = failed]

\* It has nothing more to say than its verdict.
LEMMA Ended ==
  ASSUME TypeOK,
         NEW told \in {None, "success", "partial", "failure", "error", "served", "decoded"},
         NEW failed \in SUBSET Tasks
  PROVE  /\ Over(told, failed) \in Call /\ CallInv(Over(told, failed))
         /\ Over(told, failed).told = told /\ Over(told, failed).failed = failed
         /\ Over(told, failed).pc = "idle"
<1> DEFINE r == Over(told, failed)
<1>1. /\ Idle \in Call /\ Idle.pc = "idle" /\ Idle.prov = 1 /\ Idle.solved = Unsolved
      /\ Idle.body = None /\ Idle.began = 0 /\ 0 <= clock
  BY IdleCall
<1>2. r \in Call
  <2>1. Idle \in Call
    BY <1>1
  <2> QED
    BY <2>1 DEF Call, Over
<1>3. r.pc = "idle" /\ r.prov = 1 /\ r.solved = Unsolved /\ r.body = None /\ r.began = 0
      /\ r.told = told /\ r.failed = failed
  BY <1>1 DEF Call, Over
<1>4. CallInv(r)
  BY <1>1, <1>3, UnsolvedIsNothing DEF CallInv, Early
<1> QED
  BY <1>2, <1>3, <1>4

\* The end of a call.
LEMMA Ends ==
  ASSUME CacheInv, NEW c \in Callers, UNCHANGED <<clock, solves>>,
         NEW told \in {None, "success", "partial", "failure", "error", "served", "decoded"},
         NEW failed \in SUBSET Tasks, End(c, told, failed)
  PROVE  /\ call' \in [Callers -> Call] /\ call'[c].told = told /\ call'[c].failed = failed
         /\ call'[c].pc = "idle"
         /\ \A d \in Callers : CallInv(call[d])'
         /\ \A d \in Callers : d # c => call'[d] = call[d]
<1>1. Set(c, Over(told, failed))
  BY DEF End, Over
<1> QED
  BY <1>1, Ended, Changes DEF CacheInv

\* A call that begins, is given its player, and collects what it must ask for.
LEMMA BeginningStep ==
  ASSUME CacheInv, NEW c \in Callers, GetVideo(c) \/ Decode(c) \/ WatchPage(c) \/ AddOrSkip(c)
  PROVE  call' \in [Callers -> Call] /\ \A d \in Callers : CallInv(call[d])'
<1> DEFINE q == call[c]
<1>1. q \in Call /\ CallInv(q) /\ UNCHANGED <<clock, solves>>
  BY DEF CacheInv, TypeOK, GetVideo, Decode, Called, WatchPage, AddOrSkip
<1>i. /\ Idle \in Call /\ Idle.pc = "idle" /\ Idle.prov = 1 /\ Idle.solved = Unsolved
      /\ Idle.body = None /\ Idle.began = 0 /\ Idle.told = None /\ Idle.resp = {}
      /\ 0 <= clock
  BY IdleCall DEF CacheInv
<1> USE DEF Early
<1>2. CASE GetVideo(c)
  <2>1. PICK resp \in Responses :
          Set(c, [Idle EXCEPT !.resp = resp,
                              !.pc = IF Collect(resp) = {} THEN "idle" ELSE "page"])
    BY <1>2 DEF GetVideo
  <2> DEFINE r == [Idle EXCEPT !.resp = resp,
                              !.pc = IF Collect(resp) = {} THEN "idle" ELSE "page"]
  <2>2. r \in Call
    <3>1. Idle \in Call
      BY <1>i
    <3> QED
      BY ZenonT(40), <3>1 DEF Call
  <2>3. Collect({}) = {}
    BY Zenon DEF Collect, NotNone
  <2>4. /\ r.pc \in {"idle", "page"} /\ (r.pc = "page" => r.resp # {})
        /\ r.prov = 1 /\ r.solved = Unsolved /\ r.body = None /\ r.told = None
        /\ r.began = 0
    BY <1>i, <2>3 DEF Call
  <2> HIDE DEF r
  <2>5. CallInv(r)
    BY <1>i, <2>4, UnsolvedIsNothing DEF CallInv
  <2> QED
    BY <1>1, <2>1, <2>2, <2>5, Changes DEF r
<1>3. CASE Decode(c)
  <2>1. PICK u \in URLs, t \in Tasks :
          Set(c, [Idle EXCEPT !.url = u, !.task = t, !.pc = "get"])
    BY <1>3 DEF Decode
  <2> DEFINE r == [Idle EXCEPT !.url = u, !.task = t, !.pc = "get"]
  <2>2. r \in Call
    BY ZenonT(40), <1>i DEF Call
  <2>3. u \in URL
    BY ChallengeAssumption DEF ChallengeAssumption
  <2>4. 1 \in 1..Len(Providers(u))
    BY <2>3, ProvidersOf
  <2>5. /\ r.pc = "get" /\ r.url = u /\ r.task = t /\ r.resp = {}
        /\ r.prov = 1 /\ r.solved = Unsolved /\ r.body = None /\ r.told = None
        /\ r.began = 0
    BY <1>i DEF Call
  <2> HIDE DEF r
  <2>6. CallInv(r)
    BY <1>i, <2>4, <2>5, UnsolvedIsNothing DEF CallInv
  <2> QED
    BY <1>1, <2>1, <2>2, <2>6, Changes DEF r
<1>4. CASE WatchPage(c)
  <2>1. CASE End(c, None, {})
    BY <1>1, <2>1, Ends
  <2>2. CASE q.pc = "page" /\ Set(c, [q EXCEPT !.pc = "iframe"])
    <3> DEFINE r == [q EXCEPT !.pc = "iframe"]
    <3>1. r \in Call
      BY <1>1 DEF Call
    <3>2. CallInv(r)
      BY <1>1, <2>2 DEF CallInv, Call
    <3> QED
      BY <1>1, <2>2, <3>1, <3>2, Changes
  <2>3. CASE \E u \in URLs : Set(c, [q EXCEPT !.url = u, !.pc = "first", !.began = clock,
                                              !.left = Collect(q.resp)])
    <3> PICK u \in URLs : Set(c, [q EXCEPT !.url = u, !.pc = "first", !.began = clock,
                                          !.left = Collect(q.resp)])
      BY <2>3
    <3> DEFINE r == [q EXCEPT !.url = u, !.pc = "first", !.began = clock,
                              !.left = Collect(q.resp)]
    <3>1. q.resp \in Responses /\ q.pc \in {"page", "iframe"}
      BY <1>1, <1>4 DEF CallInv, Call, WatchPage
    <3>2. r \in Call
      BY <1>1, <3>1, CollectTasks DEF Call, CacheInv, TypeOK
    <3>3. u \in URL /\ clock <= clock
      BY ChallengeAssumption DEF ChallengeAssumption, CacheInv, TypeOK, Times
    <3>4. 1 \in 1..Len(Providers(u))
      BY <3>3, ProvidersOf
    <3>5. /\ r.pc = "first" /\ r.url = u /\ r.began = clock
          /\ r.prov = 1 /\ r.solved = Unsolved /\ r.body = None /\ r.told = None
          /\ r.resp = q.resp /\ q.resp # {}
      BY <1>1, <3>1 DEF CallInv, Call
    <3> HIDE DEF r
    <3>6. CallInv(r)
      BY <3>3, <3>4, <3>5, UnsolvedIsNothing DEF CallInv
    <3> QED
      BY <1>1, <3>2, <3>6, Changes DEF r
  <2> QED
    BY <1>4, <2>1, <2>2, <2>3 DEF WatchPage
<1>5. CASE AddOrSkip(c)
  <2>1. PICK t \in NextOf(q.left) :
          LET left == q.left \ {t}
              pending == IF Cached(q.url, t) THEN q.pending ELSE q.pending \cup {t}
          IN  IF left # {}
              THEN Set(c, [q EXCEPT !.left = left, !.pending = pending])
              ELSE Set(c, [q EXCEPT !.left = Collect(q.resp), !.pending = pending,
                                    !.pc = IF pending = {} THEN "second" ELSE "load"])
    BY <1>5 DEF AddOrSkip
  <2> DEFINE left == q.left \ {t}
             pending == IF Cached(q.url, t) THEN q.pending ELSE q.pending \cup {t}
  <2>2. t \in Tasks /\ left \in SUBSET Tasks /\ pending \in SUBSET Tasks
    BY <1>1, NextIsLeft DEF Call
  <2>3. q.pc = "first" /\ q.resp # {} /\ q.resp \in Responses
    BY <1>1, <1>5 DEF AddOrSkip, CallInv, Call
  <2>4. Collect(q.resp) \in SUBSET Tasks
    BY <2>3, CollectTasks
  <2> HIDE DEF left, pending
  <2>5. CASE left # {}
    <3> DEFINE r == [q EXCEPT !.left = left, !.pending = pending]
    <3>1. r \in Call
      BY <1>1, <2>2 DEF Call
    <3>2. CallInv(r)
      BY <1>1 DEF CallInv, Call
    <3>3. Set(c, r)
      BY <2>1, <2>5 DEF left, pending
    <3> HIDE DEF r
    <3> QED
      BY <1>1, <3>1, <3>2, <3>3, Changes
  <2>6. CASE left = {}
    <3> DEFINE r == [q EXCEPT !.left = Collect(q.resp), !.pending = pending,
                              !.pc = IF pending = {} THEN "second" ELSE "load"]
    <3>1. r \in Call
      BY ZenonT(40), <1>1, <2>2, <2>4 DEF Call
    <3>2. /\ r.pc \in {"second", "load"} /\ r.url = q.url /\ r.prov = q.prov
          /\ r.solved = q.solved /\ r.body = q.body /\ r.told = q.told
          /\ r.began = q.began /\ r.resp = q.resp
      BY <1>1 DEF Call
    <3>3. Set(c, r)
      BY <2>1, <2>6 DEF left, pending
    <3> HIDE DEF r
    <3>4. CallInv(r)
      BY <1>1, <2>3, <3>2 DEF CallInv
    <3> QED
      BY <1>1, <3>1, <3>3, <3>4, Changes
  <2> QED
    BY <2>5, <2>6
<1> QED
  BY <1>2, <1>3, <1>4, <1>5

\* The player a call asks for, and its locations.
LEMMA Asked ==
  ASSUME CacheInv, NEW c \in Callers,
         call[c].pc \notin {"idle", "page", "iframe"}
  PROVE  /\ call[c].url \in URL /\ call[c].url.player \in Players
         /\ Provider(c) \in URL /\ Provider(c).player = call[c].url.player
         /\ Len(Locations(Provider(c))) \in {1, 2}
         /\ \A i \in 1..Len(Locations(Provider(c))) :
              Locations(Provider(c))[i].player = call[c].url.player
<1>1. call[c].url \in URLs /\ call[c].prov \in 1..Len(Providers(call[c].url))
  BY DEF CacheInv, CallInv
<1>2. call[c].url \in URL
  BY <1>1, ChallengeAssumption DEF ChallengeAssumption
<1>3. Provider(c) \in URL /\ Provider(c).player = call[c].url.player
  BY <1>1, <1>2, ProvidersOf DEF Provider
<1>4. call[c].url.player \in Players
  BY <1>2 DEF URL
<1> QED
  BY <1>2, <1>3, <1>4, LocationsOf

\* The second of two.
LEMMA Successor ==
  ASSUME NEW n \in {1, 2}, NEW i \in 1..n, i < n
  PROVE  i + 1 \in {1, 2} /\ i + 1 \in 1..n
OBVIOUS

\* The solver goes on to its next provider, or is done with them.
LEMMA NextProviderStep ==
  ASSUME CacheInv, NEW c \in Callers, UNCHANGED <<clock, solves>>,
         call[c].pc \notin Early, ~Decoding(c),
         NEW solved \in [Tasks -> Players \cup {None}], NEW loadErr \in BOOLEAN,
         \A t \in SolvedIn(solved) :
           solved[t] = call[c].url.player /\ t \in solves[call[c].url.player],
         NextProvider(c, solved, loadErr)
  PROVE  call' \in [Callers -> Call] /\ \A d \in Callers : CallInv(call[d])'
<1> DEFINE q == call[c]
           p == [q EXCEPT !.solved = solved, !.loadErr = loadErr, !.body = None]
<1>1. q \in Call /\ CallInv(q)
  BY DEF CacheInv, TypeOK
<1>2. /\ q.url \in URLs /\ q.url \in URL /\ q.prov \in 1..Len(Providers(q.url))
      /\ q.told = None /\ q.resp # {} /\ q.began <= clock
  BY <1>1, Asked DEF CallInv, Early, Decoding
<1>3. /\ p \in Call /\ p.url = q.url /\ p.prov = q.prov /\ p.told = None /\ p.resp = q.resp
      /\ p.began = q.began /\ p.solved = solved /\ p.body = None
  <2>1. q \in Call
    BY <1>1
  <2>2. p \in Call
    BY <2>1 DEF Call
  <2>3. /\ p.url = q.url /\ p.prov = q.prov /\ p.told = q.told /\ p.resp = q.resp
        /\ p.began = q.began /\ p.solved = solved /\ p.body = None
    BY <2>1 DEF Call
  <2> HIDE DEF p
  <2> QED
    BY <1>2, <2>2, <2>3
<1> HIDE DEF p
<1>4. CASE q.prov < Len(Providers(q.url)) /\ q.pending # SolvedIn(solved)
  <2> DEFINE r == [p EXCEPT !.prov = @ + 1, !.pc = "load"]
  <2>1. p.prov + 1 \in {1, 2} /\ p.prov + 1 \in 1..Len(Providers(q.url))
    <3>1. Len(Providers(q.url)) \in {1, 2}
      BY <1>2, ProvidersOf
    <3>2. p.prov = q.prov /\ q.prov \in 1..Len(Providers(q.url))
      BY <1>2, <1>3
    <3>3. q.prov < Len(Providers(q.url))
      BY <1>4
    <3> QED
      BY <3>1, <3>2, <3>3, Successor
  <2> DEFINE n == p.prov + 1
  <2>2. Set(c, r)
    BY <1>4 DEF NextProvider, p
  <2>3. r = [p EXCEPT !.prov = n, !.pc = "load"]
    BY <1>3 DEF Call
  <2> HIDE DEF n, r
  <2>4. r \in Call
    <3>1. p \in Call /\ n \in {1, 2}
      BY <1>3, <2>1 DEF n
    <3> QED
      BY <2>3, <3>1 DEF Call
  <2>5. /\ r.pc = "load" /\ r.prov = n /\ r.url = q.url /\ r.told = None
        /\ r.resp = q.resp /\ r.began = q.began /\ r.solved = solved /\ r.body = None
    BY <1>3, <2>3 DEF Call
  <2>6. n \in 1..Len(Providers(q.url))
    BY <2>1 DEF n
  <2>7. CallInv(r)
    BY <1>2, <2>5, <2>6 DEF CallInv, Early
  <2> QED
    BY <2>2, <2>4, <2>7, Changes
<1>5. CASE ~(q.prov < Len(Providers(q.url)) /\ q.pending # SolvedIn(solved))
  <2>1. CASE SolverFails(solved, loadErr)
    <3>1. End(c, "failure", {})
      BY <1>5, <2>1 DEF NextProvider
    <3> QED
      BY <3>1, Ends
  <2>2. CASE ~SolverFails(solved, loadErr)
    <3> DEFINE r == [p EXCEPT !.pc = "second"]
    <3>1. Set(c, r)
      BY <1>5, <2>2 DEF NextProvider, p
    <3>2. r \in Call
      BY <1>3 DEF Call
    <3>3. /\ r.pc = "second" /\ r.prov = q.prov /\ r.url = q.url /\ r.told = None
          /\ r.resp = q.resp /\ r.began = q.began /\ r.solved = solved /\ r.body = None
      BY <1>3 DEF Call
    <3> HIDE DEF r
    <3>4. CallInv(r)
      BY <1>2, <3>3 DEF CallInv, Early
    <3> QED
      BY <3>1, <3>2, <3>4, Changes
  <2> QED
    BY <2>1, <2>2
<1> QED
  BY <1>4, <1>5

\* A script is loaded, from the cache or from a location.
LEMMA LoadingStep ==
  ASSUME CacheInv, NEW c \in Callers,
         LoadScript(c) \/ FetchFails(c) \/ Fetched(c) \/ CacheScript(c)
  PROVE  call' \in [Callers -> Call] /\ \A d \in Callers : CallInv(call[d])'
<1> DEFINE q == call[c]
<1>1. q \in Call /\ CallInv(q) /\ UNCHANGED <<clock, solves>>
  BY DEF CacheInv, TypeOK, LoadScript, FetchFails, Fetched, CacheScript
<1>2. /\ q.pc \in {"load", "fetch", "cache"} /\ q.url \in URLs /\ q.told = None
      /\ q.prov \in 1..Len(Providers(q.url)) /\ q.began <= clock
      /\ \A t \in SolvedIn(q.solved) :
           q.solved[t] = q.url.player /\ t \in solves[q.url.player]
      /\ q.resp = {} => q.task \in Tasks /\ q.solved = Unsolved
  BY <1>1 DEF CallInv, LoadScript, FetchFails, Fetched, CacheScript
<1>3. /\ Provider(c) \in URL /\ Provider(c).player = q.url.player /\ q.url.player \in Players
      /\ Len(Locations(Provider(c))) \in {1, 2}
      /\ \A i \in 1..Len(Locations(Provider(c))) :
           Locations(Provider(c))[i].player = q.url.player
  BY <1>2, Asked
<1> DEFINE Same(r) == /\ r.url = q.url /\ r.told = None /\ r.prov = q.prov /\ r.began = q.began
                      /\ r.solved = q.solved /\ r.resp = q.resp /\ r.task = q.task
<1>4. CASE LoadScript(c)
  <2>1. CASE ScriptKey(Provider(c)) \in LiveScripts
    <3> DEFINE r == [q EXCEPT !.pc = "decipher", !.body = items[ScriptKey(Provider(c))].body]
    <3>1. items[ScriptKey(Provider(c))].body = q.url.player
      BY <1>3, <2>1, Variants DEF LiveScripts, CacheInv, ScriptsInv
    <3>2. r \in Call
      BY <1>1, <1>3, <3>1 DEF Call
    <3>3. r.pc = "decipher" /\ r.body = q.url.player /\ Same(r)
      BY <1>1, <1>2, <3>1 DEF Call
    <3>4. Set(c, r)
      BY <1>4, <2>1 DEF LoadScript
    <3> HIDE DEF r
    <3>5. CallInv(r)
      BY <1>2, <3>3 DEF CallInv, Early
    <3> QED
      BY <1>1, <3>2, <3>4, <3>5, Changes
  <2>2. CASE ScriptKey(Provider(c)) \notin LiveScripts
    <3> DEFINE r == [q EXCEPT !.pc = "fetch", !.loc = 1]
    <3>1. r \in Call
      BY <1>1 DEF Call
    <3>2. r.pc = "fetch" /\ r.loc = 1 /\ r.body = None /\ Same(r)
      BY <1>1, <1>2, <1>4 DEF Call, CallInv, LoadScript
    <3>3. Set(c, r)
      BY <1>4, <2>2 DEF LoadScript
    <3>4. 1 \in 1..Len(Locations(Providers(q.url)[q.prov]))
      BY SMTT(30), <1>3 DEF Provider
    <3> HIDE DEF r
    <3>5. CallInv(r)
      BY <1>2, <3>2, <3>4 DEF CallInv, Early
    <3> QED
      BY <1>1, <3>1, <3>3, <3>5, Changes
  <2> QED
    BY <2>1, <2>2
<1>5. CASE FetchFails(c)
  <2>1. CASE q.loc < Len(Locations(Provider(c)))
    <3> DEFINE n == q.loc + 1
               r == [q EXCEPT !.loc = n]
    <3>1. n \in {1, 2} /\ n \in 1..Len(Locations(Providers(q.url)[q.prov]))
      <4>1. q.loc \in {1, 2}
        BY <1>1 DEF Call
      <4> QED
        BY <1>3, <2>1, <4>1 DEF Provider
    <3>2. Set(c, [q EXCEPT !.loc = @ + 1])
      BY <1>5, <2>1 DEF FetchFails
    <3>3. Set(c, r)
      BY <1>1, <3>2 DEF Call
    <3> HIDE DEF n
    <3>4. r \in Call
      BY <1>1, <3>1 DEF Call
    <3>5. r.pc = "fetch" /\ r.loc = n /\ r.body = None /\ Same(r)
      BY <1>1, <1>2, <1>5 DEF Call, CallInv, FetchFails
    <3> HIDE DEF r
    <3>6. CallInv(r)
      BY <1>2, <3>1, <3>5 DEF CallInv, Early
    <3> QED
      BY <1>1, <3>3, <3>4, <3>6, Changes
  <2>2. CASE ~(q.loc < Len(Locations(Provider(c)))) /\ Decoding(c)
    <3>1. End(c, "error", {})
      BY <1>5, <2>2 DEF FetchFails
    <3> QED
      BY <1>1, <3>1, Ends
  <2>3. CASE ~(q.loc < Len(Locations(Provider(c)))) /\ ~Decoding(c)
    <3>1. NextProvider(c, q.solved, TRUE)
      BY <1>5, <2>3 DEF FetchFails
    <3>2. q.solved \in [Tasks -> Players \cup {None}]
      BY <1>1 DEF Call
    <3> QED
      BY <1>1, <1>2, <2>3, <3>1, <3>2, NextProviderStep DEF Early
  <2> QED
    BY <2>1, <2>2, <2>3
<1>6. CASE Fetched(c)
  <2> DEFINE r == [q EXCEPT !.pc = "cache",
                            !.body = Locations(Provider(c))[call[c].loc].player]
  <2>1. Locations(Provider(c))[call[c].loc].player = q.url.player
    BY <1>1, <1>3, <1>6 DEF Fetched, CallInv, Provider
  <2>2. r \in Call
    BY <1>1, <1>3, <2>1 DEF Call
  <2>3. r.pc = "cache" /\ r.body = q.url.player /\ Same(r)
    BY <1>1, <1>2, <2>1 DEF Call
  <2>4. Set(c, r)
    BY <1>6 DEF Fetched
  <2> HIDE DEF r
  <2>5. CallInv(r)
    BY <1>2, <2>3 DEF CallInv, Early
  <2> QED
    BY <1>1, <2>2, <2>4, <2>5, Changes
<1>7. CASE CacheScript(c)
  <2> DEFINE r == [q EXCEPT !.pc = "decipher"]
  <2>1. r \in Call
    BY <1>1 DEF Call
  <2>2. r.pc = "decipher" /\ r.body = q.url.player /\ Same(r)
    BY <1>1, <1>2, <1>7 DEF Call, CallInv, CacheScript
  <2>3. Set(c, r)
    BY <1>7 DEF CacheScript
  <2> HIDE DEF r
  <2>4. CallInv(r)
    BY <1>2, <2>2 DEF CallInv, Early
  <2> QED
    BY <1>1, <2>1, <2>3, <2>4, Changes
<1> QED
  BY <1>4, <1>5, <1>6, <1>7

\* A script decodes what it can.
LEMMA DecipherStep ==
  ASSUME CacheInv, NEW c \in Callers, Decipher(c)
  PROVE  call' \in [Callers -> Call] /\ \A d \in Callers : CallInv(call[d])'
<1> DEFINE q == call[c]
           asked == IF Decoding(c) THEN {q.task} ELSE q.pending \ Solved(c)
           solved == [t \in Tasks |-> IF t \in asked \cap solves[q.body] THEN q.body
                                      ELSE q.solved[t]]
<1>1. q \in Call /\ CallInv(q) /\ UNCHANGED <<clock, solves>> /\ q.pc = "decipher"
  BY DEF CacheInv, TypeOK, Decipher
<1>2. /\ q.url \in URLs /\ q.told = None /\ q.body = q.url.player
      /\ q.prov \in 1..Len(Providers(q.url)) /\ q.began <= clock
      /\ \A t \in SolvedIn(q.solved) :
           q.solved[t] = q.url.player /\ t \in solves[q.url.player]
      /\ q.resp = {} => q.task \in Tasks /\ q.solved = Unsolved
  BY <1>1 DEF CallInv
<1>3. q.body \in Players \cup {None} /\ q.solved \in [Tasks -> Players \cup {None}]
  BY <1>1 DEF Call
<1>4. /\ solved \in [Tasks -> Players \cup {None}]
      /\ \A t \in SolvedIn(solved) :
           solved[t] = q.url.player /\ t \in solves[q.url.player]
  BY <1>2, <1>3 DEF SolvedIn
<1>5. Decoding(c) /\ SolvedIn(solved) # {} => q.task \in SolvedIn(solved)
  BY <1>2, UnsolvedIsNothing DEF SolvedIn, Decoding, Unsolved
<1>6. CASE ~Decoding(c)
  <2>1. NextProvider(c, solved, q.loadErr)
    BY <1>6 DEF Decipher
  <2>2. q.loadErr \in BOOLEAN
    BY <1>1 DEF Call
  <2> HIDE DEF solved
  <2> QED
    BY <1>1, <1>4, <1>6, <2>1, <2>2, NextProviderStep DEF Early
<1>7. CASE Decoding(c) /\ SolvedIn(solved) # {}
  <2> DEFINE r == [q EXCEPT !.solved = solved, !.pc = "store"]
  <2>1. Set(c, r)
    BY <1>7 DEF Decipher
  <2> HIDE DEF solved
  <2>2. r \in Call
    BY <1>1, <1>4 DEF Call
  <2>3. /\ r.pc = "store" /\ r.solved = solved /\ r.task = q.task /\ r.url = q.url
        /\ r.prov = q.prov /\ r.told = None /\ r.began = q.began /\ r.resp = {}
    BY <1>1, <1>2, <1>7 DEF Call, Decoding
  <2> HIDE DEF r
  <2>4. CallInv(r)
    BY <1>2, <1>4, <1>5, <1>7, <2>3 DEF CallInv, Early, Decoding
  <2> QED
    BY <1>1, <2>1, <2>2, <2>4, Changes
<1>8. CASE Decoding(c) /\ SolvedIn(solved) = {}
  <2>1. End(c, "error", {})
    BY <1>8 DEF Decipher
  <2> QED
    BY <1>1, <2>1, Ends
<1> QED
  BY <1>6, <1>7, <1>8

\* A challenge of the second pass is done.
LEMMA HandledStep ==
  ASSUME CacheInv, NEW c \in Callers, UNCHANGED <<clock, solves>>,
         call[c].pc \in {"second", "store"}, ~Decoding(c),
         NEW t, NEW failed \in SUBSET Tasks, Handled(c, t, failed)
  PROVE  call' \in [Callers -> Call] /\ \A d \in Callers : CallInv(call[d])'
<1> DEFINE q == call[c]
           left == q.left \ {t}
<1>1. q \in Call /\ CallInv(q)
  BY DEF CacheInv, TypeOK
<1>2. left \in SUBSET Tasks
  BY <1>1 DEF Call
<1>3. CASE left # {}
  <2> DEFINE r == [q EXCEPT !.left = left, !.failed = failed, !.pc = "second"]
  <2>1. Set(c, r)
    BY <1>3 DEF Handled
  <2> HIDE DEF left
  <2>2. r \in Call
    BY <1>1, <1>2 DEF Call
  <2>3. /\ r.pc = "second" /\ r.solved = q.solved /\ r.url = q.url /\ r.prov = q.prov
        /\ r.told = q.told /\ r.began = q.began /\ r.resp = q.resp /\ q.resp # {}
    BY <1>1 DEF Call, Decoding
  <2> HIDE DEF r
  <2>4. CallInv(r)
    BY <1>1, <2>3 DEF CallInv, Early
  <2> QED
    BY <2>1, <2>2, <2>4, Changes
<1>4. CASE left = {}
  <2>1. End(c, IF failed = {} THEN "success" ELSE "partial", failed)
    BY <1>4 DEF Handled
  <2>2. CASE failed = {}
    <3>1. End(c, "success", failed)
      BY <2>1, <2>2
    <3> QED
      BY <3>1, Ends
  <2>3. CASE failed # {}
    <3>1. End(c, "partial", failed)
      BY <2>1, <2>3
    <3> QED
      BY <3>1, Ends
  <2> QED
    BY <2>2, <2>3
<1> QED
  BY <1>3, <1>4

\* What is solved is stored, and what is stored is used.
LEMMA StoringStep ==
  ASSUME CacheInv, NEW c \in Callers, StoreOrSkip(c) \/ StoreSolution(c) \/ GetSolution(c)
  PROVE  call' \in [Callers -> Call] /\ \A d \in Callers : CallInv(call[d])'
<1> DEFINE q == call[c]
<1>1. q \in Call /\ CallInv(q) /\ UNCHANGED <<clock, solves>>
  BY DEF CacheInv, TypeOK, StoreOrSkip, StoreSolution, GetSolution
<1>2. q.failed \in SUBSET Tasks /\ q.left \in SUBSET Tasks
  BY <1>1 DEF Call
<1>3. CASE StoreOrSkip(c)
  <2>1. q.pc = "second" /\ q.resp # {} /\ ~Decoding(c)
    BY <1>1, <1>3 DEF StoreOrSkip, CallInv, Decoding
  <2>2. PICK t \in NextOf(q.left) :
          \/ Handled(c, t, q.failed)
          \/ Handled(c, t, q.failed \cup {t})
          \/ t \in Solved(c) /\ Set(c, [q EXCEPT !.pc = "store", !.task = t])
    BY <1>3 DEF StoreOrSkip
  <2>3. t \in Tasks
    BY <1>2, NextIsLeft
  <2>4. CASE Handled(c, t, q.failed)
    BY <1>1, <1>2, <2>1, <2>4, HandledStep
  <2>5. CASE Handled(c, t, q.failed \cup {t})
    <3>1. q.failed \cup {t} \in SUBSET Tasks
      BY <1>2, <2>3
    <3> QED
      BY <1>1, <2>1, <2>5, <3>1, HandledStep
  <2>6. CASE t \in Solved(c) /\ Set(c, [q EXCEPT !.pc = "store", !.task = t])
    <3> DEFINE r == [q EXCEPT !.pc = "store", !.task = t]
    <3>1. r \in Call
      BY <1>1, <2>3 DEF Call
    <3>2. /\ r.pc = "store" /\ r.solved = q.solved /\ r.task = t /\ r.url = q.url
          /\ r.prov = q.prov /\ r.told = q.told /\ r.began = q.began /\ r.resp = q.resp
      BY <1>1 DEF Call
    <3> HIDE DEF r
    <3>3. CallInv(r)
      BY <1>1, <2>1, <2>3, <2>6, <3>2 DEF CallInv, Early, Solved
    <3> QED
      BY <1>1, <2>6, <3>1, <3>3, Changes DEF r
  <2> QED
    BY <2>2, <2>4, <2>5, <2>6
<1>4. CASE StoreSolution(c)
  <2>1. CASE Decoding(c)
    <3>1. End(c, "decoded", {})
      BY <1>4, <2>1 DEF StoreSolution
    <3> QED
      BY <1>1, <3>1, Ends
  <2>2. CASE ~Decoding(c)
    <3>1. Handled(c, q.task, q.failed) /\ q.pc = "store"
      BY <1>4, <2>2 DEF StoreSolution
    <3> QED
      BY <1>1, <1>2, <2>2, <3>1, HandledStep
  <2> QED
    BY <2>1, <2>2
<1>5. CASE GetSolution(c)
  <2>1. CASE End(c, "served", {})
    BY <1>1, <2>1, Ends
  <2>2. CASE Set(c, [q EXCEPT !.pc = "load"])
    <3> DEFINE r == [q EXCEPT !.pc = "load"]
    <3>1. r \in Call
      BY <1>1 DEF Call
    <3>2. CallInv(r)
      BY <1>1, <1>5 DEF CallInv, Call, GetSolution, Early
    <3> QED
      BY <1>1, <2>2, <3>1, <3>2, Changes
  <2> QED
    BY <1>5, <2>1, <2>2 DEF GetSolution
<1> QED
  BY <1>3, <1>4, <1>5

-----------------------------------------------------------------------------
(* The invariant holds *)

\* At first nothing is solved.
LEMMA CacheInit == Init => CacheInv
<1> SUFFICES ASSUME Init
             PROVE  CacheInv
  OBVIOUS
<1>1. /\ clock = 0 /\ 0 \in Times /\ calls \in 0..MaxCalls /\ MaxEntries \in Nat
      /\ DOMAIN challenges = {}
  BY ChallengeAssumption DEF ChallengeAssumption, Init, Times, Empty
<1>2. PICK S \in Known : items = [k \in S |-> [body |-> k.player, created |-> 0]]
  BY DEF Init
<1>3. S \subseteq URL /\ IsFiniteSet(S) /\ Cardinality(S) <= MaxEntries
  BY ChallengeAssumption DEF ChallengeAssumption
<1>4. /\ DOMAIN items = S
      /\ \A k \in S : items[k].created = 0 /\ items[k].body = k.player
  BY <1>2
<1>5. ScriptsInv /\ SolutionsInv
  BY <1>1, <1>3, <1>4 DEF ScriptsInv, SolutionsInv
<1>6. Idle \in Call
  BY <1>1, UnsolvedIsNothing DEF Idle, Call
<1>7. TypeOK
  <2>1. call \in [Callers -> Call] /\ solves \in Decoders
    BY <1>6 DEF Init
  <2> QED
    BY <1>1, <1>3, <1>4, <2>1 DEF TypeOK
<1>8. ASSUME NEW c \in Callers
      PROVE  CallInv(call[c])
  <2>1. call[c] = Idle
    BY DEF Init
  <2>2. /\ Idle.pc = "idle" /\ Idle.prov = 1 /\ Idle.solved = Unsolved
        /\ Idle.body = None /\ Idle.began = 0 /\ 0 <= clock
    BY <1>7, IdleCall
  <2> QED
    BY <2>1, <2>2, UnsolvedIsNothing DEF CallInv, Early
<1> QED
  BY <1>5, <1>7, <1>8 DEF CacheInv

\* What the caches become by a step of a caller.
LEMMA CachesStep ==
  ASSUME CacheInv, NEW c \in Callers, CallerStep(c)
  PROVE  /\ ScriptsInv' /\ SolutionsInv'
         /\ DOMAIN challenges' \subseteq URL
         /\ \A k \in DOMAIN challenges' :
              /\ challenges'[k].created \in Times
              /\ DOMAIN challenges'[k].sols \subseteq Tasks
              /\ \A t \in DOMAIN challenges'[k].sols : challenges'[k].sols[t].at \in Times
         /\ DOMAIN items' \subseteq URL /\ IsFiniteSet(DOMAIN items')
         /\ \A k \in DOMAIN items' : items'[k].created \in Times
         /\ \A w, t : Cached(w, t) => Cached(w, t)'
<1>1. UNCHANGED <<clock, solves>>
  BY DEF CallerStep, GetVideo, Decode, Called, WatchPage, AddOrSkip, LoadScript, FetchFails,
         Fetched, CacheScript, Decipher, StoreOrSkip, StoreSolution, GetSolution
<1>2. CASE UNCHANGED <<challenges, items>>
  <2>1. \A w, t : Cached(w, t) => Cached(w, t)'
    BY <1>1, <1>2 DEF Cached, Expired
  <2> QED
    BY <1>1, <1>2, <2>1 DEF CacheInv, TypeOK, ScriptsInv, SolutionsInv
<1>3. CASE CacheScript(c)
  <2>1. call[c].pc = "cache" /\ UNCHANGED challenges
    BY <1>3 DEF CacheScript
  <2>2. call[c].body = call[c].url.player
    BY <2>1 DEF CacheInv, CallInv
  <2>3. Provider(c) \in URL /\ Provider(c).player = call[c].url.player
    BY <2>1, Asked
  <2>4. ScriptKey(Provider(c)) \in URL /\ ScriptKey(Provider(c)).player = call[c].body
    BY <2>2, <2>3, Variants
  <2>5. WithScript(ScriptKey(Provider(c)), ScriptKey(Provider(c)).player, items')
    BY <1>3, <2>4 DEF CacheScript
  <2>6. \A w, t : Cached(w, t) => Cached(w, t)'
    BY <1>1, <2>1 DEF Cached, Expired
  <2>7. SolutionsInv'
    BY <1>1, <2>1 DEF CacheInv, SolutionsInv
  <2> QED
    BY <2>1, <2>4, <2>5, <2>6, <2>7, ScriptStored DEF CacheInv, TypeOK
<1>4. CASE StoreSolution(c)
  <2>1. call[c].pc = "store" /\ UNCHANGED items
    BY <1>4 DEF StoreSolution
  <2>2. /\ call[c].task \in SolvedIn(call[c].solved) /\ call[c].task \in Tasks
        /\ call[c].solved[call[c].task] = call[c].url.player
        /\ call[c].task \in solves[call[c].url.player]
    BY <2>1 DEF CacheInv, CallInv, SolvedIn
  <2>3. call[c].url \in URL
    BY <2>1, Asked
  <2>4. challenges' = WithSolution(call[c].url, call[c].task, call[c].url.player)
    BY <1>4, <2>2 DEF StoreSolution
  <2>5. /\ DOMAIN challenges' \subseteq URL
        /\ \A k \in DOMAIN challenges' :
             /\ challenges'[k].created \in Times
             /\ DOMAIN challenges'[k].sols \subseteq Tasks
             /\ \A t \in DOMAIN challenges'[k].sols : challenges'[k].sols[t].at \in Times
        /\ SolutionsInv'
        /\ \A w, t : Cached(w, t) => Cached(w, t)'
    BY <1>1, <2>2, <2>3, <2>4, SolutionStored DEF CacheInv
  <2>6. ScriptsInv'
    BY <2>1 DEF CacheInv, ScriptsInv
  <2> QED
    BY <2>1, <2>5, <2>6 DEF CacheInv, TypeOK
<1> QED
  BY <1>2, <1>3, <1>4 DEF CallerStep, GetVideo, Decode, Called, WatchPage, AddOrSkip, LoadScript,
     FetchFails, Fetched, Decipher, StoreOrSkip, GetSolution

\* The clock ticks.
LEMMA TickStep ==
  ASSUME CacheInv, Tick
  PROVE  CacheInv'
<1>1. UNCHANGED <<solves, challenges, items, call, calls>>
  BY DEF Tick
<1>2. /\ clock \in Nat /\ clock' = clock + 1 /\ clock' \in Times
  BY ChallengeAssumption DEF ChallengeAssumption, Tick, CacheInv, TypeOK, Times
<1>3. TypeOK' /\ ScriptsInv'
  BY <1>1, <1>2 DEF CacheInv, TypeOK, ScriptsInv
<1>4. SolutionsInv'
  <2>1. \A k \in DOMAIN challenges : challenges[k].created <= clock'
    BY <1>2 DEF CacheInv, SolutionsInv, TypeOK, Times
  <2> QED
    BY <1>1, <2>1 DEF CacheInv, SolutionsInv
<1>5. ASSUME NEW c \in Callers
      PROVE  CallInv(call[c])'
  <2>1. call[c].began <= clock /\ call[c].began \in Times
    BY DEF CacheInv, CallInv, TypeOK, Call
  <2>2. call[c].began <= clock'
    BY <1>2, <2>1 DEF Times
  <2> QED
    BY <1>1, <2>2 DEF CacheInv, CallInv
<1> QED
  BY <1>3, <1>4, <1>5 DEF CacheInv

\* A step keeps the invariant.
LEMMA CacheStep == CacheInv /\ [Next]_vars => CacheInv'
<1> SUFFICES ASSUME CacheInv, [Next]_vars
             PROVE  CacheInv'
  OBVIOUS
<1>1. ASSUME NEW c \in Callers, CallerStep(c)
      PROVE  CacheInv'
  <2>1. call' \in [Callers -> Call] /\ \A d \in Callers : CallInv(call[d])'
    BY <1>1, BeginningStep, LoadingStep, DecipherStep, StoringStep DEF CallerStep
  <2>2. clock' \in Times /\ solves' \in Decoders
    BY <1>1 DEF CallerStep, GetVideo, Decode, Called, WatchPage, AddOrSkip, LoadScript, FetchFails,
           Fetched, CacheScript, Decipher, StoreOrSkip, StoreSolution, GetSolution, CacheInv, TypeOK
  <2>3. calls' \in 0..MaxCalls
    <3>1. calls \in 0..MaxCalls /\ MaxCalls \in Nat
      BY ChallengeAssumption DEF ChallengeAssumption, CacheInv, TypeOK
    <3>2. calls' = calls \/ (calls < MaxCalls /\ calls' = calls + 1)
      BY <1>1 DEF CallerStep, GetVideo, Decode, Called, WatchPage, AddOrSkip, LoadScript, FetchFails,
             Fetched, CacheScript, Decipher, StoreOrSkip, StoreSolution, GetSolution
    <3> QED
      BY <3>1, <3>2
  <2> QED
    BY <1>1, <2>1, <2>2, <2>3, CachesStep DEF CacheInv, TypeOK
<1>2. CASE UNCHANGED vars
  BY <1>2 DEF vars, CacheInv, TypeOK, ScriptsInv, SolutionsInv, CallInv
<1> QED
  BY <1>1, <1>2, TickStep DEF Next

\* The invariant holds in every reachable state.
THEOREM CacheInvariant == Spec => []CacheInv
BY CacheInit, CacheStep, PTL DEF Spec

\* A script and a solution are kept only for the player they come from.
THEOREM OwnSolutions == Spec => []SolutionsOfPlayer
<1>1. CacheInv => SolutionsOfPlayer
  BY DEF CacheInv, ScriptsInv, SolutionsInv, SolutionsOfPlayer
<1> QED
  BY <1>1, CacheInvariant, PTL

-----------------------------------------------------------------------------
(* What a step may do *)

\* A step of one caller is not felt by the others.
LEMMA OthersStay ==
  ASSUME TypeOK, NEW c \in Callers, NEW d \in Callers, d # c, CallerStep(c)
  PROVE  call'[d] = call[d]
<1>1. ASSUME NEW r, Set(c, r)
      PROVE  call'[d] = call[d]
  BY <1>1 DEF Set, TypeOK
<1>2. ASSUME NEW told, NEW failed, End(c, told, failed)
      PROVE  call'[d] = call[d]
  BY <1>1, <1>2 DEF End
<1>3. ASSUME NEW solved, NEW loadErr, NextProvider(c, solved, loadErr)
      PROVE  call'[d] = call[d]
  BY <1>1, <1>2, <1>3 DEF NextProvider
<1>4. ASSUME NEW t, NEW failed, Handled(c, t, failed)
      PROVE  call'[d] = call[d]
  BY <1>1, <1>2, <1>4 DEF Handled
<1>5. GetVideo(c) \/ Decode(c) \/ WatchPage(c) \/ LoadScript(c) \/ Fetched(c) \/ CacheScript(c)
      \/ GetSolution(c) => call'[d] = call[d]
  BY <1>1, <1>2 DEF GetVideo, Decode, WatchPage, LoadScript, Fetched, CacheScript, GetSolution
<1>6. AddOrSkip(c) => call'[d] = call[d]
  BY <1>1 DEF AddOrSkip
<1>7. FetchFails(c) => call'[d] = call[d]
  BY <1>1, <1>2, <1>3 DEF FetchFails
<1>8. Decipher(c) => call'[d] = call[d]
  BY <1>1, <1>2, <1>3 DEF Decipher
<1>9. StoreOrSkip(c) \/ StoreSolution(c) => call'[d] = call[d]
  BY <1>1, <1>2, <1>4 DEF StoreOrSkip, StoreSolution
<1> QED
  BY <1>5, <1>6, <1>7, <1>8, <1>9 DEF CallerStep

\* No caller is ever served a solution stored longer than the TTL ago.
THEOREM NeverServedStale == Spec => SolutionNeverStale
<1>1. CacheInv /\ [Next]_vars =>
        [\A c \in Callers :
           (call[c].pc = "get" /\ call'[c].told = "served") =>
             LET s == challenges[Canonical(call[c].url)].sols[call[c].task]
             IN  clock - s.at <= TTL]_vars
  <2> SUFFICES ASSUME CacheInv, Next, NEW c \in Callers,
                      call[c].pc = "get", call'[c].told = "served"
               PROVE  clock - challenges[Canonical(call[c].url)].sols[call[c].task].at <= TTL
    OBVIOUS
  <2>1. call[c] \in Call /\ call[c].told = None
    BY DEF CacheInv, TypeOK, CallInv
  <2>2. call'[c] # call[c]
    BY <2>1 DEF None
  <2>3. CallerStep(c)
    BY <2>2, OthersStay DEF Next, Tick, CacheInv
  <2>4. GetSolution(c)
    BY <2>3 DEF CallerStep, GetVideo, Decode, Called, WatchPage, AddOrSkip, LoadScript, FetchFails,
       Fetched, CacheScript, Decipher, StoreOrSkip, StoreSolution
  <2>5. Cached(call[c].url, call[c].task)
    <3>1. CASE Set(c, [call[c] EXCEPT !.pc = "load"])
      <4>1. call'[c] = [call[c] EXCEPT !.pc = "load"]
        BY <3>1 DEF Set, CacheInv, TypeOK
      <4>2. call'[c].told = None
        BY <2>1, <4>1 DEF Call
      <4> QED
        BY <4>2 DEF None
    <3> QED
      BY <2>4, <3>1 DEF GetSolution
  <2> DEFINE k == Canonical(call[c].url)
             t == call[c].task
  <2>6. /\ k \in DOMAIN challenges /\ ~(clock - challenges[k].created > TTL)
        /\ t \in DOMAIN challenges[k].sols
    BY <2>5 DEF Cached, Expired
  <2>7. /\ challenges[k].created <= challenges[k].sols[t].at
        /\ challenges[k].created \in Times /\ challenges[k].sols[t].at \in Times
        /\ clock \in Times /\ TTL \in Nat
    BY <2>6, ChallengeAssumption DEF ChallengeAssumption, CacheInv, TypeOK, SolutionsInv
  <2> HIDE DEF k, t
  <2>8. clock - challenges[k].sols[t].at <= TTL
    BY <2>6, <2>7, ChallengeAssumption DEF Times, ChallengeAssumption
  <2> QED
    BY <2>8 DEF k, t
<1> QED
  BY <1>1, CacheInvariant, PTL DEF Spec, SolutionNeverStale

\* The JS cache stays in its bound, and of what is not too old only the oldest
\* leaves it.
THEOREM OldestLeavesFirst == Spec => EvictsOldestFirst
<1>1. CacheInv /\ [Next]_vars =>
        [/\ Cardinality(DOMAIN items') <= MaxEntries
         /\ \A k \in LiveScripts \ DOMAIN items' :
              \A l \in DOMAIN items \cap DOMAIN items' :
                items'[l] = items[l] => items[k].created <= items[l].created]_vars
  <2> SUFFICES ASSUME CacheInv, Next
               PROVE  /\ Cardinality(DOMAIN items') <= MaxEntries
                      /\ \A k \in LiveScripts \ DOMAIN items' :
                           \A l \in DOMAIN items \cap DOMAIN items' :
                             items'[l] = items[l] => items[k].created <= items[l].created
    OBVIOUS
  <2>1. CASE UNCHANGED items
    BY <2>1 DEF CacheInv, ScriptsInv, LiveScripts
  <2>2. CASE \E c \in Callers : CacheScript(c)
    <3> PICK c \in Callers : CacheScript(c)
      BY <2>2
    <3>1. call[c].pc = "cache"
      BY DEF CacheScript
    <3>2. call[c].body = call[c].url.player
      BY <3>1 DEF CacheInv, CallInv
    <3>3. Provider(c) \in URL /\ Provider(c).player = call[c].url.player
      BY <3>1, Asked
    <3>4. ScriptKey(Provider(c)) \in URL /\ ScriptKey(Provider(c)).player = call[c].body
      BY <3>2, <3>3, Variants
    <3>5. WithScript(ScriptKey(Provider(c)), ScriptKey(Provider(c)).player, items')
      BY <3>4 DEF CacheScript
    <3> QED
      BY <3>4, <3>5, ScriptStored DEF CacheInv, ScriptsInv
  <2> QED
    BY <2>1, <2>2 DEF Next, Tick, CallerStep, GetVideo, Decode, Called, WatchPage, AddOrSkip,
       LoadScript, FetchFails, Fetched, Decipher, StoreOrSkip, StoreSolution, GetSolution
<1> QED
  BY <1>1, CacheInvariant, PTL DEF Spec, EvictsOldestFirst

-----------------------------------------------------------------------------
(* The verdict of a priming *)

Asking == {"load", "fetch", "cache", "decipher"}
Second == {"second", "store"}

\* As long as the clock stands still, what was cached stays cached.
Seen(r, t) == clock = r.began => Cached(r.url, t)

\* What may be reported as unsolved.
OutOfReach(r, t) ==
  t \notin solves[r.url.player] \/ (t \notin r.pending /\ clock # r.began)

SolvedAll(r) == r.pending \cap solves[r.url.player] \subseteq SolvedIn(r.solved)

\* Each challenge of the response is asked for or cached; what is asked for and
\* can be decoded is, once a script was loaded; each challenge of the second
\* pass is cached by now or has failed, and what has failed is out of reach.
PrimingInv(r) ==
  r.resp # {} =>
    /\ r.pc \in {"page", "iframe", "first"} \cup Asking => r.failed = {}
    /\ r.pc \in {"first"} \cup Asking \cup Second => r.left \subseteq Collect(r.resp)
    /\ r.pc = "first" =>
         \A t \in Collect(r.resp) \ r.left : t \in r.pending \/ Seen(r, t)
    /\ r.pc \in Asking \cup Second =>
         \A t \in Collect(r.resp) : t \in r.pending \/ Seen(r, t)
    /\ r.pc \in Asking =>
         Collect(r.resp) \subseteq r.left /\ (SolvedAll(r) \/ SolvedIn(r.solved) = {})
    /\ r.pc \in Second =>
         /\ SolvedAll(r)
         /\ \A t \in Collect(r.resp) \ r.left : t \in r.failed \/ Seen(r, t)
         /\ \A t \in r.failed : OutOfReach(r, t)

\* What a step makes a call say is true.
Verdict(c) ==
  /\ Told(c, "success") => AllCached(c) \/ clock # call[c].began
  /\ Told(c, "failure") => NothingThrownAway(c)
  /\ Told(c, "partial") => BeyondThePlayer(c)

\* A call that begins, and one that ends without saying any of this.
LEMMA NothingSaid ==
  ASSUME NEW c \in Callers, call'[c].told \notin {"success", "failure", "partial"}
  PROVE  Verdict(c)
BY DEF Verdict, Told

\* The scripts that are loaded change nothing of what is asked for.
LEMMA LoadingKeeps ==
  ASSUME CacheInv, NEW c \in Callers, PrimingInv(call[c]),
         UNCHANGED <<clock, solves, challenges>>,
         call[c].pc \in Asking, call'[c].pc \in Asking, call'[c].told = None,
         call'[c].url = call[c].url, call'[c].resp = call[c].resp,
         call'[c].began = call[c].began, call'[c].left = call[c].left,
         call'[c].pending = call[c].pending, call'[c].solved = call[c].solved,
         call'[c].failed = call[c].failed
  PROVE  PrimingInv(call[c])' /\ Verdict(c)
<1>1. \A w, t : Cached(w, t) => Cached(w, t)'
  BY DEF Cached, Expired
<1>2. PrimingInv(call[c])'
  BY <1>1 DEF PrimingInv, Seen, SolvedAll, Asking, Second
<1>3. Verdict(c)
  BY NothingSaid DEF None
<1> QED
  BY <1>2, <1>3

\* The solver's next provider, or its verdict.
LEMMA SolverKeeps ==
  ASSUME CacheInv, NEW c \in Callers, PrimingInv(call[c]),
         UNCHANGED <<clock, solves, challenges>>,
         call[c].pc \in Asking, ~Decoding(c),
         NEW solved \in [Tasks -> Players \cup {None}], NEW loadErr \in BOOLEAN,
         NextProvider(c, solved, loadErr),
         \/ call[c].pending \cap solves[call[c].url.player] \subseteq SolvedIn(solved)
         \/ SolvedIn(solved) = {} /\ loadErr,
         SolvedIn(solved) = {} => NothingThrownAway(c)
  PROVE  PrimingInv(call[c])' /\ Verdict(c)
<1> DEFINE q == call[c]
           p == [q EXCEPT !.solved = solved, !.loadErr = loadErr, !.body = None]
<1>1. q \in Call /\ q.told = None
  BY DEF CacheInv, TypeOK, CallInv, Asking
<1>2. p \in Call
  <2>1. q \in Call
    BY <1>1
  <2> QED
    BY <2>1 DEF Call
<1>3. /\ p.url = q.url /\ p.resp = q.resp /\ p.began = q.began /\ p.left = q.left
      /\ p.pending = q.pending /\ p.solved = solved /\ p.failed = q.failed /\ p.told = None
  BY <1>1 DEF Call
<1> HIDE DEF p
<1>4. \A w, t : Cached(w, t) => Cached(w, t)'
  BY DEF Cached, Expired
<1>5. ASSUME NEW r, Set(c, r), r.told = None, r.pc \in {"load", "second"},
             r.pc = "second" => ~(SolvedIn(solved) = {} /\ loadErr),
             r.url = q.url, r.resp = q.resp, r.began = q.began, r.left = q.left,
             r.pending = q.pending, r.solved = solved, r.failed = q.failed
      PROVE  PrimingInv(call[c])' /\ Verdict(c)
  <2>1. call'[c] = r
    BY <1>5 DEF Set, CacheInv, TypeOK
  <2>2. PrimingInv(call[c])'
    BY <1>4, <1>5, <2>1 DEF PrimingInv, Seen, SolvedAll, Asking, Second
  <2>3. Verdict(c)
    BY <1>5, <2>1, NothingSaid DEF None
  <2> QED
    BY <2>2, <2>3
<1>6. CASE q.prov < Len(Providers(q.url)) /\ q.pending # SolvedIn(solved)
  <2> DEFINE r == [p EXCEPT !.prov = @ + 1, !.pc = "load"]
  <2>1. Set(c, r)
    BY <1>6 DEF NextProvider, p
  <2>2. /\ r.pc = "load" /\ r.url = q.url /\ r.resp = q.resp /\ r.began = q.began
        /\ r.left = q.left /\ r.pending = q.pending /\ r.solved = solved
        /\ r.failed = q.failed /\ r.told = None
    BY <1>2, <1>3 DEF Call
  <2> HIDE DEF r
  <2> QED
    BY <1>5, <2>1, <2>2
<1>7. CASE ~(q.prov < Len(Providers(q.url)) /\ q.pending # SolvedIn(solved))
  <2>1. CASE SolverFails(solved, loadErr)
    <3>1. End(c, "failure", {})
      BY <1>7, <2>1 DEF NextProvider
    <3>2. call'[c].told = "failure" /\ call'[c].pc = "idle"
      BY <3>1, Ends
    <3>3. NothingThrownAway(c)
      BY <2>1 DEF SolverFails
    <3> QED
      BY <3>2, <3>3 DEF Verdict, Told, PrimingInv, Asking, Second
  <2>2. CASE ~SolverFails(solved, loadErr)
    <3> DEFINE r == [p EXCEPT !.pc = "second"]
    <3>1. Set(c, r)
      BY <1>7, <2>2 DEF NextProvider, p
    <3>2. /\ r.pc = "second" /\ r.url = q.url /\ r.resp = q.resp /\ r.began = q.began
          /\ r.left = q.left /\ r.pending = q.pending /\ r.solved = solved
          /\ r.failed = q.failed /\ r.told = None
      BY <1>2, <1>3 DEF Call
    <3>3. ~(SolvedIn(solved) = {} /\ loadErr)
      BY <2>2 DEF SolverFails
    <3> HIDE DEF r
    <3> QED
      BY <1>5, <3>1, <3>2, <3>3
  <2> QED
    BY <2>1, <2>2
<1> QED
  BY <1>6, <1>7

\* A challenge of the second pass is done: it is cached or out of reach.
LEMMA HandledKeeps ==
  ASSUME CacheInv, NEW c \in Callers, PrimingInv(call[c]),
         UNCHANGED <<clock, solves>>, \A w, s : Cached(w, s) => Cached(w, s)',
         call[c].pc \in Second, ~Decoding(c), NEW u, u = call[c].url,
         NEW t \in Tasks, NEW failed \in SUBSET Tasks, call[c].failed \subseteq failed,
         t \in failed \/ (clock = call[c].began => Cached(u, t)'),
         \A s \in failed : OutOfReach(call[c], s),
         Handled(c, t, failed)
  PROVE  PrimingInv(call[c])' /\ Verdict(c)
<1> DEFINE q == call[c]
           left == q.left \ {t}
<1>1. q \in Call /\ q.told = None /\ q.resp # {}
  BY DEF CacheInv, TypeOK, CallInv, Second, Decoding
<1>2. \A s \in Collect(q.resp) \ left :
        s \in failed \/ (clock = q.began => Cached(u, s)')
  BY <1>1 DEF PrimingInv, Seen
<1>5. left \subseteq Collect(q.resp)
  BY <1>1 DEF PrimingInv
<1>3. CASE left # {}
  <2> DEFINE r == [q EXCEPT !.left = left, !.failed = failed, !.pc = "second"]
  <2>1. call'[c] = r
    BY <1>3 DEF Handled, Set, CacheInv, TypeOK
  <2> HIDE DEF left
  <2>2. /\ r.pc = "second" /\ r.url = q.url /\ r.resp = q.resp /\ r.began = q.began
        /\ r.left = left /\ r.pending = q.pending /\ r.solved = q.solved
        /\ r.failed = failed /\ r.told = None
    BY <1>1 DEF Call
  <2> HIDE DEF r
  <2>3. PrimingInv(call[c])'
    BY <1>1, <1>2, <1>5, <2>1, <2>2 DEF PrimingInv, OutOfReach, Seen, SolvedAll, Asking, Second
  <2>4. Verdict(c)
    BY <2>1, <2>2, NothingSaid DEF None
  <2> QED
    BY <2>3, <2>4
<1>4. CASE left = {}
  <2>1. End(c, IF failed = {} THEN "success" ELSE "partial", failed)
    BY <1>4 DEF Handled
  <2>2. CASE failed = {}
    <3>1. End(c, "success", failed)
      BY <2>1, <2>2
    <3>2. call'[c].told = "success" /\ call'[c].pc = "idle"
      BY <3>1, Ends
    <3>3. clock = q.began => AllCached(c)
      <4>1. ASSUME clock = q.began, NEW f \in q.resp, NEW s \in Needs(f)
            PROVE  Cached(u, s)'
        BY <1>2, <1>4, <2>2, <4>1, CollectsNeeds
      <4> QED
        BY <4>1 DEF AllCached
    <3> QED
      BY <3>2, <3>3 DEF Verdict, Told, PrimingInv, Asking, Second
  <2>3. CASE failed # {}
    <3>1. End(c, "partial", failed)
      BY <2>1, <2>3
    <3>2. call'[c].told = "partial" /\ call'[c].failed = failed /\ call'[c].pc = "idle"
      BY <3>1, Ends
    <3>3. BeyondThePlayer(c)
      BY <3>2 DEF BeyondThePlayer, OutOfReach
    <3> QED
      BY <3>2, <3>3 DEF Verdict, Told, PrimingInv, Asking, Second
  <2> QED
    BY <2>2, <2>3
<1> QED
  BY <1>3, <1>4

\* The beginning of a call.
LEMMA BeginningKeeps ==
  ASSUME CacheInv, NEW c \in Callers, PrimingInv(call[c]),
         GetVideo(c) \/ Decode(c) \/ WatchPage(c) \/ AddOrSkip(c)
  PROVE  PrimingInv(call[c])' /\ Verdict(c)
<1> DEFINE q == call[c]
<1>1. q \in Call
  BY DEF CacheInv, TypeOK
<1>2. ASSUME NEW r, Set(c, r)
      PROVE  call'[c] = r
  BY <1>2 DEF Set, CacheInv, TypeOK
<1>3. Idle \in Call /\ Idle.failed = {} /\ Idle.resp = {}
  BY IdleCall DEF CacheInv, Idle
<1>4. CASE GetVideo(c)
  <2>1. Verdict(c)
    BY <1>4 DEF GetVideo, Called, Verdict, Told
  <2>2. PICK resp \in Responses :
          Set(c, [Idle EXCEPT !.resp = resp,
                              !.pc = IF Collect(resp) = {} THEN "idle" ELSE "page"])
    BY <1>4 DEF GetVideo
  <2> DEFINE r == [Idle EXCEPT !.resp = resp,
                              !.pc = IF Collect(resp) = {} THEN "idle" ELSE "page"]
  <2>3. r.pc \in {"idle", "page"} /\ r.failed = {}
    BY <1>3 DEF Call
  <2>4. call'[c] = r
    BY <1>2, <2>2
  <2> HIDE DEF r
  <2>5. PrimingInv(call[c])'
    BY <2>3, <2>4 DEF PrimingInv, Asking, Second
  <2> QED
    BY <2>1, <2>5
<1>5. CASE Decode(c)
  <2>1. Verdict(c)
    BY <1>5 DEF Decode, Called, Verdict, Told
  <2>2. PICK u \in URLs, t \in Tasks :
          Set(c, [Idle EXCEPT !.url = u, !.task = t, !.pc = "get"])
    BY <1>5 DEF Decode
  <2> DEFINE r == [Idle EXCEPT !.url = u, !.task = t, !.pc = "get"]
  <2>3. r.resp = {}
    BY <1>3 DEF Call
  <2>4. call'[c] = r
    BY <1>2, <2>2
  <2> HIDE DEF r
  <2>5. PrimingInv(call[c])'
    BY <2>3, <2>4 DEF PrimingInv
  <2> QED
    BY <2>1, <2>5
<1>6. CASE WatchPage(c)
  <2>1. q.pc \in {"page", "iframe"} /\ q.told = None /\ UNCHANGED <<clock, solves, challenges>>
    BY <1>6 DEF WatchPage, CacheInv, CallInv
  <2>2. CASE End(c, None, {})
    <3>1. call'[c].told = None /\ call'[c].pc = "idle"
      BY <2>1, <2>2, Ends
    <3> QED
      BY <3>1, NothingSaid DEF None, PrimingInv, Asking, Second
  <2>3. CASE q.pc = "page" /\ Set(c, [q EXCEPT !.pc = "iframe"])
    <3> DEFINE r == [q EXCEPT !.pc = "iframe"]
    <3>1. r.pc = "iframe" /\ r.resp = q.resp /\ r.failed = q.failed /\ r.told = None
      BY <1>1, <2>1 DEF Call
    <3>2. call'[c] = r
      BY <1>2, <2>3
    <3> HIDE DEF r
    <3> QED
      BY <2>1, <3>1, <3>2, NothingSaid DEF None, PrimingInv, Asking, Second
  <2>4. CASE \E u \in URLs : Set(c, [q EXCEPT !.url = u, !.pc = "first", !.began = clock,
                                              !.left = Collect(q.resp)])
    <3> PICK u \in URLs : Set(c, [q EXCEPT !.url = u, !.pc = "first", !.began = clock,
                                          !.left = Collect(q.resp)])
      BY <2>4
    <3> DEFINE r == [q EXCEPT !.url = u, !.pc = "first", !.began = clock,
                              !.left = Collect(q.resp)]
    <3>1. /\ r.pc = "first" /\ r.resp = q.resp /\ r.failed = q.failed /\ r.told = None
          /\ r.left = Collect(q.resp)
      BY <1>1, <2>1 DEF Call
    <3>2. call'[c] = r
      BY <1>2
    <3> HIDE DEF r
    <3>3. PrimingInv(call[c])'
      BY <2>1, <3>1, <3>2 DEF PrimingInv, Asking, Second
    <3>4. Verdict(c)
      BY <3>1, <3>2, NothingSaid DEF None
    <3> QED
      BY <3>3, <3>4
  <2> QED
    BY <1>6, <2>2, <2>3, <2>4 DEF WatchPage
<1>7. CASE AddOrSkip(c)
  <2>1. PICK t \in NextOf(q.left) :
          LET left == q.left \ {t}
              pending == IF Cached(q.url, t) THEN q.pending ELSE q.pending \cup {t}
          IN  IF left # {}
              THEN Set(c, [q EXCEPT !.left = left, !.pending = pending])
              ELSE Set(c, [q EXCEPT !.left = Collect(q.resp), !.pending = pending,
                                    !.pc = IF pending = {} THEN "second" ELSE "load"])
    BY <1>7 DEF AddOrSkip
  <2> DEFINE left == q.left \ {t}
             pending == IF Cached(q.url, t) THEN q.pending ELSE q.pending \cup {t}
  <2>2. /\ q.pc = "first" /\ q.resp # {} /\ q.told = None /\ q.failed = {}
        /\ SolvedIn(q.solved) = {} /\ UNCHANGED <<clock, solves, challenges>>
    BY <1>7, UnsolvedIsNothing DEF AddOrSkip, CacheInv, CallInv, Early, PrimingInv
  <2>3. /\ \A s \in Collect(q.resp) \ left : s \in pending \/ Seen(q, s)
        /\ left \subseteq Collect(q.resp)
    BY <2>2 DEF PrimingInv, Seen
  <2>4. \A w, s : Cached(w, s) => Cached(w, s)'
    BY <2>2 DEF Cached, Expired
  <2> HIDE DEF pending
  <2>5. CASE left # {}
    <3> DEFINE r == [q EXCEPT !.left = left, !.pending = pending]
    <3>1. call'[c] = r
      BY <1>2, <2>1, <2>5 DEF pending
    <3> HIDE DEF left
    <3>2. /\ r.pc = "first" /\ r.url = q.url /\ r.resp = q.resp /\ r.failed = {}
          /\ r.left = left /\ r.pending = pending /\ r.began = q.began /\ r.told = None
      BY <1>1, <2>2 DEF Call
    <3> HIDE DEF r
    <3>3. PrimingInv(call[c])'
      BY <2>2, <2>3, <2>4, <3>1, <3>2 DEF PrimingInv, Seen, Asking, Second
    <3>4. Verdict(c)
      BY <3>1, <3>2, NothingSaid DEF None
    <3> QED
      BY <3>3, <3>4
  <2>6. CASE left = {}
    <3> DEFINE r == [q EXCEPT !.left = Collect(q.resp), !.pending = pending,
                              !.pc = IF pending = {} THEN "second" ELSE "load"]
    <3>1. call'[c] = r
      BY <1>2, <2>1, <2>6 DEF pending
    <3>2. /\ r.pc = IF pending = {} THEN "second" ELSE "load"
          /\ r.url = q.url /\ r.resp = q.resp /\ r.failed = {} /\ r.solved = q.solved
          /\ r.left = Collect(q.resp) /\ r.pending = pending /\ r.began = q.began
          /\ r.told = None
      BY <1>1, <2>2 DEF Call
    <3> HIDE DEF r, left
    <3>3. \A s \in Collect(q.resp) : s \in pending \/ Seen(q, s)
      BY <2>3, <2>6
    <3>4. CASE pending = {}
      BY <2>2, <2>4, <3>1, <3>2, <3>3, <3>4, NothingSaid
         DEF PrimingInv, Seen, SolvedAll, Asking, Second, None
    <3>5. CASE pending # {}
      BY <2>2, <2>4, <3>1, <3>2, <3>3, <3>5, NothingSaid
         DEF PrimingInv, Seen, SolvedAll, Asking, Second, None
    <3> QED
      BY <3>4, <3>5
  <2> QED
    BY <2>5, <2>6
<1> QED
  BY <1>4, <1>5, <1>6, <1>7

\* The scripts and what they decode.
LEMMA SolvingKeeps ==
  ASSUME CacheInv, NEW c \in Callers, PrimingInv(call[c]),
         LoadScript(c) \/ FetchFails(c) \/ Fetched(c) \/ CacheScript(c) \/ Decipher(c)
  PROVE  PrimingInv(call[c])' /\ Verdict(c)
<1> DEFINE q == call[c]
<1>1. /\ q \in Call /\ q.pc \in Asking /\ q.told = None
      /\ UNCHANGED <<clock, solves, challenges>>
  BY DEF CacheInv, TypeOK, CallInv, Asking, LoadScript, FetchFails, Fetched, CacheScript, Decipher
<1>2. ASSUME NEW r, Set(c, r)
      PROVE  call'[c] = r
  BY <1>2 DEF Set, CacheInv, TypeOK
<1>3. CASE LoadScript(c) \/ Fetched(c) \/ CacheScript(c)
  <2> DEFINE Same(r) ==
               /\ r.pc \in Asking /\ r.told = None /\ r.url = q.url /\ r.resp = q.resp
               /\ r.began = q.began /\ r.left = q.left /\ r.pending = q.pending
               /\ r.solved = q.solved /\ r.failed = q.failed
  <2>1. ASSUME NEW pc \in Asking, NEW body, Set(c, [q EXCEPT !.pc = pc, !.body = body])
        PROVE  Same(call'[c])
    <3> DEFINE r == [q EXCEPT !.pc = pc, !.body = body]
    <3>1. call'[c] = r
      BY <1>2, <2>1
    <3>2. r.pc = pc /\ r.told = q.told /\ r.url = q.url /\ r.resp = q.resp
      BY <1>1 DEF Call
    <3>3. /\ r.began = q.began /\ r.left = q.left /\ r.pending = q.pending
          /\ r.solved = q.solved /\ r.failed = q.failed
      BY <1>1 DEF Call
    <3> HIDE DEF r
    <3> QED
      BY <1>1, <3>1, <3>2, <3>3
  <2>2. ASSUME NEW pc \in Asking, NEW loc, Set(c, [q EXCEPT !.pc = pc, !.loc = loc])
        PROVE  Same(call'[c])
    <3> DEFINE r == [q EXCEPT !.pc = pc, !.loc = loc]
    <3>1. call'[c] = r
      BY <1>2, <2>2
    <3>2. r.pc = pc /\ r.told = q.told /\ r.url = q.url /\ r.resp = q.resp
      BY <1>1 DEF Call
    <3>3. /\ r.began = q.began /\ r.left = q.left /\ r.pending = q.pending
          /\ r.solved = q.solved /\ r.failed = q.failed
      BY <1>1 DEF Call
    <3> HIDE DEF r
    <3> QED
      BY <1>1, <3>1, <3>2, <3>3
  <2>3. ASSUME NEW pc \in Asking, Set(c, [q EXCEPT !.pc = pc])
        PROVE  Same(call'[c])
    BY <1>1, <1>2, <2>3 DEF Call
  <2>4. "decipher" \in Asking /\ "fetch" \in Asking /\ "cache" \in Asking
    BY DEF Asking
  <2>5. Same(call'[c])
    <3> HIDE DEF Same
    <3>1. CASE LoadScript(c)
      BY <2>1, <2>2, <2>4, <3>1 DEF LoadScript
    <3>2. CASE Fetched(c)
      BY <2>1, <2>4, <3>2 DEF Fetched
    <3>3. CASE CacheScript(c)
      BY <2>3, <2>4, <3>3 DEF CacheScript
    <3> QED
      BY <1>3, <3>1, <3>2, <3>3
  <2> QED
    BY <1>1, <2>5, LoadingKeeps
<1>4. CASE FetchFails(c)
  <2>1. q.pc = "fetch" /\ q.body = None
    BY <1>4 DEF FetchFails, CacheInv, CallInv
  <2>2. CASE q.loc < Len(Locations(Provider(c)))
    <3>1. call'[c] = [q EXCEPT !.loc = @ + 1]
      BY <1>2, <1>4, <2>2 DEF FetchFails
    <3>2. /\ call'[c].pc \in Asking /\ call'[c].told = None /\ call'[c].url = q.url
          /\ call'[c].resp = q.resp /\ call'[c].began = q.began /\ call'[c].left = q.left
          /\ call'[c].pending = q.pending /\ call'[c].solved = q.solved
          /\ call'[c].failed = q.failed
      BY <1>1, <3>1 DEF Call
    <3> QED
      BY <1>1, <3>2, LoadingKeeps
  <2>3. CASE ~(q.loc < Len(Locations(Provider(c)))) /\ Decoding(c)
    <3>1. End(c, "error", {})
      BY <1>4, <2>3 DEF FetchFails
    <3>2. call'[c].told = "error" /\ call'[c].pc = "idle"
      BY <1>1, <3>1, Ends
    <3> QED
      BY <3>2, NothingSaid DEF PrimingInv, Asking, Second
  <2>4. CASE ~(q.loc < Len(Locations(Provider(c)))) /\ ~Decoding(c)
    <3>1. NextProvider(c, q.solved, TRUE)
      BY <1>4, <2>4 DEF FetchFails
    <3>2. q.solved \in [Tasks -> Players \cup {None}]
      BY <1>1 DEF Call
    <3>3. \/ q.pending \cap solves[q.url.player] \subseteq SolvedIn(q.solved)
          \/ SolvedIn(q.solved) = {}
      BY <1>1, <2>4 DEF PrimingInv, SolvedAll, Decoding
    <3>4. SolvedIn(q.solved) = {} => NothingThrownAway(c)
      BY <2>1 DEF NothingThrownAway, Solved
    <3> QED
      BY <1>1, <2>4, <3>1, <3>2, <3>3, <3>4, SolverKeeps
  <2> QED
    BY <2>2, <2>3, <2>4
<1>5. CASE Decipher(c)
  <2> DEFINE asked == IF Decoding(c) THEN {q.task} ELSE q.pending \ Solved(c)
             solved == [t \in Tasks |-> IF t \in asked \cap solves[q.body] THEN q.body
                                        ELSE q.solved[t]]
  <2>1. q.pc = "decipher" /\ q.body = q.url.player /\ q.body \in Players /\ None \notin Players
    BY <1>5, Asked, ChallengeAssumption DEF Decipher, CacheInv, CallInv, ChallengeAssumption
  <2>2. q.solved \in [Tasks -> Players \cup {None}] /\ q.pending \in SUBSET Tasks
    BY <1>1 DEF Call
  <2>3. CASE ~Decoding(c)
    <3>1. NextProvider(c, solved, q.loadErr)
      BY <1>5, <2>3 DEF Decipher
    <3>2. q.loadErr \in BOOLEAN
      BY <1>1 DEF Call
    <3>3. solved \in [Tasks -> Players \cup {None}]
      BY <2>1, <2>2
    <3>4. q.pending \cap solves[q.url.player] \subseteq SolvedIn(solved)
      BY <2>1, <2>2, <2>3 DEF SolvedIn, Solved
    <3>5. SolvedIn(q.solved) \subseteq SolvedIn(solved)
      BY <2>1, <2>2 DEF SolvedIn
    <3>6. SolvedIn(solved) = {} => NothingThrownAway(c)
      BY <2>1, <3>4, <3>5 DEF NothingThrownAway, Solved
    <3> HIDE DEF solved
    <3> QED
      BY <1>1, <2>3, <3>1, <3>2, <3>3, <3>4, <3>6, SolverKeeps
  <2>4. CASE Decoding(c) /\ SolvedIn(solved) # {}
    <3> DEFINE r == [q EXCEPT !.solved = solved, !.pc = "store"]
    <3>1. call'[c] = r
      BY <1>2, <1>5, <2>4 DEF Decipher
    <3> HIDE DEF solved
    <3>2. r.resp = {} /\ r.told = None
      BY <1>1, <2>4 DEF Call, Decoding
    <3> HIDE DEF r
    <3> QED
      BY <3>1, <3>2, NothingSaid DEF PrimingInv, None
  <2>5. CASE Decoding(c) /\ SolvedIn(solved) = {}
    <3>1. End(c, "error", {})
      BY <1>5, <2>5 DEF Decipher
    <3>2. call'[c].told = "error" /\ call'[c].pc = "idle"
      BY <1>1, <3>1, Ends
    <3> QED
      BY <3>2, NothingSaid DEF PrimingInv, Asking, Second
  <2> QED
    BY <2>3, <2>4, <2>5
<1> QED
  BY <1>3, <1>4, <1>5

\* What is stored and what is used.
LEMMA StoringKeeps ==
  ASSUME CacheInv, NEW c \in Callers, PrimingInv(call[c]),
         \A w, s : Cached(w, s) => Cached(w, s)',
         StoreOrSkip(c) \/ StoreSolution(c) \/ GetSolution(c)
  PROVE  PrimingInv(call[c])' /\ Verdict(c)
<1> DEFINE q == call[c]
<1>1. q \in Call /\ q.told = None /\ UNCHANGED <<clock, solves>>
  BY DEF CacheInv, TypeOK, CallInv, StoreOrSkip, StoreSolution, GetSolution
<1>2. ASSUME NEW r, Set(c, r)
      PROVE  call'[c] = r
  BY <1>2 DEF Set, CacheInv, TypeOK
<1>3. q.failed \in SUBSET Tasks /\ q.left \in SUBSET Tasks
  BY <1>1 DEF Call
<1>4. q.pc \in Second /\ ~Decoding(c) =>
        \A s \in q.failed : OutOfReach(q, s)
  BY DEF PrimingInv, Decoding, Asking
<1> PICK u : u = q.url
  OBVIOUS
<1>5. CASE StoreOrSkip(c)
  <2>1. q.pc = "second" /\ q.resp # {} /\ ~Decoding(c) /\ q.pc \in Second
    BY <1>5 DEF StoreOrSkip, CacheInv, CallInv, Decoding, Second
  <2>2. PICK t \in NextOf(q.left) :
          \/ Cached(q.url, t) /\ Handled(c, t, q.failed)
          \/ /\ ~Cached(q.url, t) /\ t \notin Solved(c)
             /\ Handled(c, t, q.failed \cup {t})
          \/ Set(c, [q EXCEPT !.pc = "store", !.task = t])
    BY <1>5 DEF StoreOrSkip
  <2>3. t \in q.left /\ t \in Tasks
    BY <1>3, NextIsLeft
  <2>4. CASE Cached(q.url, t) /\ Handled(c, t, q.failed)
    <3>1. Cached(u, t)'
      BY <2>4
    <3> QED
      BY <1>1, <1>3, <1>4, <2>1, <2>3, <2>4, <3>1, HandledKeeps
  <2>5. CASE ~Cached(q.url, t) /\ t \notin Solved(c) /\ Handled(c, t, q.failed \cup {t})
    <3>1. q.failed \cup {t} \in SUBSET Tasks /\ q.failed \subseteq q.failed \cup {t}
      BY <1>3, <2>3
    <3>2. SolvedAll(q) /\ (t \in q.pending \/ Seen(q, t))
      BY <2>1, <2>3 DEF PrimingInv
    <3>3. OutOfReach(q, t)
      BY <2>5, <3>2 DEF OutOfReach, SolvedAll, Seen, Solved
    <3>4. \A s \in q.failed \cup {t} : OutOfReach(q, s)
      BY <1>4, <2>1, <3>3
    <3> QED
      BY <1>1, <2>1, <2>3, <2>5, <3>1, <3>4, HandledKeeps
  <2>6. CASE Set(c, [q EXCEPT !.pc = "store", !.task = t])
    <3> DEFINE r == [q EXCEPT !.pc = "store", !.task = t]
    <3>1. call'[c] = r
      BY <1>2, <2>6
    <3>2. /\ r.pc = "store" /\ r.url = q.url /\ r.resp = q.resp /\ r.began = q.began
          /\ r.left = q.left /\ r.pending = q.pending /\ r.solved = q.solved
          /\ r.failed = q.failed /\ r.told = None
      BY <1>1 DEF Call
    <3> HIDE DEF r
    <3>3. PrimingInv(call[c])'
      BY <1>1, <2>1, <3>1, <3>2 DEF PrimingInv, OutOfReach, Seen, SolvedAll, Asking, Second
    <3>4. Verdict(c)
      BY <3>1, <3>2, NothingSaid DEF None
    <3> QED
      BY <3>3, <3>4
  <2> QED
    BY <2>2, <2>4, <2>5, <2>6
<1>6. CASE StoreSolution(c)
  <2>1. q.pc = "store" /\ q.pc \in Second
    BY <1>6 DEF StoreSolution, Second
  <2>2. CASE Decoding(c)
    <3>1. End(c, "decoded", {})
      BY <1>6, <2>2 DEF StoreSolution
    <3>2. call'[c].told = "decoded" /\ call'[c].pc = "idle"
      BY <1>1, <3>1, Ends
    <3> QED
      BY <3>2, NothingSaid DEF PrimingInv, Asking, Second
  <2>3. CASE ~Decoding(c)
    <3>1. Handled(c, q.task, q.failed)
      BY <1>6, <2>3 DEF StoreSolution
    <3>2. /\ q.task \in SolvedIn(q.solved) /\ q.task \in Tasks
          /\ q.solved[q.task] = q.url.player /\ q.task \in solves[q.url.player]
      BY <2>1 DEF CacheInv, CallInv, SolvedIn
    <3>3. u \in URL
      BY <2>1, Asked
    <3>4. challenges' = WithSolution(u, q.task, u.player)
      BY <1>6, <3>2 DEF StoreSolution
    <3>5. PICK t : t = q.task
      OBVIOUS
    <3>6. Cached(u, t)'
      BY <1>1, <3>2, <3>3, <3>4, <3>5, SolutionStored DEF CacheInv
    <3> QED
      BY <1>1, <1>3, <1>4, <2>1, <2>3, <3>1, <3>2, <3>5, <3>6, HandledKeeps
  <2> QED
    BY <2>2, <2>3
<1>7. CASE GetSolution(c)
  <2>1. q.pc = "get" /\ q.resp = {}
    BY <1>7 DEF GetSolution, CacheInv, CallInv
  <2>2. CASE End(c, "served", {})
    <3>1. call'[c].told = "served" /\ call'[c].pc = "idle"
      BY <1>1, <2>2, Ends
    <3> QED
      BY <3>1, NothingSaid DEF PrimingInv, Asking, Second
  <2>3. CASE Set(c, [q EXCEPT !.pc = "load"])
    <3>1. call'[c].resp = {} /\ call'[c].told = None
      BY <1>1, <1>2, <2>1, <2>3 DEF Call
    <3> QED
      BY <3>1, NothingSaid DEF PrimingInv, None
  <2> QED
    BY <1>7, <2>2, <2>3 DEF GetSolution
<1> QED
  BY <1>5, <1>6, <1>7

\* All primings, whoever takes the step, and whether or not the clock ticks.
Primings == \A c \in Callers : PrimingInv(call[c])

LEMMA PrimingStep ==
  CacheInv /\ Primings /\ [Next]_vars => Primings' /\ (Next => \A c \in Callers : Verdict(c))
<1> SUFFICES ASSUME CacheInv, Primings, [Next]_vars
             PROVE  Primings' /\ (Next => \A c \in Callers : Verdict(c))
  OBVIOUS
<1>1. ASSUME NEW d \in Callers, call'[d] = call[d]
      PROVE  Verdict(d)
  <2>1. call[d].pc # "idle" => call[d].told = None
    BY DEF CacheInv, CallInv
  <2> QED
    BY <1>1, <2>1 DEF Verdict, Told, None
<1>2. ASSUME NEW d \in Callers, call'[d] = call[d], UNCHANGED <<clock, solves>>,
             \A w, s : Cached(w, s) => Cached(w, s)'
      PROVE  PrimingInv(call[d])'
  <2>1. PrimingInv(call[d])
    BY DEF Primings
  <2> QED
    BY <1>2, <2>1 DEF PrimingInv, OutOfReach, Seen, SolvedAll
<1>3. ASSUME NEW c \in Callers, CallerStep(c)
      PROVE  Primings' /\ \A d \in Callers : Verdict(d)
  <2>1. PrimingInv(call[c])
    BY DEF Primings
  <2>2. \A w, s : Cached(w, s) => Cached(w, s)'
    BY <1>3, CachesStep
  <2>3. PrimingInv(call[c])' /\ Verdict(c)
    BY <1>3, <2>1, <2>2, BeginningKeeps, SolvingKeeps, StoringKeeps DEF CallerStep
  <2>4. UNCHANGED <<clock, solves>>
    BY <1>3 DEF CallerStep, GetVideo, Decode, Called, WatchPage, AddOrSkip, LoadScript, FetchFails,
           Fetched, CacheScript, Decipher, StoreOrSkip, StoreSolution, GetSolution
  <2>5. ASSUME NEW d \in Callers, d # c
        PROVE  PrimingInv(call[d])' /\ Verdict(d)
    <3>1. call'[d] = call[d]
      BY <1>3, <2>5, OthersStay DEF CacheInv
    <3> QED
      BY <1>1, <1>2, <2>2, <2>4, <3>1
  <2> QED
    BY <2>3, <2>5 DEF Primings
<1>4. CASE Tick
  <2>1. UNCHANGED <<solves, challenges, call>> /\ clock' = clock + 1 /\ clock \in Nat
    BY <1>4, ChallengeAssumption DEF Tick, ChallengeAssumption, CacheInv, TypeOK, Times
  <2>2. ASSUME NEW d \in Callers
        PROVE  PrimingInv(call[d])'
    <3>1. PrimingInv(call[d]) /\ call[d].began <= clock /\ call[d].began \in Nat
      BY ChallengeAssumption
         DEF Primings, CacheInv, CallInv, TypeOK, Call, Times, ChallengeAssumption
    <3>2. clock' # call[d].began
      BY <2>1, <3>1
    <3> QED
      BY <2>1, <3>1, <3>2 DEF PrimingInv, OutOfReach, Seen, SolvedAll
  <2> QED
    BY <1>1, <2>1, <2>2 DEF Primings
<1>5. CASE UNCHANGED vars
  <2>1. \A w, s : Cached(w, s) => Cached(w, s)'
    BY <1>5 DEF vars, Cached, Expired
  <2> QED
    BY <1>1, <1>2, <1>5, <2>1 DEF vars, Primings
<1> QED
  BY <1>3, <1>4, <1>5 DEF Next

\* Success, failure and partial success each mean what a caller takes them for,
\* whichever providers and locations failed and whoever shares the caches.
THEOREM VerdictsAreTrue == Spec => VerdictIsTrue
<1>1. Init => Primings
  <2> SUFFICES ASSUME Init, NEW c \in Callers
               PROVE  PrimingInv(call[c])
    BY DEF Primings
  <2>1. call[c].resp = {}
    BY DEF Init, Idle
  <2> QED
    BY <2>1 DEF PrimingInv
<1>2. CacheInv /\ Primings /\ [Next]_vars => Primings'
  BY PrimingStep
<1>3. CacheInv /\ Primings /\ [Next]_vars =>
        [\A c \in Callers :
           /\ Told(c, "success") => AllCached(c) \/ clock # call[c].began
           /\ Told(c, "failure") => NothingThrownAway(c)
           /\ Told(c, "partial") => BeyondThePlayer(c)]_vars
  BY PrimingStep DEF Verdict
<1> QED
  BY <1>1, <1>2, <1>3, CacheInvariant, PTL DEF Spec, VerdictIsTrue
=============================================================================
