---------------------------- MODULE SessionCache ----------------------------
(***************************************************************************)
(* The in-memory video sessions of client/client.go under concurrent       *)
(* callers: getSession, putSession, evictExpiredLocked, evictLRULocked,    *)
(* ensureSession (inlined again in ResolveStreamURL) and                   *)
(* ensureSessionPlayerURL.                                                 *)
(*                                                                         *)
(* What one goroutine does while it holds sessionsMu is one step; between  *)
(* two such steps any other goroutine may run.  In particular putSession   *)
(* reads the clock before it takes the lock.  A session is when it was     *)
(* cached and used last, whether its PlayerURL is known, and (as history)  *)
(* when it was first stamped.  Some names are longer than they would be by *)
(* themselves: ClientCacheProofs extends this module and WatchData.        *)
(***************************************************************************)
EXTENDS Integers, FiniteSets, FiniteSetsExt

CONSTANTS
  Threads,     \* concurrent callers
  Videos,      \* video IDs
  TTL,         \* SessionCacheTTL in ticks of the clock, 0 for none
  MaxEntries,  \* SessionCacheMaxEntries, 0 for unbounded
  MaxTime,     \* bound: ticks of the clock
  MaxThreadCalls  \* bound: calls made by each thread

ASSUME SessionAssumption ==
  /\ TTL \in Nat
  /\ MaxEntries \in Nat
  /\ MaxTime \in Nat \ {0}
  /\ MaxThreadCalls \in Nat

VARIABLES
  clock,     \* time.Now()
  sessions,  \* Client.sessions
  pc,        \* where each thread is
  op,        \* what it was called for: GetVideo or a resolution
  video,     \* the video it was called for
  local,     \* its copy of a session
  callsMade  \* calls it has made

threadVars == <<pc, op, video, local, callsMade>>
sessionVars == <<clock, sessions, threadVars>>

-----------------------------------------------------------------------------

Sessions == [cachedAt : 0..MaxTime, lastAccess : 0..MaxTime,
             player : BOOLEAN, born : 0..MaxTime]

\* The zero time is 0: the clock starts at 1.
NoSession == [cachedAt |-> 0, lastAccess |-> 0, player |-> FALSE, born |-> 0]

CachedVideos == DOMAIN sessions

Expired(s, now) == TTL > 0 /\ s.cachedAt # 0 /\ now - s.cachedAt > TTL

Drop(f, V) == [v \in (DOMAIN f) \ V |-> f[v]]
StoreSession(f, v, s) == [w \in (DOMAIN f) \cup {v} |-> IF w = v THEN s ELSE f[w]]

SessionTypeOK ==
  /\ clock \in 1..MaxTime
  /\ CachedVideos \subseteq Videos
  /\ \A v \in CachedVideos : sessions[v] \in Sessions
  /\ pc \in [Threads -> {"idle", "lookup", "fetch", "stamp", "insert",
                         "relookup", "use", "player"}]
  /\ op \in [Threads -> {"video", "resolve"}]
  /\ video \in [Threads -> Videos]
  /\ local \in [Threads -> Sessions]
  /\ callsMade \in [Threads -> 0..MaxThreadCalls]

SessionInit ==
  /\ clock = 1
  /\ sessions = [v \in {} |-> NoSession]
  /\ pc = [t \in Threads |-> "idle"]
  /\ op = [t \in Threads |-> "video"]
  /\ \E v \in Videos : video = [t \in Threads |-> v]
  /\ local = [t \in Threads |-> NoSession]
  /\ callsMade = [t \in Threads |-> 0]

-----------------------------------------------------------------------------
(* Under the lock *)

\* getSession: an expired entry is deleted, a live one is marked as used.
Lookup(t, hit, miss) ==
  LET v == video[t] IN
  IF v \in CachedVideos /\ ~Expired(sessions[v], clock)
  THEN LET s == [sessions[v] EXCEPT !.lastAccess = clock] IN
       /\ sessions' = [sessions EXCEPT ![v] = s]
       /\ local' = [local EXCEPT ![t] = s]
       /\ hit
  ELSE /\ sessions' = Drop(sessions, {v})
       /\ miss

\* evictLRULocked: oldest first, until the bound holds.  One entry at most is
\* too many; among equally old ones the map's order decides.
MostRecent(f, v) == \A w \in DOMAIN f : f[v].lastAccess >= f[w].lastAccess
LeastRecent(f, v) == \A w \in DOMAIN f : f[v].lastAccess <= f[w].lastAccess
VictimsMostRecent(f) == {v \in DOMAIN f : MostRecent(f, v)}
Victims(f) == {v \in DOMAIN f : LeastRecent(f, v)}

\* One entry more than the bound is let through.
EvictLRULate(f, next) ==
  IF MaxEntries > 0 /\ Cardinality(DOMAIN f) > MaxEntries + 1
  THEN \E v \in Victims(f) : next = Drop(f, {v})
  ELSE next = f

EvictLRU(f, next) ==
  IF MaxEntries > 0 /\ Cardinality(DOMAIN f) > MaxEntries
  THEN \E v \in Victims(f) : next = Drop(f, {v})
  ELSE next = f

ExpiredAt(now) == {v \in CachedVideos : Expired(sessions[v], now)}

-----------------------------------------------------------------------------
(* The steps of thread t *)

\* The session a thread holds is gone when it returns, with or without an error.
Return(t) ==
  /\ pc' = [pc EXCEPT ![t] = "idle"]
  /\ local' = [local EXCEPT ![t] = NoSession]

Goto(t, l) == pc' = [pc EXCEPT ![t] = l]

Call(t) ==
  /\ pc[t] = "idle"
  /\ callsMade[t] < MaxThreadCalls
  /\ callsMade' = [callsMade EXCEPT ![t] = @ + 1]
  /\ \E v \in Videos, o \in {"video", "resolve"} :
       /\ video' = [video EXCEPT ![t] = v]
       /\ op' = [op EXCEPT ![t] = o]
       /\ pc' = [pc EXCEPT ![t] = IF o = "video" THEN "fetch" ELSE "lookup"]
  /\ UNCHANGED <<clock, sessions, local>>

GetSession(t) ==
  /\ pc[t] = "lookup"
  /\ Lookup(t, Goto(t, "use"), Goto(t, "fetch") /\ UNCHANGED local)
  /\ UNCHANGED <<clock, op, video, callsMade>>

\* GetVideo up to putSession: the player's URL is born when the response
\* has challenges, and failing to get it is no error here.
GetVideo(t) ==
  /\ pc[t] = "fetch"
  /\ \/ Return(t)
     \/ \E known \in BOOLEAN :
          /\ local' = [local EXCEPT ![t] = [NoSession EXCEPT !.player = known]]
          /\ Goto(t, "stamp")
  /\ UNCHANGED <<clock, sessions, op, video, callsMade>>

Stamped(t, cached) ==
  /\ pc[t] = "stamp"
  /\ local' = [local EXCEPT ![t].cachedAt = cached, ![t].lastAccess = clock,
                            ![t].born = IF @ = 0 THEN clock ELSE @]
  /\ Goto(t, "insert")
  /\ UNCHANGED <<clock, sessions, op, video, callsMade>>

\* Every store starts the session's life anew.
StampAgain(t) == Stamped(t, clock)

\* putSession before the lock: CachedAt is set once, when it is zero.
Stamp(t) == Stamped(t, IF local[t].cachedAt = 0 THEN clock ELSE local[t].cachedAt)

\* putSession under the lock, with the time read before.  The caller is
\* GetVideo, alone or on behalf of a resolution, or ensureSessionPlayerURL,
\* which goes on with its own copy.
PutSession(t) ==
  /\ pc[t] = "insert"
  /\ LET kept == Drop(sessions, ExpiredAt(local[t].lastAccess))
     IN  EvictLRU(StoreSession(kept, video[t], local[t]), sessions')
  /\ \/ op[t] = "video" /\ Return(t)
     \/ op[t] = "resolve" /\ Goto(t, "relookup") /\ UNCHANGED local
  /\ UNCHANGED <<clock, op, video, callsMade>>

\* The second getSession after a GetVideo that succeeded.
GetSessionAgain(t) ==
  /\ pc[t] = "relookup"
  /\ Lookup(t, Goto(t, "use"), Return(t))
  /\ UNCHANGED <<clock, op, video, callsMade>>

\* The rest of the resolution: some URLs need the player's URL.
Resolve(t) ==
  /\ pc[t] = "use"
  /\ \/ Return(t)
     \/ ~local[t].player /\ Goto(t, "player") /\ UNCHANGED local
  /\ UNCHANGED <<clock, sessions, op, video, callsMade>>

\* ensureSessionPlayerURL: the session stored again is the thread's own copy,
\* after which the resolution is over as far as sessions are concerned.
FetchPlayerURL(t) ==
  /\ pc[t] = "player"
  /\ \/ Return(t) /\ UNCHANGED op
     \/ /\ local' = [local EXCEPT ![t].player = TRUE]
        /\ op' = [op EXCEPT ![t] = "video"]
        /\ Goto(t, "stamp")
  /\ UNCHANGED <<clock, sessions, video, callsMade>>

Tick ==
  /\ clock < MaxTime
  /\ clock' = clock + 1
  /\ UNCHANGED <<sessions, threadVars>>

-----------------------------------------------------------------------------

ThreadStep(t) ==
  \/ Call(t) \/ GetSession(t) \/ GetVideo(t) \/ Stamp(t) \/ PutSession(t)
  \/ GetSessionAgain(t) \/ Resolve(t) \/ FetchPlayerURL(t)

SessionNext == Tick \/ \E t \in Threads : ThreadStep(t)

SessionSpec == SessionInit /\ [][SessionNext]_sessionVars

-----------------------------------------------------------------------------
(* Properties *)

\* SessionCacheMaxEntries holds whenever no one has the lock, whatever the
\* order of stores, refreshes and expirations.
CacheBounded == MaxEntries > 0 => Cardinality(CachedVideos) <= MaxEntries

\* The age of a session, cached or in a caller's hands, is that of its first
\* storing, which the cache always knows; no caller is ahead of the clock.
AgesInv ==
  /\ \A v \in CachedVideos :
       sessions[v].cachedAt # 0 /\ sessions[v].born = sessions[v].cachedAt
  /\ \A t \in Threads :
       /\ local[t].born = local[t].cachedAt
       /\ local[t].lastAccess <= clock
       /\ pc[t] = "insert" => local[t].cachedAt # 0

\* The bound and the ages, of well-typed entries.
CacheInv == SessionTypeOK /\ IsFiniteSet(CachedVideos) /\ CacheBounded /\ AgesInv

\* A session served to a caller is never older than the TTL counted from the
\* first time it was stored: storing it again with the URL of its player, by
\* any thread and however late, never prolongs its life.
ServedWithinTTL ==
  [][\A t \in Threads :
        (pc[t] \in {"lookup", "relookup"} /\ pc'[t] = "use" /\ TTL > 0) =>
          clock - local'[t].born <= TTL]_sessionVars

\* Only expired entries and, when the cache is full, the least recently used
\* ones leave it; an entry that a thread is using again survives the others.
LeavesByAgeOrUse ==
  [][\A v \in CachedVideos \ DOMAIN sessions' :
        \/ Expired(sessions[v], clock)
        \/ \A w \in CachedVideos \cap DOMAIN sessions' :
             sessions[v].lastAccess <= sessions[w].lastAccess]_sessionVars

\* What client/errors.go:14 says of ErrChallengeNotSolved, "URL deciphering is
\* still required": it is not what the resolutions of client.go answer (256 and
\* 620) when the session that GetVideo just stored for them is gone from the
\* cache at their second lookup.
ChallengeErrorIsTrue ==
  \A t \in Threads :
    pc[t] = "relookup" =>
      video[t] \in CachedVideos /\ ~Expired(sessions[video[t]], clock)
=============================================================================
