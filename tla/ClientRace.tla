----------------------------- MODULE ClientRace -----------------------------
(***************************************************************************)
(* One call of Engine.GetVideoInfo (internal/orchestrator/engine.go): the  *)
(* clients of a phase are asked in parallel, one goroutine each, and their *)
(* results are committed strictly in client order; a second phase of       *)
(* fallback clients runs when the first one failed in a way that justifies *)
(* it.                                                                     *)
(*                                                                         *)
(* Clients are numbered in the order the selector gives them, the clients  *)
(* of the primary phase (splitClientPhases) before those of the fallback   *)
(* phase.  The results channel is buffered for every client of the phase,  *)
(* so a send never blocks; because its readers put what they receive in a  *)
(* map, its order is not observable and it is kept as a set.               *)
(***************************************************************************)
EXTENDS Integers, Sequences

CONSTANTS
  NPrimary,       \* clients of the primary phase
  NFallback,      \* clients of the fallback phase
  Hedge,          \* ClientHedgeDelay > 0
  MaxRetries,     \* effectiveMetadataTransportConfig.MaxRetries
  PoTokenPolicy,  \* strictest effectivePoTokenFetchPolicy over the protocols
  MayTimeout      \* the caller's context may be done before the call returns

ASSUME RaceAssumption ==
  /\ NPrimary \in Nat
  /\ NFallback \in Nat
  /\ Hedge \in BOOLEAN
  /\ MaxRetries \in Nat
  /\ PoTokenPolicy \in {"never", "recommended", "required"}
  /\ MayTimeout \in BOOLEAN

VARIABLES
  phase,      \* where GetVideoInfo is
  gor,        \* state of each client's goroutine
  att,        \* attempt counter of each client's fetch
  outcome,    \* what each client's goroutine ended up with
  results,    \* results in the channel
  pending,    \* results received and not yet committed
  next,       \* nextOrder: the only client whose result may be committed
  attempts,   \* clients whose failure was committed, in commit order
  winner,     \* the client whose response is returned
  report,     \* what GetVideoInfo returned
  ctxDone,    \* the caller's context (or RequestTimeout) is done
  cancelled   \* the phase's own context was cancelled

clientVars == <<gor, att, outcome>>
collectVars == <<pending, next, attempts, winner, report>>
vars == <<phase, clientVars, results, collectVars, ctxDone, cancelled>>

-----------------------------------------------------------------------------

Clients == 0..(NPrimary + NFallback - 1)
Primary == 0..(NPrimary - 1)
Fallback == NPrimary..(NPrimary + NFallback - 1)
NoClient == -1

\* The clients of a phase (none outside a phase).
Of(ph) == IF ph = "primary" THEN Primary
          ELSE IF ph = "fallback" THEN Fallback ELSE {}

First(ph) == IF ph = "fallback" THEN NPrimary ELSE 0

\* "gated": a PlayabilityError of the login, age, geo or unavailable class;
\* "unplayable": any other; "http": a status that is not retried; "net": a
\* retryable error; "potoken": PoTokenRequiredError; "ctx": the context's.
Failures == {"gated", "unplayable", "http", "net", "potoken", "ctx"}
Outcomes == Failures \cup {"ok"}

Retryable(o) == o = "net"

\* An attempt may be followed by another one (for attempt <= MaxRetries).
MayRetry(o, n) == Retryable(o) /\ n < MaxRetries

\* What a PoTokenProvider may answer; "missing" when none is configured.
TokenReplies == {"missing", "error", "empty", "invalid", "valid"}
TokenFails(reply) == PoTokenPolicy = "required" /\ reply # "valid"

\* shouldRunFallbackPhase.
FallbackWorthwhile ==
  \E i \in DOMAIN attempts : outcome[attempts[i]] \in {"gated", "potoken"}

InnerDone == ctxDone \/ cancelled

-----------------------------------------------------------------------------

TypeOK ==
  /\ phase \in {"start", "primary", "fallback", "done"}
  /\ gor \in [Clients -> {"idle", "hedge", "ready", "fetching",
                          "sending", "gone"}]
  /\ att \in [Clients -> 0..MaxRetries]
  /\ outcome \in [Clients -> Outcomes \cup {"none"}]
  /\ results \subseteq Clients
  /\ pending \subseteq Clients
  /\ next \in 0..(NPrimary + NFallback)
  /\ attempts \in Seq(Clients)
  /\ winner \in Clients \cup {NoClient}
  /\ report \in {"none", "video", "allFailed", "noClients"}
  /\ ctxDone \in BOOLEAN
  /\ cancelled \in BOOLEAN

Init ==
  /\ phase = "start"
  /\ gor = [c \in Clients |-> "idle"]
  /\ att = [c \in Clients |-> 0]
  /\ outcome = [c \in Clients |-> "none"]
  /\ results = {}
  /\ pending = {}
  /\ next = 0
  /\ attempts = <<>>
  /\ winner = NoClient
  /\ report = "none"
  /\ ctxDone = FALSE
  /\ cancelled = FALSE

-----------------------------------------------------------------------------
(* GetVideoInfo *)

\* Launching a phase: every goroutine of it exists, all but the first one
\* behind their hedge timer.
Launched(ph) ==
  [c \in Clients |->
     IF c \notin Of(ph) THEN gor[c]
     ELSE IF Hedge /\ c # First(ph) THEN "hedge" ELSE "ready"]

Begin ==
  /\ phase = "start"
  /\ IF Clients = {}
     THEN /\ phase' = "done"
          /\ report' = "noClients"
          /\ UNCHANGED gor
     ELSE /\ phase' = "primary"
          /\ gor' = Launched("primary")
          /\ UNCHANGED report
  /\ UNCHANGED <<att, outcome, results, pending, next, attempts, winner,
                 ctxDone, cancelled>>

Conclude ==
  /\ phase' = "done"
  /\ report' = IF attempts # <<>> THEN "allFailed" ELSE "noClients"

Running == phase \in {"primary", "fallback"}

\* Waiting for every order to be committed instead.
PhaseDrainedWhenComplete ==
  /\ Running
  /\ next = First(phase) + (IF phase = "primary" THEN NPrimary ELSE NFallback)

\* The channel is closed without waiting for the goroutines.
PhaseDrainedEarly ==
  /\ Running
  /\ results = {}
  /\ next \notin pending

\* wg.Wait() returned and the channel is closed and drained.  (A phase
\* without clients returns at once and gets here in the same way.)
PhaseDrained ==
  /\ Running
  /\ \A c \in Of(phase) : gor[c] = "gone"
  /\ results = {}
  /\ next \notin pending

PhaseEnds ==
  /\ PhaseDrained
  /\ IF phase = "primary" /\ NFallback > 0 /\ FallbackWorthwhile
     THEN /\ phase' = "fallback"
          /\ gor' = Launched("fallback")
          /\ next' = NPrimary
          /\ pending' = {}
          /\ UNCHANGED report
     ELSE Conclude /\ UNCHANGED <<gor, next, pending>>
  /\ UNCHANGED <<att, outcome, results, attempts, winner, ctxDone, cancelled>>

-----------------------------------------------------------------------------
(* The goroutine of client c *)

HedgeElapses(c) ==
  /\ gor[c] = "hedge"
  /\ gor' = [gor EXCEPT ![c] = "ready"]
  /\ UNCHANGED <<phase, att, outcome, results, collectVars, ctxDone, cancelled>>

\* The context is done before the request: the goroutine leaves no result.
GiveUp(c) ==
  /\ gor[c] \in {"hedge", "ready"}
  /\ InnerDone
  /\ gor' = [gor EXCEPT ![c] = "gone"]
  /\ UNCHANGED <<phase, att, outcome, results, collectVars, ctxDone, cancelled>>

\* The request's start: applyPoToken.
StartClient(c) ==
  /\ gor[c] = "ready"
  /\ ~InnerDone
  /\ \E reply \in TokenReplies :
       IF TokenFails(reply)
       THEN /\ gor' = [gor EXCEPT ![c] = "sending"]
            /\ outcome' = [outcome EXCEPT ![c] = "potoken"]
       ELSE /\ gor' = [gor EXCEPT ![c] = "fetching"]
            /\ UNCHANGED outcome
  /\ UNCHANGED <<phase, att, results, collectVars, ctxDone, cancelled>>

\* One fetchOnce: retried (fetch) or the outcome of this client.
Answers == IF InnerDone THEN {"ctx"}
           ELSE {"ok", "gated", "unplayable", "http", "net"}

Fetch(c) ==
  /\ gor[c] = "fetching"
  /\ \E o \in Answers :
       IF MayRetry(o, att[c])
       THEN /\ att' = [att EXCEPT ![c] = @ + 1]
            /\ UNCHANGED <<gor, outcome>>
       ELSE /\ gor' = [gor EXCEPT ![c] = "sending"]
            /\ outcome' = [outcome EXCEPT ![c] = o]
            /\ UNCHANGED att
  /\ UNCHANGED <<phase, results, collectVars, ctxDone, cancelled>>

\* An unbuffered channel and no way out of the send.
DeliverUnbuffered(c) ==
  /\ gor[c] = "sending"
  /\ phase \in {"primary", "fallback"}
  /\ gor' = [gor EXCEPT ![c] = "gone"]
  /\ results' = results \cup {c}
  /\ UNCHANGED <<phase, att, outcome, collectVars, ctxDone, cancelled>>

\* "select { case results <- r: default: }".
DeliverOrDrop(c) ==
  /\ gor[c] = "sending"
  /\ gor' = [gor EXCEPT ![c] = "gone"]
  /\ results' \in {results, results \cup {c}}
  /\ UNCHANGED <<phase, att, outcome, collectVars, ctxDone, cancelled>>

\* The final select: the buffer always has room, and once the context is done
\* its case is ready as well and the result may be dropped.
Deliver(c) ==
  /\ gor[c] = "sending"
  /\ gor' = [gor EXCEPT ![c] = "gone"]
  /\ \/ results' = results \cup {c}
     \/ InnerDone /\ UNCHANGED results
  /\ UNCHANGED <<phase, att, outcome, collectVars, ctxDone, cancelled>>

-----------------------------------------------------------------------------
(* The collecting loop of tryPhase *)

\* The inner loop has nothing left to commit: receive the next result.
Receive ==
  /\ Running
  /\ next \notin pending
  /\ \E c \in results :
       /\ results' = results \ {c}
       /\ pending' = pending \cup {c}
  /\ UNCHANGED <<phase, clientVars, next, attempts, winner, report, ctxDone,
                 cancelled>>

\* The results that the inner loop takes from the map: the next order only.
CommittableInAnyOrder == pending
Committable == pending \cap {next}

CommitFailure ==
  /\ Running
  /\ \E c \in Committable :
       /\ outcome[c] # "ok"
       /\ pending' = pending \ {c}
       /\ next' = next + 1
       /\ attempts' = Append(attempts, c)
  /\ UNCHANGED <<phase, clientVars, results, winner, report, ctxDone,
                 cancelled>>

\* cancel() and return: the goroutines that still run are on their own.
CommitSuccess ==
  /\ Running
  /\ \E c \in Committable :
       /\ outcome[c] = "ok"
       /\ pending' = pending \ {c}
       /\ next' = next + 1
       /\ winner' = c
  /\ phase' = "done"
  /\ report' = "video"
  /\ cancelled' = TRUE
  /\ UNCHANGED <<clientVars, results, attempts, ctxDone>>

Timeout ==
  /\ MayTimeout
  /\ ~ctxDone
  /\ phase # "done"
  /\ ctxDone' = TRUE
  /\ UNCHANGED <<phase, clientVars, results, collectVars, cancelled>>

-----------------------------------------------------------------------------

ClientStep(c) ==
  \/ HedgeElapses(c) \/ GiveUp(c) \/ StartClient(c)
  \/ Fetch(c) \/ Deliver(c)

Collect == Begin \/ Receive \/ CommitFailure \/ CommitSuccess \/ PhaseEnds

Next == Collect \/ Timeout \/ \E c \in Clients : ClientStep(c)

Spec == Init /\ [][Next]_vars

\* Every goroutine is scheduled; a timer fires and a request returns.
FairSpec == Spec /\ WF_vars(Collect) /\ \A c \in Clients : WF_vars(ClientStep(c))

-----------------------------------------------------------------------------
(* Properties *)

\* The response returned is that of the first client, in client order, that
\* did not fail: a faster client of lower priority never overtakes, and a
\* fallback client wins only when every primary client failed (the comment on
\* deterministic client-order selection in tryPhase).
WinnerIsFirst ==
  winner # NoClient =>
    /\ outcome[winner] = "ok"
    /\ \A c \in Clients : c < winner => outcome[c] \in Failures

\* The attempts are those of the first clients, without a gap, and they failed.
FailedInOrder ==
  /\ attempts = [i \in 1..Len(attempts) |-> i - 1]
  /\ \A c \in Clients : c < Len(attempts) => outcome[c] \in Failures

\* The attempts of a call that fails are failures in client order, and none is
\* reported over the head of a client whose result the end of the context let
\* select drop.  Without a timeout no successful response is thrown away: the
\* call has a failure from every client it asked, and it asked every primary
\* client (and every fallback client or none).
FailureReportComplete ==
  report \in {"allFailed", "noClients"} =>
    /\ FailedInOrder
    /\ ~ctxDone =>
         /\ \A c \in Clients : outcome[c] # "ok"
         /\ Len(attempts) \in {NPrimary, NPrimary + NFallback}

\* The fallback phase begins only after every primary goroutine is gone, and
\* never while a primary success is on its way to being committed.
FallbackIsLastResort ==
  (\E c \in Fallback : gor[c] # "idle") =>
    \A c \in Primary : gor[c] = "gone" /\ (outcome[c] = "ok" => ctxDone)

\* What each goroutine's state says of its outcome and of its result.
GoroutineInv ==
  \A c \in Clients :
    /\ gor[c] \in {"idle", "hedge", "ready", "fetching"} => outcome[c] = "none"
    /\ gor[c] = "sending" => outcome[c] # "none"
    /\ c \in results \cup pending => gor[c] = "gone" /\ outcome[c] # "none"

PhaseInv ==
  /\ phase = "start" =>
       next = 0 /\ attempts = <<>> /\ \A c \in Clients : gor[c] = "idle"
  /\ phase = "primary" => next <= NPrimary /\ \A c \in Fallback : gor[c] = "idle"
  /\ phase = "fallback" => next >= NPrimary /\ \A c \in Primary : gor[c] = "gone"
  /\ phase # "done" =>
       /\ ~cancelled /\ winner = NoClient /\ report = "none"
       /\ results \cup pending \subseteq Of(phase)

\* The fallback phase of a call that timed out before: nobody is asked.
TooLate ==
  /\ ctxDone
  /\ \A c \in Fallback :
       gor[c] \in {"hedge", "ready", "gone"} /\ outcome[c] = "none"

\* Everything below nextOrder failed and was committed; without a timeout
\* whatever is finished above it is on its way.
CommitInv ==
  Running =>
    /\ FailedInOrder
    /\ \/ Len(attempts) = next
       \/ phase = "fallback" /\ TooLate
    /\ ~ctxDone =>
         \A c \in Of(phase) :
           c >= next /\ gor[c] = "gone" => c \in results \cup pending

FailedInv ==
  report \in {"allFailed", "noClients"} =>
    /\ phase = "done"
    /\ winner = NoClient
    /\ \A c \in Clients : gor[c] \in {"idle", "gone"}

\* The strengthening of the three properties above that every step preserves.
RaceInv ==
  /\ GoroutineInv
  /\ PhaseInv
  /\ CommitInv
  /\ FailedInv
  /\ WinnerIsFirst
  /\ FailureReportComplete
  /\ FallbackIsLastResort

\* GetVideoInfo returns, also when a timeout leaves gaps in the client order.
CallReturns == <>(phase = "done")

\* The goroutines that outlive the call (it returns at the first commit of a
\* success) all end: none stays blocked on the channel nobody reads.
NoGoroutineLeak == phase = "done" ~> \A c \in Clients : gor[c] \in {"idle", "gone"}
=============================================================================
