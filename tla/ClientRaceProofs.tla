-------------------------- MODULE ClientRaceProofs --------------------------
(***************************************************************************)
(* Proofs about ClientRace, for every number of clients in each phase,     *)
(* every retry budget and token policy, with and without hedging and       *)
(* timeouts: the state of the race has its type, the response returned is  *)
(* that of the first client that did not fail, a failed call reports the   *)
(* failures of the first clients and, if it did not time out, of every     *)
(* client it asked, and the fallback phase never overtakes the primary     *)
(* one.                                                                    *)
(***************************************************************************)
EXTENDS ClientRace, TLAPS

USE RaceAssumption DEF RaceAssumption

-----------------------------------------------------------------------------
(* The two phases partition the clients *)

\* Primary and fallback clients are different clients, and there are no others.
LEMMA PhasesPartition ==
  /\ Clients = Primary \cup Fallback
  /\ Primary \cap Fallback = {}
  /\ \A c \in Clients : c \in Nat /\ (c \in Primary <=> c < NPrimary)
  /\ Of("primary") = Primary /\ Of("fallback") = Fallback
BY DEF Clients, Primary, Fallback, Of

-----------------------------------------------------------------------------
(* Type correctness *)

\* Launching a phase gives every goroutine a state.
LEMMA LaunchedType ==
  ASSUME TypeOK, NEW ph
  PROVE  Launched(ph) \in [Clients -> {"idle", "hedge", "ready", "fetching",
                                       "sending", "gone"}]
<1>1. \A c \in Clients : gor[c] \in {"idle", "hedge", "ready", "fetching",
                                     "sending", "gone"}
  BY DEF TypeOK
<1> QED
  BY <1>1 DEF Launched

\* The initial state is well typed.
LEMMA TypeInit == Init => TypeOK
<1> SUFFICES ASSUME Init PROVE TypeOK
  OBVIOUS
<1>1. /\ gor \in [Clients -> {"idle", "hedge", "ready", "fetching",
                              "sending", "gone"}]
      /\ att \in [Clients -> 0..MaxRetries]
      /\ outcome \in [Clients -> Outcomes \cup {"none"}]
  BY DEF Init
<1>2. ctxDone \in BOOLEAN /\ cancelled \in BOOLEAN
  BY DEF Init
<1>3. attempts \in Seq(Clients)
  BY DEF Init
<1>4. next \in 0..(NPrimary + NFallback)
  BY DEF Init
<1> QED
  BY <1>1, <1>2, <1>3, <1>4 DEF Init, TypeOK

\* A step of a goroutine preserves the types.
LEMMA ClientStepType ==
  ASSUME TypeOK, NEW c \in Clients, ClientStep(c)
  PROVE  TypeOK'
<1> USE DEF TypeOK, collectVars
<1>1. CASE HedgeElapses(c) \/ GiveUp(c)
  BY <1>1 DEF HedgeElapses, GiveUp
<1>2. CASE StartClient(c)
  <2>2. /\ gor' \in [Clients -> {"idle", "hedge", "ready", "fetching",
                                 "sending", "gone"}]
        /\ outcome' \in [Clients -> Outcomes \cup {"none"}]
    <3>1. \/ /\ gor' = [gor EXCEPT ![c] = "sending"]
             /\ outcome' = [outcome EXCEPT ![c] = "potoken"]
          \/ /\ gor' = [gor EXCEPT ![c] = "fetching"]
             /\ outcome' = outcome
      BY <1>2 DEF StartClient
    <3> QED
      BY <3>1 DEF Outcomes, Failures
  <2> QED
    BY <1>2, <2>2 DEF StartClient
<1>3. CASE Fetch(c)
  <2> PICK o \in Answers :
         IF MayRetry(o, att[c])
         THEN /\ att' = [att EXCEPT ![c] = @ + 1]
              /\ UNCHANGED <<gor, outcome>>
         ELSE /\ gor' = [gor EXCEPT ![c] = "sending"]
              /\ outcome' = [outcome EXCEPT ![c] = o]
              /\ UNCHANGED att
    BY <1>3 DEF Fetch
  <2>1. o \in Outcomes
    BY DEF Answers, Outcomes, Failures
  <2>2. MayRetry(o, att[c]) => att[c] + 1 \in 0..MaxRetries
    BY DEF MayRetry
  <2>3. /\ gor' \in [Clients -> {"idle", "hedge", "ready", "fetching",
                                 "sending", "gone"}]
        /\ outcome' \in [Clients -> Outcomes \cup {"none"}]
        /\ att' \in [Clients -> 0..MaxRetries]
    BY <2>1, <2>2
  <2> QED
    BY <1>3, <2>3 DEF Fetch
<1>4. CASE Deliver(c)
  BY <1>4 DEF Deliver
<1> QED
  BY <1>1, <1>2, <1>3, <1>4 DEF ClientStep

\* A step of the collecting loop preserves the types.
LEMMA CollectType ==
  ASSUME TypeOK, Collect
  PROVE  TypeOK'
<1> USE DEF TypeOK, clientVars
<1>1. CASE Begin
  BY <1>1, LaunchedType DEF Begin
<1>2. CASE Receive
  BY <1>2 DEF Receive
<1>3. CASE CommitFailure
  <2> PICK c \in Committable :
         /\ pending' = pending \ {c}
         /\ next' = next + 1
         /\ attempts' = Append(attempts, c)
    BY <1>3 DEF CommitFailure
  <2>1. c = next /\ c \in Clients
    BY DEF Committable
  <2>2. next' \in 0..(NPrimary + NFallback)
    BY <2>1 DEF Clients
  <2>3. attempts' \in Seq(Clients)
    BY <2>1
  <2> QED
    BY <1>3, <2>2, <2>3 DEF CommitFailure
<1>4. CASE CommitSuccess
  <2> PICK c \in Committable :
         /\ pending' = pending \ {c}
         /\ next' = next + 1
         /\ winner' = c
    BY <1>4 DEF CommitSuccess
  <2>1. c = next /\ c \in Clients
    BY DEF Committable
  <2>2. next' \in 0..(NPrimary + NFallback)
    BY <2>1 DEF Clients
  <2>3. cancelled' \in BOOLEAN
    BY <1>4 DEF CommitSuccess
  <2> QED
    BY <1>4, <2>1, <2>2, <2>3 DEF CommitSuccess
<1>5. CASE PhaseEnds
  <2>1. NPrimary \in 0..(NPrimary + NFallback)
    OBVIOUS
  <2> QED
    BY <1>5, <2>1, LaunchedType DEF PhaseEnds, Conclude
<1> QED
  BY <1>1, <1>2, <1>3, <1>4, <1>5 DEF Collect

\* Each variable keeps its type; in particular no client is fetched more than
\* MaxRetries + 1 times and nextOrder never passes the last client.
THEOREM TypeCorrect == Spec => []TypeOK
<1>1. TypeOK /\ [Next]_vars => TypeOK'
  <2> SUFFICES ASSUME TypeOK, [Next]_vars PROVE TypeOK'
    OBVIOUS
  <2>1. CASE Timeout
    <3>1. ctxDone' \in BOOLEAN
      BY <2>1 DEF Timeout
    <3> QED
      BY <2>1, <3>1 DEF Timeout, TypeOK, clientVars, collectVars
  <2>2. CASE UNCHANGED vars
    BY <2>2 DEF vars, clientVars, collectVars, TypeOK
  <2> QED
    BY <2>1, <2>2, ClientStepType, CollectType DEF Next
<1> QED
  BY <1>1, TypeInit, PTL DEF Spec

-----------------------------------------------------------------------------
(* The race *)

USE DEF GoroutineInv, PhaseInv, TooLate, CommitInv, FailedInv, WinnerIsFirst,
        FailureReportComplete, FallbackIsLastResort

\* The strengthened invariant holds initially.
LEMMA RaceInit == Init => RaceInv
<1> SUFFICES ASSUME Init PROVE RaceInv
  OBVIOUS
<1>1. phase = "start" /\ winner = NoClient /\ report = "none" /\ ~cancelled
  BY DEF Init
<1>2. \A c \in Clients : gor[c] = "idle" /\ outcome[c] = "none"
  BY DEF Init
<1>3. results = {} /\ pending = {} /\ next = 0 /\ attempts = <<>>
  BY DEF Init
<1>4. ~Running
  BY <1>1 DEF Running
<1> QED
  BY <1>1, <1>2, <1>3, <1>4, PhasesPartition DEF RaceInv

\* What a step of one goroutine does: it moves on, it ends up with an outcome,
\* it gives up, or it delivers what it ended up with.
LEMMA GoroutineMoves ==
  ASSUME TypeOK, NEW c \in Clients, ClientStep(c)
  PROVE  /\ UNCHANGED <<phase, pending, next, attempts, winner, report, ctxDone,
                        cancelled>>
         /\ \A d \in Clients : d # c => gor'[d] = gor[d] /\ outcome'[d] = outcome[d]
         /\ \/ /\ gor[c] \in {"hedge", "ready", "fetching"}
               /\ gor'[c] \in {"ready", "fetching"}
               /\ gor'[c] = "fetching" => gor[c] = "fetching" \/ ~InnerDone
               /\ outcome'[c] = outcome[c]
               /\ results' = results
            \/ /\ gor[c] \in {"ready", "fetching"}
               /\ gor[c] = "ready" => ~InnerDone
               /\ gor'[c] = "sending"
               /\ outcome'[c] \in Outcomes
               /\ results' = results
            \/ /\ gor[c] \in {"hedge", "ready"}
               /\ InnerDone
               /\ gor'[c] = "gone"
               /\ outcome'[c] = outcome[c]
               /\ results' = results
            \/ /\ gor[c] = "sending"
               /\ gor'[c] = "gone"
               /\ outcome'[c] = outcome[c]
               /\ results' = results \cup {c} \/ (InnerDone /\ results' = results)
<1> USE DEF TypeOK, collectVars
<1>1. CASE HedgeElapses(c)
  BY <1>1 DEF HedgeElapses
<1>2. CASE GiveUp(c)
  BY <1>2 DEF GiveUp
<1>3. CASE StartClient(c)
  <2>1. \/ /\ gor' = [gor EXCEPT ![c] = "sending"]
           /\ outcome' = [outcome EXCEPT ![c] = "potoken"]
        \/ /\ gor' = [gor EXCEPT ![c] = "fetching"]
           /\ outcome' = outcome
    BY <1>3 DEF StartClient
  <2> QED
    BY <1>3, <2>1 DEF StartClient, Outcomes, Failures
<1>4. CASE Fetch(c)
  <2>1. PICK o \in Answers :
         IF MayRetry(o, att[c])
         THEN /\ att' = [att EXCEPT ![c] = @ + 1]
              /\ UNCHANGED <<gor, outcome>>
         ELSE /\ gor' = [gor EXCEPT ![c] = "sending"]
              /\ outcome' = [outcome EXCEPT ![c] = o]
              /\ UNCHANGED att
    BY <1>4 DEF Fetch
  <2>2. o \in Outcomes
    BY DEF Answers, Outcomes, Failures
  <2>3. gor[c] = "fetching" /\ UNCHANGED <<phase, results, collectVars, ctxDone, cancelled>>
    BY <1>4 DEF Fetch
  <2> QED
    BY <2>1, <2>2, <2>3
<1>5. CASE Deliver(c)
  BY <1>5 DEF Deliver
<1> QED
  BY <1>1, <1>2, <1>3, <1>4, <1>5 DEF ClientStep

\* A step of a goroutine preserves the strengthened invariant.
LEMMA ClientStepKeeps ==
  ASSUME TypeOK, RaceInv, NEW c \in Clients, ClientStep(c)
  PROVE  RaceInv'
<1> USE GoroutineMoves DEF RaceInv
<1>0. /\ outcome[c] \in Outcomes \cup {"none"}
      /\ \A d \in Clients : gor[d] \in {"idle", "hedge", "ready", "fetching",
                                        "sending", "gone"}
      /\ results \subseteq Clients /\ pending \subseteq Clients
      /\ "none" \notin Outcomes
  BY DEF TypeOK, Outcomes, Failures
<1>1. GoroutineInv'
  BY <1>0
<1>2. gor[c] \notin {"idle", "gone"} /\ phase # "start"
  <2>1. gor[c] \notin {"idle", "gone"}
    OBVIOUS
  <2> QED
    BY <2>1
<1>3. phase # "done" => c \in Of(phase)
  BY <1>2, PhasesPartition, <1>0 DEF TypeOK
<1>4. PhaseInv'
  <2>1. phase = "primary" => c \in Primary
    BY <1>3, PhasesPartition
  <2>2. phase = "fallback" => c \in Fallback
    BY <1>3, PhasesPartition
  <2>3. results' \subseteq results \cup {c}
    OBVIOUS
  <2>4. phase \in {"start", "primary", "fallback", "done"}
    BY DEF TypeOK
  <2> QED
    BY <1>2, <1>3, <2>1, <2>2, <2>3, <2>4, PhasesPartition DEF Of
<1>5. \A d \in Clients : outcome[d] \in Failures \/ outcome[d] = "ok" =>
                           outcome'[d] = outcome[d]
  BY <1>0 DEF Failures
<1>6. CommitInv'
  <2> SUFFICES ASSUME Running PROVE CommitInv'
    BY DEF Running
  <2>1. \/ Len(attempts) = next
        \/ phase = "fallback" /\ TooLate'
    <3>1. CASE Len(attempts) = next
      BY <3>1
    <3>2. CASE phase = "fallback" /\ TooLate
      <4>1. InnerDone
        BY <3>2 DEF InnerDone
      <4>2. c \in Fallback
        BY <3>2, <1>3, PhasesPartition
      <4>3. gor'[c] \in {"hedge", "ready", "gone"} /\ outcome'[c] = outcome[c]
        BY <3>2, <4>1, <4>2
      <4>4. \A d \in Fallback : gor'[d] \in {"hedge", "ready", "gone"}
                                  /\ outcome'[d] = "none"
        <5> SUFFICES ASSUME NEW d \in Fallback
                     PROVE  gor'[d] \in {"hedge", "ready", "gone"} /\ outcome'[d] = "none"
          OBVIOUS
        <5>1. d \in Clients
          BY PhasesPartition
        <5> QED
          BY ZenonT(40), <3>2, <4>2, <4>3, <5>1
      <4> QED
        BY <3>2, <4>4
    <3> QED
      BY <3>1, <3>2 DEF Running
  <2>3. FailedInOrder'
    BY <1>5 DEF FailedInOrder, Running
  <2>2. ~ctxDone' => \A d \in Of(phase) :
          d >= next /\ gor'[d] = "gone" => d \in results' \cup pending
    <3> SUFFICES ASSUME ~ctxDone, NEW d \in Of(phase), d >= next, gor'[d] = "gone"
                 PROVE  d \in results' \cup pending
      OBVIOUS
    <3>1. ~InnerDone
      BY DEF InnerDone, Running
    <3>2. d \in Clients
      BY PhasesPartition DEF Running
    <3> QED
      BY <3>1, <3>2
  <2> QED
    BY <2>1, <2>2, <2>3 DEF Running
<1>7. FailedInv'
  BY <1>2
<1>8. WinnerIsFirst'
  <2>1. winner \in Clients \cup {NoClient}
    BY DEF TypeOK
  <2> QED
    BY <1>5, <2>1
<1>9. FailureReportComplete'
  BY <1>2
<1>10. FallbackIsLastResort'
  <2> SUFFICES ASSUME NEW d \in Fallback, gor'[d] # "idle"
               PROVE  \A e \in Primary : gor'[e] = "gone" /\ (outcome'[e] = "ok" => ctxDone)
    OBVIOUS
  <2>1. gor[d] # "idle"
    BY <1>2, PhasesPartition
  <2>2. c \notin Primary
    BY <2>1, <1>2
  <2> QED
    BY <2>1, <2>2, PhasesPartition
<1> QED
  BY <1>1, <1>4, <1>6, <1>7, <1>8, <1>9, <1>10

\* Nothing but a commit or an outcome changes what the attempts say.
LEMMA SameAttempts ==
  ASSUME FailedInOrder, UNCHANGED <<attempts, outcome>>
  PROVE  FailedInOrder'
BY DEF FailedInOrder

\* Committing the failure of the next client extends the report by it.
LEMMA AppendNext ==
  ASSUME NEW n \in Nat, NEW s, s = [i \in 1..n |-> i - 1]
  PROVE  /\ Append(s, n) = [i \in 1..(n + 1) |-> i - 1]
         /\ Len(Append(s, n)) = n + 1
<1>1. s \in Seq(Int) /\ Len(s) = n
  OBVIOUS
<1>2. Append(s, n) = [i \in 1..(Len(s) + 1) |->
                        IF i <= Len(s) THEN s[i] ELSE n]
  BY <1>1
<1> QED
  BY <1>1, <1>2

\* Committing a failure moves nextOrder past a client that failed.
LEMMA CommitFailureKeeps ==
  ASSUME TypeOK, RaceInv, CommitFailure
  PROVE  RaceInv'
<1> USE DEF RaceInv
<1> PICK c \in Committable :
       /\ outcome[c] # "ok"
       /\ pending' = pending \ {c}
       /\ next' = next + 1
       /\ attempts' = Append(attempts, c)
  BY DEF CommitFailure
<1>1. c = next /\ c \in pending /\ c \in Clients /\ c \in Of(phase) /\ Running
  BY DEF Committable, TypeOK, Running, CommitFailure
<1>2. UNCHANGED <<phase, gor, outcome, results, winner, report, ctxDone, cancelled>>
  BY DEF CommitFailure, clientVars
<1>3. outcome[c] \in Failures
  BY <1>1 DEF TypeOK, Outcomes
<1>4. next \in Nat /\ \A d \in Clients : d \in Nat
  BY PhasesPartition DEF TypeOK
<1>5. GoroutineInv'
  BY <1>2
<1>6. PhaseInv'
  <2>1. phase = "primary" => next + 1 <= NPrimary
    BY <1>1, <1>4, PhasesPartition
  <2> QED
    BY <1>1, <1>2, <1>4, <2>1 DEF Running, Of
<1>7. CommitInv'
  <2>1. Len(attempts) = next
    <3>1. outcome[c] # "none"
      BY <1>3 DEF Failures
    <3>2. phase = "fallback" => c \in Fallback
      BY <1>1, PhasesPartition
    <3> QED
      BY <1>1, <3>1, <3>2
  <2>4. attempts = [i \in 1..next |-> i - 1]
    BY <1>1, <2>1 DEF FailedInOrder
  <2>5. attempts' = [i \in 1..next' |-> i - 1] /\ Len(attempts') = next'
    BY <1>1, <1>4, <2>4, AppendNext
  <2>6. \A d \in Clients : d < next + 1 => outcome[d] \in Failures
    <3>1. \A d \in Clients : d < next + 1 => d < next \/ d = c
      BY <1>1, <1>4
    <3>2. \A d \in Clients : d < next => outcome[d] \in Failures
      BY <1>1, <2>1 DEF FailedInOrder
    <3> QED
      BY ZenonT(30), <1>3, <3>1, <3>2
  <2>2. FailedInOrder'
    <3>1. attempts' = [i \in 1..Len(attempts') |-> i - 1]
      BY <2>5
    <3>2. Len(attempts') = next + 1 /\ outcome' = outcome
      BY <1>2, <2>5
    <3>3. \A d \in Clients : d < Len(attempts') => outcome'[d] \in Failures
      BY <2>6, <3>2
    <3> QED
      BY <3>1, <3>3 DEF FailedInOrder
  <2>3. ~ctxDone => \A d \in Of(phase) :
          d >= next' /\ gor[d] = "gone" => d \in results \cup pending'
    <3> SUFFICES ASSUME ~ctxDone, NEW d \in Of(phase), d >= next + 1,
                        gor[d] = "gone"
                 PROVE  d \in results \cup pending'
      BY <1>1
    <3>1. d \in Clients
      BY <1>1, PhasesPartition DEF Running
    <3> QED
      BY <1>1, <1>4, <3>1
  <2> QED
    BY <1>2, <2>2, <2>3, <2>5 DEF Running, Of
<1>8. FailedInv' /\ WinnerIsFirst' /\ FailureReportComplete' /\ FallbackIsLastResort'
  BY <1>1, <1>2 DEF Running
<1> QED
  BY <1>5, <1>6, <1>7, <1>8

\* Committing a success is the first one: everything below it failed.
LEMMA CommitSuccessKeeps ==
  ASSUME TypeOK, RaceInv, CommitSuccess
  PROVE  RaceInv'
<1> USE DEF RaceInv
<1> PICK c \in Committable :
       /\ outcome[c] = "ok"
       /\ pending' = pending \ {c}
       /\ winner' = c
  BY DEF CommitSuccess
<1>1. c = next /\ c \in pending /\ c \in Clients /\ c \in Of(phase) /\ Running
  BY DEF Committable, TypeOK, Running, CommitSuccess
<1>2. UNCHANGED <<gor, outcome, results, ctxDone>>
      /\ phase' = "done" /\ report' = "video"
  BY DEF CommitSuccess, clientVars
<1>3. GoroutineInv' /\ PhaseInv' /\ CommitInv' /\ FailedInv'
  BY <1>1, <1>2 DEF Running
<1>4. \A d \in Clients : d < c => outcome[d] \in Failures
  <2>1. Len(attempts) = next
    <3>1. phase = "fallback" => c \in Fallback
      BY <1>1, PhasesPartition
    <3> QED
      BY <1>1, <3>1
  <2> QED
    BY <1>1, <2>1 DEF FailedInOrder
<1>5. WinnerIsFirst'
  BY <1>1, <1>2, <1>4
<1>6. FailureReportComplete' /\ FallbackIsLastResort'
  BY <1>2
<1> QED
  BY <1>3, <1>5, <1>6

\* Moving a result from the channel to the map loses nothing.
LEMMA ReceiveKeeps ==
  ASSUME TypeOK, RaceInv, Receive
  PROVE  RaceInv'
<1> USE DEF RaceInv
<1>1. results' \cup pending' = results \cup pending
  BY DEF Receive
<1>2. UNCHANGED <<phase, gor, outcome, next, attempts, winner, report, ctxDone,
                  cancelled>>
  BY DEF Receive, clientVars
<1>3. GoroutineInv' /\ PhaseInv'
  BY <1>1, <1>2 DEF Of
<1>4. CommitInv'
  <2>1. FailedInOrder => FailedInOrder'
    BY <1>2, SameAttempts
  <2>2. ASSUME Running
        PROVE  \/ Len(attempts') = next'
               \/ phase' = "fallback" /\ TooLate'
    BY <1>2, <2>2
  <2>3. ASSUME Running, ~ctxDone, NEW c \in Of(phase), c >= next, gor[c] = "gone"
        PROVE  c \in results' \cup pending'
    BY <1>1, <2>3
  <2> QED
    BY <1>2, <2>1, <2>2, <2>3 DEF Running, Of
<1>5. FailedInv' /\ WinnerIsFirst' /\ FailureReportComplete' /\ FallbackIsLastResort'
  BY <1>2, SameAttempts
<1> QED
  BY <1>3, <1>4, <1>5

\* Launching the primary phase preserves the strengthened invariant.
LEMMA BeginKeeps ==
  ASSUME TypeOK, RaceInv, Begin
  PROVE  RaceInv'
<1> USE DEF RaceInv
<1>1. /\ \A c \in Clients : gor[c] = "idle" /\ outcome[c] = "none"
      /\ next = 0 /\ attempts = <<>> /\ results = {} /\ pending = {}
      /\ ~cancelled /\ winner = NoClient /\ report = "none"
  BY DEF Begin, Of
<1>2. UNCHANGED <<outcome, results, pending, next, attempts, winner, ctxDone,
                  cancelled>>
  BY DEF Begin
<1>3. CASE Clients = {}
  <2>1. phase' = "done" /\ report' = "noClients"
    BY <1>3 DEF Begin
  <2>2. Len(attempts) = NPrimary /\ attempts = [i \in 1..Len(attempts) |-> i - 1]
    <3>1. NPrimary = 0
      <4>1. NPrimary > 0 => 0 \in Clients
        BY DEF Clients
      <4> QED
        BY <4>1, <1>3
    <3>2. 1..0 = {}
      OBVIOUS
    <3> QED
      BY <1>1, <3>1, <3>2
  <2> QED
    BY <1>1, <1>2, <1>3, <2>1, <2>2, PhasesPartition DEF Running, FailedInOrder
<1>4. CASE Clients # {}
  <2>1. phase' = "primary" /\ gor' = Launched("primary") /\ report' = "none"
    BY <1>1, <1>4 DEF Begin
  <2>2. \A c \in Clients : /\ c \in Primary => gor'[c] \in {"hedge", "ready"}
                           /\ c \in Fallback => gor'[c] = "idle"
    BY <1>1, <2>1, PhasesPartition DEF Launched
  <2>3. \A c \in Clients : gor'[c] \in {"idle", "hedge", "ready"}
    BY <2>2, PhasesPartition
  <2>4. GoroutineInv'
    BY <1>1, <1>2, <2>3
  <2>5. PhaseInv'
    BY <1>1, <1>2, <2>1, <2>2, PhasesPartition
  <2>6. CommitInv'
    <3>1. \A c \in Clients : ~(c < next')
      BY <1>1, <1>2, PhasesPartition
    <3>2. Len(attempts') = next' /\ attempts' = [i \in 1..next' |-> i - 1]
      BY <1>1, <1>2
    <3>3. \A c \in Of(phase') : gor'[c] # "gone"
      BY <2>1, <2>2, PhasesPartition
    <3> QED
      BY <1>1, <1>2, <3>1, <3>2, <3>3 DEF FailedInOrder
  <2>7. FailedInv' /\ WinnerIsFirst' /\ FailureReportComplete'
    BY <1>1, <1>2, <2>1
  <2>8. FallbackIsLastResort'
    BY <2>2, PhasesPartition
  <2> QED
    BY <2>4, <2>5, <2>6, <2>7, <2>8
<1> QED
  BY <1>3, <1>4

\* A phase that ends without a timeout has committed every client of it.
LEMMA DrainedIsCommitted ==
  ASSUME TypeOK, RaceInv, PhaseDrained, ~ctxDone
  PROVE  /\ Len(attempts) = next
         /\ next = IF phase = "primary" THEN NPrimary ELSE NPrimary + NFallback
         /\ \A c \in Clients : c < next => outcome[c] \in Failures
<1>1. Running /\ results = {} /\ next \notin pending
      /\ \A c \in Of(phase) : gor[c] = "gone"
  BY DEF PhaseDrained
<1>6. CommitInv /\ PhaseInv
  BY DEF RaceInv
<1>7. /\ Len(attempts) = next
      /\ \A c \in Clients : c < next => outcome[c] \in Failures
  BY <1>1, <1>6 DEF FailedInOrder
<1>2. next \notin Of(phase)
  <2> SUFFICES ASSUME next \in Of(phase) PROVE next \in pending
    BY <1>1
  <2>1. next >= next
    BY DEF TypeOK
  <2> QED
    BY <1>1, <1>6, <2>1
<1>3. next \in Nat /\ next <= NPrimary + NFallback
  BY DEF TypeOK
<1>4. CASE phase = "primary"
  <2>1. next \notin Primary /\ next <= NPrimary
    BY <1>2, <1>4, <1>6, PhasesPartition
  <2>2. next = NPrimary
    BY <2>1, <1>3 DEF Primary
  <2> QED
    BY <1>1, <1>4, <1>7, <2>2
<1>5. CASE phase = "fallback"
  <2>1. next \notin Fallback /\ next >= NPrimary
    BY <1>2, <1>5, <1>6, PhasesPartition
  <2>2. next = NPrimary + NFallback
    BY <2>1, <1>3 DEF Fallback
  <2> QED
    BY <1>1, <1>5, <1>7, <2>2
<1> QED
  BY <1>1, <1>4, <1>5, <1>7 DEF Running

\* A drained phase hands over to the fallback phase or ends the call.
LEMMA PhaseEndsKeeps ==
  ASSUME TypeOK, RaceInv, PhaseEnds
  PROVE  RaceInv'
<1> USE DEF RaceInv
<1>1. /\ PhaseDrained /\ Running /\ results = {}
      /\ \A c \in Of(phase) : gor[c] = "gone"
      /\ ~cancelled /\ winner = NoClient /\ report = "none"
      /\ next \in Nat
  BY DEF PhaseEnds, PhaseDrained, Running, TypeOK
<1>2. UNCHANGED <<outcome, results, attempts, winner, ctxDone, cancelled>>
  BY DEF PhaseEnds
<1>3. CASE phase = "primary" /\ phase' = "fallback"
  <2>1. gor' = Launched("fallback") /\ next' = NPrimary /\ pending' = {}
        /\ report' = report
    BY <1>3 DEF PhaseEnds, Conclude
  <2>2. \A c \in Fallback : gor'[c] \in {"hedge", "ready"} /\ outcome[c] = "none"
    BY <1>3, <2>1, PhasesPartition DEF Launched
  <2>3. \A c \in Primary : gor[c] = "gone" /\ gor'[c] = "gone"
    BY <1>1, <1>3, <2>1, PhasesPartition DEF Launched
  <2>4. \A c \in Clients : gor'[c] \in {"hedge", "ready", "gone"}
                             /\ (c \notin Primary => outcome[c] = "none")
    BY <2>2, <2>3, PhasesPartition
  <2>5. GoroutineInv'
    BY <1>1, <1>2, <2>1, <2>2, <2>3, PhasesPartition
  <2>6. PhaseInv'
    BY <1>1, <1>2, <1>3, <2>1, <2>3, PhasesPartition
  <2>7. CASE ~ctxDone
    <3>1. /\ Len(attempts) = NPrimary
          /\ \A c \in Clients : c < NPrimary => outcome[c] \in Failures
      BY <1>1, <1>3, <2>7, DrainedIsCommitted
    <3>2. CommitInv'
      BY <1>1, <1>2, <1>3, <2>1, <2>2, <3>1, SameAttempts, PhasesPartition
    <3>3. FallbackIsLastResort'
      BY <1>2, <2>3, <3>1, PhasesPartition DEF Failures
    <3> QED
      BY <1>1, <1>2, <1>3, <2>1, <2>5, <2>6, <3>2, <3>3
  <2>8. CASE ctxDone
    <3>1. CommitInv'
      BY <1>1, <1>2, <1>3, <2>2, <2>8, SameAttempts
    <3>2. FallbackIsLastResort'
      BY <1>2, <2>3, <2>8
    <3> QED
      BY <1>1, <1>2, <1>3, <2>1, <2>5, <2>6, <3>1, <3>2
  <2> QED
    BY <2>7, <2>8
<1>4. CASE ~(phase = "primary" /\ phase' = "fallback")
  <2>1. /\ phase' = "done" /\ UNCHANGED <<gor, next, pending>>
        /\ report' \in {"allFailed", "noClients"}
    BY <1>4 DEF PhaseEnds, Conclude
  <2>2. \A c \in Clients : gor[c] \in {"idle", "gone"}
    BY <1>1, PhasesPartition DEF Running
  <2>3. GoroutineInv' /\ PhaseInv' /\ CommitInv' /\ FailedInv' /\ WinnerIsFirst'
    BY <1>1, <1>2, <2>1, <2>2 DEF Running
  <2>4. FallbackIsLastResort'
    BY <1>2, <2>1
  <2>5. FailureReportComplete'
    <3> SUFFICES ASSUME ~ctxDone
                 PROVE  /\ \A c \in Clients : outcome[c] # "ok"
                        /\ Len(attempts) \in {NPrimary, NPrimary + NFallback}
      BY <1>1, <1>2, <2>1, SameAttempts
    <3>1. /\ Len(attempts) = next
          /\ next = IF phase = "primary" THEN NPrimary ELSE NPrimary + NFallback
          /\ \A c \in Clients : c < next => outcome[c] \in Failures
      BY <1>1, DrainedIsCommitted
    <3>2. \A c \in Clients : outcome[c] # "ok"
      <4> SUFFICES ASSUME NEW c \in Clients PROVE outcome[c] # "ok"
        OBVIOUS
      <4>1. c < next \/ (phase = "primary" /\ c \in Fallback)
        BY <3>1, PhasesPartition DEF Clients
      <4>2. phase = "primary" /\ c \in Fallback => outcome[c] = "none"
        BY PhasesPartition
      <4> QED
        BY <3>1, <4>1, <4>2 DEF Failures
    <3> QED
      BY <3>1, <3>2
  <2> QED
    BY <2>3, <2>4, <2>5
<1> QED
  BY <1>3, <1>4

\* A timeout only weakens what the invariant says.
LEMMA TimeoutKeeps ==
  ASSUME TypeOK, RaceInv, Timeout
  PROVE  RaceInv'
<1> USE DEF RaceInv
<1>1. /\ ctxDone' = TRUE
      /\ UNCHANGED <<phase, gor, outcome, results, pending, next, attempts,
                     winner, report, cancelled>>
  BY DEF Timeout, clientVars, collectVars
<1>2. GoroutineInv' /\ PhaseInv'
  BY <1>1 DEF Of
<1>3. CommitInv'
  BY <1>1, SameAttempts DEF Running, Of
<1> QED
  BY <1>1, <1>2, <1>3, SameAttempts

\* The strengthened invariant of the race.
THEOREM RaceInvariant == Spec => []RaceInv
<1>1. TypeOK /\ RaceInv /\ [Next]_vars => RaceInv'
  <2> SUFFICES ASSUME TypeOK, RaceInv, [Next]_vars PROVE RaceInv'
    OBVIOUS
  <2>1. CASE UNCHANGED vars
    BY <2>1, SameAttempts DEF RaceInv, vars, clientVars, collectVars, Of, Running
  <2> QED
    BY <2>1, ClientStepKeeps, CommitFailureKeeps, CommitSuccessKeeps, ReceiveKeeps,
       BeginKeeps, PhaseEndsKeeps, TimeoutKeeps DEF Next, Collect
<1> QED
  BY <1>1, RaceInit, TypeCorrect, PTL DEF Spec

\* The response returned is that of the first client that did not fail: tryPhase
\* commits in client order whatever the order in which the goroutines answer.
THEOREM DeterministicWinner == Spec => []WinnerIsFirst
<1>1. RaceInv => WinnerIsFirst
  BY DEF RaceInv
<1> QED
  BY <1>1, RaceInvariant, PTL

\* A call that fails reports failures in client order without a gap, also when
\* the end of the context made select drop results; one that did not time out
\* reports every client it asked, and none of them had succeeded.
THEOREM CompleteFailureReport == Spec => []FailureReportComplete
<1>1. RaceInv => FailureReportComplete
  BY DEF RaceInv
<1> QED
  BY <1>1, RaceInvariant, PTL

\* The fallback phase is entered only over failed primary clients.
THEOREM FallbackNeverOvertakes == Spec => []FallbackIsLastResort
<1>1. RaceInv => FallbackIsLastResort
  BY DEF RaceInv
<1> QED
  BY <1>1, RaceInvariant, PTL
=============================================================================
