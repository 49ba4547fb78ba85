------------------------- MODULE SegmentRefreshProofs -------------------------
(***************************************************************************)
(* Proofs about SegmentRefresh, for every length of the stream, every      *)
(* window of the server, retry budget and skip limit: no refresh writes a  *)
(* segment twice or out of order, whatever a manifest listed is in the     *)
(* file or was skipped and counted, and the skip limit holds for the whole *)
(* download, whatever the server publishes and drops between two steps.    *)
(***************************************************************************)
EXTENDS SegmentRefresh, SequenceTheorems, FiniteSetTheorems, TLAPS

USE RefreshAssumption DEF RefreshAssumption

-----------------------------------------------------------------------------
(* Type correctness of all but the skip counter *)

\* The types, and how far a position or a number may reach in its manifest.
LEMMA ManifestBounds ==
  ASSUME TypeOK
  PROVE  /\ head \in Nat /\ Oldest \in Nat /\ Oldest <= head /\ head <= MaxHead
         /\ manifest.from \in Nat /\ manifest.to \in Nat /\ manifest.to <= MaxHead
         /\ manifest.live \in BOOLEAN
         /\ pos \in Nat /\ lastSeq \in Int /\ lastSeq >= -1
BY DEF TypeOK, Oldest

\* One more segment in the file.
LEMMA OutputGrows ==
  ASSUME TypeOK, NEW s \in Numbers
  PROVE  LET g == Append(output, s)
         IN  /\ output \in Seq(Numbers) /\ Len(output) \in Nat
             /\ DOMAIN output = 1..Len(output)
             /\ g \in Seq(Numbers)
             /\ DOMAIN g = 1..(Len(output) + 1)
             /\ \A i \in DOMAIN output : g[i] = output[i] /\ output[i] \in Numbers
             /\ g[Len(output) + 1] = s
             /\ ToSet(g) = ToSet(output) \cup {s}
<1> DEFINE g == Append(output, s)
<1>1. /\ output \in Seq(Numbers) /\ Len(output) \in Nat
      /\ DOMAIN output = 1..Len(output)
      /\ \A i \in DOMAIN output : output[i] \in Numbers
  BY LenProperties, ElementOfSeq DEF TypeOK
<1>2. /\ g \in Seq(Numbers)
      /\ Len(g) = Len(output) + 1
      /\ \A i \in 1..Len(output) : g[i] = output[i]
      /\ g[Len(output) + 1] = s
  BY <1>1, AppendProperties
<1>3. DOMAIN g = 1..(Len(output) + 1)
  BY <1>2, LenProperties
<1> HIDE DEF g
<1>4. DOMAIN g = DOMAIN output \cup {Len(output) + 1}
  BY <1>1, <1>3
<1>5. ToSet(g) = ToSet(output) \cup {s}
  BY <1>1, <1>2, <1>4 DEF ToSet
<1> QED
  BY <1>1, <1>2, <1>3, <1>5 DEF g

\* The segments dealt with are numbers up to the last one.
LEMMA SeenBounded ==
  ASSUME RefreshInv
  PROVE  /\ lost \subseteq 0..lastSeq /\ IsFiniteSet(lost)
         /\ Cardinality(lost) \in Nat /\ Cardinality(lost) <= lastSeq + 1
<1>1. lost \subseteq 0..lastSeq
  BY ManifestBounds DEF RefreshInv, MemoryInv, TypeOK, Numbers
<1>0. lastSeq \in Int /\ lastSeq >= -1
  BY ManifestBounds DEF RefreshInv
<1>2. IsFiniteSet(0..lastSeq) /\ Cardinality(0..lastSeq) = lastSeq + 1
  BY <1>0, FS_Interval
<1> QED
  BY <1>1, <1>2, FS_Subset, FS_CardinalityType

-----------------------------------------------------------------------------
(* The invariant *)

\* Before the first manifest nothing is listed, seen or skipped.
LEMMA RefreshInit == Init => RefreshInv
<1> SUFFICES ASSUME Init PROVE RefreshInv
  OBVIOUS
<1>1. TypeOK
  <2>1. output \in Seq(Numbers)
    BY DEF Init
  <2>2. lastSeq \in -1..(MaxHead - 1) /\ pos \in 0..MaxHead /\ att \in 0..MaxRetries
        /\ skipped \in 0..MaxHead
    BY DEF Init
  <2>3. manifest \in [from : 0..MaxHead, to : 0..MaxHead, live : BOOLEAN]
    BY DEF Init
  <2>4. ctxDone \in BOOLEAN
    BY DEF Init
  <2> QED
    BY <2>1, <2>2, <2>3, <2>4 DEF Init, TypeOK
<1>2. ToSet(output) = {}
  BY DEF Init, ToSet
<1>3. Cardinality(lost) = 0
  BY FS_EmptySet DEF Init
<1>4. ManifestInv
  BY <1>1, ManifestBounds DEF Init, ManifestInv
<1>5. SkipBudgetKept /\ OutputAscends /\ ListedIsHandled /\ MemoryInv /\ RoundInv
  BY <1>2, <1>3 DEF Init, SkipBudgetKept, OutputAscends, ListedIsHandled, MemoryInv,
                    RoundInv
<1> QED
  BY <1>1, <1>4, <1>5 DEF RefreshInv

\* The window of a longer stream begins no earlier.
LEMMA WindowMoves ==
  \A a, b \in Int : a <= b =>
    LET first(n) == IF n > Window THEN n - Window ELSE 0
    IN  first(b) \in Int /\ first(a) <= first(b)
OBVIOUS

\* The server moves on behind the back of the download.
LEMMA ServerKeeps ==
  ASSUME RefreshInv, Publish \/ EndStream
  PROVE  RefreshInv'
<1> USE DEF RefreshInv
<1>1. UNCHANGED <<pc, result, ctxDone, manifest, pos, att, lastSeq, seen, skipped,
                  output, lost, listed>>
  BY DEF Publish, EndStream, progress
<1>0. head \in Int /\ manifest.from \in Int /\ manifest.to \in Int /\ Oldest \in Int
      /\ head >= 0
  BY ManifestBounds
<1>2. head' \in 0..MaxHead /\ head' >= head
  BY <1>0 DEF Publish, EndStream, TypeOK
<1>7. live' \in BOOLEAN
  BY DEF Publish, EndStream, TypeOK
<1>3. TypeOK'
  BY <1>1, <1>2, <1>7 DEF TypeOK
<1>4. Oldest' \in Int /\ Oldest' >= Oldest
  <2>1. head \in Int /\ head' \in Int /\ head <= head'
    BY <1>0, <1>2
  <2> QED
    BY <2>1, WindowMoves DEF Oldest
<1>5. ManifestInv'
  BY <1>0, <1>1, <1>2, <1>4 DEF ManifestInv
<1>6. SkipBudgetKept' /\ OutputAscends' /\ ListedIsHandled' /\ MemoryInv' /\ RoundInv'
  BY <1>1 DEF SkipBudgetKept, OutputAscends, ListedIsHandled, MemoryInv, RoundInv
<1> QED
  BY <1>3, <1>5, <1>6

\* The steps that only move on, retry or give up.
LEMMA ControlKeeps ==
  ASSUME RefreshInv,
         \/ Start \/ Create \/ Rename \/ CloseFile \/ Cancel \/ Wait
         \/ FetchManifestFails \/ FetchSegmentFails \/ UNCHANGED vars
  PROVE  RefreshInv'
<1> USE DEF RefreshInv
<1> USE DEF Start, Create, Rename, FileAccess, CloseFile, Cancel, Wait,
            FetchManifestFails, FetchSegmentFails, vars, Fail
<1>1. UNCHANGED <<head, live, manifest, pos, lastSeq, seen, skipped, output, lost,
                  listed>>
  BY DEF server, progress
<1>2. att' \in 0..MaxRetries
  BY DEF TypeOK, MayRetry
<1>3. result' \in Errors \cup {"none", "ok"} /\ ctxDone' \in BOOLEAN
  BY DEF TypeOK, Refusals, Errors
<1>4. pc' \in {"idle", "create", "manifest", "segments", "wait", "close", "rename"}
  BY DEF TypeOK
<1>5. TypeOK'
  BY <1>1, <1>2, <1>3, <1>4 DEF TypeOK
<1>6. ManifestInv'
  BY <1>1 DEF ManifestInv, Oldest
<1>7. SkipBudgetKept' /\ OutputAscends'
  BY <1>1 DEF SkipBudgetKept, OutputAscends
<1>8. \A e \in Errors : e # "ok" /\ e # "none"
  BY DEF Errors
<1>9. Refusals \cup {"file"} \subseteq Errors
  BY DEF Refusals, Errors
<1>10. MemoryInv' /\ RoundInv' /\ ListedIsHandled'
  <2>1. pc' = pc /\ result' = result => MemoryInv' /\ RoundInv' /\ ListedIsHandled'
    BY <1>1 DEF MemoryInv, RoundInv, ListedIsHandled
  <2>2. pc' = "idle" /\ result' \in Errors => MemoryInv' /\ RoundInv' /\ ListedIsHandled'
    BY <1>1, <1>8 DEF MemoryInv, RoundInv, ListedIsHandled
  <2>3. CASE FetchManifestFails \/ FetchSegmentFails
    BY <1>9, <2>1, <2>2, <2>3
  <2>4. CASE \/ Start \/ Create \/ Rename \/ CloseFile \/ Cancel \/ Wait
             \/ UNCHANGED vars
    BY <1>1, <1>8, <2>1, <2>4 DEF MemoryInv, RoundInv, ListedIsHandled, Errors
  <2> QED
    BY <2>3, <2>4
<1> QED
  BY <1>5, <1>6, <1>7, <1>10

\* A new manifest begins where nothing has been listed, or where all that was
\* listed before has been dealt with.
LEMMA FetchManifestKeeps ==
  ASSUME RefreshInv, FetchManifest
  PROVE  RefreshInv'
<1> USE DEF RefreshInv
<1>1. /\ pc = "manifest" /\ pc' = "segments" /\ result = "none"
      /\ manifest' = [from |-> Oldest, to |-> head, live |-> live]
      /\ pos' = Oldest /\ att' = 0
      /\ listed' = listed \cup Oldest..(head - 1)
      /\ UNCHANGED <<head, live, result, ctxDone, lastSeq, seen, skipped, output, lost>>
  BY DEF FetchManifest, RoundInv, server, progress
<1>2. /\ head \in Nat /\ Oldest \in Nat /\ Oldest <= head /\ head <= MaxHead
      /\ manifest.from \in Nat /\ manifest.to \in Nat
      /\ lastSeq \in Int /\ lastSeq >= -1
  BY ManifestBounds
<1>3. Oldest' = Oldest
  BY <1>1 DEF Oldest
<1>4. TypeOK'
  <2>1. manifest' \in [from : 0..MaxHead, to : 0..MaxHead, live : BOOLEAN]
    BY <1>1, <1>2 DEF TypeOK
  <2>2. listed' \subseteq Numbers
    BY <1>1, <1>2 DEF TypeOK, Numbers
  <2> QED
    BY <1>1, <1>2, <2>1, <2>2 DEF TypeOK
<1>5. ManifestInv'
  BY <1>1, <1>2, <1>3 DEF ManifestInv
<1>6. ASSUME NEW s \in listed', s < Oldest \/ s <= lastSeq
      PROVE  s \in seen
  <2>1. listed \subseteq seen
    BY <1>1 DEF RoundInv
  <2>2. CASE s \in Oldest..(head - 1)
    <3>1. s \in manifest.from..(manifest.to - 1)
      BY <1>2, <1>6, <2>2 DEF ManifestInv
    <3> QED
      BY <2>1, <3>1 DEF ManifestInv
  <2> QED
    BY <1>1, <1>6, <2>1, <2>2
<1>7. RoundInv'
  BY <1>1, <1>2, <1>6 DEF RoundInv
<1>8. SkipBudgetKept' /\ OutputAscends' /\ ListedIsHandled' /\ MemoryInv'
  BY <1>1 DEF SkipBudgetKept, OutputAscends, ListedIsHandled, MemoryInv
<1> QED
  BY <1>4, <1>5, <1>7, <1>8

\* Passing over a segment is only ever passing over one dealt with before.
LEMMA SkipKnownKeeps ==
  ASSUME RefreshInv, SkipKnown
  PROVE  RefreshInv'
<1> USE DEF RefreshInv
<1>1. /\ pc = "segments" /\ pos < manifest.to /\ pos' = pos + 1
      /\ UNCHANGED <<head, live, pc, result, ctxDone, manifest, att, lastSeq, seen,
                     skipped, output, lost, listed>>
  BY DEF SkipKnown, AtSegment, server, progress
<1>2. pos \in Nat /\ manifest.to \in Nat /\ manifest.to <= MaxHead
      /\ manifest.from \in Nat
  BY ManifestBounds
<1>3. pos \in manifest.from..(manifest.to - 1)
  BY <1>1, <1>2 DEF RoundInv
<1>4. pos \in seen
  BY <1>1, <1>3 DEF SkipKnown, Known, RoundInv, ManifestInv
<1>5. TypeOK'
  BY <1>1, <1>2 DEF TypeOK
<1>6. RoundInv'
  <2>1. \A s \in listed : s \in Nat
    BY DEF TypeOK, Numbers
  <2> QED
    BY <1>1, <1>2, <1>3, <1>4, <2>1 DEF RoundInv
<1>7. ManifestInv'
  BY <1>1 DEF ManifestInv, Oldest
<1>8. SkipBudgetKept' /\ OutputAscends' /\ ListedIsHandled' /\ MemoryInv'
  BY <1>1 DEF SkipBudgetKept, OutputAscends, ListedIsHandled, MemoryInv
<1> QED
  BY <1>5, <1>6, <1>7, <1>8

\* The segment at the position is dealt with: the sequence number never passes
\* over a listed one.
LEMMA DealtWithKeeps ==
  ASSUME RefreshInv, AtSegment, ~Known(pos), DealtWith,
         UNCHANGED <<head, pc, result, manifest, listed>>,
         seen' = ToSet(output)' \cup lost', result' = "none" => skipped' = Cardinality(lost')
  PROVE  MemoryInv' /\ ManifestInv' /\ RoundInv' /\ ListedIsHandled'
<1> USE DEF RefreshInv
<1>1. /\ pc = "segments" /\ pos < manifest.to /\ pos' = pos + 1 /\ lastSeq' = pos
      /\ seen' = seen \cup {pos}
  BY DEF AtSegment, DealtWith
<1>2. /\ pos \in Nat /\ manifest.to \in Nat /\ manifest.from \in Nat
      /\ lastSeq \in Int /\ lastSeq >= -1
      /\ \A s \in listed : s \in Nat
  BY ManifestBounds DEF TypeOK, Numbers
<1>3. pos \in manifest.from..(manifest.to - 1) /\ pos \in listed
  BY <1>1, <1>2 DEF RoundInv, ManifestInv
<1>4. lastSeq < pos
  BY <1>2 DEF Known
<1>5. MemoryInv'
  BY <1>1, <1>2, <1>3, <1>4 DEF MemoryInv
<1>6. ManifestInv'
  BY <1>1, <1>2 DEF ManifestInv, Oldest
<1>7. RoundInv' /\ ListedIsHandled'
  BY <1>1, <1>2, <1>3 DEF RoundInv, ListedIsHandled
<1> QED
  BY <1>5, <1>6, <1>7

\* The types after a segment has been dealt with.
LEMMA DealtWithType ==
  ASSUME RefreshInv, AtSegment, DealtWith,
         UNCHANGED <<head, live, pc, result, ctxDone, manifest, listed>>
  PROVE  /\ pos \in Numbers
         /\ output' \in Seq(Numbers) /\ skipped' \in 0..MaxHead /\ lost' \subseteq Numbers
              => TypeOK'
<1> USE DEF RefreshInv
<1>1. pos < manifest.to /\ pos' = pos + 1 /\ lastSeq' = pos /\ seen' = seen \cup {pos}
      /\ att' = 0
  BY DEF AtSegment, DealtWith
<1>2. pos \in Nat /\ manifest.to \in Nat /\ manifest.to <= MaxHead
  BY ManifestBounds
<1>3. pos \in Numbers
  BY <1>1, <1>2 DEF Numbers
<1> QED
  BY <1>1, <1>2, <1>3 DEF TypeOK

\* A segment is written behind those with smaller numbers.
LEMMA FetchSegmentKeeps ==
  ASSUME RefreshInv, FetchSegment
  PROVE  RefreshInv'
<1> USE DEF RefreshInv
<1>1. /\ AtSegment /\ ~Known(pos) /\ DealtWith
      /\ output' = Append(output, pos)
      /\ UNCHANGED <<head, live, pc, result, ctxDone, manifest, skipped, listed, lost>>
  BY DEF FetchSegment, server
<1>2. pos \in Numbers
  BY <1>1, DealtWithType
<1> DEFINE g == Append(output, pos)
<1>3. /\ Len(output) \in Nat /\ DOMAIN output = 1..Len(output)
      /\ g \in Seq(Numbers) /\ DOMAIN g = 1..(Len(output) + 1)
      /\ \A i \in DOMAIN output : g[i] = output[i] /\ output[i] \in Numbers
      /\ g[Len(output) + 1] = pos
      /\ ToSet(g) = ToSet(output) \cup {pos}
  BY <1>2, OutputGrows
<1>4. output' = g
  BY <1>1
<1> HIDE DEF g
<1>5. TypeOK'
  BY <1>1, <1>3, <1>4, DealtWithType DEF TypeOK
<1>6. ToSet(output)' = ToSet(output) \cup {pos}
  BY <1>3, <1>4 DEF ToSet
<1>7. seen' = ToSet(output)' \cup lost' /\ (result' = "none" => skipped' = Cardinality(lost'))
  BY <1>1, <1>6 DEF DealtWith, MemoryInv
<1>8. MemoryInv' /\ ManifestInv' /\ RoundInv' /\ ListedIsHandled'
  BY <1>1, <1>7, DealtWithKeeps
<1>9. pos \notin seen /\ \A s \in seen : s < pos
  BY <1>1, <1>2, ManifestBounds DEF Known, MemoryInv, TypeOK, Numbers
<1>10. SkipBudgetKept'
  BY <1>1, <1>6, <1>9 DEF SkipBudgetKept, MemoryInv
<1>11. OutputAscends'
  <2>1. ASSUME NEW i \in DOMAIN g, NEW j \in DOMAIN g, i < j
        PROVE  g[i] < g[j]
    <3>1. i \in DOMAIN output /\ g[i] = output[i]
      BY <1>3, <2>1
    <3>2. CASE j \in DOMAIN output
      BY <1>3, <2>1, <3>1, <3>2 DEF OutputAscends
    <3>3. CASE j = Len(output) + 1
      <4>1. output[i] \in seen
        BY <3>1 DEF MemoryInv, ToSet
      <4> QED
        BY <1>3, <1>9, <3>1, <3>3, <4>1
    <3> QED
      BY <1>3, <3>2, <3>3
  <2> QED
    BY <1>4, <2>1 DEF OutputAscends
<1> QED
  BY <1>5, <1>8, <1>10, <1>11

\* Skipping counts each segment once, and fails before the limit is passed.
LEMMA SkipUnavailableKeeps ==
  ASSUME RefreshInv, SkipUnavailableSegment
  PROVE  RefreshInv'
<1> USE DEF RefreshInv
<1> DEFINE more == lost \cup {pos}
<1>1. /\ AtSegment /\ ~Known(pos) /\ skipped' = skipped + 1
      /\ UNCHANGED <<head, live, ctxDone, manifest, output, listed>>
  BY DEF SkipUnavailableSegment, server
<1>2. /\ pos \in Nat /\ pos < manifest.to /\ manifest.to <= MaxHead
      /\ pc = "segments" /\ result = "none" /\ lastSeq < pos
  BY <1>1, ManifestBounds DEF AtSegment, RoundInv, Known
<1>3. pos \notin seen /\ pos \notin lost
  BY <1>1 DEF Known, MemoryInv
<1>4. /\ IsFiniteSet(lost) /\ Cardinality(lost) \in Nat
      /\ Cardinality(lost) <= lastSeq + 1 /\ skipped = Cardinality(lost)
      /\ Cardinality(more) = skipped + 1
  BY <1>2, <1>3, SeenBounded, FS_AddElement DEF MemoryInv
<1>5. skipped' \in 0..MaxHead
  BY <1>1, <1>2, <1>4, ManifestBounds
<1>6. CASE OverLimit(skipped') /\ pc' = "idle" /\ result' \in Errors
             /\ UNCHANGED <<lastSeq, seen, pos, att, lost>>
  <2>1. TypeOK'
    BY <1>1, <1>5, <1>6 DEF TypeOK
  <2>2. ManifestInv' /\ SkipBudgetKept' /\ OutputAscends'
    BY <1>1, <1>6 DEF ManifestInv, Oldest, SkipBudgetKept, OutputAscends
  <2>3. result' # "none" /\ result' # "ok"
    BY <1>6 DEF Errors
  <2>4. MemoryInv' /\ RoundInv' /\ ListedIsHandled'
    BY <1>1, <1>6, <2>3 DEF MemoryInv, RoundInv, ListedIsHandled
  <2> QED
    BY <2>1, <2>2, <2>4
<1>7. CASE ~OverLimit(skipped') /\ DealtWith /\ lost' = more /\ UNCHANGED <<pc, result>>
  <2>1. TypeOK'
    BY <1>1, <1>5, <1>7, DealtWithType DEF TypeOK
  <2>2. seen' = ToSet(output)' \cup lost' /\ skipped' = Cardinality(lost')
    BY <1>1, <1>4, <1>7 DEF DealtWith, MemoryInv, ToSet
  <2>3. MemoryInv' /\ ManifestInv' /\ RoundInv' /\ ListedIsHandled'
    BY <1>1, <1>7, <2>2, DealtWithKeeps
  <2>4. SkipBudgetKept'
    <3>1. MaxSkipped > 0 => skipped' <= MaxSkipped
      BY <1>5, <1>7 DEF OverLimit
    <3>2. pos \notin ToSet(output)
      BY <1>3 DEF MemoryInv
    <3> QED
      BY <1>1, <1>7, <2>2, <3>1, <3>2 DEF SkipBudgetKept, ToSet
  <2>5. OutputAscends'
    BY <1>1 DEF OutputAscends
  <2> QED
    BY <2>1, <2>3, <2>4, <2>5
<1> QED
  BY <1>6, <1>7 DEF SkipUnavailableSegment, Fail, Refusals, Errors

\* At the end of a round everything listed has been dealt with.
LEMMA RoundEndsKeeps ==
  ASSUME RefreshInv, RoundEnds
  PROVE  RefreshInv'
<1> USE DEF RefreshInv
<1>1. /\ pc = "segments" /\ pos >= manifest.to
      /\ pc' \in {"wait", "close"}
      /\ UNCHANGED <<head, live, result, ctxDone, manifest, pos, att, lastSeq, seen,
                     skipped, output, lost, listed>>
  BY DEF RoundEnds, server, progress
<1>2. listed \subseteq seen
  BY <1>1, ManifestBounds DEF RoundInv, ManifestInv
<1>3. TypeOK'
  BY <1>1 DEF TypeOK
<1>4. ManifestInv' /\ SkipBudgetKept' /\ OutputAscends'
  BY <1>1 DEF ManifestInv, Oldest, SkipBudgetKept, OutputAscends
<1>5. MemoryInv' /\ RoundInv' /\ ListedIsHandled'
  BY <1>1, <1>2 DEF MemoryInv, RoundInv, ListedIsHandled, ToSet
<1> QED
  BY <1>3, <1>4, <1>5

\* The strengthening is inductive: the sequence number alone is enough of a
\* memory, because the server's window never moves back.
THEOREM RefreshInvariant == Spec => []RefreshInv
<1>1. RefreshInv /\ [Next]_vars => RefreshInv'
  BY ServerKeeps, ControlKeeps, FetchManifestKeeps, SkipKnownKeeps, FetchSegmentKeeps,
     SkipUnavailableKeeps, RoundEndsKeeps
  DEF Next, CallStep
<1> QED
  BY <1>1, RefreshInit, PTL DEF Spec

\* Refreshing never writes a segment twice or out of order.
THEOREM NeverTwice == Spec => []OutputAscends
<1>1. RefreshInv => OutputAscends
  BY DEF RefreshInv
<1> QED
  BY <1>1, RefreshInvariant, PTL

\* Whatever a manifest listed is in the file at the end of the round, and of
\* the download, or was skipped and counted.
THEOREM NothingListedIsMissed == Spec => []ListedIsHandled
<1>1. RefreshInv => ListedIsHandled
  BY DEF RefreshInv
<1> QED
  BY <1>1, RefreshInvariant, PTL
=============================================================================
