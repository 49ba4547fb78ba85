--------------------------- MODULE PlaylistRunProofs ---------------------------
(***************************************************************************)
(* Proofs about what a run does with its command line and its playlists.   *)
(*                                                                         *)
(* BatchRun, for every command line, every combination of options and any  *)
(* number of runs, crashes and torn lines: the exit code is the worst one, *)
(* items and downloads are counted exactly, an archived video is whole,    *)
(* and it is not downloaded again.                                         *)
(*                                                                         *)
(* PlaylistPages, for any tokens, pages, limit and command line: the       *)
(* listing holds every page once, and the items chosen from it are those   *)
(* that the selector stands for, each of them once.                        *)
(***************************************************************************)
EXTENDS BatchRun, PlaylistPages, SequenceTheorems, FiniteSetTheorems, TLAPS

-----------------------------------------------------------------------------
(* The inductive invariants *)

Working == {"archive?", "extract", "download", "transfer", "record", "sync", "returned"}

\* While an item is worked on, what came before it has been counted.
ItemInv ==
  /\ pc \in Working => item <= Len(Items)
  /\ pc \in Working /\ batch[in].playlist =>
       /\ ~summary.aborted /\ summary.skipped = 0
       /\ summary.succeeded + summary.failed = item - 1

\* One more download is allowed to each input before it has had its cutoff.
LimitInv ==
  opts.maxDownloads > 0 =>
    /\ count < opts.maxDownloads + in
    /\ \/ pc \in {"exited", "dead", "playlistDone"}
       \/ pc = "returned" /\ err = MaxReached
       \/ count < opts.maxDownloads + in - 1

\* No output is partial where none is written in place; and what is about to
\* be recorded is there, unless a file written in place was taken for granted.
OutputInv ==
  /\ ~InPlace => \A v \in Videos : out[v] # "partial"
  /\ ~opts.simulate /\ (~InPlace \/ ~MaySkip) /\ pc \in {"record", "sync"}
       => out[Video] = "whole"

\* Whatever was recorded and not lost has a line, and a running process knows
\* of it; what is worked on is not known of.
ArchiveInv ==
  /\ ~opts.archive => recorded = {} /\ pc # "sync"
  /\ opts.archive =>
       /\ recorded \ lost \subseteq lines
       /\ pc \notin {"exited", "dead"} => recorded \ lost \subseteq ids
       /\ pc \in {"extract", "download", "transfer"} => Video \notin ids
       /\ pc = "sync" => Video \in lines \cup lost

-----------------------------------------------------------------------------
(* The command line, and the end of an input *)

\* The input being processed, its items and the video among them.
LEMMA Inputs ==
  ASSUME TypeOK
  PROVE  /\ Items \in Seq(Videos) /\ Len(Items) \in Nat /\ Len(batch) \in Nat
         /\ ~batch[in].playlist => Len(Items) = 1
         /\ item <= Len(Items) => Video \in Videos
<1>1. batch \in Seq(Input) /\ in \in DOMAIN batch /\ Len(batch) \in Nat
  BY BatchAssumption DEF BatchAssumption, TypeOK
<1>2. batch[in] \in Input
  BY <1>1
<1>3. Items \in Seq(Videos) /\ Len(Items) \in Nat
  BY <1>2 DEF Items, Input
<1>4. ~batch[in].playlist => Len(Items) = 1
  BY <1>1, BatchAssumption DEF BatchAssumption, TypeOK, Items
<1>5. item <= Len(Items) => Video \in Videos
  BY <1>3 DEF Video, TypeOK
<1> QED
  BY <1>1, <1>3, <1>4, <1>5

\* The options.
LEMMA OptionTypes ==
  ASSUME TypeOK
  PROVE  /\ opts.archive \in BOOLEAN /\ opts.simulate \in BOOLEAN
         /\ InPlace \in BOOLEAN /\ MaySkip \in BOOLEAN
         /\ opts.maxDownloads \in Nat /\ opts.skipAfterErrors \in Nat
BY BatchAssumption DEF BatchAssumption, TypeOK, InPlace, MaySkip

\* The options are given once.
LEMMA OptionsFixed == [Next]_vars => UNCHANGED <<opts, InPlace, MaySkip>>
BY DEF Next, vars, command, observers, Run, TakeVideo, TakePlaylist, PlaylistFails, CheckArchive,
       Extract, SkipExisting, StartDownload, WriteInPlace, DownloadSucceeds, DownloadFails,
       RecordNothing, WriteLine, SyncLine, RecordFails, VideoReturns, ItemReturns,
       PlaylistReturns, Crash, TearLine, InPlace, MaySkip

\* How an input ends: with the next one or with the process.
LEMMA InputEnds ==
  ASSUME TypeOK, NEW e \in Results, InputReturns(e)
  PROVE  /\ in' \in 1..Len(batch)
         /\ \/ pc' = "input" /\ in' = in + 1
            \/ pc' = "exited" /\ in' = in
         /\ e \in Cutoffs => pc' = "exited"
         /\ \/ e \notin 1..10 /\ exitCode' = exitCode /\ failed' = failed
            \/ e \in 1..10 /\ exitCode' = WorstCode(e) /\ failed' = failed \cup {e}
<1>1. in \in 1..Len(batch) /\ Len(batch) \in Nat
  BY Inputs DEF TypeOK
<1>2. ASSUME NextInput
      PROVE  /\ in' \in 1..Len(batch)
             /\ \/ pc' = "input" /\ in' = in + 1
                \/ pc' = "exited" /\ in' = in
  BY <1>1, <1>2 DEF NextInput
<1>3. CASE e = Success
  BY <1>2, <1>3 DEF InputReturns, Success, Cutoffs, Break, MaxReached
<1>4. CASE e \in Cutoffs
  BY <1>1, <1>4 DEF InputReturns, Success, Cutoffs, Break, MaxReached
<1>5. CASE e \in 1..10
  <2>1. exitCode' = WorstCode(e) /\ failed' = failed \cup {e} /\ e \notin Cutoffs
        /\ (NextInput \/ (pc' = "exited" /\ in' = in))
    BY <1>5 DEF InputReturns, Success, Cutoffs, Break, MaxReached
  <2> QED
    BY <1>1, <1>2, <1>5, <2>1
<1> QED
  BY <1>3, <1>4, <1>5 DEF Results

-----------------------------------------------------------------------------
(* The summary of a playlist *)

Summaries == [succeeded : Nat, failed : Nat, skipped : Nat, aborted : BOOLEAN]

\* The count of an item: what is counted and what remains make up the playlist,
\* but for the archived item that breaks it off.
LEMMA TallyEffect ==
  ASSUME TypeOK, ItemInv, pc = "returned", batch[in].playlist
  PROVE  /\ Tally \in Summaries
         /\ ~Tally.aborted =>
              Tally.skipped = 0 /\ Tally.succeeded + Tally.failed = item /\ err # Break
         /\ Tally.aborted =>
              Tally.skipped = Len(Items) - item
              /\ Tally.succeeded + Tally.failed = IF err = Break THEN item - 1 ELSE item
<1> DEFINE S == summary.succeeded
           F == summary.failed
           failing == err \in 1..10
           aborting == \/ err \in Cutoffs
                       \/ failing /\ \/ opts.abortOnError
                                     \/ ReachedPlaylistFailureThreshold(F + 1)
           s == S + (IF err \in {Success, MaxReached} THEN 1 ELSE 0)
           f == F + (IF failing THEN 1 ELSE 0)
           k == IF aborting THEN Remaining ELSE summary.skipped
<1>1. /\ S \in Nat /\ F \in Nat /\ summary.skipped = 0 /\ S + F = item - 1
      /\ item \in Nat \ {0} /\ item <= Len(Items) /\ Len(Items) \in Nat
  BY Inputs DEF TypeOK, ItemInv, Working
<1>2. Tally = [succeeded |-> s, failed |-> f, skipped |-> k, aborted |-> aborting]
  BY DEF Tally
<1>3. k = (IF aborting THEN Len(Items) - item ELSE 0) /\ k \in Nat
  BY <1>1 DEF Remaining
<1>4. /\ err = Break => s = S /\ f = F /\ aborting
      /\ err # Break => s \in Nat /\ f \in Nat /\ s + f = item
  <2>1. CASE err \in 1..10
    <3>1. s = S /\ f = F + 1
      BY <1>1, <2>1 DEF Success, MaxReached
    <3> QED
      BY <1>1, <2>1, <3>1 DEF Break
  <2>2. CASE err \in {Success, MaxReached}
    <3>1. s = S + 1 /\ f = F
      BY <1>1, <2>2 DEF Success, MaxReached
    <3> QED
      BY <1>1, <2>2, <3>1 DEF Break, Success, MaxReached
  <2>3. CASE err = Break
    <3>1. s = S /\ f = F /\ aborting
      BY <1>1, <2>3 DEF Success, MaxReached, Break, Cutoffs
    <3> QED
      BY <2>3, <3>1
  <2> QED
    BY <2>1, <2>2, <2>3 DEF TypeOK, Results, Cutoffs
<1> HIDE DEF s, f, k
<1>5. s \in Nat /\ f \in Nat /\ s + f = IF err = Break THEN item - 1 ELSE item
  BY <1>1, <1>4
<1>6. aborting \in BOOLEAN
  OBVIOUS
<1> HIDE DEF aborting
<1>7. Tally \in Summaries
  BY <1>2, <1>3, <1>5, <1>6 DEF Summaries
<1>8. Tally.succeeded = s /\ Tally.failed = f /\ Tally.skipped = k /\ Tally.aborted = aborting
  BY <1>2
<1> QED
  BY <1>3, <1>4, <1>5, <1>7, <1>8

-----------------------------------------------------------------------------
(* Types, and items in their order *)

LEMMA TypeStep == TypeOK /\ ItemInv /\ [Next]_vars => TypeOK' /\ ItemInv'
<1> SUFFICES ASSUME TypeOK, ItemInv, [Next]_vars
             PROVE  TypeOK' /\ ItemInv'
  OBVIOUS
<1>a. /\ Items \in Seq(Videos) /\ Len(Items) \in Nat /\ Len(batch) \in Nat
      /\ ~batch[in].playlist => Len(Items) = 1
      /\ item <= Len(Items) => Video \in Videos
  BY Inputs
<1>b. /\ opts.archive \in BOOLEAN /\ opts.simulate \in BOOLEAN
      /\ opts.maxDownloads \in Nat
  BY OptionTypes
<1>c. /\ Success \in Results /\ Generic \in Results /\ Break \in Results /\ MaxReached \in Results
      /\ \A code \in ErrorCodes : code \in Results /\ code \in 1..10
  BY BatchAssumption DEF BatchAssumption, Results, Success, Generic, Cutoffs
<1>d. NoSummary \in Summaries
  BY DEF NoSummary, Summaries
<1>e. \A n \in Nat : Counted(n) \in Nat /\ Limit(n) \in {MaxReached, Success}
  BY DEF Counted, Limit
<1>f. pc \in Working => Video \in Videos
  BY <1>a DEF ItemInv
<1> USE DEF command, disk, position, observers
<1>1. CASE UNCHANGED vars
  BY <1>1 DEF vars, TypeOK, ItemInv, Items
<1>2. CASE Run
  <2>1. 1 \in 1..Len(batch)
    <3>1. batch # << >>
      BY BatchAssumption DEF BatchAssumption, TypeOK
    <3> QED
      BY <3>1, BatchAssumption DEF BatchAssumption, TypeOK
  <2>2. ids' \subseteq Videos
    BY <1>2 DEF Run, ArchivedOnDisk, TypeOK
  <2>3. TypeOK'
    <3>1. runs' \in 0..MaxRuns
      BY <1>2, BatchAssumption DEF Run, TypeOK, BatchAssumption
    <3>2. UNCHANGED <<batch, opts, lines, tail, out, recorded, lost>>
      BY <1>2 DEF Run
    <3>3. pc' = "input" /\ count' = 0 /\ exitCode' = 0 /\ failed' = {}
          /\ err' = Success /\ summary' = NoSummary /\ in' = 1 /\ item' = 1
      BY <1>2 DEF Run, Success
    <3>4. in' \in 1..Len(batch)
      BY <2>1, <3>3
    <3>5. 0 \in 0..10 /\ 1 \in Nat \ {0} /\ 0 \in Nat
      OBVIOUS
    <3> QED
      BY <1>c, <1>d, <2>2, <3>1, <3>2, <3>3, <3>4, <3>5 DEF TypeOK, Summaries
  <2>4. ItemInv'
    BY <1>2 DEF Run, ItemInv, Working
  <2> QED
    BY <2>3, <2>4
<1>3. CASE TakeVideo
  <2>1. UNCHANGED <<command, disk, runs, ids, count, exitCode, in, summary, err, observers>>
        /\ item' = 1 /\ pc' = "archive?" /\ ~batch[in].playlist
    BY <1>3 DEF TakeVideo
  <2>2. TypeOK'
    BY <2>1 DEF TypeOK
  <2>3. Items' = Items /\ 1 <= Len(Items)
    BY <1>a, <2>1 DEF Items
  <2>4. ItemInv'
    BY <2>1, <2>3 DEF ItemInv, Working
  <2> QED
    BY <2>2, <2>4
<1>4. CASE TakePlaylist
  <2>1. Items # << >> => 1 <= Len(Items)
    BY <1>a
  <2>2. TypeOK'
    BY <1>4, <1>d DEF TakePlaylist, TypeOK, Summaries
  <2>3. ItemInv'
    BY <1>4, <2>1 DEF TakePlaylist, ItemInv, Working, Items, NoSummary
  <2> QED
    BY <2>2, <2>3
<1>5. ASSUME NEW e \in Results, InputReturns(e),
             UNCHANGED <<command, disk, runs, ids, count, item, summary, err,
                         recorded, lost>>
      PROVE  TypeOK' /\ ItemInv'
  <2>1. /\ in' \in 1..Len(batch) /\ pc' \in {"input", "exited"}
        /\ exitCode' \in 0..10 /\ failed' \subseteq 1..10
    <3>1. exitCode \in 0..10 /\ failed \subseteq 1..10
      BY DEF TypeOK
    <3>2. in' \in 1..Len(batch) /\ pc' \in {"input", "exited"}
      BY <1>5, InputEnds
    <3>3. \/ exitCode' = exitCode /\ failed' = failed
          \/ e \in 1..10 /\ exitCode' = WorstCode(e) /\ failed' = failed \cup {e}
      BY <1>5, InputEnds
    <3>4. e \in 1..10 => WorstCode(e) \in 0..10
      BY <3>1 DEF WorstCode
    <3> QED
      BY <3>1, <3>2, <3>3, <3>4
  <2>2. TypeOK'
    BY <1>5, <2>1 DEF TypeOK
  <2>3. ItemInv'
    BY <2>1 DEF ItemInv, Working
  <2> QED
    BY <2>2, <2>3
<1>6. CASE PlaylistFails
  BY <1>6, <1>5, <1>c DEF PlaylistFails
<1>7. CASE CheckArchive
  BY <1>7, <1>c DEF CheckArchive, Returns, SkippedByArchive, TypeOK, ItemInv, Working, Items
<1>8. CASE Extract
  BY <1>8, <1>c DEF Extract, Returns, TypeOK, ItemInv, Working, Items
<1>9. CASE SkipExisting
  BY <1>9 DEF SkipExisting, TypeOK, ItemInv, Working, Items
<1>10. CASE StartDownload \/ WriteInPlace
  BY <1>10, <1>f DEF StartDownload, WriteInPlace, TypeOK, ItemInv, Working, Items
<1>11. CASE DownloadSucceeds
  BY <1>11, <1>c, <1>f DEF DownloadSucceeds, Returns, TypeOK, ItemInv, Working, Items
<1>12. CASE DownloadFails
  BY <1>12, <1>c DEF DownloadFails, Returns, TypeOK, ItemInv, Working, Items
<1>13. CASE RecordNothing
  BY <1>13, <1>c, <1>e DEF RecordNothing, Count, Returns, TypeOK, ItemInv, Working, Items
<1>14. CASE WriteLine
  BY <1>14, <1>f DEF WriteLine, AppendsLine, TypeOK, ItemInv, Working, Items
<1>15. CASE SyncLine
  BY <1>15, <1>c, <1>e, <1>f DEF SyncLine, Count, Returns, TypeOK, ItemInv, Working, Items
<1>16. CASE RecordFails
  BY <1>16, <1>c DEF RecordFails, Returns, TypeOK, ItemInv, Working, Items
<1>17. CASE VideoReturns
  BY <1>17, <1>5 DEF VideoReturns, TypeOK
<1>18. CASE ItemReturns
  <2>1. /\ Tally \in Summaries
        /\ ~Tally.aborted => Tally.skipped = 0 /\ Tally.succeeded + Tally.failed = item
    BY <1>18, TallyEffect DEF ItemReturns
  <2>2. CASE Tally.aborted \/ Remaining = 0
    BY <1>18, <2>1, <2>2 DEF ItemReturns, TypeOK, ItemInv, Working, Summaries
  <2>3. CASE ~(Tally.aborted \/ Remaining = 0)
    <3>1. item \in Nat \ {0} /\ item <= Len(Items)
      BY <1>18 DEF ItemReturns, ItemInv, Working, TypeOK
    <3>2. item + 1 <= Len(Items) /\ item + 1 \in Nat \ {0} /\ (item + 1) - 1 = item
      BY <1>a, <2>3, <3>1 DEF Remaining
    <3>3. summary' = Tally /\ pc' = "archive?" /\ item' = item + 1
          /\ UNCHANGED <<command, in>>
      BY <1>18, <2>3 DEF ItemReturns
    <3>4. TypeOK'
      BY <1>18, <2>1, <3>2, <3>3 DEF ItemReturns, TypeOK, Summaries
    <3>5. ItemInv'
      BY <2>1, <2>3, <3>2, <3>3 DEF ItemInv, Working, Items
    <3> QED
      BY <3>4, <3>5
  <2> QED
    BY <2>2, <2>3
<1>19. CASE PlaylistReturns
  BY <1>19, <1>5, <1>c DEF PlaylistReturns, PlaylistResult
<1>20. CASE Crash
  BY <1>20 DEF Crash, Killed, TypeOK, ItemInv, Working, Items
<1>21. CASE TearLine
  <2>1. /\ UNCHANGED <<command, lines, out, runs, ids, count, exitCode, position, failed,
                       recorded, lost>>
        /\ pc = "record"
        /\ \/ pc' = "dead" /\ UNCHANGED err
           \/ pc' = "returned" /\ err' = Generic
    BY <1>21 DEF TearLine, Killed, Returns
  <2>2. tail' \in {Nothing, Fragment} \cup Videos
    BY <1>21, <1>f DEF TearLine, Working
  <2>3. TypeOK'
    BY <1>c, <2>1, <2>2 DEF TypeOK
  <2>4. ItemInv'
    BY <2>1 DEF ItemInv, Working, Items
  <2> QED
    BY <2>3, <2>4
<1> QED
  BY <1>1, <1>2, <1>3, <1>4, <1>6, <1>7, <1>8, <1>9, <1>10, <1>11, <1>12, <1>13, <1>14, <1>15,
     <1>16, <1>17, <1>18, <1>19, <1>20, <1>21 DEF Next

\* The first state.
LEMMA InitTypes == Init => TypeOK /\ ItemInv
<1> SUFFICES ASSUME Init
             PROVE  TypeOK /\ ItemInv
  OBVIOUS
<1>1. 1 \in 1..Len(batch) /\ 0 \in 0..MaxRuns
  <2>1. batch # << >> /\ batch \in Seq(Input) /\ MaxRuns \in Nat
    BY BatchAssumption DEF BatchAssumption, Init
  <2> QED
    BY <2>1
<1>2. TypeOK
  <2>1. Success \in Results /\ NoSummary \in Summaries
    BY DEF Success, Results, NoSummary, Summaries
  <2>2. 0 \in 0..10 /\ 1 \in Nat \ {0} /\ 0 \in Nat
    OBVIOUS
  <2> QED
    BY <1>1, <2>1, <2>2 DEF Init, TypeOK, Summaries, Success
<1>3. ItemInv
  BY DEF Init, ItemInv, Working
<1> QED
  BY <1>2, <1>3

\* Every variable keeps its type.
THEOREM TypeCorrect == Spec => []TypeOK
BY InitTypes, TypeStep, PTL DEF Spec

\* The items of a playlist are taken in their order, and counted one by one.
THEOREM ItemsInOrder == Spec => [](TypeOK /\ ItemInv)
BY InitTypes, TypeStep, PTL DEF Spec

-----------------------------------------------------------------------------
(* Exit codes *)

\* A step keeps the worst code.
LEMMA ExitStep == TypeOK /\ ExitCodeIsWorst /\ [Next]_vars => ExitCodeIsWorst'
<1> SUFFICES ASSUME TypeOK, ExitCodeIsWorst, [Next]_vars
             PROVE  ExitCodeIsWorst'
  OBVIOUS
<1>1. ASSUME NEW e \in Results, InputReturns(e)
      PROVE  ExitCodeIsWorst'
  <2>1. CASE e \notin 1..10
    BY <1>1, <2>1, InputEnds DEF ExitCodeIsWorst
  <2>2. CASE e \in 1..10
    <3>1. exitCode' = WorstCode(e) /\ failed' = failed \cup {e}
      BY <1>1, <2>2, InputEnds
    <3>2. exitCode \in 0..10 /\ failed \subseteq 1..10
      BY DEF TypeOK
    <3>3. exitCode' \in {e, exitCode} /\ exitCode' >= e /\ exitCode' >= exitCode
      BY <2>2, <3>1, <3>2 DEF WorstCode
    <3>4. exitCode' \in failed'
      <4>1. CASE failed = {}
        BY <2>2, <3>1, <3>2, <4>1 DEF ExitCodeIsWorst, Success, WorstCode
      <4>2. CASE failed # {}
        BY <3>1, <3>3, <4>2 DEF ExitCodeIsWorst
      <4> QED
        BY <4>1, <4>2
    <3>5. \A code \in failed' : code <= exitCode'
      <4>1. \A code \in failed : code <= exitCode
        BY <3>2 DEF ExitCodeIsWorst
      <4> QED
        BY <2>2, <3>1, <3>2, <3>3, <4>1
    <3> QED
      BY <3>1, <3>4, <3>5 DEF ExitCodeIsWorst
  <2> QED
    BY <2>1, <2>2
<1>2. CASE Run
  BY <1>2 DEF Run, ExitCodeIsWorst
<1>3. CASE UNCHANGED <<exitCode, failed>>
  BY <1>3 DEF ExitCodeIsWorst
<1>4. CASE PlaylistFails
  BY <1>1, <1>4, BatchAssumption DEF PlaylistFails, BatchAssumption, Results
<1>5. CASE VideoReturns
  BY <1>1, <1>5 DEF VideoReturns, TypeOK
<1>6. CASE PlaylistReturns
  BY <1>1, <1>6 DEF PlaylistReturns, PlaylistResult, Results, Success, Generic
<1> QED
  BY <1>2, <1>3, <1>4, <1>5, <1>6 DEF Next, vars, TakeVideo, TakePlaylist, CheckArchive, Extract,
     SkipExisting, StartDownload, WriteInPlace, DownloadSucceeds, DownloadFails, RecordNothing,
     WriteLine, SyncLine, RecordFails, ItemReturns, Crash, TearLine, observers

\* The exit code is that of the worst failure of the run, and no other.
THEOREM WorstCodeWins == Spec => []ExitCodeIsWorst
<1>1. Init => ExitCodeIsWorst
  BY DEF Init, ExitCodeIsWorst
<1> QED
  BY <1>1, ExitStep, TypeCorrect, PTL DEF Spec

-----------------------------------------------------------------------------
(* Items and downloads are counted exactly *)

\* A playlist that is done has accounted for its items.
LEMMA AccountStep ==
  TypeOK /\ ItemInv /\ EveryItemAccounted /\ [Next]_vars => EveryItemAccounted'
<1> SUFFICES ASSUME TypeOK, ItemInv, EveryItemAccounted, [Next]_vars
             PROVE  EveryItemAccounted'
  OBVIOUS
<1>1. CASE UNCHANGED vars
  BY <1>1 DEF vars, command, position, EveryItemAccounted, Items
<1>2. CASE TakePlaylist
  <2>1. pc' = "playlistDone" => Items = << >>
    BY <1>2 DEF TakePlaylist
  <2>2. Items' = Items /\ summary' = NoSummary
    BY <1>2 DEF TakePlaylist, Items, command
  <2> QED
    BY <2>1, <2>2 DEF EveryItemAccounted, NoSummary
<1>3. CASE ItemReturns
  <2>1. Items' = Items /\ summary' = Tally /\ err' = err
    BY <1>3 DEF ItemReturns, Items, command
  <2>2. pc' = "playlistDone" => Tally.aborted \/ Remaining = 0
    BY <1>3 DEF ItemReturns
  <2>3. /\ Tally.succeeded \in Nat /\ Tally.failed \in Nat /\ Tally.skipped \in Nat
        /\ ~Tally.aborted =>
             Tally.skipped = 0 /\ Tally.succeeded + Tally.failed = item /\ err # Break
        /\ Tally.aborted =>
             Tally.skipped = Len(Items) - item
             /\ Tally.succeeded + Tally.failed = IF err = Break THEN item - 1 ELSE item
    BY <1>3, TallyEffect DEF ItemReturns, Summaries
  <2>4. Len(Items) \in Nat /\ item \in Nat \ {0} /\ item <= Len(Items) /\ Items # << >>
    BY <1>3, Inputs DEF ItemReturns, TypeOK, ItemInv, Working
  <2>5. CASE err = Break
    <3>1. Tally.succeeded + Tally.failed + Tally.skipped + 1 = Len(Items)
      BY <2>3, <2>4, <2>5
    <3> QED
      BY <2>1, <2>4, <2>5, <3>1 DEF EveryItemAccounted
  <2>6. CASE err # Break
    <3>1. pc' = "playlistDone" =>
            Tally.succeeded + Tally.failed + Tally.skipped + 0 = Len(Items)
      BY <2>2, <2>3, <2>4, <2>6 DEF Remaining
    <3> QED
      BY <2>1, <2>6, <3>1 DEF EveryItemAccounted
  <2> QED
    BY <2>5, <2>6
<1>4. CASE pc' # "playlistDone"
  BY <1>4 DEF EveryItemAccounted
<1>5. ASSUME NEW e \in Results, InputReturns(e)
      PROVE  pc' # "playlistDone"
  BY <1>5, InputEnds
<1>6. PlaylistFails \/ VideoReturns \/ PlaylistReturns => pc' # "playlistDone"
  BY <1>5, BatchAssumption
     DEF PlaylistFails, VideoReturns, PlaylistReturns, PlaylistResult, BatchAssumption, TypeOK,
         Results, Success, Generic
<1> QED
  BY <1>1, <1>2, <1>3, <1>4, <1>6 DEF Next, Run, TakeVideo, CheckArchive, Extract,
     SkipExisting, StartDownload, WriteInPlace, DownloadSucceeds, DownloadFails, RecordNothing,
     WriteLine, SyncLine, RecordFails, Crash, TearLine, Killed, Returns, Count

\* The count of downloads stays below the limit and the inputs so far.
LEMMA LimitStep == TypeOK /\ LimitInv /\ [Next]_vars => LimitInv'
<1> SUFFICES ASSUME TypeOK, LimitInv, [Next]_vars, opts.maxDownloads > 0
             PROVE  /\ count' < opts.maxDownloads + in'
                    /\ \/ pc' \in {"exited", "dead", "playlistDone"}
                       \/ pc' = "returned" /\ err' = MaxReached
                       \/ count' < opts.maxDownloads + in' - 1
  BY OptionsFixed DEF LimitInv
<1> DEFINE max == opts.maxDownloads
<1>a. /\ max \in Nat /\ max > 0 /\ count \in Nat /\ in \in Nat \ {0}
      /\ count < max + in
  BY OptionTypes, Inputs DEF TypeOK, LimitInv
<1>b. \/ pc \in {"exited", "dead", "playlistDone"}
      \/ pc = "returned" /\ err = MaxReached
      \/ count < max + in - 1
  BY DEF LimitInv
<1> DEFINE Below == count < max + in - 1
<1>c. MaxReached # Success /\ MaxReached # Generic /\ \A code \in ErrorCodes \cup (1..10) : code # MaxReached
  BY BatchAssumption DEF MaxReached, Success, Generic, BatchAssumption
<1> USE DEF position, observers
<1>1. CASE UNCHANGED vars
  BY <1>1, <1>a, <1>b DEF vars
<1>2. CASE Run
  <2>1. count' = 0 /\ in' = 1
    BY <1>2 DEF Run
  <2> QED
    BY <1>a, <2>1
<1>3. ASSUME NEW e \in Results, InputReturns(e), count' = count,
             pc # "playlistDone" => Below \/ e \in Cutoffs
      PROVE  /\ count' < max + in'
             /\ pc' = "exited" \/ count' < max + in' - 1
  <2>1. CASE pc' = "exited" /\ in' = in
    BY <1>a, <1>3, <2>1
  <2>2. CASE pc' = "input" /\ in' = in + 1
    BY <1>a, <1>3, <2>2
  <2> QED
    BY <1>3, <2>1, <2>2, InputEnds
<1>4. CASE PlaylistFails
  <2>1. Below /\ count' = count
    BY <1>4, <1>b DEF PlaylistFails
  <2>2. PICK code \in ErrorCodes : InputReturns(code)
    BY <1>4 DEF PlaylistFails
  <2> HIDE DEF Below
  <2>3. code \in Results
    BY BatchAssumption DEF BatchAssumption, Results
  <2> QED
    BY <1>3, <2>1, <2>2, <2>3
<1>5. CASE VideoReturns
  <2>1. InputReturns(err) /\ err \in Results /\ count' = count /\ pc = "returned"
    BY <1>5 DEF VideoReturns, TypeOK
  <2>2. Below \/ err \in Cutoffs
    BY <1>b, <2>1 DEF Cutoffs
  <2> HIDE DEF Below
  <2> QED
    BY <1>3, <2>1, <2>2
<1>6. CASE PlaylistReturns
  <2>1. pc = "playlistDone" /\ count' = count /\ InputReturns(PlaylistResult)
    BY <1>6 DEF PlaylistReturns
  <2>2. PlaylistResult \in Results
    BY DEF PlaylistResult, Results, Success, Generic
  <2> QED
    BY <1>3, <2>1, <2>2
<1>7. CASE RecordNothing \/ SyncLine
  <2>1. /\ Below /\ in' = in /\ count' = Counted(count)
        /\ pc' = "returned" /\ err' = Limit(Counted(count))
    BY <1>7, <1>b DEF RecordNothing, SyncLine, Count, Returns
  <2>2. Counted(count) = count + 1
    BY <1>a DEF Counted
  <2>3. err' # MaxReached => count + 1 < max
    BY <1>a, <2>1, <2>2 DEF Limit
  <2> QED
    BY <1>a, <2>1, <2>2, <2>3
<1>8. CASE ItemReturns
  <2>1. /\ count' = count /\ in' = in
        /\ pc' \in {"playlistDone", "archive?"}
        /\ pc' # "playlistDone" => ~Tally.aborted
    BY <1>8 DEF ItemReturns
  <2>2. err = MaxReached => Tally.aborted
    BY DEF Tally, Cutoffs
  <2>3. pc' # "playlistDone" => Below
    BY <1>8, <1>b, <2>1, <2>2 DEF ItemReturns
  <2> QED
    BY <1>a, <2>1, <2>3
<1>9. CASE UNCHANGED <<count, in>> /\ (Below \/ pc' \in {"exited", "dead", "playlistDone"})
  BY <1>9, <1>a
<1> QED
  <2>1. TakeVideo \/ TakePlaylist \/ CheckArchive \/ Extract \/ SkipExisting \/ StartDownload
        \/ WriteInPlace \/ DownloadSucceeds \/ DownloadFails \/ WriteLine \/ RecordFails \/ Crash \/ TearLine
        => UNCHANGED <<count, in>> /\ (Below \/ pc' \in {"exited", "dead", "playlistDone"})
    BY <1>b DEF TakeVideo, TakePlaylist, CheckArchive, Extract, SkipExisting, StartDownload,
                WriteInPlace, DownloadSucceeds, DownloadFails, WriteLine, RecordFails, Crash, Killed, TearLine
  <2> QED
    BY <1>1, <1>2, <1>4, <1>5, <1>6, <1>7, <1>8, <1>9, <2>1 DEF Next

\* A playlist accounts for each of its items, and an input goes past the limit
\* of downloads by one at the most.
THEOREM ExactCounts == Spec => []CountsAreExact
<1>1. Init => EveryItemAccounted /\ LimitInv
  BY OptionTypes, InitTypes DEF Init, EveryItemAccounted, LimitInv
<1>2. TypeOK /\ EveryItemAccounted /\ LimitInv => CountsAreExact
  BY DEF CountsAreExact, LimitInv, OverrunIsOnePerInput
<1> QED
  BY <1>1, <1>2, InitTypes, TypeStep, AccountStep, LimitStep, PTL DEF Spec

-----------------------------------------------------------------------------
(* Archived videos *)

\* A step keeps track of what is recorded.
LEMMA ArchiveStep == TypeOK /\ ArchiveInv /\ [Next]_vars => ArchiveInv'
<1> SUFFICES ASSUME TypeOK, ArchiveInv, [Next]_vars
             PROVE  ArchiveInv'
  OBVIOUS
<1>0. UNCHANGED opts
  BY OptionsFixed
<1> USE DEF command, disk, position, observers
<1>1. CASE UNCHANGED vars
  BY <1>1 DEF vars, ArchiveInv, Video, Items
<1>2. CASE Run
  BY <1>0, <1>2 DEF Run, ArchivedOnDisk, ArchiveInv
<1>3. CASE CheckArchive
  BY <1>0, <1>3 DEF CheckArchive, SkippedByArchive, Returns, ArchiveInv, Video, Items
<1>4. CASE Extract \/ StartDownload \/ WriteInPlace
  <2>1. /\ UNCHANGED <<lines, tail, ids, recorded, lost>> /\ Video' = Video
        /\ pc \in {"extract", "download", "transfer"} /\ pc' # "sync"
    BY <1>4 DEF Extract, StartDownload, WriteInPlace, Returns, Video, Items
  <2> QED
    BY <1>0, <2>1 DEF ArchiveInv
<1>5. CASE WriteLine
  <2>1. /\ UNCHANGED <<ids, recorded>> /\ Video' = Video /\ opts.archive /\ pc = "record"
        /\ pc' = "sync" /\ lines \subseteq lines' /\ lost \subseteq lost'
        /\ Video \in lines' \cup lost'
    BY <1>5 DEF WriteLine, AppendsLine, Video, Items
  <2> QED
    BY <1>0, <2>1 DEF ArchiveInv
<1>6. CASE SyncLine
  <2>1. /\ UNCHANGED <<lines, lost>> /\ pc = "sync" /\ pc' = "returned"
        /\ ids' = ids \cup {Video} /\ recorded' = recorded \cup {Video}
    BY <1>6 DEF SyncLine, Count, Returns
  <2>2. opts.archive
    BY <2>1 DEF ArchiveInv
  <2> QED
    BY <1>0, <2>1, <2>2 DEF ArchiveInv
<1>7. CASE /\ UNCHANGED <<lines, ids, recorded, lost>>
           /\ pc \notin {"exited", "dead"}
           /\ pc' \notin {"extract", "download", "transfer", "sync"}
  BY <1>0, <1>7 DEF ArchiveInv
<1>8. ASSUME NEW e \in Results, InputReturns(e)
      PROVE  pc' \notin {"extract", "download", "transfer", "sync"}
  BY <1>8, InputEnds
<1>9. PlaylistFails \/ VideoReturns \/ PlaylistReturns
      => /\ UNCHANGED <<lines, ids, recorded, lost>>
         /\ pc \notin {"exited", "dead"}
         /\ pc' \notin {"extract", "download", "transfer", "sync"}
  BY SMTT(30), <1>8, BatchAssumption
     DEF PlaylistFails, VideoReturns, PlaylistReturns, PlaylistResult, BatchAssumption, TypeOK,
         Results, Success, Generic
<1>10. TakeVideo \/ TakePlaylist \/ SkipExisting \/ DownloadSucceeds \/ DownloadFails
       \/ RecordNothing \/ RecordFails \/ ItemReturns \/ Crash \/ TearLine
       => /\ UNCHANGED <<lines, ids, recorded, lost>>
          /\ pc \notin {"exited", "dead"}
          /\ pc' \notin {"extract", "download", "transfer", "sync"}
  BY DEF TakeVideo, TakePlaylist, SkipExisting, DownloadSucceeds, DownloadFails, RecordNothing,
         RecordFails, ItemReturns, Crash, TearLine, Killed, Returns, Count
<1> QED
  BY <1>1, <1>2, <1>3, <1>4, <1>5, <1>6, <1>7, <1>9, <1>10 DEF Next

\* No video whose record was completed, and not lost to a line cut short before
\* it, is downloaded again, in this run or after any crash or restart.
THEOREM NoSecondDownload == Spec => []NeverDownloadedAgain
<1>1. Init => ArchiveInv
  BY DEF Init, ArchiveInv
<1>2. ArchiveInv => NeverDownloadedAgain
  BY DEF ArchiveInv, NeverDownloadedAgain
<1> QED
  BY <1>1, <1>2, TypeCorrect, ArchiveStep, PTL DEF Spec

\* A step leaves whole what is archived.
LEMMA OutputStep ==
  TypeOK /\ ItemInv /\ ArchiveInv /\ OutputInv /\ ArchivedIsWhole /\ [Next]_vars
    => OutputInv' /\ ArchivedIsWhole'
<1> SUFFICES ASSUME TypeOK, ItemInv, ArchiveInv, OutputInv, ArchivedIsWhole, [Next]_vars
             PROVE  OutputInv' /\ ArchivedIsWhole'
  OBVIOUS
<1> DEFINE Kept == recorded \ lost
<1>a. out \in [Videos -> {"none", "partial", "whole"}] /\ lines \subseteq Videos
      /\ recorded \subseteq Videos
  BY DEF TypeOK
<1>b. pc \in Working => Video \in Videos
  BY Inputs DEF ItemInv
<1>c. UNCHANGED <<opts, InPlace, MaySkip>>
  BY OptionsFixed
<1> USE DEF command, disk, position, observers
<1>1. CASE UNCHANGED vars
  BY <1>1, <1>c DEF vars, Video, Items, OutputInv, ArchivedIsWhole
<1>2. CASE /\ UNCHANGED <<lines, out>> /\ Kept' \subseteq Kept
           /\ pc' \notin {"record", "sync"}
  BY <1>2, <1>c DEF OutputInv, ArchivedIsWhole
<1>3. CASE Extract
  BY <1>3, <1>c DEF Extract, Returns, OutputInv, ArchivedIsWhole
<1>4. CASE SkipExisting
  <2>1. /\ UNCHANGED <<out, lines, recorded, lost>> /\ Video' = Video
        /\ out[Video] # "none" /\ Video \in Videos /\ MaySkip
    BY <1>4, <1>b DEF SkipExisting, Video, Items, Working, MaySkip
  <2> QED
    BY <1>a, <1>c, <2>1 DEF OutputInv, ArchivedIsWhole
<1>5. CASE StartDownload
  BY <1>5, <1>c DEF StartDownload, OutputInv, ArchivedIsWhole
<1>6. CASE WriteInPlace
  <2>1. /\ out' = [out EXCEPT ![Video] = "partial"] /\ UNCHANGED <<lines, recorded, lost>>
        /\ pc = "transfer" /\ pc' = "transfer" /\ InPlace /\ Video \in Videos
    BY <1>6, <1>b DEF WriteInPlace, Working
  <2>2. Video \notin Kept
    BY <2>1 DEF ArchiveInv
  <2> QED
    BY <1>a, <1>c, <2>1, <2>2 DEF OutputInv, ArchivedIsWhole
<1>7. CASE DownloadSucceeds
  <2>1. /\ out' = [out EXCEPT ![Video] = "whole"] /\ UNCHANGED <<lines, recorded, lost>>
        /\ Video' = Video /\ Video \in Videos
    BY <1>7, <1>b DEF DownloadSucceeds, Video, Items, Working
  <2> QED
    BY <1>a, <1>c, <2>1 DEF OutputInv, ArchivedIsWhole
<1>8. CASE WriteLine
  <2>1. /\ UNCHANGED <<out, recorded>> /\ Video' = Video /\ pc = "record" /\ pc' = "sync"
        /\ lines' \subseteq lines \cup {Video} /\ lost \subseteq lost'
    BY <1>8 DEF WriteLine, AppendsLine, Video, Items
  <2> QED
    BY <1>a, <1>c, <2>1 DEF OutputInv, ArchivedIsWhole
<1>9. CASE SyncLine
  <2>1. /\ UNCHANGED <<out, lines, lost>> /\ pc = "sync" /\ pc' = "returned"
        /\ recorded' = recorded \cup {Video}
    BY <1>9 DEF SyncLine, Count, Returns
  <2> QED
    BY <1>a, <1>c, <2>1 DEF OutputInv, ArchivedIsWhole
<1>10. ASSUME NEW e \in Results, InputReturns(e)
       PROVE  pc' \notin {"record", "sync"}
  BY <1>10, InputEnds
<1>11. PlaylistFails \/ VideoReturns \/ PlaylistReturns
       => UNCHANGED <<lines, out, recorded, lost>> /\ pc' \notin {"record", "sync"}
  BY SMTT(30), <1>10, BatchAssumption
     DEF PlaylistFails, VideoReturns, PlaylistReturns, PlaylistResult, BatchAssumption, TypeOK,
         Results, Success, Generic
<1>12. Run \/ TakeVideo \/ TakePlaylist \/ CheckArchive \/ DownloadFails \/ RecordNothing
       \/ RecordFails \/ ItemReturns \/ Crash \/ TearLine
       => UNCHANGED <<lines, out, recorded, lost>> /\ pc' \notin {"record", "sync"}
  BY DEF Run, TakeVideo, TakePlaylist, CheckArchive, DownloadFails, RecordNothing, RecordFails,
         ItemReturns, Crash, TearLine, Killed, Returns, Count
<1> QED
  BY <1>1, <1>2, <1>3, <1>4, <1>5, <1>6, <1>7, <1>8, <1>9, <1>11, <1>12 DEF Next

\* Whatever a downloading run has archived is there in full, where no output
\* is written in place; and where outputs are, whatever it has recorded and
\* not lost, if no existing file is taken for a completed download.
THEOREM ArchivedOutputs == Spec => []ArchivedIsWhole
<1>1. Init => ArchiveInv /\ OutputInv /\ ArchivedIsWhole
  BY DEF Init, ArchiveInv, OutputInv, ArchivedIsWhole
<1> QED
  BY <1>1, InitTypes, TypeStep, ArchiveStep, OutputStep, PTL DEF Spec

-----------------------------------------------------------------------------
(* The pages of a playlist *)

\* The loop's counts are those of its lists: a page that came has its videos
\* there, one that did not has its warning, and what is not asked for waits.
LoopInv ==
  phase \in {"loop", "listed"} =>
    /\ stats.requested = stats.succeeded + stats.failed
    /\ IsFiniteSet(DOMAIN served) /\ Cardinality(DOMAIN served) = stats.succeeded + 1
    /\ DOMAIN served \subseteq {FirstPage} \cup seen
    /\ Cardinality(Failures) = stats.failed
    /\ Named = seen \cup ToSet(pending)
    /\ \A token \in Tokens :
         Cardinality(Of(token, videos)) + Cardinality(Failures \cap Of(token, warnings))
           = IF token \in seen THEN 1 ELSE 0
    /\ \A i, j \in DOMAIN videos : videos[i] = videos[j] => i = j

\* The loop begins with nothing, and only its limit or an empty list ends it.
BoundsInv ==
  /\ phase = "page" => seen = {} /\ stats = NoStats /\ warnings = <<>> /\ served = <<>>
  /\ stats.stopped => phase = "listed" /\ stats.requested = MaxRequests
  /\ phase = "listed" /\ ~stats.stopped => pending = <<>>

PagesInv == ListTypeOK /\ LoopInv /\ BoundsInv

-----------------------------------------------------------------------------
(* Lists *)

Pages == {FirstPage} \cup Tokens
VideoType == Pages \X (Nat \ {0})
WarningType == Tokens \X {"max_requests_reached", "http_status_error", "request_error"}

\* A setting allows at least one request.
LEMMA SettingPositive ==
  ASSUME setting \in Settings
  PROVE  MaxRequests \in Nat \ {0}
BY PlaylistAssumption DEF PlaylistAssumption, MaxRequests

\* Sets of places are finite.
LEMMA PlacesFinite ==
  ASSUME NEW n \in Nat, NEW I \in SUBSET (1..n)
  PROVE  IsFiniteSet(I) /\ Cardinality(I) \in Nat
<1>1. IsFiniteSet(1..n)
  BY FS_Interval
<1> QED
  BY <1>1, FS_Subset, FS_CardinalityType

\* A set in any order is a list of its elements, each of them once.
LEMMA OrderOfSet ==
  ASSUME NEW S, IsFiniteSet(S), NEW s \in SetToSeqs(S)
  PROVE  /\ s \in Seq(S) /\ Len(s) = Cardinality(S) /\ ToSet(s) = S
         /\ \A i, j \in DOMAIN s : s[i] = s[j] => i = j
<1> DEFINE c == Cardinality(S)
<1>1. c \in Nat /\ IsFiniteSet(1..c) /\ Cardinality(1..c) = c
  BY FS_CardinalityType, FS_Interval
<1>2. s \in [1..c -> S] /\ \A i, j \in 1..c : s[i] = s[j] => i = j
  BY DEF SetToSeqs
<1> HIDE DEF c
<1>3. s \in Seq(S) /\ Len(s) = c /\ DOMAIN s = 1..c
  BY <1>1, <1>2
<1>4. s \in Injection(1..c, S)
  BY <1>2, <1>3 DEF Injection, IsInjective
<1>5. s \in Surjection(1..c, S)
  BY <1>1, <1>4, FS_Injection DEF c
<1>6. ToSet(s) = S
  BY <1>2, <1>3, <1>5 DEF Surjection, ToSet
<1> QED
  BY <1>2, <1>3, <1>6 DEF c

\* The places of a token in a list that grows.
LEMMA OfAppend ==
  ASSUME NEW T, NEW list \in Seq(T), NEW x \in T, NEW token
  PROVE  /\ Of(token, list) \in SUBSET (1..Len(list)) /\ IsFiniteSet(Of(token, list))
         /\ Of(token, Append(list, x)) =
              Of(token, list) \cup (IF x[1] = token THEN {Len(list) + 1} ELSE {})
<1> DEFINE n == Len(list)
           longer == Append(list, x)
<1>1. n \in Nat /\ DOMAIN list = 1..n /\ longer \in Seq(T) /\ Len(longer) = n + 1
      /\ (\A i \in 1..n : longer[i] = list[i]) /\ longer[n + 1] = x
  BY LenProperties, AppendProperties
<1>2. DOMAIN longer = 1..(n + 1)
  BY <1>1, LenProperties
<1> HIDE DEF n, longer
<1>3. Of(token, list) \in SUBSET (1..n)
  BY <1>1 DEF Of
<1>4. IsFiniteSet(Of(token, list))
  BY <1>1, <1>3, PlacesFinite
<1>5. Of(token, longer) = Of(token, list) \cup (IF x[1] = token THEN {n + 1} ELSE {})
  BY <1>1, <1>2 DEF Of
<1> QED
  BY <1>3, <1>4, <1>5 DEF n, longer

\* The warnings about a failed page, when one is added.
LEMMA FailuresAppend ==
  ASSUME warnings \in Seq(WarningType), NEW w \in WarningType, warnings' = Append(warnings, w)
  PROVE  /\ Failures \in SUBSET (1..Len(warnings)) /\ IsFiniteSet(Failures)
         /\ Failures' =
              Failures \cup (IF w[2] # "max_requests_reached" THEN {Len(warnings) + 1} ELSE {})
<1> DEFINE n == Len(warnings)
<1>1. n \in Nat /\ DOMAIN warnings = 1..n /\ warnings' \in Seq(WarningType)
      /\ Len(warnings') = n + 1
      /\ (\A i \in 1..n : warnings'[i] = warnings[i]) /\ warnings'[n + 1] = w
  BY LenProperties, AppendProperties
<1>2. DOMAIN warnings' = 1..(n + 1)
  BY <1>1, LenProperties
<1> HIDE DEF n
<1>3. Failures \in SUBSET (1..n)
  BY <1>1 DEF Failures
<1>4. IsFiniteSet(Failures)
  BY <1>1, <1>3, PlacesFinite
<1>5. Failures' = Failures \cup (IF w[2] # "max_requests_reached" THEN {n + 1} ELSE {})
  BY <1>1, <1>2 DEF Failures
<1> QED
  BY <1>3, <1>4, <1>5 DEF n

\* The head of a list and the rest of it.
LEMMA HeadAndTail ==
  ASSUME NEW T, NEW s \in Seq(T), s # <<>>
  PROVE  /\ Head(s) \in T /\ Tail(s) \in Seq(T)
         /\ ToSet(s) = {Head(s)} \cup ToSet(Tail(s))
<1> DEFINE n == Len(Tail(s))
           rest == Tail(s)
<1>1. Head(s) \in T /\ rest \in Seq(T) /\ n = Len(s) - 1 /\ n \in Nat
      /\ \A i \in 1..n : rest[i] = s[i + 1]
  BY HeadTailProperties, LenProperties
<1>2. DOMAIN s = 1..(n + 1) /\ DOMAIN rest = 1..n /\ Head(s) = s[1]
  BY <1>1, LenProperties, EmptySeq
<1> HIDE DEF n, rest
<1>3. \A i \in 1..(n + 1) : i = 1 \/ i - 1 \in 1..n
  BY <1>1
<1>4. \A x : x \in ToSet(s) <=> \E i \in 1..(n + 1) : x = s[i]
  BY <1>2 DEF ToSet
<1>5. \A x : x \in ToSet(rest) <=> \E i \in 1..n : x = rest[i]
  BY <1>2 DEF ToSet
<1>6. ASSUME NEW x \in ToSet(s)
      PROVE  x = Head(s) \/ x \in ToSet(rest)
  <2>1. PICK i \in 1..(n + 1) : x = s[i]
    BY <1>4
  <2>2. i - 1 \in 1..n => rest[i - 1] = s[i]
    BY <1>1
  <2> QED
    BY <1>2, <1>3, <1>5, <2>1, <2>2
<1>7. ASSUME NEW x \in ToSet(rest)
      PROVE  x \in ToSet(s)
  <2>1. PICK i \in 1..n : x = rest[i]
    BY <1>5
  <2>2. i + 1 \in 1..(n + 1) /\ x = s[i + 1]
    BY <1>1, <2>1
  <2> QED
    BY <1>4, <2>2
<1>8. Head(s) \in ToSet(s)
  BY <1>1, <1>2, <1>4
<1>9. ToSet(s) = {Head(s)} \cup ToSet(rest)
  BY <1>6, <1>7, <1>8
<1> QED
  BY <1>1, <1>9 DEF rest

\* What is in a list that is put together.
LEMMA ToSetConcat ==
  ASSUME NEW T, NEW s \in Seq(T), NEW t \in Seq(T)
  PROVE  s \o t \in Seq(T) /\ ToSet(s \o t) = ToSet(s) \cup ToSet(t)
<1> DEFINE n == Len(s)
           m == Len(t)
           both == s \o t
<1>1. /\ n \in Nat /\ m \in Nat /\ DOMAIN s = 1..n /\ DOMAIN t = 1..m
      /\ both \in Seq(T) /\ DOMAIN both = 1..(n + m)
      /\ \A i \in 1..(n + m) : both[i] = IF i <= n THEN s[i] ELSE t[i - n]
  <2>1. Len(both) = n + m
    BY ConcatProperties
  <2> QED
    BY <2>1, ConcatProperties, LenProperties
<1> HIDE DEF n, m, both
<1>2. \A i \in 1..(n + m) : i \in 1..n \/ (i - n \in 1..m /\ ~ (i <= n))
  BY <1>1
<1>3. \A i \in 1..n : i \in 1..(n + m) /\ i <= n
  BY <1>1
<1>4. \A i \in 1..m : i + n \in 1..(n + m) /\ ~ (i + n <= n) /\ (i + n) - n = i
  BY <1>1
<1>8. /\ \A x : x \in ToSet(s) <=> \E i \in 1..n : x = s[i]
      /\ \A x : x \in ToSet(t) <=> \E i \in 1..m : x = t[i]
      /\ \A x : x \in ToSet(both) <=> \E i \in 1..(n + m) : x = both[i]
  BY <1>1 DEF ToSet
<1>5. ToSet(both) \subseteq ToSet(s) \cup ToSet(t)
  BY <1>1, <1>2, <1>8
<1>6. ToSet(s) \subseteq ToSet(both)
  BY <1>1, <1>3, <1>8
<1>7. ASSUME NEW x \in ToSet(t)
      PROVE  x \in ToSet(both)
  <2>1. PICK i \in 1..m : x = t[i]
    BY <1>8
  <2>2. both[i + n] = t[i] /\ i + n \in 1..(n + m)
    BY <1>1, <1>4
  <2> QED
    BY <1>8, <2>1, <2>2
<1> QED
  BY <1>1, <1>5, <1>6, <1>7 DEF both

-----------------------------------------------------------------------------
(* The steps of the loop *)

\* What asking for a page does to the counts and to what has been asked for.
LEMMA AskEffect ==
  ASSUME PagesInv, NEW outcome \in {"succeeded", "failed"}, Ask(outcome)
  PROVE  /\ phase = "loop" /\ Head(pending) \in Tokens /\ Head(pending) \notin seen
         /\ Head(pending) # FirstPage
         /\ Tail(pending) \in Seq(Tokens)
         /\ ToSet(pending) = {Head(pending)} \cup ToSet(Tail(pending))
         /\ seen' = seen \cup {Head(pending)}
         /\ stats' \in [requested : Nat, succeeded : Nat, failed : Nat, stopped : BOOLEAN]
         /\ stats'.requested = stats.requested + 1
         /\ outcome = "succeeded" =>
              stats'.succeeded = stats.succeeded + 1 /\ stats'.failed = stats.failed
         /\ outcome = "failed" =>
              stats'.failed = stats.failed + 1 /\ stats'.succeeded = stats.succeeded
         /\ stats'.requested <= MaxRequests /\ stats'.requested = stats'.succeeded + stats'.failed
         /\ stats'.stopped = stats.stopped /\ ~stats.stopped
<1>1. phase = "loop" /\ pending # <<>> /\ Head(pending) \notin seen
      /\ stats.requested < MaxRequests /\ seen' = seen \cup {Head(pending)}
  BY DEF Ask, MoreToAsk
<1>2. pending \in Seq(Tokens) /\ ~stats.stopped /\ setting \in Settings
      /\ stats.requested = stats.succeeded + stats.failed
  BY <1>1 DEF PagesInv, ListTypeOK, LoopInv, BoundsInv
<1>3. Head(pending) \in Tokens /\ Tail(pending) \in Seq(Tokens)
      /\ ToSet(pending) = {Head(pending)} \cup ToSet(Tail(pending))
  BY <1>1, <1>2, HeadAndTail
<1>4. Head(pending) # FirstPage
  BY <1>3, PlaylistAssumption DEF PlaylistAssumption
<1>5. MaxRequests \in Nat
  BY <1>2, SettingPositive
<1>6. stats \in [requested : Nat, succeeded : Nat, failed : Nat, stopped : BOOLEAN]
  BY <1>5 DEF PagesInv, ListTypeOK
<1>7. stats' = [stats EXCEPT !.requested = @ + 1, ![outcome] = @ + 1]
  BY DEF Ask
<1>8. /\ stats' \in [requested : Nat, succeeded : Nat, failed : Nat, stopped : BOOLEAN]
      /\ stats'.requested = stats.requested + 1
      /\ outcome = "succeeded" =>
           stats'.succeeded = stats.succeeded + 1 /\ stats'.failed = stats.failed
      /\ outcome = "failed" =>
           stats'.failed = stats.failed + 1 /\ stats'.succeeded = stats.succeeded
      /\ stats'.stopped = stats.stopped
  <2>1. CASE outcome = "succeeded"
    <3> DEFINE q == stats.requested
               a == stats.succeeded
               b == stats.failed
    <3>1. stats' = [stats EXCEPT !.requested = q + 1, !.succeeded = a + 1]
      BY <1>6, <1>7, <2>1
    <3>2. q \in Nat /\ a \in Nat /\ b \in Nat /\ stats.stopped \in BOOLEAN
      BY <1>6
    <3>3. stats = [requested |-> q, succeeded |-> a, failed |-> b, stopped |-> stats.stopped]
      BY <1>6
    <3>4. stats' = [requested |-> q + 1, succeeded |-> a + 1, failed |-> b,
                    stopped |-> stats.stopped]
      BY <3>1, <3>3
    <3> HIDE DEF q, a, b
    <3>5. stats' \in [requested : Nat, succeeded : Nat, failed : Nat, stopped : BOOLEAN]
      BY <3>2, <3>4
    <3>6. /\ stats'.requested = q + 1 /\ stats'.succeeded = a + 1
          /\ stats'.failed = b /\ stats'.stopped = stats.stopped
      BY <3>4
    <3> QED
      BY <2>1, <3>2, <3>5, <3>6 DEF q, a, b
  <2>2. CASE outcome = "failed"
    <3> DEFINE q == stats.requested
               a == stats.succeeded
               b == stats.failed
    <3>1. stats' = [stats EXCEPT !.requested = q + 1, !.failed = b + 1]
      BY <1>6, <1>7, <2>2
    <3>2. q \in Nat /\ a \in Nat /\ b \in Nat /\ stats.stopped \in BOOLEAN
      BY <1>6
    <3>3. stats = [requested |-> q, succeeded |-> a, failed |-> b, stopped |-> stats.stopped]
      BY <1>6
    <3>4. stats' = [requested |-> q + 1, succeeded |-> a, failed |-> b + 1,
                    stopped |-> stats.stopped]
      BY <3>1, <3>3
    <3> HIDE DEF q, a, b
    <3>5. stats' \in [requested : Nat, succeeded : Nat, failed : Nat, stopped : BOOLEAN]
      BY <3>2, <3>4
    <3>6. /\ stats'.requested = q + 1 /\ stats'.succeeded = a
          /\ stats'.failed = b + 1 /\ stats'.stopped = stats.stopped
      BY <3>4
    <3> QED
      BY <2>2, <3>2, <3>5, <3>6 DEF q, a, b
  <2> QED
    BY <2>1, <2>2
<1>9. stats'.requested <= MaxRequests /\ stats'.requested = stats'.succeeded + stats'.failed
  BY <1>1, <1>2, <1>5, <1>6, <1>8
<1> QED
  BY <1>1, <1>2, <1>3, <1>4, <1>8, <1>9

\* The statistics keep their type.
LEMMA AskTypes ==
  ASSUME PagesInv, NEW outcome \in {"succeeded", "failed"}, Ask(outcome), setting' = setting
  PROVE  /\ MaxRequests' = MaxRequests /\ MaxRequests \in Nat
         /\ stats' \in [requested : 0..MaxRequests, succeeded : 0..MaxRequests,
                        failed : 0..MaxRequests, stopped : BOOLEAN]
<1>1. MaxRequests' = MaxRequests /\ MaxRequests \in Nat
  BY SettingPositive DEF MaxRequests, PagesInv, ListTypeOK
<1>2. /\ stats' \in [requested : Nat, succeeded : Nat, failed : Nat, stopped : BOOLEAN]
      /\ stats'.requested <= MaxRequests /\ stats'.requested = stats'.succeeded + stats'.failed
  BY AskEffect
<1> QED
  BY <1>1, <1>2

\* A page that does not come leaves a warning.
LEMMA FailKeeps ==
  ASSUME PagesInv, BrowseFails
  PROVE  PagesInv'
<1> DEFINE t == Head(pending)
           n == Len(warnings)
<1>1. /\ phase = "loop" /\ t \in Tokens /\ t \notin seen /\ t # FirstPage
      /\ Tail(pending) \in Seq(Tokens) /\ ToSet(pending) = {t} \cup ToSet(Tail(pending))
      /\ seen' = seen \cup {t}
      /\ stats'.succeeded = stats.succeeded /\ stats'.failed = stats.failed + 1
      /\ stats'.requested = stats'.succeeded + stats'.failed
      /\ ~stats'.stopped
  <2>1. Ask("failed")
    BY DEF BrowseFails
  <2> QED
    BY <2>1, AskEffect
<1>2. /\ UNCHANGED <<phase, setting, expired, videos, request, chosen, served>>
      /\ pending' = Tail(pending)
  BY DEF BrowseFails
<1>3. PICK reason \in {"http_status_error", "request_error"} :
        warnings' = Append(warnings, <<t, reason>>)
  BY DEF BrowseFails
<1>4. <<t, reason>> \in WarningType /\ <<t, reason>>[1] = t /\ <<t, reason>>[2] = reason
      /\ reason # "max_requests_reached"
  BY <1>1 DEF WarningType
<1>5. warnings \in Seq(WarningType) /\ seen \subseteq Tokens
      /\ DOMAIN served \subseteq {FirstPage} \cup seen
      /\ n \in Nat /\ stats.failed \in Nat
  <2>1. MaxRequests \in Nat
    BY SettingPositive DEF PagesInv, ListTypeOK
  <2> QED
    BY <1>1, <2>1, LenProperties DEF PagesInv, ListTypeOK, LoopInv, WarningType
<1> HIDE DEF t
<1>6. /\ Failures \in SUBSET (1..n) /\ IsFiniteSet(Failures)
      /\ Failures' = Failures \cup {n + 1}
  BY <1>3, <1>4, <1>5, FailuresAppend
<1>7. \A token : /\ Of(token, warnings) \in SUBSET (1..n) /\ IsFiniteSet(Of(token, warnings))
                 /\ Of(token, warnings') =
                      Of(token, warnings) \cup (IF token = t THEN {n + 1} ELSE {})
  BY <1>3, <1>4, <1>5, OfAppend
<1> HIDE DEF n
<1>8. n + 1 \notin Failures /\ \A token : n + 1 \notin Of(token, warnings)
  BY <1>5, <1>6, <1>7
<1>9. ListTypeOK'
  <2>1. warnings' \in Seq(WarningType)
    BY <1>3, <1>4, <1>5, AppendProperties
  <2>2. /\ MaxRequests' = MaxRequests
        /\ stats' \in [requested : 0..MaxRequests, succeeded : 0..MaxRequests,
                       failed : 0..MaxRequests, stopped : BOOLEAN]
    BY <1>2, AskTypes DEF BrowseFails
  <2> QED
    BY <1>1, <1>2, <2>1, <2>2 DEF PagesInv, ListTypeOK, WarningType
<1>10. Cardinality(Failures') = stats'.failed
  <2>1. Cardinality(Failures) = stats.failed
    BY <1>1 DEF PagesInv, LoopInv
  <2>2. Cardinality(Failures \cup {n + 1}) = Cardinality(Failures) + 1
    BY <1>6, <1>8, FS_AddElement
  <2> QED
    BY <1>1, <1>6, <2>1, <2>2
<1>11. Named' = seen' \cup ToSet(pending')
  <2>1. Named' = Named
    BY <1>2 DEF Named
  <2>2. Named = seen \cup ToSet(pending)
    BY <1>1 DEF PagesInv, LoopInv
  <2> QED
    BY <1>1, <1>2, <2>1, <2>2
<1>12. ASSUME NEW token \in Tokens
       PROVE  Cardinality(Of(token, videos')) + Cardinality(Failures' \cap Of(token, warnings'))
                = IF token \in seen' THEN 1 ELSE 0
  <2> DEFINE V == Cardinality(Of(token, videos))
             F == Failures \cap Of(token, warnings)
  <2>1. V + Cardinality(F) = IF token \in seen THEN 1 ELSE 0
    BY <1>1 DEF PagesInv, LoopInv
  <2>2. Of(token, videos') = Of(token, videos)
    BY <1>2 DEF Of
  <2>3. V \in Nat /\ IsFiniteSet(F) /\ Cardinality(F) \in Nat
    <3>1. IsFiniteSet(Of(token, videos))
      <4>1. videos \in Seq(VideoType)
        BY DEF PagesInv, ListTypeOK, VideoType, Pages
      <4>2. Len(videos) \in Nat /\ Of(token, videos) \in SUBSET (1..Len(videos))
        BY <4>1, LenProperties DEF Of
      <4> QED
        BY <4>2, PlacesFinite
    <3>2. IsFiniteSet(F)
      BY <1>6, FS_Intersection
    <3> QED
      BY <3>1, <3>2, FS_CardinalityType
  <2>4. CASE token = t
    <3>1. Failures' \cap Of(token, warnings') = F \cup {n + 1}
      BY <1>6, <1>7, <2>4
    <3>2. n + 1 \notin F
      BY <1>8
    <3>3. Cardinality(F \cup {n + 1}) = Cardinality(F) + 1
      BY <2>3, <3>2, FS_AddElement
    <3>4. Cardinality(Of(token, videos')) = V
      BY <2>2
    <3>5. V + Cardinality(F) = 0 /\ token \in seen'
      BY <1>1, <2>1, <2>4
    <3>6. Cardinality(Failures' \cap Of(token, warnings')) = Cardinality(F) + 1
      BY <3>1, <3>3
    <3> HIDE DEF F, V
    <3>7. V + (Cardinality(F) + 1) = 1
      BY <2>3, <3>5
    <3> QED
      BY <3>4, <3>5, <3>6, <3>7
  <2>5. CASE token # t
    <3>1. Failures' \cap Of(token, warnings') = F
      BY <1>6, <1>7, <1>8, <2>5
    <3> QED
      BY <1>1, <2>1, <2>2, <2>5, <3>1
  <2> QED
    BY <2>4, <2>5
<1>13. LoopInv'
  <2>1. /\ IsFiniteSet(DOMAIN served) /\ Cardinality(DOMAIN served) = stats.succeeded + 1
        /\ \A i, j \in DOMAIN videos : videos[i] = videos[j] => i = j
    BY <1>1 DEF PagesInv, LoopInv
  <2> QED
    BY <1>1, <1>2, <1>5, <1>10, <1>11, <1>12, <2>1 DEF LoopInv
<1>14. BoundsInv'
  BY <1>1, <1>2 DEF BoundsInv
<1> QED
  BY <1>9, <1>13, <1>14 DEF PagesInv

\* A page that comes leaves its videos and its tokens.
LEMMA SucceedKeeps ==
  ASSUME PagesInv, BrowseSucceeds
  PROVE  PagesInv'
<1> DEFINE t == Head(pending)
           n == Len(videos)
<1>1. /\ phase = "loop" /\ t \in Tokens /\ t \notin seen /\ t # FirstPage
      /\ Tail(pending) \in Seq(Tokens) /\ ToSet(pending) = {t} \cup ToSet(Tail(pending))
      /\ seen' = seen \cup {t}
      /\ stats'.succeeded = stats.succeeded + 1 /\ stats'.failed = stats.failed
      /\ stats'.requested = stats'.succeeded + stats'.failed
      /\ ~stats'.stopped
  <2>1. Ask("succeeded")
    BY DEF BrowseSucceeds
  <2> QED
    BY <2>1, AskEffect
<1>2. UNCHANGED <<phase, setting, expired, warnings, request, chosen>>
  BY DEF BrowseSucceeds
<1>3. PICK next \in NextTokens :
        /\ videos' = Append(videos, <<t, 1>>)
        /\ \E fresh \in SetToSeqs(next \ seen') : pending' = Tail(pending) \o fresh
        /\ served' = [page \in DOMAIN served \cup {t} |->
                        IF page = t THEN next ELSE served[page]]
  BY DEF BrowseSucceeds
<1>4. PICK fresh \in SetToSeqs(next \ seen') : pending' = Tail(pending) \o fresh
  BY <1>3
<1>5. next \subseteq Tokens /\ IsFiniteSet(next)
  BY PlaylistAssumption DEF PlaylistAssumption
<1>6. videos \in Seq(VideoType) /\ seen \subseteq Tokens /\ n \in Nat
      /\ IsFiniteSet(DOMAIN served) /\ Cardinality(DOMAIN served) = stats.succeeded + 1
      /\ DOMAIN served \subseteq {FirstPage} \cup seen
      /\ \A page \in DOMAIN served : served[page] \subseteq Tokens
  BY <1>1, LenProperties DEF PagesInv, ListTypeOK, LoopInv, VideoType, Pages
<1>7. <<t, 1>> \in VideoType /\ <<t, 1>>[1] = t
  BY <1>1 DEF VideoType, Pages
<1> HIDE DEF t
<1>8. pending' \in Seq(Tokens) /\ ToSet(pending') = ToSet(Tail(pending)) \cup (next \ seen')
  <2>1. IsFiniteSet(next \ seen')
    BY <1>5, FS_Difference
  <2>2. fresh \in Seq(next \ seen') /\ ToSet(fresh) = next \ seen'
    BY <1>4, <2>1, OrderOfSet
  <2>3. fresh \in Seq(Tokens)
    BY <1>5, <2>2, LenProperties
  <2> DEFINE rest == Tail(pending)
  <2>4. rest \in Seq(Tokens)
    BY <1>1
  <2> HIDE DEF rest
  <2>5. rest \o fresh \in Seq(Tokens) /\ ToSet(rest \o fresh) = ToSet(rest) \cup ToSet(fresh)
    BY <2>3, <2>4, ToSetConcat
  <2> QED
    BY <1>4, <2>2, <2>5 DEF rest
<1>9. \A token : /\ Of(token, videos) \in SUBSET (1..n) /\ IsFiniteSet(Of(token, videos))
                 /\ Of(token, videos') =
                      Of(token, videos) \cup (IF token = t THEN {n + 1} ELSE {})
  BY <1>3, <1>6, <1>7, OfAppend
<1>10. /\ videos' \in Seq(VideoType) /\ DOMAIN videos = 1..n /\ DOMAIN videos' = 1..(n + 1)
       /\ \A i \in 1..n : videos'[i] = videos[i]
       /\ videos'[n + 1] = <<t, 1>>
  <2>1. Len(videos') = n + 1 /\ videos' \in Seq(VideoType)
    BY <1>3, <1>6, <1>7, AppendProperties
  <2> QED
    BY <1>3, <1>6, <1>7, <2>1, AppendProperties, LenProperties
<1> HIDE DEF n
<1>11. \A token : n + 1 \notin Of(token, videos)
  BY <1>6, <1>9
<1>12. t \notin DOMAIN served /\ DOMAIN served' = DOMAIN served \cup {t}
       /\ served'[t] = next /\ \A page \in DOMAIN served : served'[page] = served[page]
  BY <1>1, <1>3, <1>6
<1>13. ListTypeOK'
  <2>1. /\ MaxRequests' = MaxRequests
        /\ stats' \in [requested : 0..MaxRequests, succeeded : 0..MaxRequests,
                       failed : 0..MaxRequests, stopped : BOOLEAN]
    BY <1>2, AskTypes DEF BrowseSucceeds
  <2>2. DOMAIN served' \subseteq Pages /\ \A page \in DOMAIN served' : served'[page] \subseteq Tokens
    BY <1>1, <1>5, <1>6, <1>12 DEF Pages
  <2> QED
    BY <1>1, <1>2, <1>8, <1>10, <2>1, <2>2 DEF PagesInv, ListTypeOK, VideoType, Pages
<1>14. Named' = seen' \cup ToSet(pending')
  <2>1. Named' = Named \cup next
    BY <1>12 DEF Named
  <2>2. Named = seen \cup ToSet(pending)
    BY <1>1 DEF PagesInv, LoopInv
  <2> QED
    BY <1>1, <1>8, <2>1, <2>2
<1>15. ASSUME NEW token \in Tokens
       PROVE  Cardinality(Of(token, videos')) + Cardinality(Failures' \cap Of(token, warnings'))
                = IF token \in seen' THEN 1 ELSE 0
  <2> DEFINE V == Of(token, videos)
             F == Cardinality(Failures \cap Of(token, warnings))
  <2>1. Cardinality(V) + F = IF token \in seen THEN 1 ELSE 0
    BY <1>1 DEF PagesInv, LoopInv
  <2>2. Cardinality(Failures' \cap Of(token, warnings')) = F
    BY <1>2 DEF Failures, Of
  <2>3. IsFiniteSet(V) /\ Cardinality(V) \in Nat /\ F \in Nat
    <3>1. IsFiniteSet(V)
      BY <1>9
    <3>2. Len(warnings) \in Nat /\ Failures \cap Of(token, warnings) \in SUBSET (1..Len(warnings))
      BY LenProperties DEF PagesInv, ListTypeOK, Failures
    <3>3. F \in Nat
      BY <3>2, PlacesFinite
    <3> QED
      BY <3>1, <3>3, FS_CardinalityType
  <2>4. CASE token = t
    <3>1. Of(token, videos') = V \cup {n + 1} /\ n + 1 \notin V
      BY <1>9, <1>11, <2>4
    <3>2. Cardinality(V \cup {n + 1}) = Cardinality(V) + 1
      BY <2>3, <3>1, FS_AddElement
    <3> HIDE DEF V, F
    <3> QED
      BY <1>1, <2>1, <2>2, <2>3, <2>4, <3>1, <3>2
  <2>5. CASE token # t
    <3>1. Of(token, videos') = V
      BY <1>9, <2>5
    <3> QED
      BY <1>1, <2>1, <2>2, <2>5, <3>1
  <2> QED
    BY <2>4, <2>5
<1>16. ASSUME NEW i \in DOMAIN videos', NEW j \in DOMAIN videos', videos'[i] = videos'[j]
       PROVE  i = j
  <2>1. \A k \in 1..n : videos[k][1] # t
    <3>1. Of(t, videos) = {}
      <4> DEFINE V == Of(t, videos)
                 F == Cardinality(Failures \cap Of(t, warnings))
      <4>1. Cardinality(V) + F = 0
        BY <1>1 DEF PagesInv, LoopInv
      <4>2. IsFiniteSet(V) /\ Cardinality(V) \in Nat
        BY <1>9, FS_CardinalityType
      <4>3. F \in Nat
        <5>1. Len(warnings) \in Nat
              /\ Failures \cap Of(t, warnings) \in SUBSET (1..Len(warnings))
          BY LenProperties DEF PagesInv, ListTypeOK, Failures
        <5> QED
          BY <5>1, PlacesFinite
      <4> HIDE DEF V, F
      <4>4. Cardinality(V) = 0
        BY <4>1, <4>2, <4>3
      <4> QED
        BY <4>2, <4>4, FS_EmptySet DEF V
    <3> QED
      BY <1>10, <3>1 DEF Of
  <2>2. \A k, m \in 1..n : videos[k] = videos[m] => k = m
    BY <1>1, <1>10 DEF PagesInv, LoopInv
  <2>3. \A k \in 1..(n + 1) : k \in 1..n \/ k = n + 1
    BY <1>6
  <2>4. \A k \in 1..n : videos'[k] # <<t, 1>>
    BY <1>7, <1>10, <2>1
  <2> QED
    BY <1>10, <1>16, <2>2, <2>3, <2>4
<1>17. IsFiniteSet(DOMAIN served') /\ Cardinality(DOMAIN served') = stats'.succeeded + 1
       /\ DOMAIN served' \subseteq {FirstPage} \cup seen'
  <2>1. stats.succeeded \in Nat
    <3>1. MaxRequests \in Nat
      BY SettingPositive DEF PagesInv, ListTypeOK
    <3> QED
      BY <3>1 DEF PagesInv, ListTypeOK
  <2> QED
    BY <1>1, <1>6, <1>12, <2>1, FS_AddElement
<1>18. LoopInv'
  <2>1. Cardinality(Failures') = stats'.failed
    BY <1>1, <1>2 DEF Failures, PagesInv, LoopInv
  <2> QED
    BY <1>1, <1>2, <1>14, <1>15, <1>16, <1>17, <2>1 DEF LoopInv
<1>19. BoundsInv'
  BY <1>1, <1>2 DEF BoundsInv
<1> QED
  BY <1>13, <1>18, <1>19 DEF PagesInv

LEMMA InitPages == ListInit => PagesInv
<1> SUFFICES ASSUME ListInit PROVE PagesInv
  OBVIOUS
<1>1. MaxRequests \in Nat
  BY SettingPositive DEF ListInit
<1>2. ListTypeOK
  <2>1. stats \in [requested : 0..MaxRequests, succeeded : 0..MaxRequests,
                   failed : 0..MaxRequests, stopped : BOOLEAN]
    BY <1>1 DEF ListInit, NoStats
  <2>2. \A T : <<>> \in Seq(T)
    BY EmptySeq
  <2>3. pending \in Seq(Tokens) /\ seen \subseteq Tokens
    BY <2>2 DEF ListInit
  <2>4. DOMAIN served = {}
    BY DEF ListInit
  <2>5. warnings \in Seq(WarningType) /\ videos \in Seq(VideoType)
        /\ chosen \in Seq([video : VideoType, index : Nat \ {0}])
    BY <2>2 DEF ListInit
  <2>6. phase = "page" /\ setting \in Settings /\ expired \in BOOLEAN /\ request = Open
    BY DEF ListInit
  <2> QED
    BY <2>1, <2>3, <2>4, <2>5, <2>6 DEF ListTypeOK, WarningType, VideoType, Pages
<1>3. LoopInv
  BY DEF ListInit, LoopInv
<1>4. BoundsInv
  BY DEF ListInit, BoundsInv, NoStats
<1> QED
  BY <1>2, <1>3, <1>4 DEF PagesInv

\* The playlist's own page: its videos, and its tokens in some order.
LEMMA PageKeeps ==
  ASSUME PagesInv, PageArrives
  PROVE  PagesInv'
<1>1. PICK size \in FirstSizes, next \in NextTokens :
        /\ videos' = [i \in 1..size |-> <<FirstPage, i>>]
        /\ pending' \in SetToSeqs(next)
        /\ served' = [page \in {FirstPage} |-> next]
  BY DEF PageArrives
<1>2. /\ phase = "page" /\ phase' = "loop"
      /\ UNCHANGED <<setting, expired, seen, stats, warnings, request, chosen>>
  BY DEF PageArrives
<1>3. seen = {} /\ stats = NoStats /\ warnings = <<>>
  BY <1>2 DEF PagesInv, BoundsInv
<1>4. next \subseteq Tokens /\ IsFiniteSet(next) /\ size \in Nat /\ FirstPage \notin Tokens
  BY PlaylistAssumption DEF PlaylistAssumption
<1>5. pending' \in Seq(Tokens) /\ ToSet(pending') = next
  <2>1. pending' \in Seq(next) /\ ToSet(pending') = next
    BY <1>1, <1>4, OrderOfSet
  <2> QED
    BY <1>4, <2>1, LenProperties
<1>6. DOMAIN videos' = 1..size /\ \A i \in 1..size : videos'[i] = <<FirstPage, i>>
  BY <1>1
<1>7. ListTypeOK'
  <2>1. videos' \in Seq(VideoType)
    BY <1>1, <1>4 DEF VideoType, Pages
  <2>2. MaxRequests' = MaxRequests
    BY <1>2 DEF MaxRequests
  <2>3. DOMAIN served' = {FirstPage} /\ served'[FirstPage] = next
    BY <1>1
  <2> QED
    BY <1>2, <1>4, <1>5, <2>1, <2>2, <2>3 DEF PagesInv, ListTypeOK, VideoType, Pages
<1>8. Failures' = {} /\ \A token : Of(token, warnings') = {}
  BY <1>2, <1>3 DEF Failures, Of
<1>9. \A token \in Tokens : Of(token, videos') = {}
  <2>1. ASSUME NEW token \in Tokens, NEW i \in 1..size
        PROVE  videos'[i][1] # token
    BY <1>4, <1>6
  <2> QED
    BY <1>6, <2>1 DEF Of
<1>10. LoopInv'
  <2>1. DOMAIN served' = {FirstPage} /\ Named' = next
    BY <1>1 DEF Named
  <2>2. IsFiniteSet({FirstPage}) /\ Cardinality({FirstPage}) = 1 /\ Cardinality({}) = 0
    BY FS_Singleton, FS_EmptySet
  <2>3. stats'.requested = 0 /\ stats'.succeeded = 0 /\ stats'.failed = 0
    BY <1>2, <1>3 DEF NoStats
  <2>4. \A token \in Tokens :
          Cardinality(Of(token, videos')) + Cardinality(Failures' \cap Of(token, warnings'))
            = IF token \in seen' THEN 1 ELSE 0
    <3>1. {} \cap {} = {}
      OBVIOUS
    <3>2. 0 + 0 = 0
      OBVIOUS
    <3> QED
      BY <1>2, <1>3, <1>8, <1>9, <2>2, <3>1, <3>2
  <2>5. \A i, j \in DOMAIN videos' : videos'[i] = videos'[j] => i = j
    BY <1>6
  <2> QED
    BY <1>2, <1>3, <1>5, <1>8, <2>1, <2>2, <2>3, <2>4, <2>5 DEF LoopInv
<1>11. BoundsInv'
  BY <1>2, <1>3 DEF BoundsInv, NoStats
<1> QED
  BY <1>7, <1>10, <1>11 DEF PagesInv

\* The limit leaves a warning that is not about a failure.
LEMMA StopKeeps ==
  ASSUME PagesInv, StopAtLimit
  PROVE  PagesInv'
<1> DEFINE w == <<Head(pending), "max_requests_reached">>
<1>1. /\ phase = "loop" /\ phase' = "listed" /\ pending # <<>>
      /\ stats.requested >= MaxRequests /\ stats' = [stats EXCEPT !.stopped = TRUE]
      /\ warnings' = Append(warnings, w)
      /\ UNCHANGED <<setting, expired, pending, seen, videos, request, chosen, served>>
  BY DEF StopAtLimit
<1>2. MaxRequests \in Nat /\ MaxRequests' = MaxRequests
  BY <1>1, SettingPositive DEF PagesInv, ListTypeOK, MaxRequests
<1>3. /\ stats'.requested = stats.requested /\ stats'.succeeded = stats.succeeded
      /\ stats'.failed = stats.failed /\ stats'.stopped = TRUE
      /\ stats' \in [requested : 0..MaxRequests, succeeded : 0..MaxRequests,
                     failed : 0..MaxRequests, stopped : BOOLEAN]
      /\ stats.requested = MaxRequests
  <2>1. stats \in [requested : 0..MaxRequests, succeeded : 0..MaxRequests,
                   failed : 0..MaxRequests, stopped : BOOLEAN]
    BY DEF PagesInv, ListTypeOK
  <2>2. stats.requested \in 0..MaxRequests
    BY <2>1
  <2>3. stats.requested = MaxRequests
    BY <1>1, <1>2, <2>2
  <2> HIDE DEF w
  <2> QED
    BY <1>1, <2>1, <2>3
<1>4. pending \in Seq(Tokens) /\ warnings \in Seq(WarningType)
  BY DEF PagesInv, ListTypeOK, WarningType
<1>5. Head(pending) \in Tokens
  BY <1>1, <1>4, HeadAndTail
<1>6. w \in WarningType /\ w[2] = "max_requests_reached"
  BY <1>5 DEF WarningType
<1> HIDE DEF w
<1>7. /\ Failures \in SUBSET (1..Len(warnings)) /\ Failures' = Failures
  BY <1>1, <1>4, <1>6, FailuresAppend
<1>8. \A token : /\ Of(token, warnings) \subseteq Of(token, warnings')
                 /\ Of(token, warnings') \subseteq Of(token, warnings) \cup {Len(warnings) + 1}
  BY <1>1, <1>4, <1>6, OfAppend
<1>9. Len(warnings) \in Nat
  BY <1>4, LenProperties
<1>10. Len(warnings) + 1 \notin Failures
  BY <1>7, <1>9
<1>11. \A token : Failures' \cap Of(token, warnings') = Failures \cap Of(token, warnings)
  BY <1>7, <1>8, <1>10
<1>12. ListTypeOK'
  <2>1. warnings' \in Seq(WarningType)
    BY <1>1, <1>4, <1>6, AppendProperties
  <2> QED
    BY <1>1, <1>2, <1>3, <2>1 DEF PagesInv, ListTypeOK, WarningType
<1>13. LoopInv'
  <2>1. Named' = Named /\ \A token : Of(token, videos') = Of(token, videos)
    BY <1>1 DEF Named, Of
  <2> QED
    BY <1>1, <1>3, <1>7, <1>11, <2>1 DEF PagesInv, LoopInv
<1>14. BoundsInv'
  BY <1>1, <1>2, <1>3 DEF BoundsInv
<1> QED
  BY <1>12, <1>13, <1>14 DEF PagesInv

\* A token that was asked for is dropped.
LEMMA SkipKeeps ==
  ASSUME PagesInv, SkipDuplicate
  PROVE  PagesInv'
<1>1. /\ phase = "loop" /\ pending # <<>> /\ Head(pending) \in seen
      /\ pending' = Tail(pending)
      /\ UNCHANGED <<phase, setting, expired, seen, stats, warnings, videos, request, chosen, served>>
  BY DEF SkipDuplicate, MoreToAsk
<1>2. pending \in Seq(Tokens)
  BY DEF PagesInv, ListTypeOK
<1>3. pending' \in Seq(Tokens) /\ ToSet(pending) = {Head(pending)} \cup ToSet(pending')
  BY <1>1, <1>2, HeadAndTail
<1>4. ListTypeOK'
  BY <1>1, <1>3 DEF PagesInv, ListTypeOK, MaxRequests
<1>5. Failures' = Failures /\ Named' = Named
      /\ \A token : Of(token, videos') = Of(token, videos)
                    /\ Of(token, warnings') = Of(token, warnings)
  BY <1>1 DEF Failures, Named, Of
<1>6. Named' = seen' \cup ToSet(pending')
  BY <1>1, <1>3, <1>5 DEF PagesInv, LoopInv
<1>7. LoopInv'
  BY <1>1, <1>5, <1>6 DEF PagesInv, LoopInv
<1>8. BoundsInv'
  BY <1>1 DEF PagesInv, BoundsInv, MaxRequests
<1> QED
  BY <1>4, <1>7, <1>8 DEF PagesInv

-----------------------------------------------------------------------------
(* Division *)

LEMMA DivisionNat ==
  ASSUME NEW d \in Nat, NEW s \in Nat \ {0}
  PROVE  d \div s \in Nat
OBVIOUS

LEMMA ExactDivision ==
  ASSUME NEW d \in Nat, NEW s \in Nat \ {0}, d % s = 0
  PROVE  d = (d \div s) * s
OBVIOUS

LEMMA Multiple ==
  ASSUME NEW q \in Nat, NEW s \in Nat \ {0}
  PROVE  q * s \in Nat /\ (q * s) % s = 0
OBVIOUS

LEMMA MultipleBound ==
  ASSUME NEW d \in Nat, NEW s \in Nat \ {0}, NEW q \in Nat, q <= d \div s
  PROVE  q * s <= d
OBVIOUS

LEMMA DivisionMonotonic ==
  ASSUME NEW d \in Nat, NEW s \in Nat \ {0}, NEW e \in Nat, e <= d
  PROVE  e \div s <= d \div s
OBVIOUS

-----------------------------------------------------------------------------
(* The range of a part *)

\* Every s-th number of an interval, counted by a loop and by remainders.
EverySth(low, high, s) ==
  /\ (high - low) \div s + 1 \in Nat \ {0}
  /\ \A k \in 1..((high - low) \div s + 1) :
       /\ low + (k - 1) * s \in low..high
       /\ ((low + (k - 1) * s) - low) % s = 0
  /\ \A i \in low..high : (i - low) % s = 0 =>
       \E k \in 1..((high - low) \div s + 1) : i = low + (k - 1) * s

\* Counted upwards, from the start of the interval.
LEMMA StepsUp ==
  ASSUME NEW low \in Int, NEW high \in Int, low <= high, NEW s \in Nat \ {0}
  PROVE  EverySth(low, high, s)
<1> DEFINE d == high - low
           c == d \div s
<1>1. d \in Nat /\ c \in Nat
  BY DivisionNat
<1>2. ASSUME NEW k \in 1..(c + 1)
      PROVE  low + (k - 1) * s \in low..high /\ ((low + (k - 1) * s) - low) % s = 0
  <2> DEFINE q == k - 1
  <2>1. q \in Nat /\ q <= c
    BY <1>1
  <2> HIDE DEF q
  <2>2. q * s \in Nat /\ (q * s) % s = 0
    BY <2>1, Multiple
  <2>3. q * s <= d
    BY <1>1, <2>1, MultipleBound
  <2>4. (low + q * s) - low = q * s /\ low + q * s \in low..high
    BY <2>2, <2>3
  <2> QED
    BY <2>2, <2>4 DEF q
<1>3. ASSUME NEW i \in low..high, (i - low) % s = 0
      PROVE  \E k \in 1..(c + 1) : i = low + (k - 1) * s
  <2> DEFINE e == i - low
             q == e \div s
  <2>1. e \in Nat /\ e <= d /\ e % s = 0
    BY <1>3
  <2> HIDE DEF d, e
  <2>2. e = q * s /\ q \in Nat /\ q <= c
    BY <1>1, <2>1, ExactDivision, DivisionNat, DivisionMonotonic
  <2> HIDE DEF q
  <2>3. q + 1 \in 1..(c + 1) /\ (q + 1) - 1 = q
    BY <1>1, <2>2
  <2>4. i = low + ((q + 1) - 1) * s
    BY <2>2, <2>3 DEF e
  <2> QED
    BY <2>3, <2>4
<1> QED
  BY <1>1, <1>2, <1>3 DEF EverySth

\* Counted downwards, from its end.
LEMMA StepsDown ==
  ASSUME NEW low \in Int, NEW high \in Int, low <= high, NEW s \in Nat \ {0}
  PROVE  /\ (high - low) \div s + 1 \in Nat \ {0}
         /\ \A k \in 1..((high - low) \div s + 1) :
              /\ high - (k - 1) * s \in low..high
              /\ (high - (high - (k - 1) * s)) % s = 0
         /\ \A i \in low..high : (high - i) % s = 0 =>
              \E k \in 1..((high - low) \div s + 1) : i = high - (k - 1) * s
<1> DEFINE a == -high
           b == -low
           c == (high - low) \div s + 1
<1>1. a \in Int /\ b \in Int /\ a <= b /\ b - a = high - low
  OBVIOUS
<1>2. /\ c \in Nat \ {0}
      /\ \A k \in 1..c : a + (k - 1) * s \in a..b /\ ((a + (k - 1) * s) - a) % s = 0
      /\ \A i \in a..b : (i - a) % s = 0 => \E k \in 1..c : i = a + (k - 1) * s
  <2>0. a \in Int /\ b \in Int /\ a <= b /\ s \in Nat \ {0}
    BY <1>1
  <2> HIDE DEF a, b
  <2>1. /\ (b - a) \div s + 1 \in Nat \ {0}
        /\ \A k \in 1..((b - a) \div s + 1) :
             a + (k - 1) * s \in a..b /\ ((a + (k - 1) * s) - a) % s = 0
        /\ \A i \in a..b : (i - a) % s = 0 =>
             \E k \in 1..((b - a) \div s + 1) : i = a + (k - 1) * s
    <3>1. EverySth(a, b, s)
      BY <2>0, StepsUp
    <3> QED
      BY <3>1 DEF EverySth
  <2> QED
    BY <1>1, <2>1
<1>3. \A k \in 1..c : (k - 1) * s \in Int
  <2>1. \A k \in 1..c : k - 1 \in Int
    BY <1>2
  <2>2. \A q \in Int : q * s \in Int
    OBVIOUS
  <2> QED
    BY <2>1, <2>2
<1> HIDE DEF c
<1>4. ASSUME NEW k \in 1..c
      PROVE  high - (k - 1) * s \in low..high /\ (high - (high - (k - 1) * s)) % s = 0
  <2> DEFINE q == (k - 1) * s
  <2>1. q \in Int /\ a + q \in a..b /\ ((a + q) - a) % s = 0
    BY <1>2, <1>3
  <2> HIDE DEF q
  <2>2. (a + q) - a = high - (high - q)
    BY <2>1
  <2>3. high - q \in low..high
    BY <2>1
  <2> QED
    BY <2>1, <2>2, <2>3 DEF q
<1>5. ASSUME NEW i \in low..high, (high - i) % s = 0
      PROVE  \E k \in 1..c : i = high - (k - 1) * s
  <2>1. -i \in a..b /\ -i - a = high - i
    OBVIOUS
  <2>2. PICK k \in 1..c : -i = a + (k - 1) * s
    BY <1>2, <1>5, <2>1
  <2>3. i = high - (k - 1) * s
    BY <1>3, <2>2
  <2> QED
    BY <2>3
<1> QED
  BY <1>2, <1>4, <1>5 DEF c

\* The bounds and the step of a part that is no error.
LEMMA PartBounds ==
  ASSUME NEW part \in Parts, NEW total \in Nat, ~ Rejects(part, total)
  PROVE  /\ StepOf(part) \in Int \ {0}
         /\ FirstOf(part, total) \in Int /\ LastOf(part, total) \in Int
         /\ StepOf(part) > 0 => FirstOf(part, total) <= LastOf(part, total)
         /\ StepOf(part) < 0 => FirstOf(part, total) >= LastOf(part, total)
<1>1. /\ part.from \in Int \cup {Open} /\ part.to \in Int \cup {Open}
      /\ part.step \in Int \cup {Open} /\ part.step # 0
  BY DEF Parts, Rejects
<1>2. StepOf(part) \in Int \ {0}
  BY <1>1 DEF StepOf
<1>3. FirstOf(part, total) \in Int /\ LastOf(part, total) \in Int
  BY <1>1 DEF FirstOf, LastOf, PlaceOf
<1>4. /\ ~ (StepOf(part) > 0 /\ FirstOf(part, total) > LastOf(part, total))
      /\ ~ (StepOf(part) < 0 /\ FirstOf(part, total) < LastOf(part, total))
  BY DEF Rejects
<1> QED
  BY <1>2, <1>3, <1>4

\* The code's arithmetic finds the places a part stands for.
LEMMA PartAsAsked ==
  ASSUME NEW part \in Parts, NEW total \in Nat, ~ Rejects(part, total)
  PROVE  /\ Indexes(part, total) \in Seq(1..total)
         /\ ToSet(Indexes(part, total)) = Denotes(part, total)
<1> DEFINE first == FirstOf(part, total)
           last  == LastOf(part, total)
           step  == StepOf(part)
           low   == Larger(first, 1)
           top   == Smaller(last, total)
           high  == Smaller(first, total)
           end   == Larger(last, 1)
<1>1. /\ step \in Int \ {0} /\ first \in Int /\ last \in Int
      /\ step > 0 => first <= last
      /\ step < 0 => first >= last
  BY PartBounds
<1>2. CASE Misses(part, total)
  <2>1. \/ total = 0
        \/ step > 0 /\ (first > total \/ last < 1)
        \/ step < 0 /\ (first < 1 \/ last > total)
    BY <1>2 DEF Misses
  <2>2. Denotes(part, total) =
          IF step > 0
          THEN {i \in 1..total : i >= low /\ i <= last /\ (i - low) % step = 0}
          ELSE {i \in 1..total : i <= high /\ i >= last /\ (high - i) % (-step) = 0}
    BY DEF Denotes
  <2> HIDE DEF first, last, step
  <2>3. ASSUME NEW i \in Denotes(part, total)
        PROVE  FALSE
    BY <1>1, <2>1, <2>2 DEF Larger, Smaller
  <2>4. Indexes(part, total) = <<>>
    BY <1>2 DEF Indexes
  <2> QED
    BY <2>3, <2>4, EmptySeq DEF ToSet
<1>3. CASE ~ Misses(part, total) /\ step > 0
  <2> DEFINE size == (top - low) \div step + 1
             list  == [k \in 1..size |-> low + (k - 1) * step]
  <2>1. total > 0 /\ first <= total /\ last >= 1
    BY <1>1, <1>3 DEF Misses
  <2>2. Clamp(part, total) = <<low, top>>
    BY <1>3 DEF Clamp
  <2>3. Indexes(part, total) = [k \in 1..Larger(size, 0) |-> low + (k - 1) * step]
    BY <1>3, <2>2 DEF Indexes
  <2>4. Denotes(part, total) =
          {i \in 1..total : i >= low /\ i <= last /\ (i - low) % step = 0}
    BY <1>3 DEF Denotes
  <2> HIDE DEF first, last, step
  <2>5. low \in Int /\ top \in Int /\ low <= top /\ 1 <= low /\ top <= total /\ top <= last
        /\ step \in Nat \ {0} /\ \A i \in 1..total : i <= last => i <= top
    BY <1>1, <1>3, <2>1 DEF Larger, Smaller
  <2> HIDE DEF low, top
  <2>6. /\ size \in Nat \ {0}
        /\ \A k \in 1..size :
             low + (k - 1) * step \in low..top /\ ((low + (k - 1) * step) - low) % step = 0
        /\ \A i \in low..top : (i - low) % step = 0 =>
             \E k \in 1..size : i = low + (k - 1) * step
    <3>1. EverySth(low, top, step)
      BY <2>5, StepsUp
    <3> QED
      BY <3>1 DEF EverySth
  <2> HIDE DEF size
  <2>7. Indexes(part, total) = list
    BY <2>3, <2>6 DEF Larger
  <2>8. \A k \in 1..size : list[k] = low + (k - 1) * step
    OBVIOUS
  <2>9. DOMAIN list = 1..size
    OBVIOUS
  <2>10. list = [k \in 1..size |-> list[k]]
    OBVIOUS
  <2> HIDE DEF list
  <2>11. ASSUME NEW k \in 1..size
         PROVE  list[k] \in Denotes(part, total)
    <3> DEFINE i == low + (k - 1) * step
    <3>1. i \in low..top /\ (i - low) % step = 0
      BY <2>6
    <3> HIDE DEF i
    <3>2. i \in 1..total /\ i >= low /\ i <= last
      BY <1>1, <2>5, <3>1
    <3>3. i \in Denotes(part, total)
      BY <2>4, <3>1, <3>2
    <3> QED
      BY <2>8, <3>3 DEF i
  <2>12. ASSUME NEW i \in Denotes(part, total)
         PROVE  \E k \in DOMAIN list : i = list[k]
    <3>1. i \in low..top /\ (i - low) % step = 0
      BY <1>1, <2>4, <2>5
    <3>2. PICK k \in 1..size : i = low + (k - 1) * step
      BY <2>6, <3>1
    <3> QED
      BY <2>8, <2>9, <3>2
  <2>13. Denotes(part, total) \subseteq 1..total
    BY <2>4
  <2>14. list \in Seq(1..total)
    BY <2>6, <2>10, <2>11, <2>13
  <2>15. ToSet(list) = Denotes(part, total)
    BY <2>9, <2>11, <2>12 DEF ToSet
  <2> QED
    BY <2>7, <2>14, <2>15
<1>4. CASE ~ Misses(part, total) /\ step < 0
  <2> DEFINE s == -step
             size == (high - end) \div s + 1
             list  == [k \in 1..size |-> high + (k - 1) * step]
  <2>1. total > 0 /\ first >= 1 /\ last <= total
    BY <1>1, <1>4 DEF Misses
  <2>0. ~ (step > 0)
    BY <1>1, <1>4
  <2>2. Clamp(part, total) = <<high, end>>
    BY <2>0 DEF Clamp
  <2>3. Indexes(part, total) = [k \in 1..Larger(size, 0) |-> high + (k - 1) * step]
    BY <1>4, <2>0, <2>2 DEF Indexes
  <2>4. Denotes(part, total) =
          {i \in 1..total : i <= high /\ i >= last /\ (high - i) % s = 0}
    BY <2>0 DEF Denotes
  <2> HIDE DEF first, last, step
  <2>5. high \in Int /\ end \in Int /\ end <= high /\ 1 <= end /\ high <= total /\ last <= end
        /\ s \in Nat \ {0} /\ step = -s /\ \A i \in 1..total : i >= last => i >= end
    BY <1>1, <1>4, <2>1 DEF Larger, Smaller
  <2> HIDE DEF high, end, s
  <2>6. /\ size \in Nat \ {0}
        /\ \A k \in 1..size :
             high - (k - 1) * s \in end..high /\ (high - (high - (k - 1) * s)) % s = 0
        /\ \A i \in end..high : (high - i) % s = 0 =>
             \E k \in 1..size : i = high - (k - 1) * s
    BY <2>5, StepsDown
  <2> HIDE DEF size
  <2>7. Indexes(part, total) = list
    BY <2>3, <2>6 DEF Larger
  <2>8. \A k \in 1..size : list[k] = high - (k - 1) * s
    <3>1. ASSUME NEW k \in 1..size
          PROVE  high + (k - 1) * step = high - (k - 1) * s
      <4>1. (k - 1) * step = -((k - 1) * s) /\ (k - 1) * s \in Int
        BY <2>5, <2>6
      <4> QED
        BY <2>5, <4>1
    <3> QED
      BY <3>1
  <2>9. DOMAIN list = 1..size
    OBVIOUS
  <2>10. list = [k \in 1..size |-> list[k]]
    OBVIOUS
  <2> HIDE DEF list
  <2>11. ASSUME NEW k \in 1..size
         PROVE  list[k] \in Denotes(part, total)
    <3> DEFINE i == high - (k - 1) * s
    <3>1. i \in end..high /\ (high - i) % s = 0
      BY <2>6
    <3> HIDE DEF i
    <3>2. i \in 1..total /\ i <= high /\ i >= last
      BY <1>1, <2>5, <3>1
    <3>3. i \in Denotes(part, total)
      BY <2>4, <3>1, <3>2
    <3> QED
      BY <2>8, <3>3 DEF i
  <2>12. ASSUME NEW i \in Denotes(part, total)
         PROVE  \E k \in DOMAIN list : i = list[k]
    <3>1. i \in end..high /\ (high - i) % s = 0
      BY <1>1, <2>4, <2>5
    <3>2. PICK k \in 1..size : i = high - (k - 1) * s
      BY <2>6, <3>1
    <3> QED
      BY <2>8, <2>9, <3>2
  <2>13. Denotes(part, total) \subseteq 1..total
    BY <2>4
  <2>14. list \in Seq(1..total)
    BY <2>6, <2>10, <2>11, <2>13
  <2>15. ToSet(list) = Denotes(part, total)
    BY <2>9, <2>11, <2>12 DEF ToSet
  <2> QED
    BY <2>7, <2>14, <2>15
<1>5. step > 0 \/ step < 0
  BY <1>1
<1> QED
  BY <1>2, <1>3, <1>4, <1>5

-----------------------------------------------------------------------------
(* The order of mentions *)

Marks == Nat \X Nat

\* Mentions are in one order.
LEMMA EarlierOrders ==
  /\ \A m \in Marks : ~ Earlier(m, m)
  /\ \A m, n, o \in Marks : Earlier(m, n) /\ Earlier(n, o) => Earlier(m, o)
  /\ \A m, n \in Marks : m = n \/ Earlier(m, n) \/ Earlier(n, m)
<1>1. \A m \in Marks : m[1] \in Nat /\ m[2] \in Nat /\ m = <<m[1], m[2]>>
  BY DEF Marks
<1>2. \A m, n \in Marks : m[1] = n[1] /\ m[2] = n[2] => m = n
  BY <1>1, Zenon
<1> QED
  BY <1>1, <1>2 DEF Earlier

\* The mentions of a set before one of them.
Before(S, m) == {n \in S : Earlier(n, m)}

\* The number of those before it is the place of a mention in a set: no two
\* share it, and each is taken.
LEMMA MentionRanks ==
  ASSUME NEW S \in SUBSET Marks, IsFiniteSet(S)
  PROVE  /\ Cardinality(S) \in Nat
         /\ \A m \in S : Cardinality(Before(S, m)) \in 0..(Cardinality(S) - 1)
         /\ \A m, n \in S : Cardinality(Before(S, m)) = Cardinality(Before(S, n)) => m = n
         /\ \A r \in 0..(Cardinality(S) - 1) : \E m \in S : Cardinality(Before(S, m)) = r
<1> DEFINE c == Cardinality(S)
           Rank(m) == Cardinality(Before(S, m))
<1>1. c \in Nat
  BY FS_CardinalityType
<1>2. \A m \in S : Before(S, m) \in SUBSET S /\ m \notin Before(S, m)
  BY EarlierOrders DEF Before
<1>3. ASSUME NEW m \in S
      PROVE  Rank(m) \in 0..(c - 1) /\ IsFiniteSet(Before(S, m))
  <2>1. IsFiniteSet(Before(S, m)) /\ Rank(m) <= c /\ (c = Rank(m) => S = Before(S, m))
    BY <1>2, FS_Subset
  <2>2. Rank(m) \in Nat
    BY <2>1, FS_CardinalityType
  <2>3. c # Rank(m)
    BY <1>2, <2>1
  <2> HIDE DEF c, Rank
  <2> QED
    BY <1>1, <2>1, <2>2, <2>3
<1>4. ASSUME NEW m \in S, NEW n \in S, Earlier(m, n)
      PROVE  Rank(m) # Rank(n)
  <2>1. Before(S, m) \in SUBSET Before(S, n)
    BY <1>4, EarlierOrders DEF Before
  <2>2. m \in Before(S, n) /\ m \notin Before(S, m)
    BY <1>2, <1>4 DEF Before
  <2>3. Rank(n) = Rank(m) => Before(S, n) = Before(S, m)
    BY <1>3, <2>1, FS_Subset
  <2> QED
    BY <2>2, <2>3
<1> HIDE DEF Rank
<1>5. \A m, n \in S : Rank(m) = Rank(n) => m = n
  BY <1>4, EarlierOrders
<1>6. ASSUME NEW r \in 0..(c - 1)
      PROVE  \E m \in S : Rank(m) = r
  <2> DEFINE f == [m \in S |-> Rank(m)]
  <2>1. f \in Injection(S, 0..(c - 1))
    <3>1. f \in [S -> 0..(c - 1)]
      BY <1>3
    <3> QED
      BY <1>5, <3>1 DEF Injection, IsInjective
  <2>2. IsFiniteSet(0..(c - 1)) /\ Cardinality(0..(c - 1)) = c
    <3> HIDE DEF c
    <3>1. 0 > c - 1 => c = 0
      BY <1>1
    <3>2. (c - 1) - 0 + 1 = c
      BY <1>1
    <3> QED
      BY <1>1, <3>1, <3>2, FS_Interval
  <2>3. f \in Surjection(S, 0..(c - 1))
    BY <2>1, <2>2, FS_Injection
  <2> QED
    BY <2>3 DEF Surjection
<1> QED
  BY <1>1, <1>3, <1>5, <1>6 DEF Rank

\* A set of mentions in its order is a list of them, each of them once.
LEMMA InOrderLists ==
  ASSUME NEW S \in SUBSET Marks, IsFiniteSet(S)
  PROVE  /\ InOrder(S) \in Seq(S) /\ Len(InOrder(S)) = Cardinality(S)
         /\ ToSet(InOrder(S)) = S
         /\ \A q, r \in DOMAIN InOrder(S) : InOrder(S)[q] = InOrder(S)[r] => q = r
<1> DEFINE c == Cardinality(S)
           Rank(m) == Cardinality(Before(S, m))
           At(r) == CHOOSE m \in S : Rank(m) = r - 1
           list == [r \in 1..c |-> At(r)]
<1>1. InOrder(S) = list
  BY DEF InOrder, Before
<1>2. /\ c \in Nat
      /\ \A m \in S : Rank(m) \in 0..(c - 1)
      /\ \A m, n \in S : Rank(m) = Rank(n) => m = n
      /\ \A r \in 0..(c - 1) : \E m \in S : Rank(m) = r
  BY MentionRanks
<1> HIDE DEF c, Rank
<1>3. \A r \in 1..c : r - 1 \in 0..(c - 1)
  BY <1>2
<1>4. \A r \in 1..c : At(r) \in S /\ Rank(At(r)) = r - 1
  BY <1>2, <1>3
<1>5. \A m \in S : Rank(m) + 1 \in 1..c /\ At(Rank(m) + 1) = m
  <2>1. ASSUME NEW m \in S
        PROVE  Rank(m) + 1 \in 1..c /\ (Rank(m) + 1) - 1 = Rank(m)
    BY <1>2
  <2> HIDE DEF At
  <2> QED
    BY <1>2, <1>4, <2>1
<1> HIDE DEF At
<1>6. list \in Seq(S) /\ Len(list) = c /\ DOMAIN list = 1..c
  BY <1>2, <1>4
<1>7. \A r \in 1..c : list[r] = At(r)
  OBVIOUS
<1> HIDE DEF list
<1>8. \A q, r \in 1..c : list[q] = list[r] => q = r
  <2>1. ASSUME NEW q \in 1..c, NEW r \in 1..c, list[q] = list[r]
        PROVE  q = r
    <3>1. q - 1 = r - 1
      BY <1>4, <1>7, <2>1
    <3> QED
      BY <1>2, <3>1
  <2> QED
    BY <2>1
<1>9. ToSet(list) = S
  BY <1>4, <1>5, <1>6, <1>7 DEF ToSet
<1> QED
  BY <1>1, <1>6, <1>8, <1>9 DEF c

\* A mention is the first of a set of mentions.
LEMMA FirstMention ==
  ASSUME NEW S \in SUBSET Marks, IsFiniteSet(S), S # {}
  PROVE  \E m \in S : \A n \in S : ~ Earlier(n, m)
<1> DEFINE c == Cardinality(S)
<1>1. c \in Nat /\ c # 0
  BY FS_CardinalityType, FS_EmptySet
<1> HIDE DEF c
<1>2. 0 \in 0..(c - 1)
  BY <1>1
<1>3. PICK m \in S : Cardinality(Before(S, m)) = 0
  BY <1>2, MentionRanks DEF c
<1>4. IsFiniteSet(Before(S, m))
  <2>1. Before(S, m) \in SUBSET S
    BY DEF Before
  <2> QED
    BY <2>1, FS_Subset
<1>5. Before(S, m) = {}
  BY <1>3, <1>4, FS_EmptySet
<1> QED
  BY <1>5 DEF Before

-----------------------------------------------------------------------------
(* The places a selector picks *)

\* The places its parts stand for.
PlacesOf(selector, total) == UNION {Denotes(selector[k], total) : k \in DOMAIN selector}

\* A selector none of whose parts is an error.
Accepted(selector, total) ==
  /\ selector \in Seq(Parts) /\ total \in Nat
  /\ \A k \in DOMAIN selector : ~ Rejects(selector[k], total)

\* What an accepted selector mentions.
LEMMA MentionsOfSelector ==
  ASSUME NEW selector, NEW total, Accepted(selector, total)
  PROVE  /\ Mentions(selector, total) \in SUBSET Marks /\ IsFiniteSet(Mentions(selector, total))
         /\ \A m \in Mentions(selector, total) :
              Mentioned(selector, total, m) \in PlacesOf(selector, total)
         /\ \A i \in PlacesOf(selector, total) :
              \E m \in Mentions(selector, total) : Mentioned(selector, total, m) = i
         /\ PlacesOf(selector, total) \in SUBSET (1..total)
<1> DEFINE n == Len(selector)
           M == Mentions(selector, total)
           R(k) == Indexes(selector[k], total)
<1>1. n \in Nat /\ DOMAIN selector = 1..n
  BY LenProperties DEF Accepted
<1>2. ASSUME NEW k \in 1..n
      PROVE  /\ R(k) \in Seq(1..total) /\ ToSet(R(k)) = Denotes(selector[k], total)
             /\ Len(R(k)) \in Nat /\ DOMAIN R(k) = 1..Len(R(k))
  <2>1. selector[k] \in Parts /\ total \in Nat /\ ~ Rejects(selector[k], total)
    BY <1>1, ElementOfSeq DEF Accepted
  <2>2. R(k) \in Seq(1..total) /\ ToSet(R(k)) = Denotes(selector[k], total)
    BY <2>1, PartAsAsked
  <2> HIDE DEF R
  <2> QED
    BY <2>2, LenProperties
<1>3. M = UNION {{k} \X DOMAIN R(k) : k \in 1..n}
  BY <1>1 DEF Mentions
<1> HIDE DEF n, R
<1>4. \A m : m \in M <=> \E k \in 1..n : \E p \in DOMAIN R(k) : m = <<k, p>>
  BY <1>3
<1>5. \A k \in 1..n : \A p \in DOMAIN R(k) : Mentioned(selector, total, <<k, p>>) = R(k)[p]
  BY DEF Mentioned, R
<1>6. \A k \in 1..n : \A p \in DOMAIN R(k) : k \in Nat /\ p \in Nat
  BY <1>1, <1>2
<1>7. M \in SUBSET Marks
  BY <1>4, <1>6 DEF Marks
<1>8. IsFiniteSet(M)
  <2> DEFINE Row(k) == {k} \X DOMAIN R(k)
             Rows == {Row(k) : k \in 1..n}
             f == [k \in 1..n |-> Row(k)]
  <2>1. f \in Surjection(1..n, Rows)
    BY DEF Surjection
  <2>2. IsFiniteSet(1..n)
    BY <1>1, FS_Interval
  <2> HIDE DEF f
  <2>3. IsFiniteSet(Rows)
    <3> HIDE DEF Rows
    <3> QED
      BY <2>1, <2>2, FS_Surjection
  <2>4. ASSUME NEW k \in 1..n
        PROVE  IsFiniteSet(Row(k))
    <3> DEFINE l == Len(R(k))
    <3>1. l \in Nat /\ DOMAIN R(k) = 1..l
      BY <1>2
    <3> HIDE DEF l
    <3>2. IsFiniteSet(1..l)
      BY <3>1, FS_Interval
    <3>3. IsFiniteSet({k})
      BY FS_Singleton
    <3> QED
      BY <3>1, <3>2, <3>3, FS_Product
  <2>5. M = UNION Rows
    BY <1>3
  <2> HIDE DEF Row
  <2>6. \A T \in Rows : IsFiniteSet(T)
    BY <2>4
  <2> HIDE DEF Rows, M
  <2> QED
    BY <2>3, <2>5, <2>6, FS_UNION
<1>9. ASSUME NEW m \in M
      PROVE  Mentioned(selector, total, m) \in PlacesOf(selector, total)
  <2>1. PICK k \in 1..n : \E p \in DOMAIN R(k) : m = <<k, p>>
    BY <1>4
  <2>2. PICK p \in DOMAIN R(k) : m = <<k, p>>
    BY <2>1
  <2>3. R(k)[p] \in Denotes(selector[k], total)
    BY <1>2 DEF ToSet
  <2> QED
    BY <1>1, <1>5, <2>2, <2>3 DEF PlacesOf
<1>10. ASSUME NEW i \in PlacesOf(selector, total)
       PROVE  \E m \in M : Mentioned(selector, total, m) = i
  <2>1. PICK k \in 1..n : i \in Denotes(selector[k], total)
    BY <1>1 DEF PlacesOf
  <2>2. PICK p \in DOMAIN R(k) : i = R(k)[p]
    BY <1>2, <2>1 DEF ToSet
  <2>3. <<k, p>> \in M
    BY <1>4
  <2> QED
    BY <1>5, <2>2, <2>3
<1>11. PlacesOf(selector, total) \in SUBSET (1..total)
  <2>1. \A k \in 1..n : Denotes(selector[k], total) \subseteq 1..total
    BY DEF Denotes
  <2> QED
    BY <1>1, <2>1 DEF PlacesOf
<1> QED
  BY <1>7, <1>8, <1>9, <1>10, <1>11

\* Of the mentions of a place one is picked.
LEMMA PickedOfSelector ==
  ASSUME NEW selector, NEW total, Accepted(selector, total)
  PROVE  /\ Picked(selector, total) \in SUBSET Marks /\ IsFiniteSet(Picked(selector, total))
         /\ \A m \in Picked(selector, total) :
              Mentioned(selector, total, m) \in PlacesOf(selector, total)
         /\ \A i \in PlacesOf(selector, total) :
              \E m \in Picked(selector, total) : Mentioned(selector, total, m) = i
         /\ \A m, n \in Picked(selector, total) :
              Mentioned(selector, total, m) = Mentioned(selector, total, n) => m = n
<1> DEFINE M == Mentions(selector, total)
           P == Picked(selector, total)
           At(m) == Mentioned(selector, total, m)
           places == PlacesOf(selector, total)
<1>1. /\ M \in SUBSET Marks /\ IsFiniteSet(M)
      /\ \A m \in M : At(m) \in places
      /\ \A i \in places : \E m \in M : At(m) = i
      /\ places \in SUBSET (1..total)
  BY MentionsOfSelector
<1>2. P = {m \in M : At(m) \in 1..total /\ \A n \in M : Earlier(n, m) => At(n) # At(m)}
  BY DEF Picked
<1> HIDE DEF M, P, At, places
<1>3. P \in SUBSET M
  BY <1>2
<1>4. IsFiniteSet(P)
  BY <1>1, <1>3, FS_Subset
<1>5. ASSUME NEW m \in P, NEW n \in P, At(m) = At(n)
      PROVE  m = n
  <2>1. ~ Earlier(m, n) /\ ~ Earlier(n, m)
    BY <1>2, <1>5
  <2> QED
    BY <1>1, <1>3, <2>1, EarlierOrders
<1>6. ASSUME NEW i \in places
      PROVE  \E m \in P : At(m) = i
  <2> DEFINE S == {m \in M : At(m) = i}
  <2>1. S \in SUBSET M /\ S # {}
    BY <1>1
  <2>2. S \in SUBSET Marks /\ IsFiniteSet(S)
    BY <1>1, <2>1, FS_Subset
  <2>3. PICK m \in S : \A n \in S : ~ Earlier(n, m)
    <3> HIDE DEF S
    <3> QED
      BY <2>1, <2>2, FirstMention
  <2>4. m \in P /\ At(m) = i
    BY <1>1, <1>2, <2>3
  <2> QED
    BY <2>4
<1>7. /\ P \in SUBSET Marks
      /\ \A m \in P : At(m) \in places
  BY <1>1, <1>3
<1> QED
  BY <1>4, <1>5, <1>6, <1>7 DEF P, At, places

\* A list of what is asked for: the places of a set, each of them once.
ListOf(list, places) ==
  /\ list \in Seq(places) /\ ToSet(list) = places
  /\ \A q, r \in DOMAIN list : list[q] = list[r] => q = r

\* SelectPlaylistItems lists the places the selector stands for.
LEMMA SelectedPlaces ==
  ASSUME NEW selector, NEW total, Accepted(selector, total)
  PROVE  ListOf(SelectPlaylistItems(selector, total),
                IF selector = <<>> THEN 1..total ELSE PlacesOf(selector, total))
<1> DEFINE P == Picked(selector, total)
           At(m) == Mentioned(selector, total, m)
           places == PlacesOf(selector, total)
           s == InOrder(P)
           list == [r \in DOMAIN s |-> At(s[r])]
<1>1. CASE selector = <<>>
  <2> DEFINE all == [i \in 1..total |-> i]
  <2>1. SelectPlaylistItems(selector, total) = all
    BY <1>1 DEF SelectPlaylistItems
  <2>2. total \in Nat
    BY DEF Accepted
  <2>3. all \in Seq(1..total) /\ DOMAIN all = 1..total /\ \A i \in 1..total : all[i] = i
    BY <2>2
  <2> HIDE DEF all
  <2>4. ToSet(all) = 1..total
    BY <2>3 DEF ToSet
  <2>5. ListOf(all, 1..total)
    BY <2>3, <2>4 DEF ListOf
  <2> QED
    BY <1>1, <2>1, <2>5
<1>2. CASE selector # <<>>
  <2>1. SelectPlaylistItems(selector, total) = list
    BY <1>2 DEF SelectPlaylistItems
  <2>2. /\ P \in SUBSET Marks /\ IsFiniteSet(P)
        /\ \A m \in P : At(m) \in places
        /\ \A i \in places : \E m \in P : At(m) = i
        /\ \A m, n \in P : At(m) = At(n) => m = n
    BY PickedOfSelector
  <2> HIDE DEF P, At, places
  <2>3. /\ s \in Seq(P) /\ Len(s) = Cardinality(P) /\ ToSet(s) = P
        /\ \A q, r \in DOMAIN s : s[q] = s[r] => q = r
    BY <2>2, InOrderLists
  <2> HIDE DEF s
  <2>4. Len(s) \in Nat /\ DOMAIN s = 1..Len(s) /\ \A r \in DOMAIN s : s[r] \in P
    BY <2>3, LenProperties
  <2>5. /\ list \in Seq(places) /\ DOMAIN list = DOMAIN s
        /\ \A r \in DOMAIN s : list[r] = At(s[r])
    BY <2>2, <2>4
  <2> HIDE DEF list
  <2>6. ToSet(list) = places
    <3>1. ASSUME NEW i \in places
          PROVE  \E r \in DOMAIN list : i = list[r]
      <4>1. PICK m \in P : At(m) = i
        BY <2>2
      <4>2. PICK r \in DOMAIN s : m = s[r]
        BY <2>3 DEF ToSet
      <4> QED
        BY <2>5, <4>1, <4>2
    <3>2. \A r \in DOMAIN list : list[r] \in places
      BY <2>2, <2>4, <2>5
    <3> QED
      BY <3>1, <3>2 DEF ToSet
  <2>7. \A q, r \in DOMAIN list : list[q] = list[r] => q = r
    BY <2>2, <2>3, <2>4, <2>5
  <2> QED
    BY <1>2, <2>1, <2>5, <2>6, <2>7 DEF ListOf, places
<1> QED
  BY <1>1, <1>2

-----------------------------------------------------------------------------
(* The items of a run *)

\* An order holds the items of the list it puts in order.
LEMMA OrdersKeep ==
  ASSUME NEW T, NEW list \in Seq(T), NEW r, NEW other \in Orders(list, r)
  PROVE  other \in Seq(T) /\ Len(other) = Len(list) /\ ToSet(other) = ToSet(list)
<1> DEFINE n == Len(list)
<1>1. n \in Nat /\ DOMAIN list = 1..n /\ \A k \in 1..n : list[k] \in T
  BY LenProperties, ElementOfSeq
<1> HIDE DEF n
<1>2. CASE r.reverse
  <2>1. other = [k \in 1..n |-> list[(n - k) + 1]]
    BY <1>2 DEF Orders, Reverse, n
  <2>2. \A k \in 1..n : (n - k) + 1 \in 1..n /\ (n - ((n - k) + 1)) + 1 = k
    BY <1>1
  <2>3. other \in Seq(T) /\ Len(other) = n /\ DOMAIN other = 1..n
    BY <1>1, <2>1, <2>2
  <2>4. \A k \in 1..n : other[k] = list[(n - k) + 1]
    BY <2>1
  <2>5. \A k \in 1..n : list[k] = other[(n - k) + 1]
    BY <2>2, <2>4
  <2>6. ToSet(other) = ToSet(list)
    BY <1>1, <2>2, <2>3, <2>4, <2>5 DEF ToSet
  <2> QED
    BY <2>3, <2>6 DEF n
<1>3. CASE ~ r.reverse /\ r.random
  <2>1. PICK p \in SetToSeqs(1..n) : other = [k \in 1..n |-> list[p[k]]]
    BY <1>1, <1>3 DEF Orders
  <2>2. IsFiniteSet(1..n) /\ Cardinality(1..n) = n
    BY <1>1, FS_Interval
  <2>3. p \in Seq(1..n) /\ Len(p) = n /\ ToSet(p) = 1..n
    BY <2>2, OrderOfSet
  <2>4. DOMAIN p = 1..n /\ \A k \in 1..n : p[k] \in 1..n
    BY <2>3, LenProperties
  <2>5. \A i \in 1..n : \E k \in 1..n : p[k] = i
    BY <2>3, <2>4 DEF ToSet
  <2>6. other \in Seq(T) /\ Len(other) = n /\ DOMAIN other = 1..n
    BY <1>1, <2>1, <2>4
  <2>7. \A k \in 1..n : other[k] = list[p[k]]
    BY <2>1
  <2>8. ToSet(other) = ToSet(list)
    <3>1. \A i \in 1..n : \E k \in 1..n : other[k] = list[i]
      BY <2>5, <2>7
    <3>2. \A k \in 1..n : \E i \in 1..n : other[k] = list[i]
      BY <2>4, <2>7
    <3>3. \A x : x \in ToSet(other) <=> \E k \in 1..n : x = other[k]
      BY <2>6 DEF ToSet
    <3>4. \A x : x \in ToSet(list) <=> \E i \in 1..n : x = list[i]
      BY <1>1 DEF ToSet
    <3>5. \A x : x \in ToSet(other) <=> x \in ToSet(list)
      BY <3>1, <3>2, <3>3, <3>4
    <3> QED
      BY <3>5
  <2> QED
    BY <2>6, <2>8 DEF n
<1>4. CASE ~ r.reverse /\ ~ r.random
  BY <1>4 DEF Orders
<1> QED
  BY <1>2, <1>3, <1>4

\* The selector of a command line is a list of parts.
LEMMA SelectorTypes ==
  ASSUME NEW r \in Requests
  PROVE  SelectorOf(r) \in Seq(Parts)
<1>1. r.items \in Seq(Parts) /\ r.start \in Int /\ r.end \in Int
  BY PlaylistAssumption DEF PlaylistAssumption
<1> DEFINE Given(bound) == IF bound > 0 THEN bound ELSE Open
           part == [from |-> Given(r.start), to |-> Given(r.end), step |-> Open]
<1>2. part \in Parts
  BY <1>1 DEF Parts
<1>3. SelectorOf(r) = IF r.items # <<>> THEN r.items
                      ELSE IF r.start <= 0 /\ r.end <= 0 THEN <<>> ELSE <<part>>
  BY DEF SelectorOf
<1> HIDE DEF part
<1>4. <<part>> \in Seq(Parts) /\ <<>> \in Seq(Parts)
  BY <1>2, EmptySeq
<1> QED
  BY <1>1, <1>3, <1>4

\* The places a command line asks for.
Asked(r, total) ==
  IF SelectorOf(r) = <<>> THEN 1..total ELSE PlacesOf(SelectorOf(r), total)

\* A list of places is as long as there are places.
LEMMA ListLength ==
  ASSUME NEW list, NEW n \in Nat, NEW places \in SUBSET (1..n), ListOf(list, places)
  PROVE  Len(list) = Cardinality(places) /\ Len(list) \in Nat /\ DOMAIN list = 1..Len(list)
<1>1. Len(list) \in Nat /\ DOMAIN list = 1..Len(list) /\ list \in [1..Len(list) -> places]
  BY LenProperties DEF ListOf
<1> DEFINE l == Len(list)
<1> HIDE DEF l
<1>2. list \in Injection(1..l, places)
  BY <1>1 DEF ListOf, Injection, IsInjective, l
<1>3. list \in Surjection(1..l, places)
  <2>1. \A i \in places : \E k \in 1..l : list[k] = i
    BY <1>1 DEF ListOf, ToSet, l
  <2> QED
    BY <1>1, <2>1 DEF Surjection, l
<1>4. IsFiniteSet(places)
  BY PlacesFinite
<1>5. Cardinality(1..l) = Cardinality(places)
  BY <1>2, <1>3, <1>4, FS_Injection
<1>6. Cardinality(1..l) = l
  BY <1>1, FS_Interval DEF l
<1> QED
  BY <1>1, <1>5, <1>6 DEF l

\* The items chosen for a selector that is not turned down.
LEMMA ChosenItems ==
  ASSUME videos \in Seq(VideoType), NEW r \in Requests, NEW list \in Orders(Select(r), r),
         \A k \in DOMAIN SelectorOf(r) : ~ Rejects(SelectorOf(r)[k], Len(videos))
  PROVE  /\ list \in Seq([video : VideoType, index : Nat \ {0}])
         /\ \A k \in DOMAIN list :
              list[k].index \in DOMAIN videos /\ videos[list[k].index] = list[k].video
         /\ {list[k].video : k \in DOMAIN list} = {videos[i] : i \in Asked(r, Len(videos))}
         /\ Len(list) = Cardinality(Asked(r, Len(videos)))
<1> DEFINE total == Len(videos)
           selector == SelectorOf(r)
           places == Asked(r, total)
           picked == SelectPlaylistItems(selector, total)
           Item(i) == [video |-> videos[i], index |-> i]
           items == [k \in DOMAIN picked |-> Item(picked[k])]
           ItemType == [video : VideoType, index : Nat \ {0}]
<1>1. total \in Nat /\ DOMAIN videos = 1..total /\ \A i \in 1..total : videos[i] \in VideoType
  BY LenProperties, ElementOfSeq
<1>2. Accepted(selector, total)
  BY <1>1, SelectorTypes DEF Accepted
<1>3. ListOf(picked, places)
  BY <1>2, SelectedPlaces DEF Asked
<1>4. places \in SUBSET (1..total)
  BY <1>2, MentionsOfSelector DEF Asked
<1>5. Len(picked) = Cardinality(places) /\ Len(picked) \in Nat /\ DOMAIN picked = 1..Len(picked)
  <2> HIDE DEF picked, places, total
  <2> QED
    BY <1>1, <1>3, <1>4, ListLength
<1>6. \A k \in DOMAIN picked : picked[k] \in places
  <2> HIDE DEF picked, places
  <2> QED
    BY <1>3, LenProperties DEF ListOf
<1>7. Select(r) = items
  <2>1. Select(r) = [k \in DOMAIN picked |-> Numbered(videos)[picked[k]]]
    BY DEF Select
  <2> HIDE DEF picked, places
  <2>2. \A i \in places : Numbered(videos)[i] = Item(i)
    BY <1>1, <1>4 DEF Numbered
  <2> QED
    BY <1>6, <2>1, <2>2
<1> HIDE DEF total, selector, places, picked
<1>8. \A i \in places : Item(i) \in ItemType
  BY <1>1, <1>4
<1>9. /\ items \in Seq(ItemType) /\ Len(items) = Len(picked)
      /\ DOMAIN items = DOMAIN picked
      /\ \A k \in DOMAIN picked : items[k] = Item(picked[k])
  <2> DEFINE n == Len(picked)
  <2>1. n \in Nat /\ DOMAIN picked = 1..n
    BY <1>5
  <2>2. \A k \in 1..n : Item(picked[k]) \in ItemType
    BY <1>6, <1>8, <2>1
  <2> HIDE DEF n, Item, ItemType
  <2>3. /\ items \in [1..n -> ItemType] /\ DOMAIN items = 1..n
        /\ \A k \in 1..n : items[k] = Item(picked[k])
    BY <2>1, <2>2
  <2> HIDE DEF items
  <2>4. items \in Seq(ItemType) /\ Len(items) = n
    BY <2>1, <2>3
  <2> QED
    BY <2>1, <2>3, <2>4 DEF n
<1> HIDE DEF items, ItemType
<1>10. ToSet(items) = {Item(i) : i \in places}
  <2>1. \A i \in places : \E k \in DOMAIN picked : picked[k] = i
    BY <1>3 DEF ListOf, ToSet
  <2> HIDE DEF Item
  <2> QED
    BY <1>6, <1>9, <2>1 DEF ToSet
<1>11. list \in Seq(ItemType) /\ Len(list) = Len(items) /\ ToSet(list) = ToSet(items)
  BY <1>7, <1>9, OrdersKeep
<1>12. \A k \in DOMAIN list : \E i \in places : list[k] = Item(i)
  <2> HIDE DEF Item
  <2> QED
    BY <1>10, <1>11 DEF ToSet
<1>13. \A i \in places : \E k \in DOMAIN list : list[k] = Item(i)
  <2> HIDE DEF Item
  <2> QED
    BY <1>10, <1>11 DEF ToSet
<1>14. \A i : Item(i).video = videos[i] /\ Item(i).index = i
  OBVIOUS
<1> HIDE DEF Item
<1>15. \A k \in DOMAIN list :
         list[k].index \in DOMAIN videos /\ videos[list[k].index] = list[k].video
  BY <1>1, <1>4, <1>12, <1>14
<1>16. {list[k].video : k \in DOMAIN list} = {videos[i] : i \in places}
  BY <1>12, <1>13, <1>14
<1> QED
  BY <1>5, <1>9, <1>11, <1>15, <1>16 DEF ItemType, places, total


-----------------------------------------------------------------------------
(* The theorems *)

\* Every step of the listing keeps its counts and its types.
LEMMA PagesStep == PagesInv /\ [ListNext]_listVars => PagesInv'
<1> SUFFICES ASSUME PagesInv, [ListNext]_listVars PROVE PagesInv'
  OBVIOUS
<1>1. CASE Expire
  <2>1. phase \in {"page", "loop"} /\ expired' = TRUE
        /\ UNCHANGED <<phase, setting, loopVars, videos, request, chosen>>
    BY <1>1 DEF Expire
  <2>2. ListTypeOK'
    BY <2>1 DEF PagesInv, ListTypeOK, MaxRequests, loopVars
  <2>3. LoopInv'
    BY <2>1 DEF PagesInv, LoopInv, Failures, Named, Of, loopVars
  <2>4. BoundsInv'
    BY <2>1 DEF PagesInv, BoundsInv, MaxRequests, loopVars
  <2> QED
    BY <2>2, <2>3, <2>4 DEF PagesInv
<1>2. CASE PageFails
  <2>1. phase = "page" /\ phase' = Failed
        /\ UNCHANGED <<setting, expired, loopVars, videos, request, chosen>>
    BY <1>2 DEF PageFails
  <2>2. ListTypeOK'
    BY <2>1 DEF PagesInv, ListTypeOK, MaxRequests, loopVars
  <2>3. LoopInv' /\ BoundsInv'
    BY <2>1 DEF PagesInv, LoopInv, BoundsInv, Failed, MaxRequests, loopVars
  <2> QED
    BY <2>2, <2>3 DEF PagesInv
<1>3. CASE PageArrives
  BY <1>3, PageKeeps
<1>4. CASE StopAtLimit
  BY <1>4, StopKeeps
<1>5. CASE SkipDuplicate
  BY <1>5, SkipKeeps
<1>6. CASE BrowseFails
  BY <1>6, FailKeeps
<1>7. CASE BrowseSucceeds
  BY <1>7, SucceedKeeps
<1>8. CASE LoopEnds
  <2>1. phase = "loop" /\ pending = <<>> /\ phase' = "listed"
        /\ UNCHANGED <<setting, expired, loopVars, videos, request, chosen>>
    BY <1>8 DEF LoopEnds
  <2>2. ListTypeOK'
    BY <2>1 DEF PagesInv, ListTypeOK, MaxRequests, loopVars
  <2>3. LoopInv'
    BY <2>1 DEF PagesInv, LoopInv, Failures, Named, Of, loopVars
  <2>4. BoundsInv'
    BY <2>1 DEF PagesInv, BoundsInv, MaxRequests, loopVars
  <2> QED
    BY <2>2, <2>3, <2>4 DEF PagesInv
<1>9. CASE GetPlaylistReturns
  <2>1. /\ phase = "listed" /\ phase' = "returned"
        /\ pending' = <<>> /\ seen' = {} /\ warnings' = <<>> /\ served' = <<>> /\ stats' = NoStats
        /\ UNCHANGED <<setting, expired, videos, request, chosen>>
    BY <1>9 DEF GetPlaylistReturns
  <2>2. MaxRequests \in Nat /\ MaxRequests' = MaxRequests
    BY <2>1, SettingPositive DEF PagesInv, ListTypeOK, MaxRequests
  <2>3. /\ pending' \in Seq(Tokens) /\ warnings' \in Seq(WarningType) /\ DOMAIN served' = {}
        /\ stats' \in [requested : 0..MaxRequests, succeeded : 0..MaxRequests,
                       failed : 0..MaxRequests, stopped : BOOLEAN]
    BY <2>1, <2>2, EmptySeq DEF NoStats
  <2>4. ListTypeOK'
    BY <2>1, <2>2, <2>3 DEF PagesInv, ListTypeOK, WarningType
  <2>5. LoopInv' /\ BoundsInv'
    BY <2>1 DEF LoopInv, BoundsInv, NoStats
  <2> QED
    BY <2>4, <2>5 DEF PagesInv
<1>10. CASE SidecarFails
  <2>1. phase = "returned" /\ phase' = Failed
        /\ UNCHANGED <<setting, expired, loopVars, videos, request, chosen>>
    BY <1>10 DEF SidecarFails
  <2>2. ListTypeOK'
    BY <2>1 DEF PagesInv, ListTypeOK, MaxRequests, loopVars
  <2>3. LoopInv' /\ BoundsInv'
    BY <2>1 DEF PagesInv, LoopInv, BoundsInv, Failed, MaxRequests, loopVars
  <2> QED
    BY <2>2, <2>3 DEF PagesInv
<1>11. CASE ChooseItems
  <2>1. PICK r \in Requests :
          /\ request' = r
          /\ IF \E k \in DOMAIN SelectorOf(r) : Rejects(SelectorOf(r)[k], Len(videos))
             THEN phase' = "rejected" /\ UNCHANGED chosen
             ELSE phase' = "chosen" /\ chosen' \in Orders(Select(r), r)
    BY <1>11 DEF ChooseItems
  <2>2. phase = "returned" /\ UNCHANGED <<setting, expired, loopVars, videos>>
    BY <1>11 DEF ChooseItems
  <2>3. phase' \in {"rejected", "chosen"}
    BY <2>1
  <2>4. chosen' \in Seq([video : VideoType, index : Nat \ {0}])
    <3>1. videos \in Seq(VideoType) /\ chosen \in Seq([video : VideoType, index : Nat \ {0}])
      BY DEF PagesInv, ListTypeOK, VideoType, Pages
    <3> QED
      BY <2>1, <3>1, ChosenItems
  <2>5. ListTypeOK'
    BY <2>1, <2>2, <2>3, <2>4 DEF PagesInv, ListTypeOK, MaxRequests, loopVars, VideoType, Pages
  <2>6. LoopInv' /\ BoundsInv'
    BY <2>2, <2>3 DEF PagesInv, LoopInv, BoundsInv, MaxRequests, loopVars
  <2> QED
    BY <2>5, <2>6 DEF PagesInv
<1>12. CASE UNCHANGED listVars
  <2>1. UNCHANGED <<phase, setting, expired, pending, seen, stats, warnings, served,
                    videos, request, chosen>>
    BY <1>12 DEF listVars, loopVars
  <2>2. ListTypeOK'
    BY <2>1 DEF PagesInv, ListTypeOK, MaxRequests
  <2>3. LoopInv'
    BY <2>1 DEF PagesInv, LoopInv, Failures, Named, Of
  <2>4. BoundsInv'
    BY <2>1 DEF PagesInv, BoundsInv, MaxRequests
  <2> QED
    BY <2>2, <2>3, <2>4 DEF PagesInv
<1>13. CASE Ended
  BY <1>12, <1>13 DEF Ended
<1> QED
  BY <1>1, <1>2, <1>3, <1>4, <1>5, <1>6, <1>7, <1>8, <1>9, <1>10, <1>11, <1>12, <1>13 DEF ListNext

\* The counts say what the listing promises.
LEMMA PagesImply == PagesInv => EveryPageOnce
<1> SUFFICES ASSUME PagesInv PROVE EveryPageOnce
  OBVIOUS
<1>1. MaxRequests \in Nat
  BY SettingPositive DEF PagesInv, ListTypeOK
<1>2. stats.requested \in 0..MaxRequests /\ stats.succeeded \in Nat /\ stats.failed \in Nat
  BY <1>1 DEF PagesInv, ListTypeOK
<1>3. RequestsBounded
  <2>1. ASSUME phase \in {"loop", "listed"}
        PROVE  Cardinality(DOMAIN served) - 1 + Cardinality(Failures) <= MaxRequests
    <3>1. /\ stats.requested = stats.succeeded + stats.failed
          /\ Cardinality(DOMAIN served) = stats.succeeded + 1
          /\ Cardinality(Failures) = stats.failed
      BY <2>1 DEF PagesInv, LoopInv
    <3> QED
      BY <1>1, <1>2, <3>1
  <2>2. stats.stopped => stats.succeeded + stats.failed = MaxRequests
    BY <1>1, <1>2 DEF PagesInv, LoopInv, BoundsInv
  <2> QED
    BY <2>1, <2>2 DEF RequestsBounded
<1>4. ASSUME phase = "listed"
      PROVE  /\ ~stats.stopped => seen = Named
             /\ \A token \in seen :
                  Cardinality(Of(token, videos))
                    + Cardinality(Failures \cap Of(token, warnings)) = 1
             /\ \A i, j \in DOMAIN videos : videos[i] = videos[j] => i = j
  <2>1. ~stats.stopped => seen = Named
    <3>1. ToSet(<<>>) = {}
      BY DEF ToSet
    <3> QED
      BY <1>4, <3>1 DEF PagesInv, LoopInv, BoundsInv
  <2>2. seen \subseteq Tokens
    BY DEF PagesInv, ListTypeOK
  <2> QED
    BY <1>4, <2>1, <2>2 DEF PagesInv, LoopInv
<1> QED
  BY <1>3, <1>4 DEF PagesInv, EveryPageOnce

\* The invariant of GetPlaylist's loop and of processPlaylist's choice: types,
\* counts, and how the loop begins and ends.
THEOREM PagesInvariant == ListSpec => []PagesInv
BY InitPages, PagesStep, PTL DEF ListSpec

\* Whatever tokens the server names and whichever pages fail, the list that
\* GetPlaylist returns holds each page once, and nothing but the limit on
\* requests, which failures size against, keeps a page from being asked for.
THEOREM PagesListedOnce == ListSpec => []EveryPageOnce
BY PagesInvariant, PagesImply, PTL

\* Nothing is chosen before the choice.
SelectionInv == SelectionAsAsked /\ (phase # "chosen" => chosen = <<>>)

\* A part is an error only if it is no part or stands for no video.
LEMMA RejectedPart ==
  ASSUME NEW part \in Parts, NEW total \in Nat, Rejects(part, total)
  PROVE  0 \in {part.from, part.to, part.step} \/ Denotes(part, total) = {}
<1> DEFINE first == FirstOf(part, total)
           last  == LastOf(part, total)
           step  == StepOf(part)
<1>1. /\ part.from \in Int \cup {Open} /\ part.to \in Int \cup {Open}
      /\ part.step \in Int \cup {Open}
  BY DEF Parts
<1>2. step \in Int /\ first \in Int /\ last \in Int
  BY <1>1 DEF StepOf, FirstOf, LastOf, PlaceOf
<1>3. \/ 0 \in {part.from, part.to, part.step}
      \/ step > 0 /\ first > last
      \/ step < 0 /\ first < last
  BY DEF Rejects
<1>4. Denotes(part, total) =
        IF step > 0
        THEN {i \in 1..total : /\ i >= Larger(first, 1) /\ i <= last
                               /\ (i - Larger(first, 1)) % step = 0}
        ELSE {i \in 1..total : /\ i <= Smaller(first, total) /\ i >= last
                               /\ (Smaller(first, total) - i) % (-step) = 0}
  BY DEF Denotes
<1> HIDE DEF first, last, step
<1>5. ASSUME step > 0, first > last, NEW i \in Denotes(part, total)
      PROVE  FALSE
  BY <1>2, <1>4, <1>5 DEF Larger
<1>6. ASSUME step < 0, first < last, NEW i \in Denotes(part, total)
      PROVE  FALSE
  BY <1>2, <1>4, <1>6 DEF Smaller
<1> QED
  BY <1>3, <1>5, <1>6

LEMMA SelectionStep == PagesInv /\ SelectionInv /\ [ListNext]_listVars => SelectionInv'
<1> SUFFICES ASSUME PagesInv, SelectionInv, [ListNext]_listVars PROVE SelectionInv'
  OBVIOUS
<1>1. CASE UNCHANGED listVars
  <2>1. phase' = phase /\ videos' = videos /\ request' = request /\ chosen' = chosen
    BY <1>1 DEF listVars
  <2>2. KeepsItsIndex' <=> KeepsItsIndex
    BY <2>1 DEF KeepsItsIndex
  <2> DEFINE asked == IF SelectorOf(request) = <<>> THEN 1..Len(videos)
                      ELSE UNION {Denotes(SelectorOf(request)[k], Len(videos)) :
                                    k \in DOMAIN SelectorOf(request)}
  <2>3. asked' = asked
    BY <2>1
  <2>4. /\ {chosen'[k].video : k \in DOMAIN chosen'} = {chosen[k].video : k \in DOMAIN chosen}
        /\ {videos'[i] : i \in asked'} = {videos[i] : i \in asked}
        /\ Len(chosen') = Len(chosen) /\ Cardinality(asked') = Cardinality(asked)
    BY <2>1, <2>3
  <2>5. phase = "chosen" =>
          /\ {chosen[k].video : k \in DOMAIN chosen} = {videos[i] : i \in asked}
          /\ Len(chosen) = Cardinality(asked)
    BY DEF SelectionInv, SelectionAsAsked
  <2>6. KeepsItsIndex'
    BY <2>2 DEF SelectionInv, SelectionAsAsked
  <2>7. phase' = "chosen" =>
          /\ {chosen'[k].video : k \in DOMAIN chosen'} = {videos'[i] : i \in asked'}
          /\ Len(chosen') = Cardinality(asked')
    BY <2>1, <2>4, <2>5
  <2>8. phase' = "rejected" => \E k \in DOMAIN SelectorOf(request') :
          \/ 0 \in {SelectorOf(request')[k].from, SelectorOf(request')[k].to,
                    SelectorOf(request')[k].step}
          \/ Denotes(SelectorOf(request')[k], Len(videos')) = {}
    BY <2>1 DEF SelectionInv, SelectionAsAsked
  <2>9. SelectionAsAsked'
    BY <2>6, <2>7, <2>8 DEF SelectionAsAsked
  <2> QED
    BY <2>1, <2>9 DEF SelectionInv
<1>2. CASE Ended
  BY <1>1, <1>2 DEF Ended
<1>3. CASE \/ Expire \/ PageFails \/ PageArrives \/ StopAtLimit \/ SkipDuplicate
           \/ BrowseFails \/ BrowseSucceeds \/ LoopEnds \/ GetPlaylistReturns \/ SidecarFails
  <2>1. phase # "chosen" /\ phase' \notin {"chosen", "rejected"} /\ chosen' = chosen
    BY <1>3 DEF Expire, PageFails, PageArrives, StopAtLimit, SkipDuplicate, BrowseFails,
                BrowseSucceeds, LoopEnds, GetPlaylistReturns, SidecarFails, Ask, MoreToAsk, Failed
  <2>2. chosen' = <<>>
    BY <2>1 DEF SelectionInv
  <2>3. DOMAIN <<>> = {}
    OBVIOUS
  <2> QED
    BY <2>1, <2>2, <2>3 DEF SelectionInv, SelectionAsAsked, KeepsItsIndex
<1>4. CASE ChooseItems
  <2>1. PICK r \in Requests :
          /\ request' = r
          /\ IF \E k \in DOMAIN SelectorOf(r) : Rejects(SelectorOf(r)[k], Len(videos))
             THEN phase' = "rejected" /\ UNCHANGED chosen
             ELSE phase' = "chosen" /\ chosen' \in Orders(Select(r), r)
    BY <1>4 DEF ChooseItems
  <2>2. phase = "returned" /\ videos' = videos
    BY <1>4 DEF ChooseItems
  <2>3. videos \in Seq(VideoType) /\ Len(videos) \in Nat
    BY LenProperties DEF PagesInv, ListTypeOK, VideoType, Pages
  <2>4. CASE \E k \in DOMAIN SelectorOf(r) : Rejects(SelectorOf(r)[k], Len(videos))
    <3>1. phase' = "rejected" /\ chosen' = <<>>
      BY <2>1, <2>2, <2>4 DEF SelectionInv
    <3>2. PICK k \in DOMAIN SelectorOf(r) : Rejects(SelectorOf(r)[k], Len(videos))
      BY <2>4
    <3>3. SelectorOf(r)[k] \in Parts
      BY SelectorTypes, LenProperties, ElementOfSeq
    <3>4. \/ 0 \in {SelectorOf(r)[k].from, SelectorOf(r)[k].to, SelectorOf(r)[k].step}
          \/ Denotes(SelectorOf(r)[k], Len(videos)) = {}
      BY <2>3, <3>2, <3>3, RejectedPart
    <3>5. DOMAIN <<>> = {}
      OBVIOUS
    <3> QED
      BY <2>1, <2>2, <3>1, <3>4, <3>5 DEF SelectionInv, SelectionAsAsked, KeepsItsIndex
  <2>5. CASE ~ \E k \in DOMAIN SelectorOf(r) : Rejects(SelectorOf(r)[k], Len(videos))
    <3>1. phase' = "chosen" /\ chosen' \in Orders(Select(r), r)
      BY <2>1, <2>5
    <3>2. /\ \A k \in DOMAIN chosen' :
               chosen'[k].index \in DOMAIN videos
               /\ videos[chosen'[k].index] = chosen'[k].video
          /\ {chosen'[k].video : k \in DOMAIN chosen'}
               = {videos[i] : i \in Asked(r, Len(videos))}
          /\ Len(chosen') = Cardinality(Asked(r, Len(videos)))
      BY <2>3, <2>5, <3>1, ChosenItems
    <3>3. KeepsItsIndex'
      BY <2>2, <3>2 DEF KeepsItsIndex
    <3> DEFINE asked == Asked(r, Len(videos))
    <3>4. asked = IF SelectorOf(request') = <<>> THEN 1..Len(videos')
                  ELSE UNION {Denotes(SelectorOf(request')[k], Len(videos')) :
                                k \in DOMAIN SelectorOf(request')}
      BY <2>1, <2>2 DEF Asked, PlacesOf
    <3>5. /\ {chosen'[k].video : k \in DOMAIN chosen'} = {videos'[i] : i \in asked}
          /\ Len(chosen') = Cardinality(asked)
      BY <2>2, <3>2
    <3> HIDE DEF asked
    <3>6. SelectionAsAsked'
      BY <3>1, <3>3, <3>4, <3>5 DEF SelectionAsAsked
    <3> QED
      BY <3>1, <3>6 DEF SelectionInv
  <2> QED
    BY <2>4, <2>5
<1> QED
  BY <1>1, <1>2, <1>3, <1>4 DEF ListNext

LEMMA InitSelection == ListInit => SelectionInv
<1>1. DOMAIN <<>> = {}
  OBVIOUS
<1> QED
  BY <1>1 DEF ListInit, SelectionInv, SelectionAsAsked, KeepsItsIndex

\* For playlists of any length and any selector, bounds, steps and order: the
\* items handed on are the videos the selector stands for, each of them once
\* and with its place in the whole playlist, and a selector is turned down for
\* nothing else than a part that is no part or stands for no video.
THEOREM ChosenAsAsked == ListSpec => []SelectionAsAsked
<1>1. SelectionInv => SelectionAsAsked
  BY DEF SelectionInv
<1> QED
  BY <1>1, InitSelection, SelectionStep, PagesInvariant, PTL DEF ListSpec

=============================================================================
