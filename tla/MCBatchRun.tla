------------------------------ MODULE MCBatchRun ------------------------------
EXTENDS BatchRun
CONSTANTS v1, v2
MCVideos == {v1, v2}
One(v) == [playlist |-> FALSE, items |-> <<v>>]
List(s) == [playlist |-> TRUE, items |-> s]

\* Videos and playlists that repeat each other's, and an empty selection.
MCBatches == {<<List(<<v1, v2>>), One(v1)>>, <<One(v1), List(<<v2, v1>>)>>,
              <<List(<<v1>>), List(<<v2, v2>>)>>, <<List(<< >>), One(v2)>>}

\* Every combination that the program can tell apart; a merge writes in place
\* whether or not there are part files.
MCOptions ==
  {o \in [archive : BOOLEAN, breakOnExisting : BOOLEAN, maxDownloads : 0..2,
          abortOnError : BOOLEAN, skipAfterErrors : 0..1, simulate : BOOLEAN,
          forceArchive : BOOLEAN, noOverwrites : BOOLEAN,
          noPostOverwrites : BOOLEAN, part : BOOLEAN, merges : BOOLEAN] :
     /\ o.breakOnExisting => o.archive
     /\ o.forceArchive => o.simulate
     /\ o.simulate => ~o.noOverwrites /\ o.part /\ ~o.merges
     /\ o.noPostOverwrites => o.merges /\ ~o.noOverwrites
     /\ o.merges => o.part}

\* The options of the runs that look for one behaviour.
Plain == [archive |-> TRUE, breakOnExisting |-> FALSE, maxDownloads |-> 0,
          abortOnError |-> FALSE, skipAfterErrors |-> 0, simulate |-> FALSE,
          forceArchive |-> FALSE, noOverwrites |-> FALSE,
          noPostOverwrites |-> FALSE, part |-> TRUE, merges |-> FALSE]
MCPlain == {Plain}
MCLimited == {[Plain EXCEPT !.maxDownloads = 1]}
MCMerging == {[Plain EXCEPT !.merges = TRUE, !.noPostOverwrites = TRUE]}
=============================================================================
