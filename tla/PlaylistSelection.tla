-------------------------- MODULE PlaylistSelection --------------------------
(***************************************************************************)
(* Which videos of a playlist a run handles, and in which order:           *)
(* client/playlist_selection.go and client/playlist_order.go.              *)
(*                                                                         *)
(* A selector is the sequence of its parts.  A part is [from, to, step],   *)
(* with Open for a bound or a step that is left out: "i" is [i, i, Open],  *)
(* "a-b" is [a, b, Open], "a:b:s" is [a, b, s].  A 0 stands for any field  *)
(* that is no number or may not be 0, an empty part included.              *)
(***************************************************************************)
EXTENDS Integers, Sequences, FiniteSets, SequencesExt

CONSTANT Open  \* a bound that is left out

ASSUME OpenAssumption == Open \notin Int

Parts == [from : Int \cup {Open}, to : Int \cup {Open}, step : Int \cup {Open}]

Smaller(a, b) == IF a < b THEN a ELSE b
Larger(a, b) == IF a < b THEN b ELSE a

-----------------------------------------------------------------------------
(* One part, resolved against a playlist of total videos.                  *)

\* parsePlaylistIndex: a negative index counts from the right.
PlaceOf(index, total) == IF index < 0 THEN total + index + 1 ELSE index

StepOf(part) == IF part.step = Open THEN 1 ELSE part.step

\* The start and the end that parsePlaylistItemRange takes the part for.
FirstOf(part, total) ==
  IF part.from # Open THEN PlaceOf(part.from, total)
  ELSE IF StepOf(part) < 0 THEN total ELSE 1

LastOf(part, total) ==
  IF part.to # Open THEN PlaceOf(part.to, total)
  ELSE IF StepOf(part) < 0 THEN 1 ELSE total

\* The part is an error, whatever the playlist, or because its bounds run
\* against its step once they are resolved against this playlist.
Rejects(part, total) ==
  \/ 0 \in {part.from, part.to, part.step}
  \/ StepOf(part) > 0 /\ FirstOf(part, total) > LastOf(part, total)
  \/ StepOf(part) < 0 /\ FirstOf(part, total) < LastOf(part, total)

\* A start before the first video stays there.
ClampLeavesStart(part, total) ==
  LET first == FirstOf(part, total)
      last  == LastOf(part, total)
  IN  IF StepOf(part) > 0 THEN <<first, Smaller(last, total)>>
      ELSE <<Smaller(first, total), Larger(last, 1)>>

\* clampPlaylistRange, for a part that is no error and meets the playlist.
Clamp(part, total) ==
  LET first == FirstOf(part, total)
      last  == LastOf(part, total)
  IN  IF StepOf(part) > 0 THEN <<Larger(first, 1), Smaller(last, total)>>
      ELSE <<Smaller(first, total), Larger(last, 1)>>

\* The part lies beside the playlist: nothing is chosen, without an error.
Misses(part, total) ==
  LET first == FirstOf(part, total)
      last  == LastOf(part, total)
  IN  \/ total = 0
      \/ StepOf(part) > 0 /\ (first > total \/ last < 1)
      \/ StepOf(part) < 0 /\ (first < 1 \/ last > total)

\* playlistRangeIndexes of the clamped range.
Indexes(part, total) ==
  IF Misses(part, total) THEN <<>>
  ELSE LET range == Clamp(part, total)
           step  == StepOf(part)
           count == IF step > 0 THEN (range[2] - range[1]) \div step + 1
                    ELSE (range[1] - range[2]) \div (-step) + 1
       IN  [k \in 1..Larger(count, 0) |-> range[1] + (k - 1) * step]

-----------------------------------------------------------------------------

\* The places that are named, <<part, position in the part's range>>, in the
\* order the loop of SelectPlaylistItems comes to them.
Mentions(selector, total) ==
  UNION {{k} \X DOMAIN Indexes(selector[k], total) : k \in DOMAIN selector}

Mentioned(selector, total, m) == Indexes(selector[m[1]], total)[m[2]]

Earlier(m, n) == m[1] < n[1] \/ (m[1] = n[1] /\ m[2] < n[2])

\* The mentions it picks: of places that exist and were not named before.
Picked(selector, total) ==
  {m \in Mentions(selector, total) :
     /\ Mentioned(selector, total, m) \in 1..total
     /\ \A n \in Mentions(selector, total) :
          Earlier(n, m) => Mentioned(selector, total, n) # Mentioned(selector, total, m)}

\* The mentions of a set in their order.
InOrder(mentions) ==
  LET Rank(m) == Cardinality({n \in mentions : Earlier(n, m)})
  IN  [r \in 1..Cardinality(mentions) |-> CHOOSE m \in mentions : Rank(m) = r - 1]

\* SelectPlaylistItems of a selector none of whose parts is an error.
SelectPlaylistItems(selector, total) ==
  LET picked == InOrder(Picked(selector, total))
  IN  IF selector = <<>> THEN [i \in 1..total |-> i]
      ELSE [r \in DOMAIN picked |-> Mentioned(selector, total, picked[r])]

\* playlistSelector of --playlist-items, --playlist-start and --playlist-end.
SelectorOf(opts) ==
  LET Given(bound) == IF bound > 0 THEN bound ELSE Open
  IN  IF opts.items # <<>> THEN opts.items
      ELSE IF opts.start <= 0 /\ opts.end <= 0 THEN <<>>
      ELSE <<[from |-> Given(opts.start), to |-> Given(opts.end), step |-> Open]>>

\* orderPlaylistItems: the orders a list may come out in.
Orders(list, opts) ==
  IF opts.reverse THEN {Reverse(list)}
  ELSE IF opts.random
  THEN {[k \in DOMAIN list |-> list[p[k]]] : p \in SetToSeqs(DOMAIN list)}
  ELSE {list}

=============================================================================
