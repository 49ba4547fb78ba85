---------------------------- MODULE MCWatchData ----------------------------
(***************************************************************************)
(* A small instance of WatchData: three clients of one host with pages of  *)
(* their own, one of them with a key of its own; whole pages, pages        *)
(* without a key and blank ones.                                           *)
(***************************************************************************)
EXTENDS WatchData, TLC

MCProfiles ==
  {[id |-> "web", host |-> "www", key |-> "", cookies |-> TRUE],
   [id |-> "web_embedded", host |-> "www", key |-> "own", cookies |-> FALSE],
   [id |-> "tv", host |-> "www", key |-> "", cookies |-> FALSE]}

Page(key, visitor, sync, sts, player) ==
  [key |-> key, visitor |-> visitor, delegated |-> "", user |-> "",
   sync |-> sync, sts |-> sts, player |-> player]

MCPages == {Page(TRUE, "v", <<"d", "u">>, FALSE, TRUE),
            Page(FALSE, "v", <<"u", "">>, TRUE, TRUE),
            Page(FALSE, "", <<>>, FALSE, FALSE)}

Symmetry == Permutations(Callers)
=============================================================================
