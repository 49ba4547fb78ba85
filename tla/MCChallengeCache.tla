-------------------------- MODULE MCChallengeCache --------------------------
(***************************************************************************)
(* A small instance of ChallengeCache: two variants of one player and one  *)
(* of another, whose script may be cached already; responses that need no, *)
(* one or two solutions.                                                   *)
(***************************************************************************)
EXTENDS ChallengeCache

B == [player |-> "B", locale |-> "en", abs |-> FALSE]
MCURLs == {[player |-> "A", locale |-> "fr", abs |-> TRUE],
           [player |-> "A", locale |-> None, abs |-> FALSE], B}
MCKnown == {{}, {ScriptPath(B)}}

Plain(n) == [direct |-> TRUE, n |-> n, s |-> None]
Ciphered(n, s) == [direct |-> FALSE, n |-> n, s |-> s]

MCResponses == {{Plain(None)}, {Ciphered("n1", "s1")},
                {Plain("n1"), Ciphered(None, "s1")}}

MCDecoders ==
  {[p \in {"A", "B"} |-> {<<"n", "n1">>, <<"sig", "s1">>}],
   [p \in {"A", "B"} |-> IF p = "A" THEN {<<"sig", "s1">>} ELSE {<<"n", "n1">>}]}
=============================================================================
