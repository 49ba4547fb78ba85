--------------------------- MODULE MCSessionCache ---------------------------
(***************************************************************************)
(* Model checking SessionCache: threads and videos are interchangeable.    *)
(***************************************************************************)
EXTENDS SessionCache, TLC

Symmetry == Permutations(Threads) \cup Permutations(Videos)
=============================================================================
