--------------------------- MODULE MCPlaylistPages ---------------------------
(***************************************************************************)
(* A small instance of PlaylistPages: three tokens, pages that name none,  *)
(* one or two of them, themselves and the page before included, and        *)
(* selectors of every form on lists of none to five videos.                *)
(***************************************************************************)
EXTENDS PlaylistPages

CONSTANTS a, b, c

MCNextTokens == {{}, {a}, {b}, {c}, {a, b}, {b, c}}

Part(from, to, step) == [from |-> from, to |-> to, step |-> step]

MCParts ==
  {Part(from, to, step) : from \in {Open, -5, -2, 3}, to \in {Open, -1, 2},
                          step \in {Open, 2, -1, -2}}
    \cup {Part(i, i, Open) : i \in {-4, 0, 2, 4}}

Options(items, start, end, reverse, random) ==
  [items |-> items, start |-> start, end |-> end,
   reverse |-> reverse, random |-> random]

MCRequests ==
  {Options(<<part>>, 0, 0, FALSE, FALSE) : part \in MCParts}
    \cup {Options(<<Part(-1, -1, Open), Part(1, 3, 2)>>, 2, 0, reverse, FALSE) :
            reverse \in BOOLEAN}
    \cup {Options(<<>>, start, end, FALSE, TRUE) : start, end \in {0, 2}}
    \cup {Options(<<>>, 0, 3, TRUE, TRUE)}
=============================================================================
