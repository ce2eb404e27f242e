--------------------------- MODULE MCComputations ---------------------------
(* An instance of Computations for TLC. *)
EXTENDS Computations

MCBound ==
  [stream |-> 6, reply |-> 6, deltas |-> 3, excerpts |-> 3, markdown |-> 5, distances |-> 5,
   passages |-> 5, scan |-> 3, files |-> 3, turns |-> 3, rows |-> 5, series |-> 2, answers |-> 3,
   page |-> [chunk |-> 5, other |-> 5], corpus |-> [dense |-> 3, sparse |-> 3],
   golden |-> [refs |-> 2, chunks |-> 3, retrieved |-> 3]]

MCOpenTag == <<"<", "t">>
MCCloseTag == <<"<", "/", "t">>
MCQueryLabel == <<"x", "x">>
MCPieces == {<<>>, <<"x">>, <<"<">>, <<"<", "/">>, <<"t">>}
MCHistories == {<<>>, <<"one">>, <<"one", "two">>, <<"one", "two", "three">>}
MCCondensings == [enabled : BOOLEAN, turns : 0 .. 2, maxChars : 1 .. 3]

MCExcerpts == [label : {1}, length : {1, 4, 9}, blank : {0, 2}]
MCFacts == {0, 1, 6}
MCBudgets == 0 .. 24
MCPrompts == [window : {10, 20, 30}, cap : {1, 4}, document : {0, 3, 9, 40},
              chunk : {1, 4, 5, 30}, scaffolding : 0 .. 3]

MCLevels == 1 .. 3
MCDistances == 1 .. 3
MCBatchSizes == 1 .. 3
MCWords == {"a", "b"}

MCMessages == 1 .. 6
MCDayOf == <<1, 1, 2, 4, 4, 4>>
MCWindows == [since : {0, 2, 3}, limit : {0, 2}]
=============================================================================
