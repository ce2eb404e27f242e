---------------------------- MODULE MCCorpusIngest ----------------------------
(* Instances of CorpusIngest for TLC. *)
EXTENDS CorpusIngest

CONSTANTS v1, v2, blank, small, large

\* Small chunks cut a text in two or three, large ones leave it whole; a blank
\* one has nothing to cut.
Cuts(v) == IF v = blank THEN [g \in Configs |-> 0]
           ELSE [g \in Configs |-> IF g = large THEN 1 ELSE IF v = v1 THEN 3 ELSE 2]
MCPieces == [v \in Versions |-> Cuts(v)]
=============================================================================
