----------------------------- MODULE MCSettings -----------------------------
(* The pair of fusion weights, which must sum to one, and a setting on its  *)
(* own.  Bodies that swap the pair, half of it, clear it, and set the other.*)
EXTENDS Settings, TLC

CONSTANTS r1, r2, r3

MCNames == {"SEMANTIC_WEIGHT", "BM25_WEIGHT", "TOP_K"}
MCValues == {"0", "1"}
MCDefault == [n \in MCNames |-> IF n = "BM25_WEIGHT" THEN "0" ELSE "1"]
MCBase == [n \in MCNames |-> IF n = "TOP_K" THEN "0" ELSE "unset"]
MCAccepted ==
  {s \in [MCNames -> MCValues] : s["SEMANTIC_WEIGHT"] # s["BM25_WEIGHT"]}
MCPatches ==
  {[n \in {"SEMANTIC_WEIGHT", "BM25_WEIGHT"} |-> IF n = "BM25_WEIGHT" THEN "1" ELSE "0"],
   [n \in {"SEMANTIC_WEIGHT", "BM25_WEIGHT"} |-> "unset"],
   [n \in {"SEMANTIC_WEIGHT"} |-> "0"],
   [n \in {"TOP_K"} |-> "1"], [n \in {"TOP_K"} |-> "unset"]}
=============================================================================
