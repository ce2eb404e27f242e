------------------------------ MODULE MCLibrary ------------------------------
(* Two uploads of one presentation, one PDF or one graph source, with a     *)
(* preview or two, an ingest run and a deletion; and batches of several.    *)
EXTENDS Library

MCNames == {"deck", "paper", "chat"}
MCGraphNames == {"chat"}
MCDeckNames == {"deck"}

\* One version is too large, one has no accepted name, one no source claims.
MCLength == [first |-> 2, second |-> 2, large |-> 3, illegal |-> 1, noise |-> 1]
MCAllowed == {"first", "second", "large", "noise"}
MCSources == {"first", "second"}

One(name, version) == <<[name |-> name, version |-> version]>>
MCScenarios ==
  [uploads : {[a |-> One("deck", "first"), b |-> One("deck", "second")]},
   previews : {{"p"}}, faults : {{}}]
  \cup
  [uploads : {[a |-> One("paper", "first"), b |-> One("paper", "second")]},
   previews : {{"p"}}, faults : {{"kill"}}]
  \cup
  [uploads : {[a |-> One("deck", "first")]}, previews : {{"p", "q"}}, faults : {{"convert"}}]
  \cup
  [uploads : {[a |-> One("chat", "first"), b |-> One("chat", "noise")],
              [a |-> One("paper", "illegal") \o One("paper", "first"), b |-> One("paper", "large")],
              [a |-> One("deck", "large") \o One("paper", "first"),
               b |-> One("deck", "second") \o One("deck", "noise") \o One("paper", "illegal")]},
   previews : {{}}, faults : {{"write", "kill"}}]
=============================================================================
