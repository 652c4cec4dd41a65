----------------------------- MODULE Classifier -----------------------------
(***************************************************************************)
(* routing_matrix/classifier.py: the score of a prompt and its tier.       *)
(*                                                                         *)
(* A prompt is the set of signals that occur in it, and whether it has at  *)
(* most twenty words.  A signal that is part of another one occurs with it *)
(* (Within), so that one word may count more than once.                    *)
(***************************************************************************)
EXTENDS Integers, FiniteSets

Keywords == {"refactor", "multiple files", "multi-file", "cross-file", "architecture",
             "migration", "integration", "refactoring", "concurrent", "distributed",
             "refactor."}

Structural == {"multiple", "several", "across", "files", "modules", "services", "async",
               "thread", "database", "migrate"}

AdvancedTypes == {"refactor", "refactoring", "migration", "architecture", "integration",
                  "multi-file"}

Signals == Keywords \union Structural

Within(signal) ==
    CASE signal \in {"refactoring", "refactor."} -> {"refactor"}
      [] signal = "multiple files" -> {"multiple", "files"}
      [] OTHER -> {}

Prompts == [signals : {S \in SUBSET Signals : \A s \in S : Within(s) \subseteq S},
            short : BOOLEAN]

Score(prompt, type) ==
    2 * Cardinality(prompt.signals \intersect Keywords)
    + Cardinality(prompt.signals \intersect Structural)
    + (IF type \in AdvancedTypes THEN 2 ELSE 0)

(* A short prompt is standard whatever it says.                            *)
ClassifyShortFirst(prompt, type) ==
    IF ~prompt.short /\ Score(prompt, type) >= 3 THEN "advanced" ELSE "standard"

Classify(prompt, type) ==
    LET plain == prompt.signals = {} /\ type \notin AdvancedTypes
    IN IF plain /\ prompt.short THEN "standard"
       ELSE IF Score(prompt, type) >= 3 THEN "advanced" ELSE "standard"

(* A prompt that says at least as much.                                    *)
Covers(more, less) == less.signals \subseteq more.signals

=============================================================================
