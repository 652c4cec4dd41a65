--------------------------- MODULE MCOrchestrator ---------------------------
(* Small instances of Orchestrator for TLC.                                *)
EXTENDS Orchestrator, TLC

CONSTANTS c1, c2, c3

MCCalls == {c1, c2, c3}

(* One thread calls twice, the other one once.                             *)
MCEarlier == c1 :> {} @@ c2 :> {c1} @@ c3 :> {}
MCCost == "standard" :> 1 @@ "advanced" :> 5 @@ "frontier" :> 20

Ask(account, prompt, escalate, degraded, provider) ==
    [account |-> account, prompt |-> prompt, type |-> "feature",
     escalate |-> escalate, degraded |-> degraded, provider |-> provider]

Says(signals, short) == [signals |-> signals, short |-> short]

(* One word that counts twice.                                             *)
Twice == {"refactor", "refactoring"}

(* Most calls are for the default account, which one of them does not      *)
(* name; some are for another one, some name a provider that is unknown    *)
(* until it is registered, and one is routed to a tier without a model.    *)
MCRequests ==
    c1 :> {Ask("", Says(Twice \union {"async"}, TRUE), FALSE, FALSE, "")} @@
    c2 :> {Ask("default", Says({}, TRUE), TRUE, TRUE, "other"),
           Ask("a", Says({"async"}, TRUE), FALSE, FALSE, "echo")} @@
    c3 :> {Ask("default", Says(Twice, FALSE), FALSE, FALSE, "echo"),
           Ask("default", Says({}, FALSE), FALSE, FALSE, "other"),
           Ask("default", Says({}, TRUE), TRUE, FALSE, "echo")}

MCRegistrations == {<<"echo", "Custom">>, <<"other", "Custom">>}
=============================================================================
