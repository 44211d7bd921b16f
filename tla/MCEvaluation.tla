----------------------------- MODULE MCEvaluation -----------------------------
(***************************************************************************)
(* Two actions of one agent, of which a counting policy, one or another,   *)
(* admits one; an admin may change that policy or withdraw it.             *)
(***************************************************************************)
EXTENDS Evaluation, TLC

CONSTANTS a1, a2, w1, w2, h1, ann

Rate        == [type |-> "rate_limit", max_count |-> 2, window_secs |-> 1]
Concurrency == [type |-> "concurrency_limit", max_simultaneous |-> 2]
Budget      == [type |-> "budget_limit", max_budget |-> 3]
Trend       == [type |-> "histogram_trend"]
Flag        == [type |-> "risk_flag", keywords |-> {"prod"}]
Keyword     == [type |-> "deny_keyword", keywords |-> {"drop"}]

Single      == [type |-> "rate_limit", max_count |-> 1, window_secs |-> 1]
Typo        == [type |-> "typo"]

MCRules == {Rate, Single, Concurrency, Budget, Trend, Flag, Keyword, Typo}

MCNesting == [rule \in MCRules |-> 0]

MCRuleSets == {<<Budget, Flag, Keyword>>, <<Rate, Concurrency, Trend>>}

\* A table of one policy in force.
Only(rules) == <<[rules |-> rules, active |-> TRUE, due |-> TRUE]>>

MCTables == {Only(rules) : rules \in MCRuleSets}

RateRuleSets == {<<Single>>}

RateTables == {Only(<<Single>>)}

MCAgentOf == [a \in Actions |-> ann]

Spend(words) ==
    [intent |-> words, payload |-> [words |-> {}, amount |-> 2], target_url |-> Null,
     target_method |-> Null, metadata |-> Null, now |-> [hour |-> 12, day |-> 0]]

Prompt == [Spend({"ignore previous"}) EXCEPT !.payload = Null]

MCInputs == {Spend({"prod"}), Spend({"prod", "drop"}), Prompt}

MCInjected == {Prompt}

MCAttempts == <<2, 1>>

Symmetry == Permutations(Workers) \cup Permutations(Actions)
=============================================================================
