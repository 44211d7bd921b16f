----------------------------- MODULE PolicyEngine -----------------------------
(***************************************************************************)
(* How a rule is evaluated, and how the rules of the active policies are   *)
(* put together: for a live decision, for a dry run, and for the test and  *)
(* simulate endpoints of the admin.                                        *)
(*                                                                         *)
(* A rule is a record with the fields of its JSON object, so a field may   *)
(* be missing.  Text is the set of words a rule could find in it, a URL or *)
(* an address the set of patterns it contains.  RuleInput is a record with *)
(* Null for what an action does not have, and the hour and day of the      *)
(* clock, which time_window reads.                                         *)
(***************************************************************************)
EXTENDS Integers, Sequences, FiniteSetsExt, SequencesExt

CONSTANTS
    Rules,   \* the rules an admin may write, with the parts of each
    Nesting, \* of a rule: how deep its parts go
    Null     \* what is not there

Has(record, field) == field \in DOMAIN record

Field(rule, field, default) == IF Has(rule, field) THEN rule[field] ELSE default

\* The parts of a rule of type "and" or "or".
Parts(rule) == Field(rule, "rules", <<>>)

IsComposite(rule) == Has(rule, "type") /\ rule.type \in {"and", "or"}

\* serde_json reads no value nested deeper than its limit of 128, and each part
\* is an object in an array.
MaxNesting == 64

ASSUME RulesAssumption ==
    /\ Nesting \in [Rules -> 0 .. MaxNesting]
    /\ \A rule \in Rules :
          /\ Field(rule, "priority", 0) \in Int
          /\ IsComposite(rule) =>
                /\ Parts(rule) \in Seq(Rules)
                /\ \A i \in DOMAIN Parts(rule) : Nesting[Parts(rule)[i]] < Nesting[rule]

\* RiskLevel, in the order merge_outcomes gives it.
Low == 0
Medium == 1
High == 2
Critical == 3

Outcome(deny, level) == [immediate_deny |-> deny, risk_level |-> level]
NoMatch == [immediate_deny |-> FALSE, risk_level |-> Null]

\* What a rule of a type says when it matches.
Effect ==
    [deny_keyword     |-> Outcome(TRUE, Critical),
     require_approval |-> Outcome(FALSE, High),
     max_amount       |-> Outcome(TRUE, High),
     regex_deny       |-> Outcome(TRUE, Critical),
     risk_flag        |-> Outcome(FALSE, Medium),
     url_allowlist    |-> Outcome(TRUE, High),
     url_blocklist    |-> Outcome(TRUE, Critical),
     time_window      |-> Outcome(TRUE, Medium),
     ip_allowlist     |-> Outcome(TRUE, High),
     geofence         |-> Outcome(TRUE, High)]

SyncRuleTypes == DOMAIN Effect

ASYNC_RULE_TYPES == {"rate_limit", "concurrency_limit", "budget_limit",
                     "histogram_trend", "trend_anomaly"}

\* The words regex_deny searches: those of the intent and of the payload.
FullText(input) ==
    input.intent \cup (IF input.payload = Null THEN {} ELSE input.payload.words)

\* A rule whose list or number is missing matches nothing (the ? on get),
\* and neither does one whose subject the action does not have.
Matches(rule, input) ==
    \/ rule.type \in {"deny_keyword", "risk_flag"}
       /\ Field(rule, "keywords", {}) \cap input.intent # {}
    \/ rule.type = "require_approval"
       /\ input.target_method \in Field(rule, "action_types", {})
    \/ rule.type = "max_amount"
       /\ Has(rule, "max") /\ input.payload # Null
       /\ input.payload.amount # Null /\ input.payload.amount > rule.max
    \/ rule.type = "regex_deny"
       /\ Field(rule, "patterns", {}) \cap FullText(input) # {}
    \/ rule.type \in {"url_allowlist", "url_blocklist"}
       /\ Has(rule, "patterns") /\ input.target_url # Null
       /\ (rule.type = "url_blocklist") = (rule.patterns \cap input.target_url # {})
    \/ rule.type = "time_window"
       /\ \/ Has(rule, "days") /\ input.now.day \notin rule.days
          \/ input.now.hour < Field(rule, "start_hour_utc", 0)
          \/ input.now.hour >= Field(rule, "end_hour_utc", 24)
    \/ rule.type = "ip_allowlist"
       /\ Has(rule, "patterns") /\ input.metadata # Null
       /\ input.metadata.source_ip # Null
       /\ rule.patterns \cap input.metadata.source_ip = {}
    \/ rule.type = "geofence"
       /\ input.metadata # Null
       /\ input.metadata.country \in Field(rule, "blocked_countries", {})

\* Mutant: an unknown type is skipped.
EvaluateSimpleOpen(rule, input) ==
    IF rule.type \in SyncRuleTypes /\ Matches(rule, input) THEN Effect[rule.type] ELSE NoMatch

\* An unknown type denies; a type that needs the database is left to the
\* caller.
EvaluateSimple(rule, input) ==
    CASE rule.type \in SyncRuleTypes ->
            IF Matches(rule, input) THEN Effect[rule.type] ELSE NoMatch
      [] rule.type \in ASYNC_RULE_TYPES -> NoMatch
      [] OTHER -> Outcome(TRUE, High)

MergeOutcomes(outcomes) ==
    IF outcomes = <<>> THEN NoMatch
    ELSE Outcome(\E i \in DOMAIN outcomes : outcomes[i].immediate_deny,
                 Max({outcomes[i].risk_level : i \in DOMAIN outcomes}))

\* "or" returns the first part that matches, "and" merges parts that all do.
EvaluateComposite(type, outcomes) ==
    LET matching == {i \in DOMAIN outcomes : outcomes[i] # NoMatch} IN
    CASE type = "and" /\ matching = DOMAIN outcomes -> MergeOutcomes(outcomes)
      [] type = "or" /\ matching # {} -> outcomes[Min(matching)]
      [] OTHER -> NoMatch

\* The outcome of a rule, given those of its parts.  A rule without a type
\* matches nothing.
OutcomeOf(rule, input, outcome) ==
    CASE ~Has(rule, "type") -> NoMatch
      [] IsComposite(rule) ->
            EvaluateComposite(rule.type, [i \in DOMAIN Parts(rule) |-> outcome[Parts(rule)[i]]])
      [] OTHER -> EvaluateSimple(rule, input)

EvaluateRule(root, input) ==
    LET evaluate[rule \in Rules] == OutcomeOf(rule, input, evaluate)
    IN  evaluate[root]

\* By priority, those of the same priority in the order declared.
SortRules(rules) ==
    LET Priority(i) == Field(rules[i], "priority", 0)
        Before(i, j) == Priority(i) < Priority(j) \/ (Priority(i) = Priority(j) /\ i <= j)
        Place(j) == Cardinality({i \in DOMAIN rules : Before(i, j)})
    IN  [n \in DOMAIN rules |-> rules[CHOOSE j \in DOMAIN rules : Place(j) = n]]

\* The rules column of a policy, when it is an array.
RulesOf(policy) == IF policy.rules = Null THEN <<>> ELSE policy.rules

\* Mutant: the first match ends the evaluation of a policy, if it denies or not.
EvaluateSyncFirstMatch(policies, input, dryRun) ==
    LET outcome(i, n) == EvaluateRule(SortRules(RulesOf(policies[i]))[n], input)
        matching(i) == {n \in DOMAIN RulesOf(policies[i]) : outcome(i, n) # NoMatch}
        denying == {i \in DOMAIN policies :
                      ~dryRun /\ matching(i) # {} /\ outcome(i, Min(matching(i))).immediate_deny}
    IN  [immediate_deny |-> denying # {},
         matched_policy_id |-> IF denying = {} THEN Null ELSE policies[Min(denying)].id]

-----------------------------------------------------------------------------
(* The rules that need no database, of the policies a live evaluation has  *)
(* read, in its order.  The first rule to deny ends it; a match that does  *)
(* not deny only goes into the context the providers are shown, as does    *)
(* every match of a dry run.  (The context is left out.)                   *)
EvaluateSync(policies, input, dryRun) ==
    LET outcome(i, n) == EvaluateRule(SortRules(RulesOf(policies[i]))[n], input)
        denials(i) == {n \in DOMAIN RulesOf(policies[i]) :
                         ~dryRun /\ outcome(i, n).immediate_deny}
        denying == {i \in DOMAIN policies : denials(i) # {}}
        first == Min(denying)
    IN  [immediate_deny |-> denying # {},
         matched_policy_id |-> IF denying = {} THEN Null ELSE policies[first].id,
         risk_level |-> IF denying = {} THEN Null
                        ELSE outcome(first, Min(denials(first))).risk_level]

\* What the test endpoint tells the evaluator of an action: neither method
\* nor metadata.
Sample(input) == [input EXCEPT !.target_method = Null, !.metadata = Null]

\* Mutant: the simulation stops at a policy's first match.
TestPolicyFirstMatch(rules, input) ==
    LET sorted == SortRules(rules)
        outcome == [n \in DOMAIN sorted |-> EvaluateRule(sorted[n], Sample(input))]
        seen == {n \in DOMAIN sorted : outcome[n] # NoMatch}
    IN  [matched |-> seen # {},
         immediate_deny |-> seen # {} /\ outcome[Min(seen)].immediate_deny,
         risk_level |-> IF seen = {} THEN Null ELSE outcome[Min(seen)].risk_level]

\* test_policy and test_policy_inner: one array of rules, up to the first
\* denial; the risk reported is that of the last match seen.
TestPolicy(rules, input) ==
    LET sorted == SortRules(rules)
        outcome == [n \in DOMAIN sorted |-> EvaluateRule(sorted[n], Sample(input))]
        denials == {n \in DOMAIN sorted : outcome[n].immediate_deny}
        seen == {n \in DOMAIN sorted :
                    outcome[n] # NoMatch /\ (denials = {} \/ n <= Min(denials))}
    IN  [matched |-> seen # {},
         immediate_deny |-> denials # {},
         risk_level |-> IF seen = {} THEN Null ELSE outcome[Max(seen)].risk_level]

\* simulate_policies: each active policy for itself, in no order.
SimulatePolicies(policies, input) ==
    [i \in DOMAIN policies |-> TestPolicy(RulesOf(policies[i]), input)]
=============================================================================
