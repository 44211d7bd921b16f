------------------------------ MODULE MCPolicies ------------------------------
(***************************************************************************)
(* Policies over a small universe of rules: each type, with and without    *)
(* its list, composites of the kinds that differ, and misspelt ones; and   *)
(* actions that match one, several or none of them.                        *)
(***************************************************************************)
EXTENDS Policies

CONSTANTS h1, h2

Keyword   == [type |-> "deny_keyword", keywords |-> {"drop"}, priority |-> 2]
NoList    == [type |-> "deny_keyword"]
Flag      == [type |-> "risk_flag", keywords |-> {"prod"}]
Approval  == [type |-> "require_approval", action_types |-> {"DELETE"}, priority |-> 1]
Amount    == [type |-> "max_amount", max |-> 1]
Pattern   == [type |-> "regex_deny", patterns |-> {"secret"}]
Allowlist == [type |-> "url_allowlist", patterns |-> {"trusted"}]
Blocklist == [type |-> "url_blocklist", patterns |-> {"evil"}]
Window    == [type |-> "time_window", start_hour_utc |-> 8, days |-> {0, 1}]
Addresses == [type |-> "ip_allowlist", patterns |-> {"10.0"}]
Fence     == [type |-> "geofence", blocked_countries |-> {"XX"}]
Counted   == [type |-> "rate_limit", max_count |-> 1]
Typo      == [type |-> "typo"]
Untyped   == [keywords |-> {"drop"}]

Every(parts) == [type |-> "and", rules |-> parts]
Either(parts) == [type |-> "or", rules |-> parts]

Composites ==
    {Every(<<Keyword, Flag>>), Every(<<Flag, Approval>>), Every(<<>>), Every(<<Counted, Keyword>>),
     Either(<<Flag, Keyword>>), Either(<<Approval, Amount>>), Either(<<>>),
     Every(<<Either(<<Flag, Keyword>>), Amount>>), Either(<<Every(<<Flag, Approval>>), Pattern>>)}

Correct ==
    {Keyword, NoList, Flag, Approval, Amount, Pattern, Allowlist, Blocklist, Window,
     Addresses, Fence, Counted, Typo, Untyped} \cup Composites

\* One typo at the rule itself or at a part, and one a level deeper too.
TypoAbove(rule) ==
    {Typo} \cup {[rule EXCEPT !.rules[i] = Typo] : i \in DOMAIN Parts(rule)}
TypoBelow(rule) ==
    UNION {{[rule EXCEPT !.rules[i] = part] : part \in TypoAbove(Parts(rule)[i])} :
           i \in DOMAIN Parts(rule)}

MCRules == Correct \cup UNION {TypoAbove(rule) \cup TypoBelow(rule) : rule \in Correct}

MCNesting[rule \in MCRules] ==
    IF IsComposite(rule) THEN 1 + Max({0} \cup {MCNesting[Parts(rule)[i]] : i \in DOMAIN Parts(rule)})
    ELSE 0

MCRuleSets ==
    {Null, <<Flag, Keyword, Approval>>, <<Allowlist, Blocklist, NoList, Typo>>,
     <<Window, Untyped, Addresses, Fence, Counted>>,
     <<Every(<<Keyword, Flag>>), Either(<<Approval, Amount>>), Every(<<>>), Either(<<>>), Amount>>,
     <<Either(<<Flag, Keyword>>), Every(<<Counted, Keyword>>), Pattern,
       Every(<<Flag, Approval>>), Every(<<Either(<<Flag, Keyword>>), Amount>>),
       Either(<<Every(<<Flag, Approval>>), Pattern>>)>>}

MCTables == {<<[rules |-> <<Flag, Keyword, Approval>>, active |-> TRUE, due |-> TRUE]>>}

Noon == [hour |-> 12, day |-> 0]
Night == [hour |-> 3, day |-> 6]

Plain(words, payload, url) ==
    [intent |-> words, payload |-> payload, target_url |-> url,
     target_method |-> Null, metadata |-> Null, now |-> Noon]

MCInputs ==
    {Plain({}, Null, Null),
     Plain({"drop"}, Null, {"evil", "trusted"}),
     Plain({"prod"}, [words |-> {"secret"}, amount |-> 2], {"trusted"}),
     Plain({"prod", "drop"}, [words |-> {}, amount |-> 1], {}),
     [Plain({"prod"}, [words |-> {}, amount |-> Null], Null) EXCEPT
        !.target_method = "DELETE", !.now = Night],
     [Plain({}, Null, {"trusted"}) EXCEPT
        !.metadata = [source_ip |-> {"192.168"}, country |-> "XX"]],
     [Plain({"drop"}, Null, Null) EXCEPT
        !.metadata = [source_ip |-> Null, country |-> Null], !.target_method = "GET"]}

MCSymmetry == Permutations(Editors)
=============================================================================
