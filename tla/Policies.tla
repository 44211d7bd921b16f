------------------------------- MODULE Policies -------------------------------
(***************************************************************************)
(* The policies table and the admin's handlers for it.                     *)
(*                                                                         *)
(* The table is the sequence of its rows in the order a live evaluation    *)
(* reads them (ORDER BY created_at, id): a new row comes last, unless it   *)
(* is of the same second as another, when their ids, which are random,     *)
(* decide.  A handler looks a row up, awaits, writes the columns its       *)
(* request names, and then writes the audit row; two handlers may be at    *)
(* work on one policy, each statement may fail, and each handler may be    *)
(* dropped between two of its statements.  activate_at and deactivate_at   *)
(* are written by no handler: a row is due when the clock, or an operator  *)
(* at the database, has made it so.                                        *)
(***************************************************************************)
EXTENDS PolicyEngine

CONSTANTS
    RuleSets,      \* the values of rules a request may carry, Null for a non-array
    Unnamed,       \* the value of a column a request does not name
    Inputs,        \* the actions the promises below are about
    Editors,       \* requests of admins in flight
    Tables,        \* what the rows may be at the start
    MaxPolicies,   \* bound: rows
    MaxEdits,      \* bound: requests served, and turns of a schedule
    MaxFaults,     \* bound: statements that fail
    MaxDrops       \* bound: handlers dropped

\* The rules one typo makes of a rule: in its type, or anywhere in a part of
\* it, given what it makes of the parts.
Misspell(rule, misspelt) ==
    {[type |-> "typo"]} \cup
    (IF IsComposite(rule)
     THEN UNION {{[rule EXCEPT !.rules[i] = part] : part \in misspelt[Parts(rule)[i]]} :
                 i \in DOMAIN Parts(rule)}
     ELSE {})

Misspelt[rule \in Rules] == Misspell(rule, Misspelt)

\* A row may hold any rules, and misspelt ones.
ASSUME PoliciesAssumption ==
    /\ {MaxPolicies, MaxEdits, MaxFaults, MaxDrops} \subseteq Nat
    /\ \A rules \in RuleSets \ {Null} :
          rules \in Seq(Rules) /\ \A n \in DOMAIN rules : Misspelt[rules[n]] \subseteq Rules
    /\ Unnamed \notin RuleSets /\ Unnamed \notin BOOLEAN
    /\ \A t \in Tables :
          /\ t \in Seq([rules : RuleSets, active : BOOLEAN, due : BOOLEAN])
          /\ Len(t) <= MaxPolicies

Ids == 1..MaxPolicies

\* due: the moment is between activate_at and deactivate_at, where they are
\* set.  touched: written since the start (history).
Rows == [id : Ids, rules : RuleSets, active : BOOLEAN, due : BOOLEAN, touched : BOOLEAN]

\* UpdatePolicyRequest, and what a request asks; n tells requests apart.
Columns == [rules : RuleSets \cup {Unnamed}, active : BOOLEAN \cup {Unnamed}]

NoColumns == [rules |-> Unnamed, active |-> Unnamed]
Withdrawn == [NoColumns EXCEPT !.active = FALSE]

Requests == [op : {"policy_created", "policy_updated", "policy_deleted"},
             id : Ids,
             columns : Columns,
             n : 1..MaxEdits]

ASSUME RequestsAssumption == Null \notin Requests

VARIABLES
    policies,   \* rows of policies
    editor,     \* where each request is
    request,    \* what it asks
    trail,      \* the requests audit_log holds rows of
    made,       \* the requests whose edit is committed (history)
    cut,        \* of those, the ones that ended before their audit row (history)
    edits, faults, drops

table == <<policies, editor, request, trail, made, cut, edits, drops>>

\* create_policy's row.
NewRow(id, rules) ==
    [id |-> id, rules |-> rules, active |-> TRUE, due |-> TRUE, touched |-> TRUE]

PoliciesInit ==
    /\ \E t \in Tables :
          policies = [i \in DOMAIN t |-> [id |-> i, rules |-> t[i].rules, active |-> t[i].active,
                                           due |-> t[i].due, touched |-> FALSE]]
    /\ editor = [h \in Editors |-> "idle"]
    /\ request = [h \in Editors |-> Null]
    /\ trail = {} /\ made = {} /\ cut = {}
    /\ edits = 0 /\ faults = 0 /\ drops = 0

Fault == faults < MaxFaults /\ faults' = faults + 1

At(h, step) == editor[h] = step

Goto(h, step) == editor' = [editor EXCEPT ![h] = step]

\* A request arrives.
Ask(h, op, id, columns) ==
    /\ At(h, "idle") /\ edits < MaxEdits
    /\ edits' = edits + 1
    /\ request' = [request EXCEPT ![h] = [op |-> op, id |-> id, columns |-> columns, n |-> edits']]

\* Its edit is committed; the audit row comes next.
Made(h) == made' = made \cup {request'[h]} /\ Goto(h, "record")

\* create_policy's INSERT.
CreatePolicy(h) ==
    \E rules \in RuleSets :
      /\ Len(policies) < MaxPolicies
      /\ Ask(h, "policy_created", Len(policies) + 1, [NoColumns EXCEPT !.rules = rules])
      /\ policies' = Append(policies, NewRow(Len(policies) + 1, rules))
      /\ Made(h)
      /\ UNCHANGED <<trail, cut, faults, drops>>

\* update_policy finds the row; a request that names no column, or a row
\* that is not there, is refused.
LookUpPolicy(h) ==
    \E id \in DOMAIN policies, columns \in Columns \ {NoColumns} :
      /\ Ask(h, "policy_updated", id, columns)
      /\ Goto(h, "write")
      /\ UNCHANGED <<policies, trail, made, cut, faults, drops>>

\* Mutant: a request that does not name active means true.
UpdatedActive(row, columns) ==
    [row EXCEPT !.rules = IF columns.rules = Unnamed THEN @ ELSE columns.rules,
                !.active = columns.active # FALSE,
                !.touched = TRUE]

\* The columns of a row an update of it names.
Updated(row, columns) ==
    [row EXCEPT !.rules = IF columns.rules = Unnamed THEN @ ELSE columns.rules,
                !.active = IF columns.active = Unnamed THEN @ ELSE columns.active,
                !.touched = TRUE]

\* Mutant: an update is not audited.
UpdateUnaudited(h) ==
    /\ At(h, "write")
    /\ policies' = [policies EXCEPT ![request[h].id] = Updated(@, request[h].columns)]
    /\ made' = made \cup {request[h]}
    /\ Goto(h, "idle")
    /\ request' = [request EXCEPT ![h] = Null]
    /\ UNCHANGED <<trail, cut, edits, faults, drops>>

\* update_policy's UPDATE.
UpdatePolicy(h) ==
    /\ At(h, "write")
    /\ policies' = [policies EXCEPT ![request[h].id] = Updated(@, request[h].columns)]
    /\ UNCHANGED request
    /\ Made(h)
    /\ UNCHANGED <<trail, cut, edits, faults, drops>>

\* delete_policy's UPDATE: the row stays, inactive.
DeletePolicy(h) ==
    \E id \in DOMAIN policies :
      /\ Ask(h, "policy_deleted", id, Withdrawn)
      /\ policies' = [policies EXCEPT ![id] = Updated(@, Withdrawn)]
      /\ Made(h)
      /\ UNCHANGED <<trail, cut, faults, drops>>

\* The audit row, after the edit is committed.
RecordEdit(h) ==
    /\ At(h, "record")
    /\ trail' = trail \cup {request[h]}
    /\ Goto(h, "idle")
    /\ request' = [request EXCEPT ![h] = Null]
    /\ UNCHANGED <<policies, made, cut, edits, faults, drops>>

\* A request ends where it is; what it has written stays.
Abandon(h) ==
    /\ ~At(h, "idle")
    /\ cut' = IF At(h, "record") THEN cut \cup {request[h]} ELSE cut
    /\ Goto(h, "idle")
    /\ request' = [request EXCEPT ![h] = Null]
    /\ UNCHANGED <<policies, trail, made, edits>>

\* The statement it is at fails, and it is answered with an error ...
EditFails(h) == Abandon(h) /\ Fault /\ UNCHANGED drops

\* ... or its handler is dropped: the admin has hung up, or the program stops,
\* which drops every handler.
DropEdit(h) == Abandon(h) /\ drops < MaxDrops /\ drops' = drops + 1 /\ UNCHANGED faults

\* A row when its schedule begins to admit it, or ceases to.
Turned(row) == [row EXCEPT !.due = ~@, !.touched = TRUE]

\* The clock reaches an activate_at or a deactivate_at, or an operator sets it.
TurnSchedule(i) ==
    /\ edits < MaxEdits
    /\ edits' = edits + 1
    /\ policies' = [policies EXCEPT ![i] = Turned(@)]
    /\ UNCHANGED <<editor, request, trail, made, cut, faults, drops>>

Edit ==
    \/ \E h \in Editors :
          \/ CreatePolicy(h) \/ LookUpPolicy(h) \/ UpdatePolicy(h)
          \/ DeletePolicy(h) \/ RecordEdit(h) \/ EditFails(h) \/ DropEdit(h)
    \/ \E i \in DOMAIN policies : TurnSchedule(i)

PoliciesSpec == PoliciesInit /\ [][Edit]_<<table, faults>>

-----------------------------------------------------------------------------
PoliciesTypeOK ==
    /\ policies \in Seq(Rows) /\ Len(policies) <= MaxPolicies
    /\ \A i \in DOMAIN policies : policies[i].id = i
    /\ editor \in [Editors -> {"idle", "write", "record"}]
    /\ request \in [Editors -> Requests \cup {Null}]
    /\ \A h \in Editors : request[h] = Null <=> At(h, "idle")
    /\ \A h \in Editors : request[h] # Null => request[h].id \in DOMAIN policies
    /\ trail \subseteq Requests /\ made \subseteq Requests /\ cut \subseteq Requests
    /\ edits \in 0..MaxEdits
    /\ faults \in 0..MaxFaults
    /\ drops \in 0..MaxDrops

\* What simulate_policies selects: the active rows, at their places.
Active == Restrict(policies, {i \in DOMAIN policies : policies[i].active})

\* What evaluate_policies selects: those of them whose schedule admits them.
InForce == Restrict(policies, {i \in DOMAIN policies : policies[i].active /\ policies[i].due})

\* What evaluate_policies has found, no dry run, when it comes to the rules
\* that count in the database.
Uncounted(input) == EvaluateSync(InForce, input, FALSE)

\* A rule of the policy denies the action, taken for itself.
Condemns(policy, input) ==
    \E n \in DOMAIN RulesOf(policy) :
        EvaluateRule(RulesOf(policy)[n], input).immediate_deny

\* Order and priority do not decide: an action is denied exactly if some
\* rule of a policy in force denies it, wherever it stands, however many
\* rules before it matched without denying; and the policy blamed is the
\* first of them (evaluate_policies goes on after a match that does not
\* deny, and returns at the first that does; of the rules that count in the
\* database it has evaluated none yet).
DeniedIfCondemned ==
    \A input \in Inputs :
      LET condemning == {i \in DOMAIN InForce : Condemns(InForce[i], input)}
          found == Uncounted(input)
      IN  /\ found.immediate_deny <=> condemning # {}
          /\ condemning # {} => found.matched_policy_id = InForce[Min(condemning)].id

\* For an action that has neither method nor metadata, the simulation agrees
\* with an evaluation as far as it can: among the policies whose schedule
\* admits them it shows a denial exactly if evaluate_policies denies before it
\* comes to the rules that count, and shows it at the policy that is blamed
\* and with its risk.  It neither counts nor reads the schedule, so that it
\* misses the denials of a counting rule and shows those of a policy that is
\* not due (simulate_policies against evaluate_policies).
SimulationPredicts ==
    \A input \in Inputs : input = Sample(input) =>
      LET simulated == SimulatePolicies(Active, input)
          denying == {i \in DOMAIN InForce : simulated[i].immediate_deny}
          found == Uncounted(input)
      IN  /\ found.immediate_deny <=> denying # {}
          /\ denying # {} =>
               /\ found.matched_policy_id = InForce[Min(denying)].id
               /\ found.risk_level = simulated[Min(denying)].risk_level

\* The rules that a typo leaves as they are, for every action, or makes deny.
TypoTight ==
    {rule \in UNION {Range(rules) : rules \in RuleSets \ {Null}} :
        \A misspelt \in Misspelt[rule], input \in Inputs :
          \/ EvaluateRule(misspelt, input) = EvaluateRule(rule, input)
          \/ EvaluateRule(misspelt, input).immediate_deny}

\* Fail closed: a typo in the type of a rule, or of a part of it at any depth,
\* changes nothing or denies; so it never lets through what the rule denied
\* (evaluate_composite, and the last case of evaluate_simple).
TyposOnlyTighten ==
    \A i \in DOMAIN policies :
      \A n \in DOMAIN RulesOf(policies[i]) : RulesOf(policies[i])[n] \in TypoTight

\* Every edit has an audit row of its own, and every audit row an edit, except
\* that of a request between the two and of a request that ended there, by an
\* error, a dropped handler or a stop of the program: an interruption costs the
\* trace of the edit it interrupts, and of no other (create_policy,
\* update_policy and delete_policy).
EditsLeaveTraces ==
    /\ trail \subseteq made
    /\ made \ trail = {request[h] : h \in {h \in Editors : At(h, "record")}} \cup cut

\* An edit leaves alone what it does not name, however long ago it looked:
\* a policy comes back into force only by an update that says so.
OnlyAnUpdateActivates ==
    [][\A i \in DOMAIN policies :
         policies'[i].active /\ ~policies[i].active =>
           \E h \in Editors : At(h, "write") /\ request[h].id = i
                              /\ request[h].columns.active = TRUE]_policies
=============================================================================
