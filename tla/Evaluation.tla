------------------------------ MODULE Evaluation ------------------------------
(***************************************************************************)
(* How an action comes by its verdict: process_action from the claim to    *)
(* the saved verdict, while agents submit, other replicas evaluate and     *)
(* admins edit policies.                                                   *)
(*                                                                         *)
(* One action is one awaited query or call.  The policies are read once,   *)
(* and their synchronous rules evaluated on what was read; each rule that  *)
(* counts in the database is a query of its own, about the actions there   *)
(* are at that moment.  Then come the scan for prompt injection and the    *)
(* chain of providers.  Overrides, expiry, forwarding and restarts, which  *)
(* do not evaluate, are left to ActionLifecycle.                           *)
(*                                                                         *)
(* Time is counted in ticks, DayLength to a day.  created_at is written by *)
(* CURRENT_TIMESTAMP and compared, as text, with a cutoff in RFC 3339:     *)
(* after the date comes a blank in the one and a T in the other, so that a *)
(* row of the cutoff's own day never passes for later than the cutoff.     *)
(***************************************************************************)
EXTENDS Policies

CONSTANTS
    Actions,     \* rows the agents may create
    Workers,     \* replicas of the processor
    None,        \* no action
    AgentOf,     \* the agent of each action
    Injected,    \* inputs whose text holds a critical injection pattern
    Attempts,    \* for each provider of the chain, how often it is called
    DryRun,      \* DEKO_POLICY_DRY_RUN is set
    DayLength,
    MaxTime      \* bound: ticks

\* The rules evaluate_policies evaluates itself.  For trend_anomaly, which the
\* policy engine leaves to it too, it has no case.
CallerRuleTypes == {"rate_limit", "concurrency_limit", "histogram_trend", "budget_limit"}

Decisions == {"approved", "denied", "escalate"}

ASSUME EvaluationAssumption ==
    /\ None \notin Actions /\ IsFiniteSet(Actions)
    /\ Null \notin Decisions \cup CallerRuleTypes
    /\ \A rule \in Rules : /\ Field(rule, "max_simultaneous", 1) \in Int
                           /\ Field(rule, "max_count", 10) \in Int
                           /\ Field(rule, "window_secs", 60) \in Int
    /\ DryRun \in BOOLEAN
    /\ Attempts \in Seq(Nat \ {0})
    /\ DayLength \in Nat \ {0}
    /\ MaxTime \in Nat

\* Amounts are taken to be whole; one may be negative.
ASSUME AmountsAssumption ==
    /\ \A rule \in Rules : Field(rule, "max_budget", 10000) \in Int
    /\ \A i \in Inputs : i.payload = Null \/ i.payload.amount \in Int \cup {Null}

StatusOf == [approved |-> "approved", denied |-> "denied", escalate |-> "escalated"]

VARIABLES
    now,
    status,      \* actions.status, "absent" before the row exists
    created,     \* actions.created_at
    input,       \* what the rules may inspect of each action
    verdicts,    \* decisions saved for each action
    claims,      \* how often each action has been claimed (history)
    pc,          \* where each worker is
    cur,         \* the action it evaluates
    todo,        \* the counting rules it has still to check
    hop,         \* the provider it asks
    tries,       \* calls of it that have failed
    decision     \* what it is about to save

work == <<pc, cur, todo, hop, tries, decision>>
rows == <<status, created, input, verdicts, claims>>
vars == <<table, faults, now, rows, work>>

Init ==
    /\ PoliciesInit
    /\ now = 0
    /\ status = [a \in Actions |-> "absent"]
    /\ created = [a \in Actions |-> 0]
    /\ input = [a \in Actions |-> Null]
    /\ verdicts = [a \in Actions |-> {}]
    /\ claims = [a \in Actions |-> 0]
    /\ pc = [w \in Workers |-> "idle"]
    /\ cur = [w \in Workers |-> None]
    /\ todo = [w \in Workers |-> {}]
    /\ hop = [w \in Workers |-> 0]
    /\ tries = [w \in Workers |-> 0]
    /\ decision = [w \in Workers |-> Null]

-----------------------------------------------------------------------------
\* An agent submits an action.
Submit(a) ==
    /\ status[a] = "absent"
    /\ \E i \in Inputs : input' = [input EXCEPT ![a] = i]
    /\ status' = [status EXCEPT ![a] = "pending"]
    /\ created' = [created EXCEPT ![a] = now]
    /\ UNCHANGED <<table, faults, now, verdicts, claims, work>>

Tick ==
    /\ now < MaxTime
    /\ now' = now + 1
    /\ UNCHANGED <<table, faults, rows, work>>

Step(w, from, to) == pc[w] = from /\ pc' = [pc EXCEPT ![w] = to]

\* The SELECT at the start of process_action.
ReadAction(w) ==
    \E a \in Actions :
      /\ status[a] = "pending"
      /\ Step(w, "idle", "claim")
      /\ cur' = [cur EXCEPT ![w] = a]
      /\ UNCHANGED <<table, faults, now, rows, todo, hop, tries, decision>>

\* The UPDATE to processing, by id, and the audit row of the start.
Claim(w) ==
    /\ Step(w, "claim", "list")
    /\ status' = [status EXCEPT ![cur[w]] = "processing"]
    /\ claims' = [claims EXCEPT ![cur[w]] = @ + 1]
    /\ UNCHANGED <<table, faults, now, created, input, verdicts, cur, todo, hop, tries, decision>>

\* The evaluation is over: what it kept track of goes out of scope.
Decide(w, from, d) ==
    /\ Step(w, from, "save")
    /\ todo' = [todo EXCEPT ![w] = {}]
    /\ hop' = [hop EXCEPT ![w] = 0]
    /\ tries' = [tries EXCEPT ![w] = 0]
    /\ decision' = [decision EXCEPT ![w] = d]

\* The rules of the policies in force that the caller evaluates itself, with
\* their places.  Only those at the top: inside a composite rule they match
\* nothing.
CallerRules ==
    UNION {{<<i, n, RulesOf(policies[i])[n]>> :
              n \in {n \in DOMAIN RulesOf(policies[i]) :
                       Field(RulesOf(policies[i])[n], "type", Null) \in CallerRuleTypes}} :
           i \in DOMAIN InForce}

\* The SELECT of evaluate_policies and the rules that need no database.
ListPolicies(w) ==
    /\ pc[w] = "list"
    /\ \/ /\ EvaluateSync(InForce, input[cur[w]], DryRun).immediate_deny
          /\ Decide(w, "list", "denied")
       \/ /\ ~EvaluateSync(InForce, input[cur[w]], DryRun).immediate_deny
          /\ Step(w, "list", "count")
          /\ todo' = [todo EXCEPT ![w] = CallerRules]
          /\ UNCHANGED <<hop, tries, decision>>
    /\ UNCHANGED <<table, faults, now, rows, cur>>

Of(agent) == {a \in Actions : AgentOf[a] = agent /\ status[a] # "absent"}

Day(time) == time \div DayLength

\* created_at > cutoff, as texts.
LaterText(time, cutoff) == Day(time) > Day(cutoff)

Bears(a) == input[a].payload # Null /\ input[a].payload.amount # Null

Amount(a) == IF Bears(a) THEN input[a].payload.amount ELSE 0

Total(actions) == SumFunctionOnSet([a \in actions |-> Amount(a)], actions)

\* Mutants: only what has been decided counts, or what has been approved.
CountedDecided(rule, agent) ==
    {a \in Of(agent) : /\ status[a] \notin {"pending", "processing"}
                       /\ LaterText(created[a], now - Field(rule, "window_secs", 60))}
CountedApproved(agent) == {a \in Of(agent) : status[a] = "approved"}

\* The actions a rule counts when it is checked for an action of an agent.
CountedByRate(rule, agent) ==
    {a \in Of(agent) : /\ status[a] # "pending"
                       /\ LaterText(created[a], now - Field(rule, "window_secs", 60))}
CountedByConcurrency(agent) == {a \in Of(agent) : status[a] = "processing"}
CountedByBudget(agent) == {a \in Of(agent) : status[a] # "denied"}

\* Mutant: one more than the limit.
ExceededByOne(rule, a) ==
    \/ /\ rule.type = "rate_limit"
       /\ Cardinality(CountedByRate(rule, AgentOf[a])) > Field(rule, "max_count", 10)
    \/ /\ rule.type = "concurrency_limit"
       /\ Cardinality(CountedByConcurrency(AgentOf[a])) > Field(rule, "max_simultaneous", 1)
    \/ /\ rule.type = "budget_limit"
       /\ Total(CountedByBudget(AgentOf[a])) > Field(rule, "max_budget", 10000)

\* The action is one too many.  Each of these queries counts the action
\* itself, which is being processed.
Exceeded(rule, a) ==
    \/ /\ rule.type = "rate_limit"
       /\ Cardinality(CountedByRate(rule, AgentOf[a])) >= Field(rule, "max_count", 10)
    \/ /\ rule.type = "concurrency_limit"
       /\ Cardinality(CountedByConcurrency(AgentOf[a])) >= Field(rule, "max_simultaneous", 1)
    \/ /\ rule.type = "budget_limit"
       /\ Total(CountedByBudget(AgentOf[a])) >= Field(rule, "max_budget", 10000)

\* Whether a rule denies.  How far an amount is from the agent's usual ones
\* is left open; so is what becomes of a sum of nothing, which is an integer
\* (COALESCE) where a REAL is read: it may fail to decode, and the rule passes.
Denies(rule, a) ==
    {deny \in BOOLEAN :
       \/ deny = Exceeded(rule, a)
       \/ deny /\ rule.type = "histogram_trend" /\ Bears(a)
       \/ ~deny /\ rule.type = "budget_limit" /\ \A b \in CountedByBudget(AgentOf[a]) : ~Bears(b)}

\* The rule declared first.
First(rules) ==
    CHOOSE r \in rules : \A s \in rules : r[1] < s[1] \/ (r[1] = s[1] /\ r[2] <= s[2])

\* One counting rule: it denies, or passes; so it does when its query fails
\* (if let Ok).
CheckRule(w) ==
    /\ pc[w] = "count" /\ todo[w] # {}
    /\ LET rule == First(todo[w]) IN
       \/ /\ ~DryRun /\ TRUE \in Denies(rule[3], cur[w])
          /\ Decide(w, "count", "denied")
          /\ UNCHANGED faults
       \/ /\ \/ (DryRun \/ FALSE \in Denies(rule[3], cur[w])) /\ UNCHANGED faults
             \/ Fault
          /\ todo' = [todo EXCEPT ![w] = @ \ {rule}]
          /\ UNCHANGED <<pc, hop, tries, decision>>
    /\ UNCHANGED <<table, now, rows, cur>>

\* The injection scan: a critical pattern denies, a lesser one only goes
\* into the context.
Scan(w) ==
    /\ pc[w] = "count" /\ todo[w] = {}
    /\ \/ input[cur[w]] \in Injected /\ Decide(w, "count", "denied")
       \/ /\ input[cur[w]] \notin Injected
          /\ Step(w, "count", "ask")
          /\ hop' = [hop EXCEPT ![w] = 1]
          /\ tries' = [tries EXCEPT ![w] = 0]
          /\ UNCHANGED <<todo, decision>>
    /\ UNCHANGED <<table, faults, now, rows, cur>>

\* A provider answers: the first to do so decides.
Answer(w) ==
    \E d \in Decisions :
      /\ hop[w] <= Len(Attempts)
      /\ Decide(w, "ask", d)
      /\ UNCHANGED <<table, faults, now, rows, cur>>

\* The next provider, or none.
NextProvider(w) ==
    /\ hop' = [hop EXCEPT ![w] = @ + 1]
    /\ tries' = [tries EXCEPT ![w] = 0]

\* A call fails: refused or timed out, it is repeated as often as the
\* provider's calls are; an answer that cannot be parsed ends them at once.
CallFails(w) ==
    /\ pc[w] = "ask" /\ hop[w] <= Len(Attempts)
    /\ \/ /\ tries[w] + 1 < Attempts[hop[w]]
          /\ tries' = [tries EXCEPT ![w] = @ + 1]
          /\ UNCHANGED hop
       \/ NextProvider(w)
    /\ UNCHANGED <<table, faults, now, rows, pc, cur, todo, decision>>

\* Every provider has failed.
FailClosed(w) ==
    /\ hop[w] > Len(Attempts)
    /\ Decide(w, "ask", "denied")
    /\ UNCHANGED <<table, faults, now, rows, cur>>

\* process_action returns.  (Only a decided worker and one that was counting
\* nothing get here, so there is nothing else to forget.)
Rest(w) ==
    /\ Step(w, pc[w], "idle")
    /\ cur' = [cur EXCEPT ![w] = None]
    /\ decision' = [decision EXCEPT ![w] = Null]
    /\ UNCHANGED <<todo, hop, tries>>

\* save_verdict's transaction.
SaveVerdict(w) ==
    /\ pc[w] = "save"
    /\ status' = [status EXCEPT ![cur[w]] = StatusOf[decision[w]]]
    /\ verdicts' = [verdicts EXCEPT ![cur[w]] = @ \cup {decision[w]}]
    /\ Rest(w)
    /\ UNCHANGED <<table, faults, now, created, input, claims>>

\* A statement whose error process_action returns fails, among them the audit
\* rows of the start and of what the scan found, but none of a counting rule:
\* the processor denies the action.  (That this may fail too is
\* ActionLifecycle's subject.)
Fail(w) ==
    /\ pc[w] \in {"claim", "list", "count", "save"}
    /\ pc[w] = "count" => todo[w] = {}
    /\ Fault
    /\ status' = [status EXCEPT ![cur[w]] = "denied"]
    /\ Rest(w)
    /\ UNCHANGED <<table, now, created, input, verdicts, claims>>

Evaluate(w) ==
    \/ ReadAction(w) \/ Claim(w) \/ ListPolicies(w) \/ CheckRule(w) \/ Scan(w)
    \/ Answer(w) \/ CallFails(w) \/ FailClosed(w) \/ SaveVerdict(w) \/ Fail(w)

\* The writes of the admin's handlers, whose steps before and after an
\* evaluation does not see, and the turns of a schedule.
EditPolicies ==
    /\ edits < MaxEdits
    /\ edits' = edits + 1
    /\ \/ \E i \in DOMAIN policies, columns \in Columns \ {NoColumns} :
            policies' = [policies EXCEPT ![i] = Updated(@, columns)]
       \/ \E i \in DOMAIN policies : policies' = [policies EXCEPT ![i] = Turned(@)]
       \/ \E rules \in RuleSets :
            /\ Len(policies) < MaxPolicies
            /\ policies' = Append(policies, NewRow(Len(policies) + 1, rules))
    /\ UNCHANGED <<editor, request, trail, made, cut, drops, faults, now, rows, work>>

Next ==
    \/ \E a \in Actions : Submit(a)
    \/ \E w \in Workers : Evaluate(w)
    \/ Tick
    \/ EditPolicies

Spec == Init /\ [][Next]_vars

-----------------------------------------------------------------------------
TypeOK ==
    /\ PoliciesTypeOK
    /\ now \in 0..MaxTime
    /\ status \in [Actions -> {"absent", "pending", "processing", "approved",
                               "denied", "escalated"}]
    /\ created \in [Actions -> 0..MaxTime]
    /\ input \in [Actions -> Inputs \cup {Null}]
    /\ verdicts \in [Actions -> SUBSET Decisions]
    /\ claims \in [Actions -> Nat]
    /\ pc \in [Workers -> {"idle", "claim", "list", "count", "ask", "save"}]
    /\ cur \in [Workers -> Actions \cup {None}]
    /\ todo \in [Workers -> SUBSET (Ids \X Nat \X Rules)]
    /\ hop \in [Workers -> 0..Len(Attempts) + 1]
    /\ tries \in [Workers -> Nat]
    /\ decision \in [Workers -> Decisions \cup {Null}]
    /\ \A w \in Workers : /\ pc[w] = "idle" <=> cur[w] = None
                          /\ pc[w] = "save" <=> decision[w] # Null
                          /\ pc[w] # "count" => todo[w] = {}

\* The policies in force that nobody has edited since the start, and whose
\* schedule has not turned.
Standing == {i \in DOMAIN InForce : ~policies[i].touched}

StandingRules == UNION {{RulesOf(policies[i])[n] : n \in DOMAIN RulesOf(policies[i])} :
                        i \in Standing}

OfType(rules, type) == {rule \in rules : Field(rule, "type", Null) = type}

\* No statement has failed, and no two replicas have claimed one action: a
\* counting rule whose query fails lets the action pass, and what two claims
\* of one action do is ActionLifecycle's subject.
Undisturbed == faults = 0 /\ \A a \in Actions : claims[a] <= 1

Agents == {AgentOf[a] : a \in Actions}

Approved(agent) == {a \in Of(agent) : "approved" \in verdicts[a]}

\* Actions of an agent that are past the counting rules and undecided.
Passed(agent) ==
    {a \in Of(agent) : status[a] = "processing" /\ \E w \in Workers : cur[w] = a /\ pc[w] = "ask"}

\* What is approved has come through everything: no policy that has been in
\* force all the while denies it, it bears no critical injection, and a
\* provider has been asked about it, even if others failed (process_action's
\* order of policies, scan and chain; fail-closed at its end).
ApprovalIsEarned ==
    \A a \in Actions : "approved" \in verdicts[a] =>
      /\ input[a] \notin Injected
      /\ ~DryRun => \A i \in Standing : ~Condemns(policies[i], input[a])
      /\ Len(Attempts) > 0

\* However the replicas interleave their queries, an agent has fewer actions
\* past a concurrency limit than the limit, since each is processing before
\* it counts (concurrency_limit in evaluate_policies).
ConcurrencyHolds ==
    Undisturbed /\ ~DryRun =>
      \A rule \in OfType(StandingRules, "concurrency_limit"), agent \in Agents :
        Passed(agent) = {} \/ Cardinality(Passed(agent)) < Field(rule, "max_simultaneous", 1)

\* Likewise the approved actions of an agent stay below its budget, those
\* apart that bear no amount, though submissions, denials and other evaluations
\* come between the query and the verdict (budget_limit).  A negative amount
\* would make room for others as long as it is not denied.
BudgetHolds ==
    Undisturbed /\ ~DryRun /\ (\A a \in Actions : status[a] # "absent" => Amount(a) >= 0) =>
      \A rule \in OfType(StandingRules, "budget_limit"), agent \in Agents :
        \/ \A a \in Approved(agent) : ~Bears(a)
        \/ Total(Approved(agent)) < Field(rule, "max_budget", 10000)

\* And the approved actions of the days after that of the cutoff stay below
\* the rate (rate_limit, as the texts compare).
RateHoldsByDay ==
    Undisturbed /\ ~DryRun =>
      \A rule \in OfType(StandingRules, "rate_limit"), agent \in Agents :
        LET recent == {a \in Approved(agent) :
                         LaterText(created[a], now - Field(rule, "window_secs", 60))}
        IN  recent = {} \/ Cardinality(recent) < Field(rule, "max_count", 10)

\* "Max N actions per agent per time window" (docs/featurelist.md): of the
\* actions created within the window, no more than N are approved.
RateHolds ==
    Undisturbed /\ ~DryRun =>
      \A rule \in OfType(StandingRules, "rate_limit"), agent \in Agents :
        Cardinality({a \in Approved(agent) :
                       created[a] > now - Field(rule, "window_secs", 60)})
          <= Field(rule, "max_count", 10)
=============================================================================
