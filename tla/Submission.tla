------------------------------ MODULE Submission ------------------------------
(***************************************************************************)
(* How actions come into being: create_action with its lookup of an        *)
(* earlier action of the same key, its INSERT under a unique index, its    *)
(* separate audit write and its waiting for a verdict; and                 *)
(* batch_create_actions, which inserts without looking.                    *)
(*                                                                         *)
(* A request handler is a process that awaits between two statements; it   *)
(* may be dropped with its connection at any await (a restart of the       *)
(* program drops them all).  How an action is decided is ActionLifecycle's *)
(* subject: here a first verdict falls from the sky, or never comes (an    *)
(* action that expired or failed in processing is denied without one).     *)
(*                                                                         *)
(* The module has no specification of its own: GuardedCalls composes it    *)
(* with the clients that send the requests.                                *)
(***************************************************************************)
EXTENDS Naturals, Sequences, FiniteSets

CONSTANTS
    Calls,      \* client calls; each sends at most one request of either kind
    Agents,     \* the agents they authenticate as
    AgentOf,    \* the agent of a call or batch
    Keys,       \* idempotency keys
    NoKey,      \* a request without one
    KeyOf,      \* the key derived for a call
    Batches,    \* batch requests
    Items,      \* the keys of the actions of a batch, in order
    MaxFaults,  \* bound: statements that fail
    MaxVerdicts \* bound: actions that are decided

ASSUME SubmissionAssumption ==
    /\ NoKey \notin Keys
    /\ AgentOf \in [Calls \cup Batches -> Agents]
    /\ KeyOf \in [Calls -> Keys \cup {NoKey}]
    /\ Items \in [Batches -> Seq(Keys \cup {NoKey})]
    /\ (Calls \X {"wait", "plain"}) \cap Batches = {}
    /\ {MaxFaults, MaxVerdicts} \subseteq Nat

\* POST /action, with and without ?wait=true.
Kinds == {"wait", "plain"}

Requests == Calls \X Kinds

Handlers == Requests \cup Batches

VARIABLES
    actions,   \* rows of actions in rowid order, each with its first verdict
    at,        \* where the handler of a request is
    key,       \* the idempotency_key in its body
    found,     \* the row it works on; for a batch, the items it has inserted
    answer,    \* what it has answered
    faults

server == <<actions, at, key, found, answer, faults>>

Decisions == {"approved", "denied", "escalate"}

NoAnswer == [kind |-> "none", id |-> 0]

ServerInit ==
    /\ actions = <<>>
    /\ at = [q \in Handlers |-> "unsent"]
    /\ key = [q \in Requests |-> NoKey]
    /\ found = [q \in Handlers |-> 0]
    /\ answer = [q \in Handlers |-> NoAnswer]
    /\ faults = 0

-----------------------------------------------------------------------------
Works == UNCHANGED faults

Fault == faults < MaxFaults /\ faults' = faults + 1

Goto(q, label) == at' = [at EXCEPT ![q] = label] /\ UNCHANGED answer

Answer(q, kind, i) ==
    /\ at' = [at EXCEPT ![q] = "done"]
    /\ answer' = [answer EXCEPT ![q] = [kind |-> kind, id |-> i]]

NewRow(agent, k) == [agent |-> agent, key |-> k, verdict |-> "none"]

\* Mutant: the lookup forgets whose key it is.
SameAny(i, agent, k) == actions[i].key = k

\* The row an earlier submission of this agent left under this key.
Same(i, agent, k) == actions[i].agent = agent /\ actions[i].key = k

\* Mutant: the index of migration 008 without its UNIQUE.
TakenNever(agent, k) == FALSE

\* UNIQUE (agent_id, idempotency_key) WHERE idempotency_key IS NOT NULL.
Taken(agent, k) ==
    k # NoKey /\ \E i \in DOMAIN actions : actions[i].agent = agent /\ actions[i].key = k

\* A request reaches the server and passes authentication and validation.
Arrive(q, k) ==
    /\ at[q] = "unsent"
    /\ key' = [key EXCEPT ![q] = k]
    /\ Goto(q, IF k = NoKey THEN "insert" ELSE "lookup")
    /\ UNCHANGED <<actions, found, faults>>

\* create_action looks for an earlier action of this key; with ?wait it then
\* asks once for its verdict.
Lookup(q) ==
    LET agent == AgentOf[q[1]] IN
    /\ at[q] = "lookup"
    /\ \/ /\ Works
          /\ \E i \in DOMAIN actions :
                /\ Same(i, agent, key[q])
                /\ found' = [found EXCEPT ![q] = i]
                /\ IF q[2] = "wait" THEN Goto(q, "peek") ELSE Answer(q, "id", i)
       \/ /\ Works
          /\ \A i \in DOMAIN actions : ~Same(i, agent, key[q])
          /\ Goto(q, "insert")
          /\ UNCHANGED found
       \/ Fault /\ Answer(q, "error", 0) /\ UNCHANGED found
    /\ UNCHANGED <<actions, key>>

\* wait_for_verdict_response, once: without a verdict, or on an error, the
\* answer is the bare id.
Peek(q) ==
    /\ at[q] = "peek"
    /\ \/ Works /\ actions[found[q]].verdict # "none" /\ Answer(q, "verdict", found[q])
       \/ Works /\ actions[found[q]].verdict = "none" /\ Answer(q, "id", found[q])
       \/ Fault /\ Answer(q, "id", found[q])
    /\ UNCHANGED <<actions, key, found>>

\* The INSERT: two handlers that both found nothing meet at the index.
Insert(q) ==
    LET agent == AgentOf[q[1]] IN
    /\ at[q] = "insert"
    /\ \/ /\ Works
          /\ ~Taken(agent, key[q])
          /\ actions' = Append(actions, NewRow(agent, key[q]))
          /\ found' = [found EXCEPT ![q] = Len(actions) + 1]
          /\ Goto(q, "audit")
       \/ /\ (Works /\ Taken(agent, key[q])) \/ Fault
          /\ Answer(q, "error", 0)
          /\ UNCHANGED <<actions, found>>
    /\ UNCHANGED key

\* The audit row action_created: its failure is answered as an error although
\* the action stays.
RecordCreated(q) ==
    /\ at[q] = "audit"
    /\ \/ Works /\ q[2] = "wait" /\ Goto(q, "hold")
       \/ Works /\ q[2] = "plain" /\ Answer(q, "id", found[q])
       \/ Fault /\ Answer(q, "error", 0)
    /\ UNCHANGED <<actions, key, found>>

\* wait_for_verdict_with_timeout: until there is a verdict or the deadline has
\* passed; errors of the polling are swallowed.
Hold(q) ==
    /\ at[q] = "hold"
    /\ \/ actions[found[q]].verdict # "none" /\ Answer(q, "verdict", found[q])
       \/ Answer(q, "id", found[q])
    /\ Works
    /\ UNCHANGED <<actions, key, found>>

Serve(q) == Lookup(q) \/ Peek(q) \/ Insert(q) \/ RecordCreated(q) \/ Hold(q)

-----------------------------------------------------------------------------
(* batch_create_actions: one INSERT and one audit write for each item.     *)

\* What is left of a batch, or the answer with all its ids.
NextItem(b, n) == IF n < Len(Items[b]) THEN Goto(b, "insert") ELSE Answer(b, "ids", n)

ArriveBatch(b) ==
    /\ at[b] = "unsent"
    /\ NextItem(b, 0)
    /\ UNCHANGED <<actions, key, found, faults>>

\* An item whose key is taken is an error: the items before it stay, the rest
\* is not looked at.
InsertItem(b) ==
    LET k == Items[b][found[b] + 1] IN
    /\ at[b] = "insert"
    /\ \/ /\ Works
          /\ ~Taken(AgentOf[b], k)
          /\ actions' = Append(actions, NewRow(AgentOf[b], k))
          /\ found' = [found EXCEPT ![b] = @ + 1]
          /\ Goto(b, "audit")
       \/ /\ (Works /\ Taken(AgentOf[b], k)) \/ Fault
          /\ Answer(b, "error", 0)
          /\ UNCHANGED <<actions, found>>
    /\ UNCHANGED key

\* The failure of an item's audit write is ignored.
RecordItem(b) ==
    /\ at[b] = "audit"
    /\ Works \/ Fault
    /\ NextItem(b, found[b])
    /\ UNCHANGED <<actions, key, found>>

ServeBatch(b) == ArriveBatch(b) \/ InsertItem(b) \/ RecordItem(b)

-----------------------------------------------------------------------------
\* A handler is dropped with its connection, at the await it has reached.
Drop(q) ==
    /\ at[q] \notin {"unsent", "done"}
    /\ Goto(q, "done")
    /\ UNCHANGED <<actions, key, found, faults>>

\* The processor gives an action its first verdict.
Decide(i) ==
    /\ actions[i].verdict = "none"
    /\ Cardinality({j \in DOMAIN actions : actions[j].verdict # "none"}) < MaxVerdicts
    /\ \E d \in Decisions : actions' = [actions EXCEPT ![i].verdict = d]
    /\ UNCHANGED <<at, key, found, answer, faults>>

=============================================================================
