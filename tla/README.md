# A TLA+ verification of deko

deko is an action watchdog for AI agents: an agent submits what it is about to
do, deko evaluates it (policies, an injection scan, a chain of model providers)
and answers approved, denied or escalate; an approved action can be forwarded
to its target by deko itself, and everything is to leave a trace in a
tamper-evident audit log. This directory models the parts of it whose
correctness depends on the order of events, checks them with TLC on small
instances, and proves the most important results with TLAPS.

Paths below are relative to the root of the repository. Line numbers of every
definition are in `PROJECT.json` under `map`.

## 1. The system

One Rust program (axum, sqlx, SQLite) with a background task, a Python and a
TypeScript SDK, an admin application, and a sample agent. All durable state is
in SQLite; handlers and the background task are futures that await between any
two statements, and two replicas may run on one database
(`k8s/deployment.yaml:8`).

| part | state | operations | talks to |
|---|---|---|---|
| submission (`src/routes/actions.rs`) | `actions` rows, unique index on (agent, key) | `create_action`, `batch_create_actions`, `?wait=true`, status and detail | processor through the row's status; audit log |
| processor (`src/services/processor.rs`) | none of its own | every few seconds: expire, select a batch, process one by one, deny on error | verdict service |
| verdict service (`src/services/verdict.rs`) | `verdicts`, health flags of providers | claim, evaluate, `save_verdict` | policy engine, providers, webhook, WebSocket, audit |
| overrides (`src/routes/admin.rs`, `api_admin.rs`) | `actions.status` | form, JSON and bulk override | audit |
| forwarding (`src/routes/actions.rs`) | `actions.status` | read, check verdict, mark, relay up to three times, revert | target, egress control, audit |
| audit log (`src/services/audit.rs`, `main.rs`) | `audit_log` hash chain, head checkpoint file | `record`, `backfill_unchained`, `verify_chain`, checkpoint at start | every other part |
| policy engine (`src/services/policy_engine.rs`) | none; rules in `policies` | sort, evaluate simple and composite rules, merge; counting rules read `actions` | verdict service, simulation |
| provider chain (`src/services/providers`) | health flags, metrics | health check, call with retries, fall back, deny at the end | verdict service |
| agent identity (`src/middleware`, `routes/auth.rs`, `token.rs`) | `agents`, `api_keys` | register, revoke, rotate, expire, exchange for a JWT | every agent handler |
| admin sessions (`src/services/session.rs`, `routes/oauth.rs`) | `admin_sessions`; throttle and OAuth states in memory | login, logout, validate, purge, callback | admin handlers |
| rate limiter (`src/services/metrics.rs`) | windows per client in memory | count, refuse | agent handlers |
| webhooks and WebSockets (`src/services/webhook.rs`, `routes/ws.rs`, `admin_ws.rs`) | a broadcast of 256 messages in memory | post three times; subscribe, lag, poll | verdict service, clients |
| attachments | files and rows | store | agent handlers |
| SDK (`sdk/python`) | a JWT; nothing else | `check`, `acheck`, `forward`, guards, MCP gate, HTTP proxy | submission, status, forward |

What is hard about it:

- *Read, await, write by id.* The processor, the overrides and the forward
  handler each read a status, await, and update the row by its id whatever has
  become of it.
- *Two tables for one fact.* What an agent polls is `actions.status`; what the
  forward handler obeys is the first row of `verdicts`; what a reader of the
  history sees is `audit_log`. Only `save_verdict` writes the three together.
- *Errors that are dropped.* Many statements end in `.ok()`; a processing error
  is answered by an UPDATE that can fail itself.
- *Restarts.* Shutdown aborts the processor wherever it is, and a handler is
  dropped with its connection.
- *The chain under concurrency.* An append reads the last hash and inserts
  after an await, while other replicas append and backfill.
- *Two tables, several queries.* The middleware asks `api_keys`, then `agents`,
  then `agents` by the legacy hash, and an error of one leads to the next; an
  agent may be revoked or a key expire in between.
- *Memory and database.* Sessions survive a restart; the throttles, the OAuth
  states, the broadcasts and the posts under way do not.
- *Retries of clients.* The SDK repeats a request whose first handler may still
  be at work, and the network may deliver either late.

`PROJECT.json` lists the hazards one by one, each at its line.

## 2. The modules

| module | models | lines of state |
|---|---|---|
| `Gate` | abstract: what deko promises its targets | `decision`, `released` |
| `ActionLifecycle` | processor, verdicts, overrides, forwarding | `status`, `verdicts`, `trail`, process counters |
| `MCActionLifecycle`, `ActionLifecycleProofs` | instances; theorems | |
| `AuditChain` | audit log, backfill, verification, checkpoint, on SQLite's transactions | `log`, `lock`, `view`, `checkpoint` |
| `MCAuditChain`, `AuditChainProofs` | instances; theorems | |
| `Submission` | `create_action`, `batch_create_actions`: the server's side | `actions`, handlers, answers |
| `GuardedCalls` | extends `Submission` with the SDK's clients | `pc`, `posted`, `act`, `heard` |
| `MCGuardedCalls`, `GuardedCallsProofs` | instance; theorems | |
| `PolicyEngine` | rule evaluation, for live decisions and simulation, as operators | none |
| `Policies` | extends `PolicyEngine` with the `policies` table and the admin's handlers | `policies`, `editor`, `request`, `trail` |
| `Evaluation` | extends `Policies` with `process_action` from the claim to the verdict | `status`, `verdicts`, `now`, and per worker `pc`, `cur`, `todo`, `hop`, `tries`, `decision` |
| `MCPolicies`, `MCEvaluation`, `PoliciesProofs`, `EvaluationProofs` | instances; theorems | |
| `AgentAccess` | agents, keys, JWTs, the middleware | `agents`, `rows`, `trail`, and per request `at`, `cred`, `who` |
| `MCAgentAccess`, `AgentAccessProofs` | instance; theorems | |
| `AdminAccess` | sessions, the two logins, `verify_admin` | `sessions`, `attempts`, `pending`, and per request `at`, `bears`, `who` |
| `MCAdminAccess`, `AdminAccessProofs` | instance; theorems | |
| `RateLimiter` | the fixed-window limiter, as actions without a specification | `limiter`, `now` |
| `Delivery` | extends `RateLimiter` with the webhook, the broadcast and the agents' sockets | `saved`, `job`, `sent`, `watch`, `socket` |
| `MCDelivery`, `DeliveryProofs` | instance; theorems | |

### Gate and ActionLifecycle

`Gate` is the promise in two actions: a decision is made once, and a target
hears only of an action whose decision is *approved*. `ActionLifecycle`
implements it: the decision that stands is the first verdict row
(`FirstVerdict`), released is what the target has received.

One action of `ActionLifecycle` is one awaited statement or transaction.
`status` is the column of that name, `verdicts` the rows of the table in rowid
order, `trail` the event types `audit_log` holds for an action. A process
(processor, admin request, forward request) has a label `pc`, the action `cur`
it works on and what it remembers, `arg`. The processor goes through `Expire`,
`FetchBatch`, `ReadAction`, `Claim`, `RecordStarted`, `Evaluate`, `SaveVerdict`,
`Notify` and, on any error, `DenyOnError`; the three overrides and
`forward_action` are sequences of steps of the same kind. Any statement may
fail (`Fault`, at most `MaxFaults` times), a handler may be dropped (`Drop`) and
the program restarted (`Restart`). The evaluation is one nondeterministic
outcome; the hash chain is left to `AuditChain`.

### AuditChain

`log` is the committed table. A process with an open transaction has its own
`view` of it; `lock` is the process that has written. SQLite is modelled from
how the program uses it: deferred transactions, one writer, SQLITE_BUSY at
once for a writer whose snapshot is stale, and, without write-ahead mode
(`Wal = FALSE`), a commit that waits for readers. The program never sets
`journal_mode` and `docs/` speak of WAL: the run has the rollback journal, where
more can wait, and the theorems are about both. `BeginRecord`, `InsertRow`,
`CommitRow` are `record`; `Launch` to `WriteCheckpoint` are the start of
`main`: list the unchained rows, chain them in a transaction, verify, compare
the head with the checkpoint file, write it. A hash is the sequence of texts it
covers, that is, sha256 without collisions; but the text of a row (`Joined`) does
not determine its contents. `compute_entry_hash` joins the fields with a `|` it does
not escape and writes a NULL `action_id` as an empty one (the test at
`src/services/audit.rs:276` asserts the latter), so that contents of one text have
one hash. `Joined` may be any function. In the runs it gives one text to a content
the program records and to one that only an edit makes of it; `Recorded` is
what the program records. `Edit`, `Remove` and `Cut` damage the table behind the
program's back, with any contents.

### Submission and GuardedCalls

`Submission` has one process for each request: look the key up, insert under
the unique index, write the audit row, hold the request. A batch inserts
without looking. Its handlers can fail, meet at the index, or be dropped.
Verdicts come or do not (`Decide`); how is `ActionLifecycle`'s subject.
`GuardedCalls` adds the clients: `Call` posts a first request, `Fail` is the
`except` of `Deko.check` (a second request without `?wait`) or the exception of
`acheck`, `Receive` and `Poll` learn the verdict, `Judge` stops or goes on as
each front end does (`Stops`), `Forward` forwards. `Deliver` is the network: a
request may arrive after its client has given up, or never.

### PolicyEngine, Policies and Evaluation

`PolicyEngine` is `services/policy_engine.rs` as operators on records: a rule has
the fields of its JSON object, so fields may be missing; text is the set of
words a rule could find in it. `EvaluateRule` is a recursive function over the
parts of composite rules; `Nesting` says how deep they go, which is bounded by
what serde_json parses (`MaxNesting`). `EvaluateSync` is the part of
`evaluate_policies` that needs no database and leaves out the context shown to
the providers, `TestPolicy` and `SimulatePolicies` the second copy of that loop in
`routes/policies.rs`. `Policies` has the table and the handlers, each with its
lookup, its write and its audit row as steps. Each statement may fail (`EditFails`)
and each handler may be dropped between two of its statements (`DropEdit`: the
admin hangs up, or the program stops). A row is *due* when its schedule admits it:
`InForce` is what `evaluate_policies` selects (active and due), `Active` what the
simulation does (active). No handler writes the schedule, so that `TurnSchedule` is
external: the clock, or an operator. `made` and `cut` are histories: the edits
committed, and those of them whose request ended before its audit row.

`Evaluation` has the steps `ActionLifecycle` folds into its one `Evaluate`: a
worker claims (`Claim`), reads the policies and evaluates what needs no query
(`ListPolicies`), checks one counting rule after another, each by a query of its
own about the actions of that moment (`CheckRule`), scans (`Scan`), asks the
providers in order with the retries of each (`Answer`, `CallFails`,
`FailClosed`), and saves (`SaveVerdict`). A failing statement denies (`Fail`),
except for that of a counting rule, which the code skips. An amount is taken to
be whole; the sum of a budget rule is the integer 0 (`COALESCE`) when it has
nothing to add up, where the code reads a REAL, so that `Denies` leaves open
whether it decodes and the rule counts. Expiry, overrides,
forwarding and restarts are left to `ActionLifecycle`. Admins change or create
policies in between, and schedules turn (`EditPolicies`, the writes of `Policies`
without what surrounds them). Time is in ticks with a number of ticks to a day, since that
is what the text comparison of the rate rule can tell apart (`LaterText`).

### AgentAccess

`agents` and `rows` are the tables `agents` and `api_keys`, `given` and `tokens`
the keys and JWTs somebody holds. A request comes with a credential (`Arrive`) and
its handler is the branch of the middleware or of `/auth/token` that credential
takes, one step for one query: `LoadSubject` for a JWT; `LookUpKey`, `LoadOwner`,
`LookUpLegacy` and `RecordUse` for a key; `Exchange`, `FindKey` and `FindLegacy` for
the exchange. An error of the first lookup leads to the legacy one, as in the code.
The administrator's handlers are `Register`, `AnswerRegistration`, `Revoke`,
`AnswerRevocation`, `RotateKey`, `FindAgent` and `InsertKey`. `SetExpiry` is external:
the columns are read in `src/` and written by none of its handlers. An expiry is a
moment and whether the program can read it (`legible`), because the two columns
are read differently: `api_keys.expires_at` is parsed as RFC 3339 under `if let Ok`
(`middleware/auth.rs:114`, `routes/token.rs:91`), so that any other text, SQLite's
`YYYY-MM-DD HH:MM:SS` among them, is no expiry (`Ends`); `agents.api_key_expires_at`
is decoded by the driver, which takes both forms, and one it cannot decode fails the
query for the row (`Loaded`), so that the agent is refused. `Recorded`
says which audit rows the table takes: `action_id` is a foreign key, so
that the rows that put an agent's id there fail.

A history keeps what a property is about: `gone` and `came` are the agents that
were revoked, and the time, when a request came; `key` is whom a key was
generated for.

### AdminAccess

`sessions` is the table, `attempts` and `pending` are the maps in memory that a
restart empties. `LogIn` is the form (throttle, password), `CreateSession` the row
of either login; `BeginOAuth`, `Callback`, `Exchange`, `ReceiveUser` are the OAuth
login, with an await at each request to the provider; `Select`, `PurgeOne` and
`CheckHeader` are `verify_admin` (session row, deletion of an expired one, password
header); `LogOut` answers as it does when the deletion fails.

### RateLimiter and Delivery

`Allow` and `Refuse` are the two answers of `is_allowed`, one step each because it
holds a mutex and never awaits. `Delivery` puts it in front of the agents' sockets.
`job` is the processor within `save_verdict`: `Save` commits, `LookUpUrl` reads the
agent's webhook, `Post` and `Answer` are one of its three attempts, `Cast` the
broadcast. `sent` is what was broadcast since the program came up, of which the
channel keeps the last `Capacity`; a watcher reads on (`Show`), or finds itself
behind and is told by how much (`CatchUp`). An agent's socket is `Open`,
`CheckOwner` and `Poll`, up to `MaxPolls` times. `Restart` forgets the job, the channel, the
sockets and the limiter.

## 3. What the runs check

| run | instance | shows |
|---|---|---|
| `lifecycle_races` | 1 action, 1 processor, 1 admin, 1 agent with 2 forwards of up to 2 attempts, 2 faults, 1 restart, 1 drop; 631 000 states | `ApprovalHasCause`, `RelayIsRecorded`, `ProcessingIsOwned`, `StatusAgreesWithVerdict`, `GateHolds` (refinement), `AnsweredIsFinal`, `FailedForwardIsOpen` |
| `lifecycle_batch` | 2 actions of different priority in one batch, 1 admin, 2 faults, fair processor; 424 000 states | `OneVerdict`, `EveryActionDecided` |
| `chain` | 2 replicas, 2 writers, up to 2 legacy rows, 3 rows, two contents of one text, 1 fault, 2 crashes, 1 edit or removal, 1 loss, rollback journal; 262 000 states | `ChainUnbroken`, `AppendOnly`, `EditsAreFound`, `LossIsNoticed`, `TransactionsEnd`, `ComesUp` |
| `guarded_calls` | 1 call through any front end (2 requests), a batch of the same agent with the same key twice, a batch of another agent with that key, 1 fault, 1 verdict; 1.5 million states | `KeysUnique`, `RunsOnlyApproved`, `RetriesFindTheirAction` |
| `policy_rules` | 2 admins (symmetric), 2 policies of 6 rule arrays (23 rules and what a typo at any depth makes of them), active or not and due or not, 7 actions, 2 edits or turns of a schedule, 1 fault, 1 dropped handler; 20 700 states | `DeniedIfCondemned`, `SimulationPredicts`, `TyposOnlyTighten`, `EditsLeaveTraces`, `OnlyAnUpdateActivates` |
| `evaluation` | 2 replicas, 2 actions of one agent with 3 inputs, 2 providers (2 calls and 1), a budget policy or one of rate and concurrency, 1 edit or turn of a schedule, 1 fault, 2 days; 2.36 million states | `ApprovalIsEarned`, `ConcurrencyHolds`, `BudgetHolds`, `RateHoldsByDay` |
| `agent_access` | 2 agents, 2 keys, 2 requests, 3 requests of administrators, an expiry in either form, tokens of 1 tick with 1 of leeway, time 3, 1 fault; 949 000 states | `RevocationIsImmediate`, `CredentialsKeepTheirAgent`, `ExpiredKeysAreRefused`, `AccessEndsWithTheKey` |
| `admin_access` | 3 requests, 2 tokens, 2 OAuth states, 1 source, 2 people (1 on the list), 1 attempt in 2 ticks, sessions of 1 tick, time 3, 1 fault, 1 restart; 451 000 states | `SessionsLastTheirTime`, `LogoutIsFinal`, `StatesWorkOnce`, `GuessesAreBounded` |
| `delivery` | 2 actions of 2 agents, 1 socket, 1 watcher, a channel of 1, 2 polls, 1 request in 1 tick, time 2, 1 fault, 1 restart; 1.05 million states | `AnnouncedIsSaved`, `NothingIsMissedUntold`, `PostedUntilHeard`, `RefusalsAreEarned`, `SocketsEnd` |

Why these bounds are enough to be of interest: every race in the lifecycle is
between two processes on one row, so one action suffices but for the order and
the loss of a batch, which `lifecycle_batch` has; two faults are what it takes
for the denial of a failed action to fail; two attempts are one that is
repeated and one that is the last; two forwards are one that is tried again.
In the chain, two replicas suffice for every conflict SQLite resolves (it
admits one writer), and three rows give the chain a beginning, a middle and an
end. In `guarded_calls` the call's two requests are the two that race at the
index; the batches add an insertion without a lookup and a foreign row of the
same key. `policy_rules` has a rule of every type, with and without its list, and
composites that differ in where they short-circuit; its actions match none, one
or several of them. Its two edits are of two handlers that meet at one policy, and each can be
interrupted, one by an error and one by a drop. In `evaluation` each limit admits one action of the two, so
that a query too early or too narrow lets one too many pass; the two tables
keep one limit from hiding another. In `agent_access` three changes register two
agents and revoke or rotate one between the queries of the two requests, and the clock runs a tick
beyond the life and the leeway of a token. In `admin_access` three requests are a
login, a logout and one that comes with what the others gave, or two
callbacks of one state and a third request; the clock outlasts a session and a window. In
`delivery` a channel of one message makes a watcher lag at the second verdict,
and two polls are one that is repeated and one that is the last. What the
bounds leave open is what the theorems are for.

The type invariants are proved (`TypeCorrect` of every module with theorems), not
run. `CHECK_DEADLOCK FALSE` is in every configuration: the bounds let the model end
(all rows written, all calls over), and liveness properties say what must not
stop.

Each checked property has a mutant in `PROJECT.json`: a bug of the kind it is
there for (an error retried instead of denied, a stale writer admitted, an
index that is not unique), under which TLC finds it violated.

### Fairness

`FairSpec` of `ActionLifecycle` assumes that the processor task keeps running
(`tokio` polls it) and that time passes. Every await of it has to end: the
client of a provider has a timeout (`services/providers/provider.rs:261`), the
client of a webhook has none (`services/webhook.rs:29`), so that
`EveryActionDecided` holds as long as the receivers of webhooks answer. Agents and
admins may stop at any point. `FairSpec` of `AuditChain` assumes that a stopped
replica is started again (`restart: unless-stopped` in `docker-compose.yml`) and
that a begun transaction goes on. `FairSpec` of `Delivery` is fair to the agents'
sockets only, which are tasks that wait for nothing but a timer and a query;
`Answer`, the receiver, is given no fairness, and `SocketsEnd` does not need it.
The other modules state no liveness.

### Where code and documents differ

Three runs are expected to fail; each checks one sentence of a document or a
comment.

| run | sentence | what happens |
|---|---|---|
| `replicas_claim` | "claimed by one worker" (`docs/architecture.md`) | the claim is an UPDATE by id; two replicas both process an action |
| `legacy_rfc3339` | "accepts both legacy sqlite formats ... and rfc3339" (`src/services/audit.rs`) | the backfilled hash covers the normalized timestamp, verification the stored one; the start fails |
| `rate_rule` | "Max N actions per agent per time window" (`docs/featurelist.md:219`) | the cutoff is an RFC 3339 text, `created_at` is not; no action of the cutoff's own day is counted |

Reading and modelling brought up more that no run claims. Of decisions, overrides
and forwards:

- "Every decision is permanently recorded" (`src/main.rs:35`): an action denied by
  its TTL has neither a verdict nor an audit row;
- an override of a pending action is overwritten by the processor that had read
  it;
- an overridden action reads approved and is refused by forward, which obeys
  the first verdict;
- JSON and bulk overrides commit before their audit row, and no override is
  broadcast; an agent's socket goes on telling the first verdict;
- two concurrent forwards of one action both send it (`AnsweredIsFinal` is
  stated for one request at a time for that reason);
- a transport failure does not tell whether the target got the request, which is
  sent up to three times; the SDK's HTTP proxy sends it once more by itself when
  the forward fails;
- the UPDATE to `forward_failed` drops its error, and the action cannot be
  retried (`faults > 0` in `FailedForwardIsOpen`);
- an action whose processing and denial both fail stays in processing for good.

Of submissions and the SDK:

- a submission that finds its key is polled once, not held, with `?wait=true`;
- a batch that fails at an item keeps the items before it without telling their
  ids, and a submission whose audit row fails keeps its action;
- the status endpoint answers "pending" for an action denied without a verdict,
  so that the SDK polls, and the agent's socket waits, until they time out;
- `@guard(on_denied="callback")`, one of the three options of
  `sdk/python/src/deko_guard/core/types.py:46`, runs the tool on a denial
  (`core/guard.py:54`);
- the MCP gate passes calls through ungated if its client could not be
  constructed.

Of the audit log:

- "the hash chain detects edits and middle-row deletions"
  (`src/services/audit.rs:164`): an edit that moves the separator `|` from one field
  of a row into another, or empties a NULL `action_id`, keeps the hashed text, and
  the chain verifies (without `Spelled`, TLC refutes `EditsAreFound` on the instance
  of `chain`);
- any append between two starts moves the head of the log, which a start takes
  for a loss; rows appended after the last checkpoint can be lost unnoticed
  (`LossIsNoticed` is about the checkpointed head only);
- `action_id` is a foreign key, so that the rows `api_key_used`
  (`middleware/auth.rs:155`) and `agent_revoked` (`routes/auth.rs:109`), which put an
  agent's id there, always fail; `create_api_key` writes no row
  (`docs/featurelist.md`, F063).

Of policies:

- a concurrency limit counts the action under evaluation, so that its default
  of 1 denies everything, and an action stranded in processing counts for good;
- a counting rule whose query fails lets the action pass, while every other
  error denies; so may a budget rule, if the sum of nothing does not decode;
- a negative amount makes room in a budget for as long as its action is not
  denied (hence the condition of `BudgetHolds`);
- `trend_anomaly` is taken for a rule the caller evaluates, and the caller has
  no case for it, and counting rules inside a composite match nothing;
- an `or` returns its first match, so that a part that flags hides a later one
  that denies;
- the evaluation goes on after a match that does not deny
  (`docs/featurelist.md:205` says "First matching rule wins");
- policies are ordered by creation and id (`docs/architecture.md:86` says
  priority, then id, but only rules have a priority);
- the simulation reads neither method nor metadata nor the schedule of a
  policy, and evaluates no rule that counts, so that `SimulationPredicts` compares
  it among the policies in force with the part of an evaluation before those rules
  (`Uncounted`); no handler writes the schedule;
- the audit row of an edit is a second statement: an error, a dropped handler or
  a stop of the program between the two leaves the edit without a trace
  (`cut` in `EditsLeaveTraces`).

Of agents and administrators:

- "API key expiration", "TTL on keys with auto-revocation"
  (`docs/featurelist.md:112`): an `expires_at` of `api_keys` that is not in RFC 3339 is passed
  over by the middleware and by the exchange, and the key is served for ever (with
  the moment the text stands for in place of `Ends`, TLC refutes `ExpiredKeysAreRefused` and
  `AccessEndsWithTheKey`);
- the exchange for a token ignores `api_key_expires_at` of an agent's first key
  (hence `Additional` in `ExpiredKeysAreRefused`), and a token outlives the expiry of
  its key (hence `AccessEndsWithTheKey` and not an equality); a JWT passes for 60
  seconds after its end, the library's leeway;
- rotation writes a column `updated_at` that `agents` does not have and always
  fails (F059); a registration whose audit row fails leaves an agent whose key
  nobody was told;
- an open socket of an agent outlives its revocation;
- `session::validate` answers the hash of the token where the identity is meant
  (`services/session.rs:35` and `:60`); a database error while it reads the
  session refuses a right password header too; `admin_logout` answers as if the
  row were deleted when it was not;
- an OAuth state is removed only after the person was received: a callback that
  fails leaves it, two concurrent ones both pass (`StatesWorkOnce` is about those
  that come after), and nothing bounds the map; the OAuth clients have no timeout
  (`services/oauth.rs:147`, `:169`).

Of the limiter, webhooks and sockets:

- the limiter's window is fixed, not sliding (`docs/architecture.md:53`): up to
  twice the limit passes within one window (`BurstsBounded`); its key is the
  whole text of `x-forwarded-for`, its entries are never removed, and
  `/auth/token` is not behind it;
- there are two collectors of metrics (`main.rs:142`, `routes/mod.rs:126`), so that the
  counters that are read stay 0;
- the webhook's client has no timeout (`docs/featurelist.md:293`, F191), its retries
  repeat one timestamp and signature, and no attempt is logged (F198); an error in
  the lookup of its URL, after the commit, denies an action that was decided and
  tells nobody (`lost` in `PostedUntilHeard` and
  `NothingIsMissedUntold`);
- two replicas have a broadcaster each, so that an administrator hears of the
  verdicts of one;
- `admin_ws` says that any message ends the session, but only the end of the
  stream does; an agent's socket is polled for to the end after its client
  has gone.

## 4. What is proved

For every value of the constants (any number of actions, processors, agents,
replicas, rows, calls, requests, sockets, faults, restarts):

- **`ActionLifecycleProofs`.** `TypeCorrect`; `GateRefined` (the lifecycle
  implements `Gate`); `RelaysRecorded` (what was relayed has its verdict in the
  log); `DecidedOnce` (with one processor, one verdict for an action). The
  inductive invariant behind the first two says what each label of a process
  knows: a forward request past its check works on an action whose first
  verdict is approved, and verdicts are only ever appended to. `DecidedOnce`
  needs more: an action with a verdict is not pending, so that the
  unconditional claim never meets one, and what the one processor holds between
  the claim and the save has none. `ApprovalsCaused` follows the approving
  statements back to a verdict or an override; it needs that the label a
  process is at says what it holds, and that verdicts are never taken away.
  `ProcessingOwned`: an action in processing is the current one of a processor
  that will decide it, or there was a restart, or two faults, the second of
  which failed the denial. `StatusAgrees` adds to the invariant of `DecidedOnce`
  what the one processor is about to write: between the verdict's commit and
  the end of `save_verdict` a fault leads to the denial only of an action that
  was not approved. `FailedForwardsOpen` and `AnswersFinal` hold for one processor
  and one forward request at a time (with two, both send the action): the status of an
  approved action is touched by an override and its own forward only (`StatusHeld`),
  so that it stays what the last step of that forward made it (`ForwardInv`).
- **`AuditChainProofs`.** `TypeCorrect`; `ChainSound` (if legacy rows bear the
  canonical timestamps, the chain never breaks or forks). The invariant: the
  rows with hashes are the first ones of the table and of every transaction's
  view, and sound as long as nobody has edited behind the program; nothing is
  without a hash once a replica has passed its backfill or a handler appends;
  and what a backfill has listed covers what it finds unchained. The
  assumption on timestamps is needed: without it `legacy_rfc3339` refutes the
  property. `LogAppendOnly` needs no such assumption: what the process that
  holds the lock has written extends the committed log, nobody else can commit
  meanwhile, and a commit publishes nothing else.
  `LossesNoticed`: what a start compares with its checkpoint is the hash of a row
  that stays in the log until the comparison, whatever others add meanwhile
  (`SeenInv`). `TamperingShows`: the last hash of the log spells all that was
  recorded, up to the rows still unchained (`Spells`, `SpellInv`); a handler's and a
  backfill's transaction extend that, edits and removals do not touch it. In a valid
  chain each hash is also what the rows up to it say now (`ValidSpells`, by induction
  over the rows, `SetInduction`), so that the two agree, text by text. That is as much as
  the hash can tell: `Joined` is any function, nothing says that two contents have
  two texts, and that the rows themselves agree is false. It assumes
  canonical legacy timestamps: in any other format the chain is broken to begin
  with, and an edit of the timestamp would mend it.
- **`GuardedCallsProofs`.** `TypeCorrect`; `OneActionPerKey`;
  `RetriesKeepAction`; `ApprovedBeforeRun` (with options the guard knows, nothing
  runs but under an approval of its own action). The invariant follows an id:
  the row a handler works on, the row it answers and the row a call knows are
  rows of that call's agent and key, and rows only gain a verdict. The
  assumption on the options is needed: with `"callback"` the guard runs the tool
  on a denial.

- **`PoliciesProofs`.** `DenialsDecide`: an evaluation, before it comes to the
  rules that count, denies exactly if a rule of a policy in force does, in whatever
  order priorities put them. The order
  is a permutation of the positions (`PlaceIsBijective`, `SortRulesSorts`), and the
  first position that denies is the least of a set of numbers (`MinIs`), so that
  which one is first does not matter to whether there is one.
  `SimulationFaithful`: the second copy of the loop, `TestPolicy`, stops at the
  same policy of those in force, although it runs over all that are active; of
  rules that count it claims nothing. `TyposFailClosed`: a misspelt type, at any
  depth, changes nothing or denies: a part that comes to deny leaves a composite as
  it was or denying (`CompositeTightens`, `PartTightens`), level by level
  (`MisspeltTightens`). That `EvaluateRule` and `Misspelt` satisfy their own equations,
  however deep rules nest, is proved by induction on `Nesting` (`OutcomesExist`,
  `EvaluateRuleIs`, `MisspeltExist`, `MisspeltIs`).
  `TracesLeft` and `UpdatesActivate` are about the handlers: an edit without its
  row is that of a handler at the row's statement, or of one that ended there
  (`Kept`: it needs that no two handlers serve one request, `ServedOnce`), and the
  only steps that can set `is_active` are those of an update that carries it.

- **`EvaluationProofs`.** `TypeCorrect`; `ConcurrencyKept` (fewer of an agent's
  undecided actions are past a standing concurrency limit than it allows).
  The invariant counts the actions *past a rule*: their worker has checked it
  and not decided. Only a check brings an action past it, and an action is
  processing from before its worker counts until it is decided, so that the
  last to check has counted all the others; a policy that stands has stood
  since the start, and an action that is claimed once has one worker. The
  property is about states before any failed statement and any double claim
  (`Undisturbed`): a failed query lets the action pass, and replicas do claim
  twice (`replicas_claim`). `RateKeptByDay` follows the same argument with the
  actions counted by day: what is approved or past the rule has been claimed
  (`ClaimsShow`) and is counted by every later check, and time only takes actions
  out of the window. Here a double claim does no harm, for the count is of actions.
  `ApprovalsAreEarned`: a worker knows more the further it has come (`Screened`). Past
  its listing no policy that still stands condemns its action, past the scan
  the action bears no critical injection, and about to grant it a provider has been
  asked; the same then holds of what is approved (`Earned`). Others do not
  spoil that: an input is fixed at submission, and what stands to the end stood when
  it was listed. `BudgetKeeps` is the
  argument of the rate limit about sums. While nothing is disturbed an action has one
  claim (`SoleClaim`): it is processing, without a verdict, as long as its worker is at
  work, and an approval leaves it *approved*, so that every later check counts it.
  That a sum grows with its set, if no summand is negative, and splits over disjoint
  sets is proved by induction over the subsets of a finite set (`PartsInduction`,
  `SumSplits`, `SumMonotone`). It is, as `BudgetHolds` says, about states
  in which no submitted amount is negative.

- **`AgentAccessProofs`.** `TypeCorrect`; `RevocationAtOnce`, `CredentialsKept`,
  `ExpiryHolds`, `AccessEnds`, `RegistrationsLogged`. The invariant has two parts:
  what the tables keep to (a key in either table is the key of that agent, a
  token was exchanged for a key of its subject and ends in time), and what
  each place of a handler knows (`RequestSound`): the row it has found was open when it
  looked, and a request that came after a revocation has not found its agent.
  What a handler knows stays true whatever others do, because the tables only
  change in the ways `Grows` names: a revocation is for good, a key keeps its
  agent, and an expiry is only ever set to a time to come. `ExpiryHolds` and
  `AccessEnds` speak of the end of a key as the program reads it (`Ends`): of an
  additional key whose expiry is not in RFC 3339 they say nothing, for such a key does not
  end.
- **`AdminAccessProofs`.** `TypeCorrect`; `SessionsLast`, `LogoutsFinal`, `StatesOnce`.
  A row's end is a function of when its session was earned, a token or state
  that is used up is in no table (`RowsKept`, `StatesKept`), no deletion takes a
  row that is not over (`LiveSessionsStay`); what a handler has read (`Knows`) is
  kept by the steps of the others as in `AgentAccessProofs`. `LiveSessionsStay` is
  inductive only with `RowsKept`: a purge deletes by the row's end. `GuessesBounded`:
  the list of a source is the last part of what passed, and what is not in it any
  more is older than a window (`Remembers`); so a passed attempt is at least a window
  older than the one `MaxAttempts` after it (`Passes`). The filter of the throttle is
  restated as a recursive function (`Retained`) and followed step by step
  along the list (`Iterated`, `RetainedIs`).
- **`DeliveryProofs`.** `TypeCorrect`; `AnnouncementsSaved`,
  `NothingMissed`, `PostedToTheEnd`, `BurstsBounded`, `RefusalsEarned`. The limiter's
  invariant (`Edge`) splits the requests that passed into those of the current
  window and those before it: all but a limit's worth of the latter are more than
  a window older than its beginning, which gives twice the limit in any window, and a
  full entry means the last ones are within it, which gives the refusals. For the
  verdicts: `Told` (whatever is told has a row), `Retried` (the attempt counts the
  posts), and `NothingIsMissedUntold` itself: a verdict a watcher has neither seen nor
  before it is the one the processor is at, or an error has lost it.

The assumptions on constants are the named `ASSUME`s of the modules. Most say
that sets are disjoint and bounds are numbers. `RulesAssumption` says that
priorities are integers and that the parts of a rule are rules that nest less
deep than it; `PoliciesAssumption`, that a misspelt rule is a rule a row may
hold; `ConstantsAssumption` of `AuditChain` demands nothing of `Joined`;
`AmountsAssumption`, that amounts and budgets are integers. TLC evaluates
each of them on the instances.

Only model-checked: liveness (`EveryActionDecided`, `TransactionsEnd`, `ComesUp`,
`SocketsEnd`), which is out of the prover's reach. Every other property of a
passing run has a theorem. Recursive functions are within the prover's reach
where the definition of a set can stand for the predicate: the library's
order on the naturals has least elements (`SetInduction`), which gives induction on a
number, on the length of a list and on the size of a finite set.

## 5. What is not modelled, and the plan

Not modelled:

- the clock of scheduling: `execute_at` is free text compared with
  CURRENT_TIMESTAMP; `Expire` and `ReachDue` of `ActionLifecycle` are
  nondeterministic, which allows all it can do and more;
- egress control: predicates on URLs and addresses without state;
- attachments: the file is written before its row, two uploads whose ids share
  eight characters can meet at one name, and an upload of several files that fails
  keeps the first ones; nothing else of the system reads them;
- the counters of the metrics, which only report, and lose updates (load, add,
  store) without consequence;
- configuration, pools, health, redaction, the string heuristics, and the HTTP
  and OAuth requests themselves: input and output;
- the TypeScript SDK, the front ends and the sample agents.

What is left, in order of weight:

1. `Scheduling`: `execute_at`, TTL and the clock, refining `Expire` and `ReachDue`; a
   scheduled action may outlive its TTL before it is due.
2. `Evaluation` as a refinement of `ActionLifecycle`'s `Evaluate`, and `Delivery`
   composed with the whole of `ActionLifecycle` rather than with its `save_verdict`.
3. Theorems: the refinement of item 2, step by step.
4. Attachments: files and rows, with a failure or a crash between them.
