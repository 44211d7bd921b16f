--------------------------- MODULE ActionLifecycle ---------------------------
(***************************************************************************)
(* The life of an action: submitted by an agent, expired or decided by the *)
(* background processor, overridden by an admin, forwarded to its target.  *)
(*                                                                         *)
(* Everything durable is in SQLite (the status column of actions, the      *)
(* verdicts table, the event types of audit_log); a request handler or the *)
(* processor task is a process that reads a row, awaits, and writes later. *)
(* One action below is one awaited statement or transaction, so that every *)
(* interleaving of two handlers is a behaviour.  A statement may fail      *)
(* (Fault), a handler's future may be dropped with its connection (Drop),  *)
(* and the whole program may stop and start again (Restart).               *)
(*                                                                         *)
(* A decision (policies, injection scan, provider chain) is any member of  *)
(* Decisions here; how one is reached belongs to modules of its own.  The  *)
(* hash chain of the audit log is AuditChain's subject: here the log is    *)
(* the set of event types recorded for each action.                        *)
(***************************************************************************)
EXTENDS Naturals, Sequences, FiniteSets

CONSTANTS
    Actions,       \* rows the agents may create
    Workers,       \* processor tasks: one per running replica of deko
    Admins,        \* admin requests in flight
    Agents,        \* forward requests in flight
    None,          \* no action
    Priority,      \* the priority column, fixed when an action is created
    BatchSize,     \* LIMIT of process_pending's SELECT (10 in main.rs)
    MaxAttempts,   \* MAX_ATTEMPTS of execute_forwarded_request (3)
    MaxCalls,      \* bound: forward requests the agents make
    MaxFaults,     \* bound: database statements that fail
    MaxRestarts,   \* bound: restarts of the program
    MaxDrops       \* bound: handlers dropped with their connection

ASSUME ConstantsAssumption ==
    /\ None \notin Actions
    /\ Workers \cap Admins = {} /\ Workers \cap Agents = {} /\ Admins \cap Agents = {}
    /\ Priority \in [Actions -> Nat]
    /\ {BatchSize, MaxAttempts} \subseteq Nat \ {0}
    /\ {MaxCalls, MaxFaults, MaxRestarts, MaxDrops} \subseteq Nat

Decisions == {"approved", "denied", "escalate"}

Statuses == {"pending", "processing", "approved", "denied", "escalated",
             "forwarded", "forward_failed"}

Events == {"processing_started", "verdict_issued", "admin_override",
           "action_overridden", "action_forwarded", "forward_failed"}

Procs == Workers \cup Admins \cup Agents

VARIABLES
    status,      \* actions.status, "absent" before the row exists
    scheduled,   \* actions whose execute_at is still in the future
    verdicts,    \* rows of verdicts for each action, in rowid order
    trail,       \* event types audit_log holds for each action
    batch,       \* ids a worker has fetched and not looked at yet
    pc,          \* where each process is between two awaits
    cur,         \* the action it works on
    arg,         \* what it remembers: a decision, a status it read or will write
    attempt,     \* attempts execute_forwarded_request has made
    reply,       \* the last answer of a forward request
    relays,      \* requests the target of an action has received
    answered,    \* relayed actions whose target answered
    overridden,  \* actions an admin's write has reached (history)
    calls, faults, restarts, drops

rows    == <<status, scheduled, verdicts>>
control == <<pc, cur, arg>>
target  == <<relays, answered>>
bounds  == <<calls, faults, restarts, drops>>
vars    == <<rows, trail, batch, control, attempt, reply, target, overridden, bounds>>

Init ==
    /\ status = [a \in Actions |-> "absent"]
    /\ scheduled = {}
    /\ verdicts = [a \in Actions |-> <<>>]
    /\ trail = [a \in Actions |-> {}]
    /\ batch = [w \in Workers |-> {}]
    /\ pc = [p \in Procs |-> "idle"]
    /\ cur = [p \in Procs |-> None]
    /\ arg = [p \in Procs |-> "none"]
    /\ attempt = [f \in Agents |-> 0]
    /\ reply = [f \in Agents |-> "none"]
    /\ relays = [a \in Actions |-> 0]
    /\ answered = {}
    /\ overridden = {}
    /\ calls = 0 /\ faults = 0 /\ restarts = 0 /\ drops = 0

-----------------------------------------------------------------------------
(* A statement that fails costs one of MaxFaults.                          *)
Works == UNCHANGED bounds
Fault == /\ faults < MaxFaults
         /\ faults' = faults + 1
         /\ UNCHANGED <<calls, restarts, drops>>

At(p, label) == pc[p] = label

Goto(p, label) ==
    /\ pc' = [pc EXCEPT ![p] = label]
    /\ UNCHANGED <<cur, arg>>

Begin(p, label, a, x) ==
    /\ pc' = [pc EXCEPT ![p] = label]
    /\ cur' = [cur EXCEPT ![p] = a]
    /\ arg' = [arg EXCEPT ![p] = x]

End(p, label) == Begin(p, label, None, "none")

SetStatus(a, s) == status' = [status EXCEPT ![a] = s]

Record(a, event) == trail' = [trail EXCEPT ![a] = @ \cup {event}]

-----------------------------------------------------------------------------
(* Agents submit actions.                                                  *)

\* create_action and batch_create_actions: the INSERT; the row is visible to
\* the processor from then on.
Submit(a) ==
    /\ status[a] = "absent"
    /\ SetStatus(a, "pending")
    /\ scheduled' \in {scheduled, scheduled \cup {a}}
    /\ UNCHANGED <<verdicts, trail, batch, control, attempt, reply, target, overridden, bounds>>

\* execute_at <= CURRENT_TIMESTAMP becomes true.
ReachDue(a) ==
    /\ a \in scheduled
    /\ scheduled' = scheduled \ {a}
    /\ UNCHANGED <<status, verdicts, trail, batch, control, attempt, reply, target,
                   overridden, bounds>>

-----------------------------------------------------------------------------
(* The processor: ActionProcessor::run and VerdictService::process_action. *)

workerFrame == <<scheduled, attempt, reply, target, overridden>>

\* expire_stale_actions: pending actions older than the TTL (any of them may
\* be) are denied by one UPDATE, whose failure is ignored.
Expire(w) ==
    /\ At(w, "idle")
    /\ \E stale \in SUBSET {a \in Actions : status[a] = "pending"} :
          status' = [a \in Actions |-> IF a \in stale THEN "denied" ELSE status[a]]
    /\ Goto(w, "select")
    /\ Works
    /\ UNCHANGED <<workerFrame, verdicts, trail, batch>>

\* The SELECT of process_pending takes the BatchSize first pending actions
\* that are due, by priority and then age; actions of one priority submitted
\* within a second of each other come in any order.
Due == {a \in Actions \ scheduled : status[a] = "pending"}

Batches ==
    {B \in SUBSET Due :
        /\ Cardinality(B) <= BatchSize
        /\ B # Due => Cardinality(B) = BatchSize
        /\ \A a \in B, b \in Due \ B : Priority[a] <= Priority[b]}

NextLabel(B) == IF B = {} THEN "idle" ELSE "next"

FetchBatch(w) ==
    /\ At(w, "select")
    /\ \/ /\ Works
          /\ \E B \in Batches : /\ batch' = [batch EXCEPT ![w] = B]
                                /\ Goto(w, NextLabel(B))
       \/ /\ Fault
          /\ Goto(w, "idle")
          /\ UNCHANGED batch
    /\ UNCHANGED <<workerFrame, status, verdicts, trail>>

\* process_action reads the row and skips an action that is not pending.
ReadAction(w) ==
    /\ At(w, "next")
    /\ \E a \in batch[w] :
          LET rest == batch[w] \ {a} IN
          /\ \A b \in rest : Priority[a] <= Priority[b]
          /\ batch' = [batch EXCEPT ![w] = rest]
          /\ \/ Works /\ status[a] = "pending" /\ Begin(w, "claim", a, "none")
             \/ Works /\ status[a] # "pending" /\ Goto(w, NextLabel(rest))
             \/ Fault /\ Begin(w, "deny", a, "none")
    /\ UNCHANGED <<workerFrame, status, verdicts, trail>>

\* The claim is an UPDATE of the row by id, whatever its status is by now.
Claim(w) ==
    /\ At(w, "claim")
    /\ \/ Works /\ SetStatus(cur[w], "processing") /\ Goto(w, "started")
       \/ Fault /\ Goto(w, "deny") /\ UNCHANGED status
    /\ UNCHANGED <<workerFrame, verdicts, trail, batch>>

RecordStarted(w) ==
    /\ At(w, "started")
    /\ \/ Works /\ Record(cur[w], "processing_started") /\ Goto(w, "evaluate")
       \/ Fault /\ Goto(w, "deny") /\ UNCHANGED trail
    /\ UNCHANGED <<workerFrame, status, verdicts, batch>>

\* Policies, injection scan and provider chain, over minutes of awaiting: any
\* decision; a failed query or audit write on the way is an error.
Evaluate(w) ==
    /\ At(w, "evaluate")
    /\ \/ Works /\ \E d \in Decisions : Begin(w, "save", cur[w], d)
       \/ Fault /\ Goto(w, "deny")
    /\ UNCHANGED <<workerFrame, status, verdicts, trail, batch>>

StatusOf(decision) == IF decision = "escalate" THEN "escalated" ELSE decision

\* Mutant: the audit row of a verdict written on a best effort, as the others are.
SaveVerdictUnaudited(w) ==
    LET a == cur[w] IN
    /\ At(w, "save")
    /\ verdicts' = [verdicts EXCEPT ![a] = Append(@, arg[w])]
    /\ SetStatus(a, StatusOf(arg[w]))
    /\ (Works /\ Record(a, "verdict_issued")) \/ (Fault /\ UNCHANGED trail)
    /\ End(w, NextLabel(batch[w]))
    /\ UNCHANGED <<workerFrame, batch>>

\* save_verdict, the transaction: verdict row, status and audit row together.
SaveVerdict(w) ==
    LET a == cur[w] IN
    /\ At(w, "save")
    /\ \/ /\ Works
          /\ verdicts' = [verdicts EXCEPT ![a] = Append(@, arg[w])]
          /\ SetStatus(a, StatusOf(arg[w]))
          /\ Record(a, "verdict_issued")
          /\ IF arg[w] = "approved" THEN End(w, NextLabel(batch[w]))
                                    ELSE Goto(w, "notify")
       \/ /\ Fault
          /\ Goto(w, "deny")
          /\ UNCHANGED <<status, verdicts, trail>>
    /\ UNCHANGED <<workerFrame, batch>>

\* save_verdict, after the commit: the webhook of a denied or escalated action
\* is looked up with `?`, so a failure here is an error of process_action.
Notify(w) ==
    /\ At(w, "notify")
    /\ \/ Works /\ End(w, NextLabel(batch[w]))
       \/ Fault /\ Goto(w, "deny")
    /\ UNCHANGED <<workerFrame, status, verdicts, trail, batch>>

\* process_pending answers an error with an UPDATE by id.  If that fails too,
\* the rest of the batch is dropped with it.
AnswerError(w, s) ==
    /\ At(w, "deny")
    /\ \/ /\ Works
          /\ SetStatus(cur[w], s)
          /\ End(w, NextLabel(batch[w]))
          /\ UNCHANGED batch
       \/ /\ Fault
          /\ batch' = [batch EXCEPT ![w] = {}]
          /\ End(w, "idle")
          /\ UNCHANGED status
    /\ UNCHANGED <<workerFrame, verdicts, trail>>

\* Mutants: try the action again, let it through, or only log the error.
RetryOnError(w)   == AnswerError(w, "pending")
ApproveOnError(w) == AnswerError(w, "approved")
AbandonOnError(w) == AnswerError(w, status[cur[w]])

\* Default-deny on any error.
DenyOnError(w) == AnswerError(w, "denied")

Process(w) ==
    \/ Expire(w) \/ FetchBatch(w) \/ ReadAction(w) \/ Claim(w) \/ RecordStarted(w)
    \/ Evaluate(w) \/ SaveVerdict(w) \/ Notify(w) \/ DenyOnError(w)

-----------------------------------------------------------------------------
(* Admins override decisions; no override touches the verdicts table.      *)

adminFrame == <<scheduled, verdicts, batch, attempt, reply, target>>

Blocked == {"denied", "escalated"}

\* The statuses from which the JSON endpoint lets an admin set s.
JsonSources(s) ==
    CASE s = "approved"  -> {"denied", "escalated", "pending"}
      [] s = "denied"    -> {"pending", "escalated"}
      [] s = "escalated" -> {"pending"}

\* routes/admin.rs override_action reads the row and checks its status ...
OverrideForm(d, a) ==
    /\ At(d, "idle")
    /\ status[a] \in Blocked
    /\ Begin(d, "form_write", a, "approved")
    /\ Works
    /\ UNCHANGED <<adminFrame, status, trail, overridden>>

\* ... and then approves it by id, the audit row in the same transaction.
WriteForm(d) ==
    /\ At(d, "form_write")
    /\ \/ /\ Works
          /\ SetStatus(cur[d], "approved")
          /\ Record(cur[d], "admin_override")
          /\ overridden' = overridden \cup {cur[d]}
       \/ Fault /\ UNCHANGED <<status, trail, overridden>>
    /\ End(d, "idle")
    /\ UNCHANGED adminFrame

\* routes/api_admin.rs override_action: read and check ...
OverrideJson(d, a, s) ==
    /\ At(d, "idle")
    /\ status[a] \in JsonSources(s)
    /\ Begin(d, "json_write", a, s)
    /\ Works
    /\ UNCHANGED <<adminFrame, status, trail, overridden>>

\* ... write by id ...
WriteJson(d) ==
    /\ At(d, "json_write")
    /\ \/ /\ Works
          /\ SetStatus(cur[d], arg[d])
          /\ overridden' = overridden \cup {cur[d]}
          /\ Goto(d, "json_audit")
       \/ Fault /\ End(d, "idle") /\ UNCHANGED <<status, overridden>>
    /\ UNCHANGED <<adminFrame, trail>>

\* ... and a separate audit write, whose failure is only reported.
RecordJson(d) ==
    /\ At(d, "json_audit")
    /\ \/ Works /\ Record(cur[d], "admin_override")
       \/ Fault /\ UNCHANGED trail
    /\ End(d, "idle")
    /\ UNCHANGED <<adminFrame, status, overridden>>

\* bulk_override_actions, one id of the list: the UPDATE names the statuses it
\* applies to.
OverrideBulk(d, a) ==
    /\ At(d, "idle")
    /\ status[a] \in Blocked
    /\ SetStatus(a, "approved")
    /\ overridden' = overridden \cup {a}
    /\ Begin(d, "bulk_audit", a, "none")
    /\ Works
    /\ UNCHANGED <<adminFrame, trail>>

\* The audit write of that id; its failure is ignored.
RecordBulk(d) ==
    /\ At(d, "bulk_audit")
    /\ \/ Works /\ Record(cur[d], "action_overridden")
       \/ Fault /\ UNCHANGED trail
    /\ End(d, "idle")
    /\ UNCHANGED <<adminFrame, status, overridden>>

Administer(d) ==
    \/ \E a \in Actions : OverrideForm(d, a) \/ OverrideBulk(d, a)
    \/ \E a \in Actions, s \in {"approved", "denied", "escalated"} : OverrideJson(d, a, s)
    \/ WriteForm(d) \/ WriteJson(d) \/ RecordJson(d) \/ RecordBulk(d)

-----------------------------------------------------------------------------
(* Agents forward their actions: forward_action.                           *)

agentFrame == <<scheduled, verdicts, batch, overridden>>

Finish(f, outcome) ==
    /\ End(f, "idle")
    /\ reply' = [reply EXCEPT ![f] = outcome]
    /\ attempt' = [attempt EXCEPT ![f] = 0]

\* The handler reads the action first ...
ReadForward(f, a) ==
    /\ At(f, "idle")
    /\ status[a] # "absent"
    /\ calls < MaxCalls
    /\ calls' = calls + 1
    /\ Begin(f, "check", a, status[a])
    /\ reply' = [reply EXCEPT ![f] = "none"]
    /\ UNCHANGED <<agentFrame, status, trail, target, attempt, faults, restarts, drops>>

\* Mutants: the status column decides; or a forwarded action may go again.
RefusalByStatus(f) == IF arg[f] = "approved" THEN "none" ELSE "forbidden"

RefusalByVerdict(f) ==
    IF verdicts[cur[f]] # <<>> /\ verdicts[cur[f]][1] = "approved" THEN "none" ELSE "forbidden"

\* ... then the first verdict row; it is the verdict that decides, the status
\* only tells whether the action was forwarded already.  Every action has a
\* valid target: one without changes no state.
Refusal(f) ==
    IF verdicts[cur[f]] = <<>> THEN "no verdict"
    ELSE IF arg[f] = "forwarded" THEN "already forwarded"
    ELSE CASE verdicts[cur[f]][1] = "approved" -> "none"
           [] verdicts[cur[f]][1] = "denied"   -> "forbidden"
           [] verdicts[cur[f]][1] = "escalate" -> "locked"

CheckVerdict(f) ==
    /\ At(f, "check")
    /\ \/ /\ Works
          /\ Refusal(f) # "none"
          /\ Finish(f, Refusal(f))
       \/ /\ Works
          /\ Refusal(f) = "none"
          /\ Goto(f, "mark")
          /\ UNCHANGED <<attempt, reply>>
       \/ Fault /\ Finish(f, "error")
    /\ UNCHANGED <<agentFrame, status, trail, target>>

\* The action is marked forwarded, by id, before anything is sent.
MarkForwarded(f) ==
    /\ At(f, "mark")
    /\ \/ /\ Works
          /\ SetStatus(cur[f], "forwarded")
          /\ Goto(f, "send")
          /\ UNCHANGED <<attempt, reply>>
       \/ Fault /\ Finish(f, "error") /\ UNCHANGED status
    /\ UNCHANGED <<agentFrame, trail, target>>

\* One attempt of execute_forwarded_request: the target answers; or the
\* attempt fails in transport or name resolution, the request delivered or
\* not; or a redirect is refused, which ends all attempts.
Relay(f) ==
    LET a == cur[f] IN
    /\ At(f, "send")
    /\ attempt' = [attempt EXCEPT ![f] = @ + 1]
    /\ \/ /\ answered' = answered \cup {a}
          /\ relays' = [relays EXCEPT ![a] = @ + 1]
          /\ Goto(f, "sent_audit")
       \/ /\ \E got \in {0, 1} : relays' = [relays EXCEPT ![a] = @ + got]
          /\ Goto(f, IF attempt[f] + 1 < MaxAttempts THEN "send" ELSE "revert")
          /\ UNCHANGED answered
       \/ /\ relays' = [relays EXCEPT ![a] = @ + 1]
          /\ Goto(f, "revert")
          /\ UNCHANGED answered
    /\ Works
    /\ UNCHANGED <<agentFrame, status, trail, reply>>

RecordForwarded(f) ==
    /\ At(f, "sent_audit")
    /\ \/ Works /\ Record(cur[f], "action_forwarded")
       \/ Fault /\ UNCHANGED trail
    /\ Finish(f, "forwarded")
    /\ UNCHANGED <<agentFrame, status, target>>

\* Mutant: the failure is audited, the status left as it is.
RevertNothing(f) ==
    /\ At(f, "revert")
    /\ Works
    /\ Goto(f, "failed_audit")
    /\ UNCHANGED <<agentFrame, status, trail, target, attempt, reply>>

\* All attempts failed: the action is marked forward_failed, by id; a failure
\* of that UPDATE is ignored, as is one of the audit write that follows.
Revert(f) ==
    /\ At(f, "revert")
    /\ \/ Works /\ SetStatus(cur[f], "forward_failed")
       \/ Fault /\ UNCHANGED status
    /\ Goto(f, "failed_audit")
    /\ UNCHANGED <<agentFrame, trail, target, attempt, reply>>

RecordFailure(f) ==
    /\ At(f, "failed_audit")
    /\ \/ Works /\ Record(cur[f], "forward_failed")
       \/ Fault /\ UNCHANGED trail
    /\ Finish(f, "failed")
    /\ UNCHANGED <<agentFrame, status, target>>

Forward(f) ==
    \/ \E a \in Actions : ReadForward(f, a)
    \/ CheckVerdict(f) \/ MarkForwarded(f) \/ Relay(f)
    \/ RecordForwarded(f) \/ Revert(f) \/ RecordFailure(f)

-----------------------------------------------------------------------------
(* What can go wrong around them.                                          *)

\* axum drops the future of a handler whose connection is closed: it stops at
\* the await it has reached.
Drop(p) ==
    /\ pc[p] # "idle"
    /\ drops < MaxDrops
    /\ drops' = drops + 1
    /\ End(p, "idle")
    /\ attempt' = [f \in Agents |-> IF f = p THEN 0 ELSE attempt[f]]
    /\ UNCHANGED <<rows, trail, batch, reply, target, overridden, calls, faults, restarts>>

\* The program stops, in a crash or in main's shutdown, which gives up the
\* processor task wherever it is (processor_handle.abort), and starts again.
\* Nothing looks for actions left in processing.
Restart ==
    /\ restarts < MaxRestarts
    /\ restarts' = restarts + 1
    /\ pc' = [p \in Procs |-> "idle"]
    /\ cur' = [p \in Procs |-> None]
    /\ arg' = [p \in Procs |-> "none"]
    /\ batch' = [w \in Workers |-> {}]
    /\ attempt' = [f \in Agents |-> 0]
    /\ UNCHANGED <<rows, trail, reply, target, overridden, calls, faults, drops>>

Next ==
    \/ \E a \in Actions : Submit(a) \/ ReachDue(a)
    \/ \E w \in Workers : Process(w)
    \/ \E d \in Admins : Administer(d)
    \/ \E f \in Agents : Forward(f)
    \/ \E p \in Admins \cup Agents : Drop(p)
    \/ Restart

Spec == Init /\ [][Next]_vars

\* The runtime keeps polling the processor task, every await of which ends, and
\* the clock advances: the client of a provider has a timeout, and the receiver
\* of a webhook, whose client has none, is assumed to answer.  Agents and admins
\* may stop at any time.
FairSpec ==
    /\ Spec
    /\ \A w \in Workers : WF_vars(Process(w))
    /\ \A a \in Actions : WF_vars(ReachDue(a))

-----------------------------------------------------------------------------
(* Properties.                                                             *)

Labels == {"idle", "select", "next", "claim", "started", "evaluate", "save", "notify", "deny",
           "form_write", "json_write", "json_audit", "bulk_audit",
           "check", "mark", "send", "sent_audit", "revert", "failed_audit"}

Replies == {"none", "no verdict", "already forwarded", "forbidden", "locked", "error",
            "forwarded", "failed"}

\* Every variable has its type.
TypeOK ==
    /\ status \in [Actions -> Statuses \cup {"absent"}]
    /\ scheduled \in SUBSET Actions
    /\ verdicts \in [Actions -> Seq(Decisions)]
    /\ trail \in [Actions -> SUBSET Events]
    /\ batch \in [Workers -> SUBSET Actions]
    /\ pc \in [Procs -> Labels]
    /\ cur \in [Procs -> Actions \cup {None}]
    /\ arg \in [Procs -> Decisions \cup Statuses \cup {"none"}]
    /\ attempt \in [Agents -> Nat]
    /\ reply \in [Agents -> Replies]
    /\ relays \in [Actions -> Nat]
    /\ answered \in SUBSET Actions
    /\ overridden \in SUBSET Actions
    /\ calls \in Nat /\ faults \in Nat /\ restarts \in Nat /\ drops \in Nat

\* With one processor an action is decided at most once, however handlers,
\* faults and restarts interleave: the claim, though unconditional, never
\* takes up an action that has a verdict (the rule behind the UPDATE of
\* process_action and the tables' missing UNIQUE constraint).
OneVerdict == \A a \in Actions : Len(verdicts[a]) <= 1

\* Default-deny in the status column: an action is approved only by an
\* approving verdict or by an admin, and forwarded (or failed to be) only
\* under an approving verdict that was the first one.
ApprovalHasCause ==
    \A a \in Actions :
        /\ status[a] = "approved" =>
              \/ a \in overridden
              \/ \E i \in DOMAIN verdicts[a] : verdicts[a][i] = "approved"
        /\ status[a] \in {"forwarded", "forward_failed"} =>
              verdicts[a] # <<>> /\ verdicts[a][1] = "approved"

\* Until an admin steps in, the status an agent polls and the verdict the
\* forward handler obeys say the same.  The one divergence: an escalated
\* action whose webhook lookup failed after the commit reads denied.
StatusAgreesWithVerdict ==
    \A a \in Actions \ overridden :
        verdicts[a] # <<>> =>
            CASE verdicts[a][1] = "approved" ->
                    status[a] \in {"approved", "forwarded", "forward_failed"}
              [] verdicts[a][1] = "denied" -> status[a] = "denied"
              [] verdicts[a][1] = "escalate" ->
                    status[a] = "escalated" \/ (status[a] = "denied" /\ faults > 0)

\* An action is in processing only while a processor holds it; a restart, or a
\* database fault followed by one of the denial that answers it, is what it
\* takes to leave it there (nothing selects it again).
ProcessingIsOwned ==
    \A a \in Actions :
        status[a] = "processing" =>
            \/ \E w \in Workers : cur[w] = a
            \/ restarts > 0
            \/ faults > 1

\* Whatever was relayed can be traced: the audit log already held the verdict
\* when the request left, because verdict, status and audit row commit
\* together.
RelayIsRecorded ==
    \A a \in Actions : relays[a] > 0 => "verdict_issued" \in trail[a]

\* The lifecycle implements Gate: the decision that stands is the first
\* verdict row, and an action is released when its target has received it.
FirstVerdict(a) == IF verdicts[a] = <<>> THEN "none" ELSE verdicts[a][1]

Promise == INSTANCE Gate WITH
    decision <- [a \in Actions |-> FirstVerdict(a)],
    released <- {a \in Actions : relays[a] > 0}

\* Default-deny at the boundary: the target hears of an action only after an
\* approving verdict, and no later verdict, override, fault or restart changes
\* the decision that stands.
GateHolds == Promise!Spec

\* A forward that failed leaves the action open to another attempt: when the
\* agent is told "failed", the status is forward_failed.  The UPDATE that makes
\* it so drops its error, and an override may have come in between.
FailedForwardIsOpen ==
    [][\A f \in Agents :
          reply'[f] = "failed" /\ reply[f] # "failed" =>
              \/ status[cur[f]] = "forward_failed"
              \/ cur[f] \in overridden
              \/ faults > 0]_vars

\* To an agent that makes one request at a time, an action whose target has
\* answered is not sent again, unless a late override has unmarked it.
AnsweredIsFinal ==
    [][Cardinality(Agents) = 1 =>
          \A a \in answered \ overridden : relays'[a] = relays[a]]_vars

\* "pending->processing claimed by one worker" (docs/architecture.md): no two
\* processors work on one action.
ClaimedByOneWorker ==
    \A a \in Actions :
        Cardinality({w \in Workers : cur[w] = a /\ ~At(w, "claim")}) <= 1

\* A submitted action is decided: it does not stay pending or in processing,
\* unless the program is restarted or the denial that answers a fault fails too.
EveryActionDecided ==
    \A a \in Actions :
        status[a] = "pending" ~>
            status[a] \notin {"pending", "processing"} \/ restarts > 0 \/ faults > 1

=============================================================================
