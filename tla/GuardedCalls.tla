----------------------------- MODULE GuardedCalls -----------------------------
(***************************************************************************)
(* The clients of Submission: a tool call guarded by the Python SDK.  It   *)
(* submits an action, waits for the verdict and runs the tool, or not.     *)
(*                                                                         *)
(* Four of the SDK's front ends share one client: @guard and @aguard, the  *)
(* MCP gate and the HTTP proxy.  All but aguard go through Deko.check,     *)
(* which answers every failure of its first request, the expiry of its     *)
(* polling included, with a second request without ?wait.  The server goes *)
(* on with what a client has given up, and requests may be lost or late.   *)
(*                                                                         *)
(* What forward_action does is ActionLifecycle's subject: here a forward   *)
(* of an approved action succeeds or fails.                                *)
(***************************************************************************)
EXTENDS Submission

CONSTANTS
    StylesOf,    \* the front ends a call may go through
    Targeted,    \* calls guarded with a target_url
    OnDenied,    \* the options of @guard and @aguard
    OnEscalate

Styles == {"guard", "aguard", "gate", "proxy"}

ASSUME GuardAssumption ==
    /\ StylesOf \in [Calls -> SUBSET Styles]
    /\ Targeted \subseteq Calls

Ended == {"ran", "relayed", "blocked", "failed"}

VARIABLES
    pc,      \* where each call is
    style,   \* the front end it went through
    mode,    \* which of its two requests it waits for
    posted,  \* requests it has sent
    act,     \* the action it was told of, 0 before
    heard    \* the decision it was told

client == <<pc, style, mode, posted, act, heard>>
vars == <<server, client>>

Init ==
    /\ ServerInit
    /\ pc = [c \in Calls |-> "idle"]
    /\ style = [c \in Calls |-> "guard"]
    /\ mode = [c \in Calls |-> "wait"]
    /\ posted = {}
    /\ act = [c \in Calls |-> 0]
    /\ heard = [c \in Calls |-> "none"]

-----------------------------------------------------------------------------
\* The gate and the proxy send no idempotency key.
CallKey(c) == IF style[c] \in {"guard", "aguard"} THEN KeyOf[c] ELSE NoKey

Post(c, m) ==
    /\ mode' = [mode EXCEPT ![c] = m]
    /\ posted' = posted \cup {<<c, m>>}

Move(c, label) == pc' = [pc EXCEPT ![c] = label]

\* An agent calls a guarded tool; the gate and the proxy always ask for the
\* verdict with the first request, the others as configured.
Call(c) ==
    /\ pc[c] = "idle"
    /\ \E s \in StylesOf[c], m \in Kinds :
          /\ s \in {"gate", "proxy"} => m = "wait"
          /\ style' = [style EXCEPT ![c] = s]
          /\ Post(c, m)
    /\ Move(c, "posted")
    /\ UNCHANGED <<server, act, heard>>

\* The network delivers a request, if it does, at any time.
Deliver(q) ==
    /\ q \in posted
    /\ Arrive(q, CallKey(q[1]))
    /\ UNCHANGED client

\* An exception on the way to a verdict: check swallows it on its first path
\* and takes the second one, acheck lets it out.
Fail(c) ==
    /\ IF mode[c] = "wait" /\ style[c] # "aguard"
       THEN Post(c, "plain") /\ Move(c, "posted")
       ELSE Move(c, "failed") /\ UNCHANGED <<mode, posted>>
    /\ UNCHANGED <<style, act, heard>>

Learn(c, i) ==
    /\ act' = [act EXCEPT ![c] = i]
    /\ heard' = [heard EXCEPT ![c] = actions[i].verdict]
    /\ Move(c, "judge")
    /\ UNCHANGED <<style, mode, posted>>

\* The answer to the request: a verdict, an id to poll, or an error.
Receive(c) ==
    LET a == answer[<<c, mode[c]>>] IN
    /\ pc[c] = "posted"
    /\ \/ a.kind = "verdict" /\ Learn(c, a.id)
       \/ /\ a.kind = "id"
          /\ act' = [act EXCEPT ![c] = a.id]
          /\ Move(c, "polling")
          /\ UNCHANGED <<style, mode, posted, heard>>
       \/ a.kind = "error" /\ Fail(c)
    /\ UNCHANGED server

\* get_action_status: refused for an action of another agent, otherwise the
\* verdict once there is one.
Poll(c) ==
    LET row == actions[act[c]] IN
    /\ pc[c] = "polling"
    /\ \/ Works /\ row.agent = AgentOf[c] /\ row.verdict # "none" /\ Learn(c, act[c])
       \/ ((Works /\ row.agent # AgentOf[c]) \/ Fault) /\ Fail(c)
    /\ UNCHANGED <<actions, at, key, found, answer>>

\* httpx's timeout of a request, a lost connection, or the deadline of the
\* polling.
GiveUp(c) ==
    /\ pc[c] \in {"posted", "polling"}
    /\ Fail(c)
    /\ UNCHANGED server

\* Mutant: an escalation taken for an approval.
StopsDenied(c) == heard[c] = "denied"

\* Whether the front end stops at this verdict: guard does for the options it
\* knows, the others at everything but an approval.
Stops(c) ==
    IF style[c] = "guard"
    THEN \/ heard[c] = "denied" /\ OnDenied \in {"raise", "return"}
         \/ heard[c] = "escalate" /\ OnEscalate \in {"raise", "return"}
    ELSE heard[c] # "approved"

Forwards(c) == style[c] = "proxy" \/ (c \in Targeted /\ style[c] # "gate")

Judge(c) ==
    /\ pc[c] = "judge"
    /\ \/ Stops(c) /\ Move(c, "blocked")
       \/ ~Stops(c) /\ Forwards(c) /\ Move(c, "forward")
       \/ ~Stops(c) /\ ~Forwards(c) /\ Move(c, "ran")
    /\ UNCHANGED <<server, style, mode, posted, act, heard>>

\* The forward of an approved action succeeds or not.  A guard runs its tool
\* after it or raises; the proxy relays the answer or, without one, sends the
\* request itself.
Forward(c) ==
    /\ pc[c] = "forward"
    /\ \/ /\ actions[act[c]].verdict = "approved"
          /\ Move(c, IF style[c] = "proxy" THEN "relayed" ELSE "ran")
       \/ Move(c, IF style[c] = "proxy" THEN "ran" ELSE "failed")
    /\ UNCHANGED <<server, style, mode, posted, act, heard>>

Proceed(c) == Receive(c) \/ Poll(c) \/ GiveUp(c) \/ Judge(c) \/ Forward(c)

Next ==
    \/ \E c \in Calls : Call(c) \/ Proceed(c)
    \/ \E q \in Requests : Deliver(q) \/ (Serve(q) /\ UNCHANGED client)
    \/ \E b \in Batches : ServeBatch(b) /\ UNCHANGED client
    \/ \E q \in Handlers : Drop(q) /\ UNCHANGED client
    \/ \E i \in DOMAIN actions : Decide(i) /\ UNCHANGED client

Spec == Init /\ [][Next]_vars

-----------------------------------------------------------------------------
(* Properties.                                                             *)

Labels == {"unsent", "lookup", "peek", "insert", "audit", "hold", "done"}

Answers == [kind : {"none", "id", "ids", "verdict", "error"}, id : Nat]

Rows == [agent : Agents, key : Keys \cup {NoKey}, verdict : Decisions \cup {"none"}]

ServerTypeOK ==
    /\ actions \in Seq(Rows)
    /\ at \in [Handlers -> Labels]
    /\ key \in [Requests -> Keys \cup {NoKey}]
    /\ found \in [Handlers -> Nat]
    /\ answer \in [Handlers -> Answers]
    /\ faults \in Nat

ClientTypeOK ==
    /\ pc \in [Calls -> {"idle", "posted", "polling", "judge", "forward"} \cup Ended]
    /\ style \in [Calls -> Styles]
    /\ mode \in [Calls -> Kinds]
    /\ posted \in SUBSET Requests
    /\ act \in [Calls -> Nat]
    /\ heard \in [Calls -> Decisions \cup {"none"}]

\* Every variable has its type.
TypeOK == ServerTypeOK /\ ClientTypeOK

\* One action for one key of one agent, whatever requests, retries and batches
\* race between the lookup and the INSERT.
KeysUnique ==
    \A i, j \in DOMAIN actions :
        /\ actions[i].key # NoKey
        /\ actions[i].key = actions[j].key
        /\ actions[i].agent = actions[j].agent
        => i = j

\* A tool runs, or its request leaves the proxy, only under an approving
\* verdict on an action that this call's own agent submitted under its key.
RunsOnlyApproved ==
    \A c \in Calls :
        pc[c] \in {"ran", "relayed"} =>
            /\ act[c] \in DOMAIN actions
            /\ actions[act[c]] =
                  [agent |-> AgentOf[c], key |-> CallKey(c), verdict |-> "approved"]

\* A call with a key that has learned its action never hears of another one:
\* the second request of Deko.check finds what the first one made.
RetriesFindTheirAction ==
    [][\A c \in Calls :
          CallKey(c) # NoKey /\ act[c] # 0 => act'[c] = act[c]]_vars

=============================================================================
