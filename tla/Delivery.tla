------------------------------ MODULE Delivery ------------------------------
(***************************************************************************)
(* How a verdict gets out: save_verdict commits it, posts it to a webhook  *)
(* if it blocks the action, and broadcasts it to the administrators'       *)
(* sockets, in this order and within the one processor; an agent's socket  *)
(* polls the table instead, behind the limiter of RateLimiter.             *)
(*                                                                         *)
(* The webhook client has no timeout: a receiver may never answer.  What   *)
(* is broadcast is kept for the Capacity last messages; a watcher that is  *)
(* further behind is told how many it has missed.  Neither webhooks nor    *)
(* broadcasts are stored, so that a restart loses those under way.         *)
(***************************************************************************)
EXTENDS RateLimiter

CONSTANTS
    Actions,
    Agents,
    Owner,       \* the agent of an action
    Sockets,     \* agents' connections to /action/{id}/ws
    AgentOf,     \* the agent a socket is authenticated as
    SourceOf,    \* and where it comes from
    Watchers,    \* administrators' connections to /api/admin/ws
    Nothing,     \* no action
    Capacity,    \* of the broadcast channel: 256
    MaxPolls,    \* of an agent's socket: 120
    MaxFaults,   \* bound: statements that fail
    MaxRestarts  \* bound: restarts of the program

ASSUME DeliveryAssumption ==
    /\ Nothing \notin Actions
    /\ Owner \in [Actions -> Agents]
    /\ AgentOf \in [Sockets -> Agents]
    /\ SourceOf \in [Sockets -> Sources]
    /\ {Capacity, MaxPolls} \subseteq Nat \ {0}
    /\ {MaxFaults, MaxRestarts} \subseteq Nat

VARIABLES
    pending,  \* actions without a decision
    saved,    \* the table verdicts, in the order of the commits
    job,      \* the processor: where it is, with which action, at which attempt
    sent,     \* what was broadcast since the program came up
    watch,    \* the administrators' sockets
    socket,   \* the agents' sockets
    faults, restarts,
    \* history
    posted,   \* how often an action's verdict was posted
    heard,    \* the verdicts whose receiver has answered with success
    lost      \* the verdicts that an error kept from being told

processor == <<pending, saved, job, sent, posted, heard, lost>>

vars == <<edge, processor, watch, socket, faults, restarts>>

\* What holds of a denial holds of an escalation, which is left out.
Decisions == {"approved", "denied"}

\* What 0..=2 leaves for the last attempt.
LastAttempt == 2

Idle == [at |-> "idle", action |-> Nothing, attempt |-> 0]

Off == [on |-> FALSE, next |-> 0, since |-> 0, shown |-> << >>, skipped |-> 0]

Closed == [at |-> "closed", action |-> Nothing, polls |-> 0, told |-> "nothing"]

Init ==
    /\ EdgeInit
    /\ pending = Actions
    /\ saved = << >>
    /\ job = Idle
    /\ sent = << >>
    /\ watch = [w \in Watchers |-> Off]
    /\ socket = [k \in Sockets |-> Closed]
    /\ faults = 0 /\ restarts = 0
    /\ posted = [a \in Actions |-> 0]
    /\ heard = {}
    /\ lost = {}

-----------------------------------------------------------------------------
Works == UNCHANGED faults

Fault == faults < MaxFaults /\ faults' = faults + 1

Goto(label) == job' = [job EXCEPT !.at = label]

Verdicts(a) == {i \in DOMAIN saved : saved[i].action = a}

elsewhere == <<edge, watch, socket, restarts>>

-----------------------------------------------------------------------------
Begin(a, d) ==
    job' = [at |-> IF d = "approved" THEN "cast" ELSE "lookup", action |-> a, attempt |-> 0]

\* Mutant: an error of the transaction is dropped, like many others.
SaveOrNot ==
    \E a \in pending, d \in Decisions :
        /\ job = Idle
        /\ \/ Works /\ saved' = Append(saved, [action |-> a, decision |-> d])
           \/ Fault /\ UNCHANGED saved
        /\ Begin(a, d)
        /\ pending' = pending \ {a}
        /\ UNCHANGED <<elsewhere, sent, posted, heard, lost>>

\* save_verdict.  An action whose transaction fails is denied by the processor
\* without a verdict, and nobody is told.
Save ==
    \E a \in pending, d \in Decisions :
        /\ job = Idle
        /\ \/ Works /\ saved' = Append(saved, [action |-> a, decision |-> d]) /\ Begin(a, d)
           \/ Fault /\ UNCHANGED <<saved, job>>
        /\ pending' = pending \ {a}
        /\ UNCHANGED <<elsewhere, sent, posted, heard, lost>>

\* The URL of the agent, or of the configuration, or none, or one that the
\* egress guard refuses.  A failing query ends the processing here.
LookUpUrl ==
    /\ job.at = "lookup"
    /\ \/ Works /\ \E next \in {"post", "cast"} : Goto(next) /\ UNCHANGED lost
       \/ Fault /\ job' = Idle /\ lost' = lost \cup {job.action}
    /\ UNCHANGED <<elsewhere, pending, saved, sent, posted, heard>>

\* send_verdict posts; the receiver may get it without the processor's knowing.
Post ==
    /\ job.at = "post"
    /\ Goto("answer")
    /\ posted' = [posted EXCEPT ![job.action] = @ + 1]
    /\ UNCHANGED <<elsewhere, faults, pending, saved, sent, heard, lost>>

\* Mutant: the attempts run to 2, without it.
SpentEarly == job.attempt + 1 = LastAttempt

Spent == job.attempt = LastAttempt

\* The receiver's answer: success, or another status or a broken connection,
\* upon which the same request is sent again after a delay.
Answer ==
    /\ job.at = "answer"
    /\ \/ heard' = heard \cup {job.action} /\ Goto("cast")
       \/ ~Spent /\ job' = [job EXCEPT !.at = "post", !.attempt = @ + 1] /\ UNCHANGED heard
       \/ Spent /\ Goto("cast") /\ UNCHANGED heard
    /\ UNCHANGED <<elsewhere, faults, pending, saved, sent, posted, lost>>

\* The broadcast, which nobody need be listening to.
Cast ==
    /\ job.at = "cast"
    /\ sent' = Append(sent, job.action)
    /\ job' = Idle
    /\ UNCHANGED <<elsewhere, faults, pending, saved, posted, heard, lost>>

Process == Save \/ LookUpUrl \/ Post \/ Cast

-----------------------------------------------------------------------------
\* The administrators' sockets.

Subscribe(w) ==
    /\ ~watch[w].on
    /\ watch' = [watch EXCEPT ![w] = [on |-> TRUE, next |-> Len(sent), since |-> Len(saved),
                                      shown |-> << >>, skipped |-> 0]]
    /\ UNCHANGED <<edge, processor, socket, faults, restarts>>

\* The oldest message that is kept.
Oldest == IF Len(sent) > Capacity THEN Len(sent) - Capacity ELSE 0

\* Mutant: a watcher that lags goes on in silence.
CatchUpSilently(w) ==
    /\ watch[w].on /\ watch[w].next < Oldest
    /\ watch' = [watch EXCEPT ![w].next = Oldest]
    /\ UNCHANGED <<edge, processor, socket, faults, restarts>>

\* RecvError::Lagged: the receiver is moved to the oldest message, and the
\* administrator is told how many were skipped.
CatchUp(w) ==
    /\ watch[w].on /\ watch[w].next < Oldest
    /\ watch' = [watch EXCEPT ![w].next = Oldest,
                              ![w].skipped = @ + Oldest - watch[w].next]
    /\ UNCHANGED <<edge, processor, socket, faults, restarts>>

Show(w) ==
    /\ watch[w].on /\ watch[w].next >= Oldest /\ watch[w].next < Len(sent)
    /\ watch' = [watch EXCEPT ![w].next = @ + 1,
                              ![w].shown = Append(@, sent[watch[w].next + 1])]
    /\ UNCHANGED <<edge, processor, socket, faults, restarts>>

Hang(w) ==
    /\ watch[w].on
    /\ watch' = [watch EXCEPT ![w] = Off]
    /\ UNCHANGED <<edge, processor, socket, faults, restarts>>

-----------------------------------------------------------------------------
\* The agents' sockets.

Finish(k, told) == socket' = [socket EXCEPT ![k].at = "ended", ![k].told = told]

\* The upgrade passes the limiter, then the authentication of AgentAccess.
Open(k) ==
    \E a \in Actions :
        /\ socket[k].at = "closed"
        /\ \/ Allow(SourceOf[k]) /\ socket' = [socket EXCEPT ![k] = [Closed EXCEPT !.at = "check", !.action = a]]
           \/ Refuse(SourceOf[k]) /\ socket' = [socket EXCEPT ![k].at = "limited"]
        /\ UNCHANGED <<now, processor, watch, faults, restarts>>

\* handle_socket: the action must be the agent's.
CheckOwner(k) ==
    /\ socket[k].at = "check"
    /\ \/ Works /\ Owner[socket[k].action] = AgentOf[k] /\ socket' = [socket EXCEPT ![k].at = "poll"]
       \/ Works /\ Owner[socket[k].action] # AgentOf[k] /\ Finish(k, "nothing")
       \/ Fault /\ Finish(k, "nothing")
    /\ UNCHANGED <<edge, processor, watch, restarts>>

\* Mutant: only a verdict ends the loop.
PolledOutNever(k) == FALSE

PolledOut(k) == socket[k].polls + 1 = MaxPolls

\* One of the MaxPolls queries, half a second apart.  The first row is told,
\* an override is not.
Poll(k) ==
    LET rows == Verdicts(socket[k].action) IN
    /\ socket[k].at = "poll"
    /\ \/ Works /\ \E i \in rows : (\A j \in rows : i <= j) /\ Finish(k, saved[i].decision)
       \/ Works /\ rows = {} /\ PolledOut(k) /\ Finish(k, "timeout")
       \/ /\ Works /\ rows = {} /\ ~PolledOut(k)
          /\ socket' = [socket EXCEPT ![k].polls = (@ + 1) % MaxPolls, ![k].told = "pending"]
       \/ Fault /\ Finish(k, "nothing")
    /\ UNCHANGED <<edge, processor, watch, restarts>>

\* The client connects again.  One that goes away is not noticed: the loop
\* polls for it to the end.
Reconnect(k) ==
    /\ socket[k].at \in {"ended", "limited"}
    /\ socket' = [socket EXCEPT ![k] = Closed]
    /\ UNCHANGED <<edge, processor, watch, faults, restarts>>

-----------------------------------------------------------------------------
Restart ==
    /\ restarts < MaxRestarts
    /\ restarts' = restarts + 1
    /\ job' = Idle
    /\ lost' = lost \cup ({job.action} \ {Nothing})
    /\ sent' = << >>
    /\ watch' = [w \in Watchers |-> Off]
    /\ socket' = [k \in Sockets |-> Closed]
    /\ limiter' = << >>
    /\ passed' = [s \in Sources |-> << >>]
    /\ UNCHANGED <<now, pending, saved, posted, heard, faults>>

TimePasses == Tick /\ UNCHANGED <<limiter, passed, processor, watch, socket, faults, restarts>>

Converse(k) == CheckOwner(k) \/ Poll(k)

Next ==
    \/ Process \/ Answer
    \/ \E w \in Watchers : Subscribe(w) \/ CatchUp(w) \/ Show(w) \/ Hang(w)
    \/ \E k \in Sockets : Open(k) \/ Converse(k) \/ Reconnect(k)
    \/ Restart
    \/ TimePasses

Spec == Init /\ [][Next]_vars

\* The agents' sockets are tasks that go on.  Whether the processor does depends
\* on the receiver: the webhook client has no timeout.
FairSpec == Spec /\ \A k \in Sockets : WF_vars(Converse(k))

-----------------------------------------------------------------------------
JobOK ==
    job \in [at : {"idle", "lookup", "post", "answer", "cast"},
             action : Actions \cup {Nothing}, attempt : 0 .. LastAttempt]

WatchOK ==
    watch \in [Watchers -> [on : BOOLEAN, next : 0 .. Len(sent), since : 0 .. Len(saved),
                            shown : Seq(Actions), skipped : Nat]]

SocketOK ==
    socket \in [Sockets -> [at : {"closed", "limited", "check", "poll", "ended"},
                            action : Actions \cup {Nothing}, polls : 0 .. MaxPolls,
                            told : Decisions \cup {"nothing", "pending", "timeout"}]]

TypeOK ==
    /\ EdgeTypeOK
    /\ pending \subseteq Actions
    /\ saved \in Seq([action : Actions, decision : Decisions])
    /\ JobOK
    /\ sent \in Seq(Actions)
    /\ WatchOK /\ SocketOK
    /\ faults \in 0 .. MaxFaults /\ restarts \in 0 .. MaxRestarts
    /\ posted \in [Actions -> Nat]
    /\ heard \subseteq Actions /\ lost \subseteq Actions

\* Whatever a receiver, an administrator or an agent has heard of is in the
\* table: a verdict whose transaction fails is told to nobody.
AnnouncedIsSaved ==
    /\ \A i \in DOMAIN sent : Verdicts(sent[i]) # {}
    /\ \A a \in Actions : posted[a] > 0 =>
           \E i \in Verdicts(a) : saved[i].decision # "approved"
    /\ \A k \in Sockets : socket[k].told \in Decisions =>
           \E i \in Verdicts(socket[k].action) : saved[i].decision = socket[k].told

\* An administrator who was told of no gap has seen every verdict that was
\* saved since the socket was opened, but for what is still to be read or under
\* way, and what an error kept from everybody (handle_admin_socket, save_verdict).
NothingIsMissedUntold ==
    \A w \in Watchers :
        /\ watch[w].on
        /\ watch[w].skipped = 0
        => \A i \in watch[w].since + 1 .. Len(saved) :
              \/ \E n \in DOMAIN watch[w].shown : watch[w].shown[n] = saved[i].action
              \/ \E n \in watch[w].next + 1 .. Len(sent) : sent[n] = saved[i].action
              \/ saved[i].action \in {job.action} \cup lost

\* "Webhook retry logic ... 3 attempts" (docs/featurelist.md): unless the program
\* ends meanwhile, a verdict that was posted at all is posted until the receiver
\* answers with success, or three times.
PostedUntilHeard ==
    \A a \in Actions :
        /\ posted[a] > 0
        /\ job.action # a
        /\ a \notin lost
        => a \in heard \/ posted[a] = 3

\* An agent's connection is refused only if the limit was in fact used up
\* within the last Window (RateLimiter::is_allowed).
RefusalsAreEarned ==
    [][\A k \in Sockets :
          socket'[k].at = "limited" /\ socket[k].at # "limited" =>
              LET s == SourceOf[k] IN
              /\ Len(passed[s]) >= MaxRequests
              /\ now - passed[s][Len(passed[s]) - MaxRequests + 1] <= Window]_vars

\* A connection ends, with a verdict, an error or a timeout.
SocketsEnd == \A k \in Sockets : socket[k].at = "poll" ~> socket[k].at # "poll"
=============================================================================
