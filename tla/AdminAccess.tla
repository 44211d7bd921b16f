----------------------------- MODULE AdminAccess -----------------------------
(***************************************************************************)
(* Who is an administrator: the table admin_sessions, the login with the   *)
(* password behind its throttle, the login through an OAuth provider, the  *)
(* logout, and verify_admin in front of every administrator's route.       *)
(*                                                                         *)
(* Sessions are in the database and survive a restart; the throttle and    *)
(* the states of unfinished OAuth logins are in memory and do not.  A      *)
(* handler awaits at each statement and at each request to the provider,   *)
(* and any statement may fail.  A session's row has the hash of a random   *)
(* token for its id: here the token stands for its hash, and a request     *)
(* bears no token that was not answered.                                   *)
(***************************************************************************)
EXTENDS Naturals, Sequences

CONSTANTS
    Requests,
    Tokens,         \* what random_token can return
    NoToken,
    States,         \* what CsrfToken::new_random can return
    NoState,
    Sources,        \* clients, by their first X-Forwarded-For entry
    Emails,         \* of people the OAuth provider knows
    Domains,
    DomainOf,       \* of an email: the hosted domain, or what follows the @
    AllowedEmails,  \* DEKO_OAUTH_ALLOWED_EMAILS
    AllowedDomains, \* DEKO_OAUTH_ALLOWED_DOMAINS
    MaxAttempts,    \* LoginThrottle: 10 ...
    Window,         \* ... in 60 seconds
    Ttl,            \* SESSION_TTL
    MaxTime,        \* bound: ticks of the clock
    MaxFaults,      \* bound: statements that fail
    MaxRestarts     \* bound: restarts of the program

ASSUME AdminAccessAssumption ==
    /\ Tokens \cap States = {}
    /\ {NoToken, NoState} \cap (Tokens \cup States) = {}
    /\ "password" \notin Emails
    /\ DomainOf \in [Emails -> Domains]
    /\ AllowedEmails \subseteq Emails
    /\ AllowedDomains \subseteq Domains
    /\ MaxAttempts \in Nat \ {0}
    /\ {Window, Ttl, MaxTime, MaxFaults, MaxRestarts} \subseteq Nat

VARIABLES
    now,       \* the clock
    sessions,  \* the table admin_sessions
    attempts,  \* LOGIN_THROTTLE
    pending,   \* pending_states
    at,        \* where the handler of a request is
    bears,     \* what a request bears
    who,       \* whom a login is for; whom an admitted request acts for
    due,       \* expires_at of the session being created
    faults, restarts,
    \* history
    opened,    \* of a token: when, and by whom, the session was earned
    issued,    \* the states given out
    dead,      \* the tokens and states that are used up
    void,      \* a request bears one that was used up when it came
    when,      \* a request was admitted
    passed     \* when attempts of a source passed the throttle

memory == <<attempts, pending>>

history == <<opened, issued, dead, passed, when>>

vars == <<now, sessions, attempts, pending, at, bears, who, due, faults,
          restarts, opened, issued, dead, void, when, passed>>

Nobody == ""

Identities == Emails \cup {"password"}

Nothing == [token |-> NoToken, state |-> NoState, password |-> FALSE]

Bears == [token : Tokens \cup {NoToken}, state : States \cup {NoState}, password : BOOLEAN]

Init ==
    /\ now = 0
    /\ sessions = {}
    /\ attempts = [s \in Sources |-> << >>]
    /\ pending = {}
    /\ at = [r \in Requests |-> "idle"]
    /\ bears = [r \in Requests |-> Nothing]
    /\ who = [r \in Requests |-> Nobody]
    /\ due = [r \in Requests |-> 0]
    /\ faults = 0 /\ restarts = 0
    /\ opened = << >>
    /\ issued = {}
    /\ dead = {}
    /\ void = [r \in Requests |-> FALSE]
    /\ when = [r \in Requests |-> 0]
    /\ passed = [s \in Sources |-> << >>]

-----------------------------------------------------------------------------
Works == UNCHANGED faults

Fault == faults < MaxFaults /\ faults' = faults + 1

Goto(r, label) == at' = [at EXCEPT ![r] = label]

Come(r, b) ==
    /\ at[r] = "idle"
    /\ bears' = [bears EXCEPT ![r] = b]
    /\ void' = [void EXCEPT ![r] = b.token \in dead \/ b.state \in dead]

\* session::create computes the expiry before it awaits the INSERT.
Prepare(r, identity) ==
    /\ who' = [who EXCEPT ![r] = identity]
    /\ due' = [due EXCEPT ![r] = now + Ttl]
    /\ Goto(r, "create")

-----------------------------------------------------------------------------
\* POST /admin/login.

\* The instants less than a Window before t, in their order.
Retained(times, t) ==
    LET kept[i \in 0 .. Len(times)] ==
          IF i = 0 THEN << >>
          ELSE IF t - times[i] < Window THEN Append(kept[i - 1], times[i]) ELSE kept[i - 1]
    IN  kept[Len(times)]

\* Mutant: an attempt is forgotten a second early.
RecentRounded(s) == Retained(attempts[s], now + 1)

\* What LoginThrottle::allow retains.
Recent(s) == Retained(attempts[s], now)

Full(s) == Len(Recent(s)) >= MaxAttempts

\* Up to the first await: the throttle, which counts every attempt it lets
\* through, then the password.
LogIn(r) ==
    \E s \in Sources, right \in BOOLEAN :
        /\ Come(r, [Nothing EXCEPT !.password = right])
        /\ \/ /\ Full(s)
              /\ attempts' = [attempts EXCEPT ![s] = Recent(s)]
              /\ Goto(r, "refused")
              /\ UNCHANGED <<who, due, passed>>
           \/ /\ ~Full(s)
              /\ attempts' = [attempts EXCEPT ![s] = Append(Recent(s), now)]
              /\ passed' = [passed EXCEPT ![s] = Append(@, now)]
              /\ IF right THEN Prepare(r, "password")
                          ELSE Goto(r, "refused") /\ UNCHANGED <<who, due>>
        /\ UNCHANGED <<now, sessions, pending, faults, restarts, opened, issued, dead, when>>

\* The INSERT, and the answer that carries the token.
CreateSession(r) ==
    \E t \in Tokens \ DOMAIN opened :
        /\ at[r] = "create"
        /\ \/ /\ Works
              /\ sessions' = sessions \cup {[id |-> t, identity |-> who[r], until |-> due[r]]}
              /\ opened' = [x \in DOMAIN opened \cup {t} |->
                               IF x = t THEN [by |-> who[r], time |-> due[r] - Ttl] ELSE opened[x]]
              /\ Goto(r, "opened")
           \/ Fault /\ Goto(r, "refused") /\ UNCHANGED <<sessions, opened>>
        /\ UNCHANGED <<now, memory, bears, who, due, restarts, issued, dead, void, when, passed>>

-----------------------------------------------------------------------------
\* The OAuth login.

\* oauth_login remembers a state and redirects to the provider; nothing but
\* the bound of MaxTime keeps a state from waiting for ever.
BeginOAuth ==
    \E st \in States \ issued :
        /\ pending' = pending \cup {st}
        /\ issued' = issued \cup {st}
        /\ UNCHANGED <<now, sessions, attempts, at, bears, who, due, faults, restarts,
                       opened, dead, void, when, passed>>

Known(st) == st \in pending

\* oauth_callback looks the state up ...
Callback(r) ==
    \E st \in issued :
        /\ Come(r, [Nothing EXCEPT !.state = st])
        /\ Goto(r, IF Known(st) THEN "exchange" ELSE "refused")
        /\ UNCHANGED <<now, sessions, memory, who, due, faults, restarts, history>>

\* ... asks the provider for a token, which it may not give ...
Exchange(r) ==
    \E next \in {"user", "refused"} :
        /\ at[r] = "exchange"
        /\ Goto(r, next)
        /\ UNCHANGED <<now, sessions, memory, bears, who, due, faults, restarts, history, void>>

\* validate_email: an empty list allows everyone.
Accepted(e) ==
    /\ AllowedEmails # {} => e \in AllowedEmails
    /\ AllowedDomains # {} => DomainOf[e] \in AllowedDomains

\* Mutant: the state is left for the map to forget.
SpendNone(r) ==
    /\ UNCHANGED pending
    /\ dead' = dead \cup {bears[r].state}

Spend(r) ==
    /\ pending' = pending \ {bears[r].state}
    /\ dead' = dead \cup {bears[r].state}

\* ... and for the user, and forgets the state only now: a login that was
\* refused leaves it, and two callbacks that have both looked it up both go on.
ReceiveUser(r) ==
    /\ at[r] = "user"
    /\ \/ \E e \in Emails : Accepted(e) /\ Spend(r) /\ Prepare(r, e)
       \/ Goto(r, "refused") /\ UNCHANGED <<pending, dead, who, due>>
    /\ UNCHANGED <<now, sessions, attempts, bears, faults, restarts, opened, issued, void, when, passed>>

-----------------------------------------------------------------------------
\* verify_admin.

\* A request with a cookie, or the password header, or both.
Arrive(r) ==
    \E t \in DOMAIN opened \cup {NoToken}, right \in BOOLEAN :
        /\ Come(r, [token |-> t, state |-> NoState, password |-> right])
        /\ Goto(r, IF t = NoToken THEN "header" ELSE "select")
        /\ UNCHANGED <<now, sessions, memory, who, due, faults, restarts, history>>

\* Mutant: the comparison the other way round.
ExpiredFlipped(x) == x.until >= now

Expired(x) == x.until <= now

Admit(r, identity) ==
    /\ who' = [who EXCEPT ![r] = identity]
    /\ when' = [when EXCEPT ![r] = now]
    /\ Goto(r, "admitted")

\* session::validate reads id and expiry, and answers the id.
Select(r) ==
    LET found == {x \in sessions : x.id = bears[r].token} IN
    /\ at[r] = "select"
    /\ \/ Works /\ \E x \in found : ~Expired(x) /\ Admit(r, x.id)
       \/ /\ \/ Works /\ \E x \in found : Expired(x) /\ Goto(r, "purge")
             \/ Works /\ found = {} /\ Goto(r, "header")
             \/ Fault /\ Goto(r, "refused")
          /\ UNCHANGED <<who, when>>
    /\ UNCHANGED <<now, sessions, memory, bears, due, restarts, opened, issued, dead, void, passed>>

\* The expired row is deleted before the header is looked at; if that fails,
\* it is not looked at.
PurgeOne(r) ==
    /\ at[r] = "purge"
    /\ \/ /\ Works
          /\ sessions' = {x \in sessions : x.id # bears[r].token}
          /\ Goto(r, "header")
       \/ Fault /\ Goto(r, "refused") /\ UNCHANGED sessions
    /\ UNCHANGED <<now, memory, bears, who, due, restarts, history, void>>

\* X-Admin-Password, which no throttle guards.
CheckHeader(r) ==
    /\ at[r] = "header"
    /\ \/ bears[r].password /\ Admit(r, "password")
       \/ ~bears[r].password /\ Goto(r, "refused") /\ UNCHANGED <<who, when>>
    /\ UNCHANGED <<now, sessions, memory, bears, due, faults, restarts, opened, issued, dead, void, passed>>

\* Mutant: the cookie is cleared, the row stays.
DeleteNone(t) == UNCHANGED sessions

DeleteRow(t) == sessions' = {x \in sessions : x.id # t}

\* admin_logout clears the cookie whether the row could be deleted or not.
LogOut(r) ==
    \E t \in DOMAIN opened :
        /\ Come(r, [Nothing EXCEPT !.token = t])
        /\ \/ Works /\ DeleteRow(t) /\ dead' = dead \cup {t}
           \/ Fault /\ UNCHANGED <<sessions, dead>>
        /\ Goto(r, "done")
        /\ UNCHANGED <<now, memory, who, due, restarts, opened, issued, when, passed>>

-----------------------------------------------------------------------------
\* The program ends, with every handler in it, and comes up again; main purges
\* the expired sessions and goes on if it cannot.
Restart ==
    /\ restarts < MaxRestarts
    /\ restarts' = restarts + 1
    /\ attempts' = [s \in Sources |-> << >>]
    /\ passed' = [s \in Sources |-> << >>]
    /\ pending' = {}
    /\ dead' = dead \cup issued
    /\ at' = [r \in Requests |-> IF at[r] \in {"idle", "admitted", "opened"} THEN at[r] ELSE "done"]
    /\ \/ Works /\ sessions' = {x \in sessions : ~Expired(x)}
       \/ Fault /\ UNCHANGED sessions
    /\ UNCHANGED <<now, bears, who, due, opened, issued, void, when>>

TimePasses ==
    /\ now < MaxTime
    /\ now' = now + 1
    /\ UNCHANGED <<sessions, memory, at, bears, who, due, faults, restarts, history, void>>

Serve(r) ==
    \/ LogIn(r) \/ CreateSession(r)
    \/ Callback(r) \/ Exchange(r) \/ ReceiveUser(r)
    \/ Arrive(r) \/ Select(r) \/ PurgeOne(r) \/ CheckHeader(r)
    \/ LogOut(r)

Next ==
    \/ \E r \in Requests : Serve(r)
    \/ BeginOAuth
    \/ Restart
    \/ TimePasses

Spec == Init /\ [][Next]_vars

-----------------------------------------------------------------------------
Places == {"idle", "create", "exchange", "user", "select", "purge", "header",
           "admitted", "refused", "opened", "done"}

SessionsOK == sessions \subseteq [id : Tokens, identity : Identities, until : Nat]

\* The instants in attempts are what GuessesAreBounded is about.
MemoryOK == DOMAIN attempts = Sources /\ pending \subseteq States

RequestsOK ==
    /\ at \in [Requests -> Places]
    /\ bears \in [Requests -> Bears]
    /\ who \in [Requests -> Identities \cup Tokens \cup {Nobody}]
    /\ due \in [Requests -> Nat]
    /\ void \in [Requests -> BOOLEAN]
    /\ when \in [Requests -> 0 .. now]

HistoryOK ==
    /\ DOMAIN opened \subseteq Tokens
    /\ \A t \in DOMAIN opened : opened[t] \in [by : Identities, time : 0 .. now]
    /\ issued \subseteq States
    /\ dead \subseteq Tokens \cup States
    /\ passed \in [Sources -> Seq(Nat)]

TypeOK ==
    /\ now \in 0 .. MaxTime
    /\ faults \in 0 .. MaxFaults /\ restarts \in 0 .. MaxRestarts
    /\ SessionsOK /\ MemoryOK /\ RequestsOK /\ HistoryOK

BySession(r) == at[r] = "admitted" /\ who[r] # "password"

\* No route opens to a session later than SESSION_TTL after the password or
\* the person was checked, however long the row took to be written ...
SessionsEnd ==
    \A r \in Requests :
        BySession(r) => when[r] < opened[bears[r].token].time + Ttl

\* ... and until then a session that was not logged out is there: neither the
\* three deletions nor a restart take another's.
LiveSessionsStay ==
    \A t \in DOMAIN opened \ dead :
        now < opened[t].time + Ttl => \E x \in sessions : x.id = t

\* A session lasts for SESSION_TTL, no longer and no shorter, through restarts
\* (session::create, validate, delete and purge_expired).
SessionsLastTheirTime == SessionsEnd /\ LiveSessionsStay

\* "delete server-side so the token is dead even if the cookie lingers"
\* (admin_logout): once the row is deleted, a request that comes with the token
\* gets in by the password or not at all.
LogoutIsFinal == \A r \in Requests : void[r] => ~BySession(r)

\* A state that has opened a session, or was given out before the last restart,
\* opens no session for a callback that comes after.
StatesWorkOnce == \A r \in Requests : at[r] \in {"create", "opened"} => ~void[r]

\* Of the attempts of a source that pass the throttle, more than MaxAttempts
\* never lie within one Window, wherever it begins.
GuessesAreBounded ==
    \A s \in Sources : \A i \in DOMAIN passed[s] :
        i + MaxAttempts \in DOMAIN passed[s] =>
            passed[s][i + MaxAttempts] - passed[s][i] >= Window
=============================================================================
