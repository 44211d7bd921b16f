----------------------------- MODULE AgentAccess -----------------------------
(***************************************************************************)
(* Who an agent's request acts for: the tables agents and api_keys, the    *)
(* administrator's handlers that write them, the exchange of a key for a   *)
(* JWT, and the middleware in front of every agent route.                  *)
(*                                                                         *)
(* A handler awaits between two statements, and an agent may be revoked,   *)
(* or a key expire, at each await.  Any statement may fail.  A key is a    *)
(* random text that is stored hashed: here the key stands for its hash,    *)
(* and nobody presents a key that was not given out.  A JWT is what its    *)
(* claims say; `by` is the key it was exchanged for, which the program     *)
(* does not keep.                                                          *)
(*                                                                         *)
(* An expiry is a text.  That of an additional key is parsed by hand, and  *)
(* a text that is not RFC 3339, such as SQLite's own YYYY-MM-DD HH:MM:SS,  *)
(* counts as none.  That of an agent's first key is decoded with the row   *)
(* of the agent, from either form, and one that is neither fails the query.*)
(***************************************************************************)
EXTENDS Naturals

CONSTANTS
    Agents,
    NoAgent,
    Keys,       \* keys that can be generated
    NoKey,
    Requests,   \* requests of agents
    Changes,    \* requests of administrators
    JwtLife,    \* config.jwt_expiry_secs
    Leeway,     \* how long the JWT library lets an expired token pass
    MaxTime,    \* bound: ticks of the clock
    MaxFaults   \* bound: statements that fail

ASSUME AgentAccessAssumption ==
    /\ NoAgent \notin Agents
    /\ NoKey \notin Keys
    /\ Requests \cap Changes = {}
    /\ {JwtLife, Leeway, MaxTime, MaxFaults} \subseteq Nat

VARIABLES
    now,      \* the clock
    agents,   \* the table agents
    rows,     \* the table api_keys; `active` is 1 in every row
    trail,    \* agent events in audit_log
    at,       \* where the handler of a request is
    cred,     \* the credential a request bears
    who,      \* the agent it acts for; of a change, the agent it is about
    new,      \* the key a change has generated
    faults,
    \* history
    key,      \* which agent a key was generated for
    given,    \* the keys that were answered
    tokens,   \* the JWTs that were answered
    gone,     \* the agents that were revoked when a request came
    came      \* when it came

identity == <<agents, rows, trail, key, given, tokens>>

vars == <<now, agents, rows, trail, at, cred, who, new, faults,
          key, given, tokens, gone, came>>

\* NULL in api_key_expires_at and expires_at.
Never == MaxTime + 1

Absent == [state |-> "absent", hash |-> NoKey, until |-> Never, legible |-> TRUE]

\* until: the moment the expiry stands for.  legible: the program can read it.
Rows == [key : Keys, agent : Agents, until : 0 .. Never, legible : BOOLEAN]

FirstKey(k) == [state |-> "active", hash |-> k, until |-> Never, legible |-> TRUE]

NewRow(k, a) == [key |-> k, agent |-> a, until |-> Never, legible |-> TRUE]

JWTs == [sub : Agents, exp : Nat, by : Keys]

Bearer(t) == [kind |-> "jwt", jwt |-> t]
ApiKey(k) == [kind |-> "key", key |-> k]
NoCredential == [kind |-> "none"]

Events == {"agent_registered", "api_key_used", "agent_revoked", "api_key_rotated"}

Init ==
    /\ now = 0
    /\ agents = [a \in Agents |-> Absent]
    /\ rows = {}
    /\ trail = {}
    /\ at = [q \in Requests \cup Changes |-> "idle"]
    /\ cred = [r \in Requests |-> NoCredential]
    /\ who = [q \in Requests \cup Changes |-> NoAgent]
    /\ new = [c \in Changes |-> NoKey]
    /\ faults = 0
    /\ key = [k \in Keys |-> NoAgent]
    /\ given = {}
    /\ tokens = {}
    /\ gone = [r \in Requests |-> {}]
    /\ came = [r \in Requests |-> 0]

-----------------------------------------------------------------------------
Works == UNCHANGED faults

Fault == faults < MaxFaults /\ faults' = faults + 1

Goto(q, label) == at' = [at EXCEPT ![q] = label]

ActAs(q, a, label) == Goto(q, label) /\ who' = [who EXCEPT ![q] = a]

Refused(r) == Goto(r, "refused") /\ UNCHANGED who

Live(a) == agents[a].state = "active"

\* audit_log.action_id references actions(id), and the driver has foreign keys
\* enforced: an entry that bears an agent's id there is refused.
Recorded(event, a, bearsId) ==
    IF bearsId THEN UNCHANGED trail ELSE trail' = trail \cup {[event |-> event, agent |-> a]}

-----------------------------------------------------------------------------
\* The middleware.

\* What a request may bear: nothing, a key or a token that was answered.
Credentials == {NoCredential} \cup {ApiKey(k) : k \in given} \cup {Bearer(t) : t \in tokens}

\* Mutant: the claim is read, the time is not.
ValidTokenAlways(t) == TRUE

\* validate_token: a JWT of this program, not expired.
ValidToken(t) == t.exp + Leeway >= now

\* What is remembered of the moment a request comes.
Come(r, c) ==
    /\ cred' = [cred EXCEPT ![r] = c]
    /\ gone' = [gone EXCEPT ![r] = {a \in Agents : agents[a].state = "revoked"}]
    /\ came' = [came EXCEPT ![r] = now]

\* agent_auth_middleware, up to its first await: a bearer token is looked at first, and an invalid one
\* is not followed by a look at the key.
Arrive(r) ==
    \E c \in Credentials :
        /\ at[r] = "idle"
        /\ Come(r, c)
        /\ \/ c.kind = "jwt" /\ ValidToken(c.jwt) /\ Goto(r, "load")
           \/ c.kind = "jwt" /\ ~ValidToken(c.jwt) /\ Goto(r, "refused")
           \/ c.kind = "key" /\ Goto(r, "lookup")
           \/ c.kind = "none" /\ Goto(r, "refused")
        /\ UNCHANGED <<now, identity, who, new, faults>>

\* Mutant: the query without `AND active = 1`.
FoundAny(a) == agents[a].state # "absent"

\* WHERE id = ? AND active = 1.
Found(a) == Live(a)

\* The row of the agent, decoded.
Loaded(a) == Found(a) /\ agents[a].legible

\* load_active_agent for the subject of a token.
LoadSubject(r) ==
    LET a == cred[r].jwt.sub IN
    /\ at[r] = "load"
    /\ \/ Works /\ Loaded(a) /\ ActAs(r, a, "admitted")
       \/ Works /\ ~Loaded(a) /\ Refused(r)
       \/ Fault /\ Refused(r)
    /\ UNCHANGED <<now, identity, cred, new, gone, came>>

\* Mutant: the expiry of an additional key is not looked at.
ExpiredNever(row) == FALSE

\* When a key ends, as the program reads it: `if let Ok` on the parse.
Ends(row) == IF row.legible THEN row.until ELSE Never

Expired(row) == Ends(row) < now

\* auth_middleware looks in api_keys; no row, or an error, leads to the legacy
\* column.
LookUpKey(r) ==
    LET found == {x \in rows : x.key = cred[r].key} IN
    /\ at[r] = "lookup"
    /\ \/ /\ Works
          /\ \E x \in found :
                IF Expired(x) THEN Refused(r) ELSE ActAs(r, x.agent, "owner")
       \/ /\ (Works /\ found = {}) \/ Fault
          /\ Goto(r, "legacy") /\ UNCHANGED who
    /\ UNCHANGED <<now, identity, cred, new, gone, came>>

\* The agent of the row, by a second query.
LoadOwner(r) ==
    /\ at[r] = "owner"
    /\ \/ Works /\ Loaded(who[r]) /\ Goto(r, "use") /\ UNCHANGED who
       \/ /\ (Works /\ ~Loaded(who[r])) \/ Fault
          /\ Refused(r)
    /\ UNCHANGED <<now, identity, cred, new, gone, came>>

\* agents.api_key_hash, the key an agent was registered with; with its row
\* comes its expiry.
LookUpLegacy(r) ==
    LET found == {a \in Agents : Live(a) /\ agents[a].hash = cred[r].key} IN
    /\ at[r] = "legacy"
    /\ \/ /\ Works
          /\ \E a \in found :
                IF agents[a].legible /\ ~Expired(agents[a]) THEN ActAs(r, a, "use") ELSE Refused(r)
       \/ Works /\ found = {} /\ Refused(r)
       \/ Fault /\ Refused(r)
    /\ UNCHANGED <<now, identity, cred, new, gone, came>>

\* The use of a key is recorded, or not, and the handler runs.
RecordUse(r) ==
    /\ at[r] = "use"
    /\ \/ Works /\ Recorded("api_key_used", who[r], TRUE)
       \/ Fault /\ UNCHANGED trail
    /\ Goto(r, "admitted")
    /\ UNCHANGED <<now, agents, rows, cred, who, new, key, given, tokens, gone, came>>

-----------------------------------------------------------------------------
\* POST /auth/token, in front of which there is no middleware.

Exchange(r) ==
    \E k \in given :
        /\ at[r] = "idle"
        /\ Come(r, ApiKey(k))
        /\ Goto(r, "find")
        /\ UNCHANGED <<now, identity, who, new, faults>>

\* create_token for an agent, and the answer.
Mint(r, a) ==
    /\ tokens' = tokens \cup {[sub |-> a, exp |-> now + JwtLife, by |-> cred[r].key]}
    /\ ActAs(r, a, "issued")

\* try_find_key: agent and row in one query.  No row, an expired one and an
\* error all lead to the legacy column.
FindKey(r) ==
    LET found == {x \in rows : x.key = cred[r].key /\ Found(x.agent)} IN
    /\ at[r] = "find"
    /\ \/ Works /\ \E x \in found : ~Expired(x) /\ Mint(r, x.agent)
       \/ /\ (Works /\ \A x \in found : Expired(x)) \/ Fault
          /\ Goto(r, "fallback") /\ UNCHANGED <<who, tokens>>
    /\ UNCHANGED <<now, agents, rows, trail, key, given, cred, new, gone, came>>

\* Mutant: the key is looked up by its prefix, which all keys share.
FallbackByPrefix(k) == {a \in Agents : Live(a)}

\* The legacy column again, without a look at api_key_expires_at.
Fallback(k) == {a \in Agents : Live(a) /\ agents[a].hash = k}

FindLegacy(r) ==
    LET found == Fallback(cred[r].key) IN
    /\ at[r] = "fallback"
    /\ \/ Works /\ \E a \in found : Mint(r, a)
       \/ /\ (Works /\ found = {}) \/ Fault
          /\ Refused(r) /\ UNCHANGED tokens
    /\ UNCHANGED <<now, agents, rows, trail, key, given, cred, new, gone, came>>

-----------------------------------------------------------------------------
\* The administrator's handlers.

Fresh == {k \in Keys : key[k] = NoAgent}

Generate(c, k, a) ==
    /\ key' = [key EXCEPT ![k] = a]
    /\ new' = [new EXCEPT ![c] = k]

\* register_agent inserts the agent ...
Register(c) ==
    \E a \in Agents, k \in Fresh :
        /\ at[c] = "idle"
        /\ agents[a].state = "absent"
        /\ \/ /\ Works
              /\ agents' = [agents EXCEPT ![a] = FirstKey(k)]
              /\ Generate(c, k, a)
              /\ ActAs(c, a, "registered")
           \/ Fault /\ Goto(c, "error") /\ UNCHANGED <<agents, key, new, who>>
        /\ UNCHANGED <<now, rows, trail, cred, given, tokens, gone, came>>

\* ... and answers the key if the audit row is written; otherwise the agent is
\* there and its key is lost.
AnswerRegistration(c) ==
    /\ at[c] = "registered"
    /\ \/ /\ Works
          /\ Recorded("agent_registered", who[c], FALSE)
          /\ given' = given \cup {new[c]}
          /\ Goto(c, "done")
       \/ Fault /\ Goto(c, "error") /\ UNCHANGED <<trail, given>>
    /\ UNCHANGED <<now, agents, rows, key, tokens, cred, who, new, gone, came>>

\* revoke_agent: one UPDATE by id ...
Revoke(c) ==
    \E a \in Agents :
        /\ at[c] = "idle"
        /\ \/ /\ Works
              /\ agents[a].state # "absent"
              /\ agents' = [agents EXCEPT ![a].state = "revoked"]
              /\ ActAs(c, a, "revoked")
           \/ /\ (Works /\ agents[a].state = "absent") \/ Fault
              /\ Goto(c, "error") /\ UNCHANGED <<agents, who>>
        /\ UNCHANGED <<now, rows, trail, key, given, tokens, cred, new, gone, came>>

\* ... and an audit row whose error is dropped.
AnswerRevocation(c) ==
    /\ at[c] = "revoked"
    /\ \/ Works /\ Recorded("agent_revoked", who[c], TRUE)
       \/ Fault /\ UNCHANGED trail
    /\ Goto(c, "done")
    /\ UNCHANGED <<now, agents, rows, key, given, tokens, cred, who, new, gone, came>>

\* rotate_agent_key assigns agents.updated_at, a column no migration adds: the
\* statement is refused and the old key stays.
RotateKey(c) ==
    /\ at[c] = "idle"
    /\ Goto(c, "error")
    /\ UNCHANGED <<now, identity, cred, who, new, faults, gone, came>>

\* create_api_key looks for an active agent ...
FindAgent(c) ==
    \E a \in Agents :
        /\ at[c] = "idle"
        /\ \/ Works /\ Live(a) /\ ActAs(c, a, "insert")
           \/ /\ (Works /\ ~Live(a)) \/ Fault
              /\ Goto(c, "error") /\ UNCHANGED who
        /\ UNCHANGED <<now, identity, cred, new, gone, came>>

\* ... and inserts the row, whatever has become of the agent, without a word
\* to the audit log.
InsertKey(c) ==
    \E k \in Fresh :
        /\ at[c] = "insert"
        /\ \/ /\ Works
              /\ rows' = rows \cup {NewRow(k, who[c])}
              /\ Generate(c, k, who[c])
              /\ given' = given \cup {k}
              /\ Goto(c, "done")
           \/ Fault /\ Goto(c, "error") /\ UNCHANGED <<rows, key, new, given>>
        /\ UNCHANGED <<now, agents, trail, tokens, cred, who, gone, came>>

\* An operator gives a key without one an expiry, by a statement of their own
\* and in whatever form: the two columns are read everywhere, and no handler
\* writes them.
SetExpiry(c) ==
    \E t \in now .. MaxTime, readable \in BOOLEAN :
        /\ at[c] = "idle"
        /\ \/ \E x \in rows :
                 /\ x.until = Never
                 /\ rows' = (rows \ {x}) \cup {[x EXCEPT !.until = t, !.legible = readable]}
                 /\ UNCHANGED agents
           \/ \E a \in Agents :
                 /\ agents[a].state # "absent" /\ agents[a].until = Never
                 /\ agents' = [agents EXCEPT ![a] = [@ EXCEPT !.until = t, !.legible = readable]]
                 /\ UNCHANGED rows
        /\ Goto(c, "done")
        /\ UNCHANGED <<now, trail, key, given, tokens, cred, who, new, faults, gone, came>>

-----------------------------------------------------------------------------
Authenticate(r) ==
    \/ Arrive(r) \/ LoadSubject(r) \/ LookUpKey(r) \/ LoadOwner(r)
    \/ LookUpLegacy(r) \/ RecordUse(r)
    \/ Exchange(r) \/ FindKey(r) \/ FindLegacy(r)

Administer(c) ==
    \/ Register(c) \/ AnswerRegistration(c)
    \/ Revoke(c) \/ AnswerRevocation(c)
    \/ RotateKey(c)
    \/ FindAgent(c) \/ InsertKey(c)
    \/ SetExpiry(c)

TimePasses ==
    /\ now < MaxTime
    /\ now' = now + 1
    /\ UNCHANGED <<identity, at, cred, who, new, faults, gone, came>>

Next ==
    \/ \E r \in Requests : Authenticate(r)
    \/ \E c \in Changes : Administer(c)
    \/ TimePasses

Spec == Init /\ [][Next]_vars

-----------------------------------------------------------------------------
Places == {"idle", "refused", "admitted", "issued",
           "load", "lookup", "owner", "legacy", "use", "find", "fallback",
           "registered", "revoked", "insert", "done", "error"}

AgentsOK == agents \in [Agents -> [state : {"absent", "active", "revoked"},
                                   hash : Keys \cup {NoKey},
                                   until : 0 .. Never, legible : BOOLEAN]]

RequestsOK ==
    /\ cred \in [Requests -> {NoCredential} \cup {ApiKey(k) : k \in given}
                                            \cup {Bearer(t) : t \in tokens}]
    /\ gone \in [Requests -> SUBSET Agents]
    /\ came \in [Requests -> 0 .. MaxTime]

TypeOK ==
    /\ now \in 0 .. MaxTime
    /\ AgentsOK
    /\ rows \subseteq Rows
    /\ trail \subseteq [event : Events, agent : Agents]
    /\ at \in [Requests \cup Changes -> Places]
    /\ who \in [Requests \cup Changes -> Agents \cup {NoAgent}]
    /\ new \in [Changes -> Keys \cup {NoKey}]
    /\ faults \in Nat
    /\ key \in [Keys -> Agents \cup {NoAgent}]
    /\ given \subseteq Keys
    /\ tokens \subseteq JWTs
    /\ RequestsOK

\* The request has been let in, or answered with a token.
Served(r) == at[r] \in {"admitted", "issued"}

\* The key was generated for an agent that had one already.
Additional(k) == \E x \in rows : x.key = k

\* A request that came after its agent was revoked is not let in, and gets no
\* token, whatever credential it bears and whichever query it has reached
\* ("so revocation takes effect immediately", middleware/auth.rs).
RevocationIsImmediate == \A r \in Requests : Served(r) => who[r] \notin gone[r]

\* A key, and any token that was exchanged for it, acts for the agent it was
\* generated for and no other, although two tables are asked one after the
\* other and an error of the first leads to the second.
CredentialsKeepTheirAgent ==
    \A r \in Requests : Served(r) =>
        CASE cred[r].kind = "key" -> who[r] = key[cred[r].key]
          [] cred[r].kind = "jwt" -> who[r] = key[cred[r].jwt.by]

\* The expiry of a key: of an additional one, as the program reads it.
ExpiryOf(k) ==
    IF \E x \in rows : x.key = k
    THEN Ends(CHOOSE x \in rows : x.key = k)
    ELSE IF \E a \in Agents : agents[a].hash = k
         THEN agents[CHOOSE a \in Agents : agents[a].hash = k].until
         ELSE Never

\* A key that was expired when the request came opens no route and, unless it
\* is the one its agent was registered with, gets no token: a failing or an
\* empty first query does not lead past the expiry.  Of an additional key this
\* holds if the expiry is in RFC 3339; of a first key, whatever its form.
ExpiredKeysAreRefused ==
    \A r \in Requests :
        /\ Served(r)
        /\ cred[r].kind = "key"
        /\ at[r] = "issued" => Additional(cred[r].key)
        => came[r] <= ExpiryOf(cred[r].key)

\* Nothing that was exchanged for an additional key opens a route later than a
\* token's life and the leeway after the key has expired, whatever was
\* exchanged when, if its expiry is in RFC 3339.
AccessEndsWithTheKey ==
    \A r \in Requests, x \in rows :
        /\ Served(r)
        /\ cred[r].kind = "jwt"
        /\ cred[r].jwt.by = x.key
        => came[r] <= Ends(x) + JwtLife + Leeway

\* An agent whose first key is known outside is in the audit log: register
\* answers with the key only after the row.
RegistrationsAreLogged ==
    \A a \in Agents :
        agents[a].hash \in given => [event |-> "agent_registered", agent |-> a] \in trail
=============================================================================
