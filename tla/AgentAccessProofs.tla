-------------------------- MODULE AgentAccessProofs --------------------------
(***************************************************************************)
(* A revocation takes effect at once, a credential keeps its agent, and an *)
(* expiry holds: for any number of agents, keys and requests.              *)
(***************************************************************************)
EXTENDS AgentAccess, TLAPS

USE AgentAccessAssumption

-----------------------------------------------------------------------------
(* Types.  What a request bears, and whom it is about, is known where its  *)
(* handler relies on it.                                                   *)

KeyPlaces == {"lookup", "owner", "legacy", "use", "find", "fallback"}

RequestPlaces ==
    {"idle", "refused", "admitted", "issued", "load"} \cup KeyPlaces

ChangePlaces == {"idle", "registered", "revoked", "insert", "done", "error"}

TablesTyped ==
    /\ now \in 0 .. MaxTime
    /\ AgentsOK
    /\ rows \subseteq Rows
    /\ trail \subseteq [event : Events, agent : Agents]
    /\ key \in [Keys -> Agents \cup {NoAgent}]
    /\ given \subseteq Keys
    /\ tokens \subseteq JWTs

HandlersTyped ==
    /\ at \in [Requests \cup Changes -> Places]
    /\ who \in [Requests \cup Changes -> Agents \cup {NoAgent}]
    /\ new \in [Changes -> Keys \cup {NoKey}]
    /\ faults \in Nat

\* A request that bears a key, where its handler asks for one.
RequestTyped(r) ==
    /\ at[r] \in RequestPlaces
    /\ at[r] = "load" => cred[r].kind = "jwt"
    /\ at[r] \in KeyPlaces => cred[r].kind = "key"
    /\ at[r] \in {"admitted", "issued"} => cred[r].kind \in {"key", "jwt"}
    /\ at[r] \in {"owner", "use", "admitted", "issued"} => who[r] \in Agents

ChangeTyped(c) ==
    /\ at[c] \in ChangePlaces
    /\ at[c] \in {"registered", "revoked", "insert"} => who[c] \in Agents
    /\ at[c] = "registered" => new[c] \in Keys

Typed ==
    /\ TablesTyped /\ HandlersTyped /\ RequestsOK
    /\ \A r \in Requests : RequestTyped(r)
    /\ \A c \in Changes : ChangeTyped(c)

LEMMA TypedIsTypeOK == Typed => TypeOK
  BY DEF Typed, TypeOK, TablesTyped, HandlersTyped

LEMMA InitTyped == Init => Typed
  BY DEF Init, Typed, TablesTyped, HandlersTyped, RequestsOK, RequestTyped, ChangeTyped, AgentsOK,
         Absent, Never, RequestPlaces, KeyPlaces, ChangePlaces, Places

\* What a request bears.
LEMMA CredTypes ==
  ASSUME Typed, NEW r \in Requests
  PROVE  /\ cred[r].kind = "jwt" => cred[r].jwt \in tokens /\ cred[r].jwt \in JWTs
                                    /\ cred[r] = Bearer(cred[r].jwt)
         /\ cred[r].kind = "key" => cred[r].key \in given /\ cred[r].key \in Keys
                                    /\ cred[r] = ApiKey(cred[r].key)
  BY DEF Typed, TablesTyped, RequestsOK, NoCredential, ApiKey, Bearer

\* The handlers of requests read the tables and write only tokens and trail.
LEMMA CredsKept ==
  ASSUME RequestsOK, given \subseteq given', tokens \subseteq tokens', UNCHANGED <<cred, gone, came>>
  PROVE  RequestsOK'
  BY DEF RequestsOK

\* The handlers that are not the acting one's.
Others(q) == \A p \in (Requests \cup Changes) \ {q} : at'[p] = at[p] /\ who'[p] = who[p]

LEMMA RequestMoves ==
  ASSUME Typed, NEW r \in Requests, Others(r), UNCHANGED new,
         \A p \in Requests \ {r} : cred'[p] = cred[p],
         TablesTyped', HandlersTyped', RequestsOK', RequestTyped(r)'
  PROVE  Typed'
  <1>1. \A p \in Requests : RequestTyped(p)'
    BY DEF Typed, Others, RequestTyped
  <1>2. \A c \in Changes : ChangeTyped(c)'
    BY DEF Typed, Others, ChangeTyped
  <1>. QED  BY <1>1, <1>2 DEF Typed

LEMMA ChangeMoves ==
  ASSUME Typed, NEW c \in Changes, Others(c), UNCHANGED <<cred, gone, came>>,
         given \subseteq given', UNCHANGED tokens,
         \A d \in Changes \ {c} : new'[d] = new[d],
         TablesTyped', HandlersTyped', ChangeTyped(c)'
  PROVE  Typed'
  <1>1. \A p \in Requests : RequestTyped(p)'
    BY DEF Typed, Others, RequestTyped
  <1>2. \A d \in Changes : ChangeTyped(d)'
    BY DEF Typed, Others, ChangeTyped
  <1>3. RequestsOK'
    BY CredsKept DEF Typed
  <1>. QED  BY <1>1, <1>2, <1>3 DEF Typed

LEMMA ComeTyped ==
  ASSUME Typed, NEW r \in Requests, NEW c \in Credentials, Come(r, c), UNCHANGED identity
  PROVE  /\ RequestsOK'
         /\ cred'[r] = c
         /\ \A p \in Requests \ {r} : cred'[p] = cred[p]
  BY DEF Typed, Come, Credentials, RequestsOK, identity, TablesTyped

\* A handler of a request that goes to a label.
LEMMA GotoTyped ==
  ASSUME Typed, NEW r \in Requests, NEW label \in RequestPlaces, Goto(r, label), UNCHANGED <<who, new>>,
         faults' = faults \/ Fault
  PROVE  HandlersTyped' /\ Others(r) /\ at'[r] = label
  BY DEF Typed, HandlersTyped, Goto, Others, Fault, RequestPlaces, KeyPlaces, Places

LEMMA ActsTyped ==
  ASSUME Typed, NEW r \in Requests, NEW label \in RequestPlaces, NEW a \in Agents, ActAs(r, a, label), UNCHANGED new,
         faults' = faults \/ Fault
  PROVE  HandlersTyped' /\ Others(r) /\ at'[r] = label /\ who'[r] = a
  BY DEF Typed, HandlersTyped, ActAs, Goto, Others, Fault, RequestPlaces, KeyPlaces, Places

LEMMA MintTyped ==
  ASSUME Typed, NEW r \in Requests, NEW a \in Agents, cred[r].kind = "key", Mint(r, a), UNCHANGED <<new, faults>>,
         UNCHANGED <<now, agents, rows, trail, key, given, cred, gone, came>>
  PROVE  Typed'
  <1>1. cred[r].key \in Keys
    BY CredTypes
  <1>2. [sub |-> a, exp |-> now + JwtLife, by |-> cred[r].key] \in JWTs
    BY <1>1 DEF JWTs, Typed, TablesTyped
  <1>3. tokens' \subseteq JWTs /\ tokens \subseteq tokens'
    BY <1>2 DEF Mint, Typed, TablesTyped
  <1>4. TablesTyped'
    BY <1>3 DEF Typed, TablesTyped, AgentsOK
  <1>5. HandlersTyped' /\ Others(r) /\ at'[r] = "issued" /\ who'[r] = a
    BY ActsTyped DEF Mint, RequestPlaces
  <1>6. RequestsOK'
    BY <1>3, CredsKept DEF Typed
  <1>7. RequestTyped(r)'
    BY <1>5 DEF RequestTyped, RequestPlaces, KeyPlaces
  <1>. QED  BY <1>4, <1>5, <1>6, <1>7, RequestMoves

\* A step that writes no table and comes to a label.
LEMMA QuietStep ==
  ASSUME Typed, NEW r \in Requests, UNCHANGED <<now, identity, cred, new, gone, came>>,
         HandlersTyped', Others(r), RequestTyped(r)'
  PROVE  Typed'
  <1>1. TablesTyped'
    BY DEF Typed, TablesTyped, AgentsOK, identity
  <1>2. RequestsOK'
    BY CredsKept DEF Typed, identity
  <1>. QED  BY <1>1, <1>2, RequestMoves

LEMMA RefusedTyped ==
  ASSUME Typed, NEW r \in Requests, UNCHANGED <<now, identity, cred, new, gone, came>>,
         Refused(r), faults' = faults \/ Fault
  PROVE  Typed'
  <1>1. HandlersTyped' /\ Others(r) /\ at'[r] = "refused"
    BY GotoTyped DEF Refused, RequestPlaces
  <1>. QED  BY <1>1, QuietStep DEF RequestTyped, RequestPlaces, KeyPlaces

LEMMA ArriveTyped ==
  ASSUME Typed, NEW r \in Requests, Arrive(r)
  PROVE  Typed'
  <1>1. PICK c \in Credentials :
           /\ Come(r, c)
           /\ \/ c.kind = "jwt" /\ Goto(r, "load")
              \/ c.kind = "key" /\ Goto(r, "lookup")
              \/ Goto(r, "refused")
    BY DEF Arrive
  <1>2. UNCHANGED <<now, identity, who, new, faults>>
    BY DEF Arrive
  <1>3. RequestsOK' /\ cred'[r] = c /\ \A p \in Requests \ {r} : cred'[p] = cred[p]
    BY <1>1, <1>2, ComeTyped
  <1>4. TablesTyped'
    BY <1>2 DEF Typed, TablesTyped, AgentsOK, identity
  <1>5. CASE Goto(r, "refused")
    <2>1. HandlersTyped' /\ Others(r) /\ at'[r] = "refused"
      BY <1>2, <1>5, GotoTyped DEF RequestPlaces
    <2>. QED  BY <1>2, <1>3, <1>4, <2>1, RequestMoves DEF RequestTyped, RequestPlaces, KeyPlaces
  <1>6. CASE c.kind = "jwt" /\ Goto(r, "load")
    <2>1. HandlersTyped' /\ Others(r) /\ at'[r] = "load"
      BY <1>2, <1>6, GotoTyped DEF RequestPlaces
    <2>. QED  BY <1>2, <1>3, <1>4, <1>6, <2>1, RequestMoves DEF RequestTyped, RequestPlaces, KeyPlaces
  <1>7. CASE c.kind = "key" /\ Goto(r, "lookup")
    <2>1. HandlersTyped' /\ Others(r) /\ at'[r] = "lookup"
      BY <1>2, <1>7, GotoTyped DEF RequestPlaces, KeyPlaces
    <2>. QED  BY <1>2, <1>3, <1>4, <1>7, <2>1, RequestMoves DEF RequestTyped, RequestPlaces, KeyPlaces
  <1>. QED  BY <1>1, <1>5, <1>6, <1>7

LEMMA ExchangeTyped ==
  ASSUME Typed, NEW r \in Requests, Exchange(r)
  PROVE  Typed'
  <1>1. PICK k \in given : Come(r, ApiKey(k)) /\ Goto(r, "find")
    BY DEF Exchange
  <1>2. UNCHANGED <<now, identity, who, new, faults>>
    BY DEF Exchange
  <1>3. ApiKey(k) \in Credentials /\ ApiKey(k).kind = "key"
    BY DEF Credentials, ApiKey
  <1>4. RequestsOK' /\ cred'[r] = ApiKey(k) /\ \A p \in Requests \ {r} : cred'[p] = cred[p]
    BY <1>1, <1>2, <1>3, ComeTyped
  <1>5. TablesTyped'
    BY <1>2 DEF Typed, TablesTyped, AgentsOK, identity
  <1>6. HandlersTyped' /\ Others(r) /\ at'[r] = "find"
    BY <1>1, <1>2, GotoTyped DEF RequestPlaces, KeyPlaces
  <1>. QED  BY <1>2, <1>3, <1>4, <1>5, <1>6, RequestMoves DEF RequestTyped, RequestPlaces, KeyPlaces

LEMMA LookUpTyped ==
  ASSUME Typed, NEW r \in Requests, LoadSubject(r) \/ LookUpKey(r) \/ LoadOwner(r) \/ LookUpLegacy(r)
  PROVE  Typed'
  <1>1. UNCHANGED <<now, identity, cred, new, gone, came>> /\ (faults' = faults \/ Fault)
    BY DEF LoadSubject, LookUpKey, LoadOwner, LookUpLegacy, Works
  <1>2. CASE Refused(r)
    BY <1>1, <1>2, RefusedTyped
  <1>3. CASE LoadSubject(r) /\ ~Refused(r)
    <2>1. cred[r].jwt.sub \in Agents /\ ActAs(r, cred[r].jwt.sub, "admitted") /\ cred[r].kind = "jwt"
      BY <1>3, CredTypes DEF LoadSubject, Typed, RequestTyped, JWTs
    <2>2. HandlersTyped' /\ Others(r) /\ at'[r] = "admitted" /\ who'[r] \in Agents
      BY <1>1, <2>1, ActsTyped DEF RequestPlaces
    <2>. QED  BY <1>1, <2>1, <2>2, QuietStep DEF RequestTyped, RequestPlaces, KeyPlaces
  <1>4. CASE LookUpKey(r) /\ ~Refused(r)
    <2>1. cred[r].kind = "key"
      BY <1>4 DEF LookUpKey, Typed, RequestTyped, KeyPlaces
    <2>2. CASE \E x \in rows : ActAs(r, x.agent, "owner")
      <3>1. PICK x \in rows : ActAs(r, x.agent, "owner")
        BY <2>2
      <3>2. x.agent \in Agents
        BY DEF Typed, TablesTyped, Rows
      <3>3. HandlersTyped' /\ Others(r) /\ at'[r] = "owner" /\ who'[r] \in Agents
        BY <1>1, <3>1, <3>2, ActsTyped DEF RequestPlaces, KeyPlaces
      <3>. QED  BY <1>1, <2>1, <3>3, QuietStep DEF RequestTyped, RequestPlaces, KeyPlaces
    <2>3. CASE Goto(r, "legacy") /\ UNCHANGED who
      <3>1. HandlersTyped' /\ Others(r) /\ at'[r] = "legacy"
        BY <1>1, <2>3, GotoTyped DEF RequestPlaces, KeyPlaces
      <3>. QED  BY <1>1, <2>1, <3>1, QuietStep DEF RequestTyped, RequestPlaces, KeyPlaces
    <2>. QED  BY <1>4, <2>2, <2>3 DEF LookUpKey
  <1>5. CASE LoadOwner(r) /\ ~Refused(r)
    <2>1. cred[r].kind = "key" /\ who[r] \in Agents /\ Goto(r, "use") /\ UNCHANGED who
      BY <1>5 DEF LoadOwner, Typed, RequestTyped, KeyPlaces
    <2>2. HandlersTyped' /\ Others(r) /\ at'[r] = "use"
      BY <1>1, <2>1, GotoTyped DEF RequestPlaces, KeyPlaces
    <2>. QED  BY <1>1, <2>1, <2>2, QuietStep DEF RequestTyped, RequestPlaces, KeyPlaces
  <1>6. CASE LookUpLegacy(r) /\ ~Refused(r)
    <2>1. cred[r].kind = "key" /\ \E a \in Agents : ActAs(r, a, "use")
      BY <1>6 DEF LookUpLegacy, Typed, RequestTyped, KeyPlaces
    <2>2. PICK a \in Agents : ActAs(r, a, "use")
      BY <2>1
    <2>3. HandlersTyped' /\ Others(r) /\ at'[r] = "use" /\ who'[r] \in Agents
      BY <1>1, <2>2, ActsTyped DEF RequestPlaces, KeyPlaces
    <2>. QED  BY <1>1, <2>1, <2>3, QuietStep DEF RequestTyped, RequestPlaces, KeyPlaces
  <1>. QED  BY <1>2, <1>3, <1>4, <1>5, <1>6

LEMMA RecordedTyped ==
  ASSUME NEW event \in Events, NEW a \in Agents, NEW bearsId \in BOOLEAN, Recorded(event, a, bearsId),
         trail \subseteq [event : Events, agent : Agents]
  PROVE  trail' \subseteq [event : Events, agent : Agents]
  BY DEF Recorded

LEMMA UseTyped ==
  ASSUME Typed, NEW r \in Requests, RecordUse(r)
  PROVE  Typed'
  <1>1. cred[r].kind = "key" /\ who[r] \in Agents
    BY DEF RecordUse, Typed, RequestTyped, KeyPlaces
  <1>2. trail' \subseteq [event : Events, agent : Agents]
    BY <1>1, RecordedTyped DEF RecordUse, Typed, TablesTyped, Events
  <1>3. TablesTyped'
    BY <1>2 DEF RecordUse, Typed, TablesTyped, AgentsOK
  <1>4. HandlersTyped' /\ Others(r) /\ at'[r] = "admitted"
    BY GotoTyped DEF RecordUse, Works, RequestPlaces
  <1>5. RequestsOK'
    BY CredsKept DEF RecordUse, Typed
  <1>. QED  BY <1>1, <1>3, <1>4, <1>5, RequestMoves DEF RecordUse, RequestTyped, RequestPlaces, KeyPlaces

LEMMA FindTyped ==
  ASSUME Typed, NEW r \in Requests, FindKey(r) \/ FindLegacy(r)
  PROVE  Typed'
  <1>1. cred[r].kind = "key"
    BY DEF FindKey, FindLegacy, Typed, RequestTyped, KeyPlaces
  <1>2. UNCHANGED <<now, agents, rows, trail, key, given, cred, new, gone, came>> /\ (faults' = faults \/ Fault)
    BY DEF FindKey, FindLegacy, Works
  <1>3. CASE \E a \in Agents : Mint(r, a) /\ Works
    BY <1>1, <1>2, <1>3, MintTyped DEF Works
  <1>4. CASE Goto(r, "fallback") /\ UNCHANGED <<who, tokens>>
    <2>1. HandlersTyped' /\ Others(r) /\ at'[r] = "fallback"
      BY <1>2, <1>4, GotoTyped DEF RequestPlaces, KeyPlaces
    <2>. QED  BY <1>1, <1>2, <1>4, <2>1, QuietStep DEF RequestTyped, RequestPlaces, KeyPlaces, identity
  <1>5. CASE Refused(r) /\ UNCHANGED tokens
    BY <1>2, <1>5, RefusedTyped DEF identity
  <1>6. ASSUME NEW x \in rows PROVE x.agent \in Agents
    BY DEF Typed, TablesTyped, Rows
  <1>. QED  BY <1>3, <1>4, <1>5, <1>6 DEF FindKey, FindLegacy, Fallback

LEMMA RequestSteps ==
  ASSUME Typed, NEW r \in Requests, Authenticate(r)
  PROVE  Typed'
  BY ArriveTyped, ExchangeTyped, LookUpTyped, UseTyped, FindTyped DEF Authenticate

\* A handler of a change that goes to a label.
LEMMA ChangeGoto ==
  ASSUME Typed, NEW c \in Changes, NEW label \in ChangePlaces, Goto(c, label), UNCHANGED who,
         faults' = faults \/ Fault, new' \in [Changes -> Keys \cup {NoKey}]
  PROVE  HandlersTyped' /\ Others(c) /\ at'[c] = label
  BY DEF Typed, HandlersTyped, Goto, Others, Fault, ChangePlaces, Places

LEMMA ChangeActs ==
  ASSUME Typed, NEW c \in Changes, NEW label \in ChangePlaces, NEW a \in Agents, ActAs(c, a, label),
         faults' = faults \/ Fault, new' \in [Changes -> Keys \cup {NoKey}]
  PROVE  HandlersTyped' /\ Others(c) /\ at'[c] = label /\ who'[c] = a
  BY DEF Typed, HandlersTyped, ActAs, Goto, Others, Fault, ChangePlaces, Places

LEMMA GenerateTyped ==
  ASSUME Typed, NEW c \in Changes, NEW k \in Keys, NEW a \in Agents, Generate(c, k, a)
  PROVE  /\ key' \in [Keys -> Agents \cup {NoAgent}]
         /\ new' \in [Changes -> Keys \cup {NoKey}]
         /\ new'[c] = k
         /\ \A d \in Changes \ {c} : new'[d] = new[d]
  BY DEF Generate, Typed, TablesTyped, HandlersTyped

\* A change that leaves the tables and ends.
LEMMA ChangeEnds ==
  ASSUME Typed, NEW c \in Changes, NEW label \in {"done", "error"}, Goto(c, label),
         UNCHANGED <<cred, gone, came, who, new, tokens>>, given \subseteq given',
         faults' = faults \/ Fault, TablesTyped'
  PROVE  Typed'
  <1>1. new' \in [Changes -> Keys \cup {NoKey}]
    BY DEF Typed, HandlersTyped
  <1>2. HandlersTyped' /\ Others(c) /\ at'[c] = label
    BY <1>1, ChangeGoto DEF ChangePlaces
  <1>3. ChangeTyped(c)'
    BY <1>2 DEF ChangeTyped, ChangePlaces
  <1>. QED  BY <1>2, <1>3, ChangeMoves

LEMMA RegisterTyped ==
  ASSUME Typed, NEW c \in Changes, Register(c)
  PROVE  Typed'
  <1>1. UNCHANGED <<now, rows, trail, cred, given, tokens, gone, came>>
    BY DEF Register
  <1>2. CASE Fault /\ Goto(c, "error") /\ UNCHANGED <<agents, key, new, who>>
    <2>1. TablesTyped'
      BY <1>1, <1>2 DEF Typed, TablesTyped, AgentsOK
    <2>. QED  BY <1>1, <1>2, <2>1, ChangeEnds
  <1>3. ASSUME NEW a \in Agents, NEW k \in Fresh, UNCHANGED faults,
               agents' = [agents EXCEPT ![a] = FirstKey(k)],
               Generate(c, k, a), ActAs(c, a, "registered")
        PROVE  Typed'
    <2>1. k \in Keys
      BY DEF Fresh
    <2>2. AgentsOK'
      BY <1>3, <2>1 DEF Typed, TablesTyped, AgentsOK, Never, FirstKey
    <2>3. /\ key' \in [Keys -> Agents \cup {NoAgent}]
          /\ new' \in [Changes -> Keys \cup {NoKey}]
          /\ new'[c] = k
          /\ \A d \in Changes \ {c} : new'[d] = new[d]
      BY <1>3, <2>1, GenerateTyped
    <2>4. TablesTyped'
      BY <1>1, <2>2, <2>3 DEF Typed, TablesTyped
    <2>5. HandlersTyped' /\ Others(c) /\ at'[c] = "registered" /\ who'[c] = a
      BY <1>3, <2>3, ChangeActs DEF ChangePlaces
    <2>6. ChangeTyped(c)'
      BY <2>1, <2>3, <2>5 DEF ChangeTyped, ChangePlaces
    <2>. QED  BY <1>1, <2>3, <2>4, <2>5, <2>6, ChangeMoves
  <1>. QED  BY <1>2, <1>3 DEF Register, Works

LEMMA RegisteredTyped ==
  ASSUME Typed, NEW c \in Changes, AnswerRegistration(c)
  PROVE  Typed'
  <1>1. who[c] \in Agents /\ new[c] \in Keys
    BY DEF AnswerRegistration, Typed, ChangeTyped
  <1>2. trail' \subseteq [event : Events, agent : Agents]
    BY <1>1, RecordedTyped DEF AnswerRegistration, Typed, TablesTyped, Events
  <1>3. given \subseteq given' /\ given' \subseteq Keys
    BY <1>1 DEF AnswerRegistration, Typed, TablesTyped
  <1>4. TablesTyped'
    BY <1>2, <1>3 DEF AnswerRegistration, Typed, TablesTyped, AgentsOK
  <1>. QED  BY <1>3, <1>4, ChangeEnds DEF AnswerRegistration, Works

LEMMA RevokeTyped ==
  ASSUME Typed, NEW c \in Changes, Revoke(c)
  PROVE  Typed'
  <1>1. UNCHANGED <<now, rows, trail, key, given, tokens, cred, new, gone, came>>
    BY DEF Revoke
  <1>2. faults' = faults \/ Fault
    BY DEF Revoke, Works
  <1>3. CASE Goto(c, "error") /\ UNCHANGED <<agents, who>>
    <2>1. TablesTyped'
      BY <1>1, <1>3 DEF Typed, TablesTyped, AgentsOK
    <2>. QED  BY <1>1, <1>2, <1>3, <2>1, ChangeEnds
  <1>4. ASSUME NEW a \in Agents, agents' = [agents EXCEPT ![a].state = "revoked"], ActAs(c, a, "revoked")
        PROVE  Typed'
    <2>1. AgentsOK'
      BY <1>4 DEF Typed, TablesTyped, AgentsOK, Never
    <2>2. TablesTyped'
      BY <1>1, <2>1 DEF Typed, TablesTyped
    <2>3. new' \in [Changes -> Keys \cup {NoKey}]
      BY <1>1 DEF Typed, HandlersTyped
    <2>4. HandlersTyped' /\ Others(c) /\ at'[c] = "revoked" /\ who'[c] = a
      BY <1>2, <1>4, <2>3, ChangeActs DEF ChangePlaces
    <2>5. ChangeTyped(c)'
      BY <2>4 DEF ChangeTyped, ChangePlaces
    <2>. QED  BY <1>1, <2>2, <2>4, <2>5, ChangeMoves
  <1>. QED  BY <1>3, <1>4 DEF Revoke

LEMMA RevokedTyped ==
  ASSUME Typed, NEW c \in Changes, AnswerRevocation(c)
  PROVE  Typed'
  <1>1. who[c] \in Agents
    BY DEF AnswerRevocation, Typed, ChangeTyped
  <1>2. trail' \subseteq [event : Events, agent : Agents]
    BY <1>1, RecordedTyped DEF AnswerRevocation, Typed, TablesTyped, Events
  <1>3. TablesTyped'
    BY <1>2 DEF AnswerRevocation, Typed, TablesTyped, AgentsOK
  <1>. QED  BY <1>3, ChangeEnds DEF AnswerRevocation, Works

LEMMA RotateTyped ==
  ASSUME Typed, NEW c \in Changes, RotateKey(c)
  PROVE  Typed'
  <1>1. TablesTyped'
    BY DEF RotateKey, Typed, TablesTyped, AgentsOK, identity
  <1>. QED  BY <1>1, ChangeEnds DEF RotateKey, identity

LEMMA FindAgentTyped ==
  ASSUME Typed, NEW c \in Changes, FindAgent(c)
  PROVE  Typed'
  <1>1. UNCHANGED <<now, identity, cred, new, gone, came>>
    BY DEF FindAgent
  <1>2. faults' = faults \/ Fault
    BY DEF FindAgent, Works
  <1>3. TablesTyped'
    BY <1>1 DEF Typed, TablesTyped, AgentsOK, identity
  <1>4. CASE Goto(c, "error") /\ UNCHANGED who
    BY <1>1, <1>2, <1>3, <1>4, ChangeEnds DEF identity
  <1>5. ASSUME NEW a \in Agents, ActAs(c, a, "insert")
        PROVE  Typed'
    <2>1. new' \in [Changes -> Keys \cup {NoKey}]
      BY <1>1 DEF Typed, HandlersTyped
    <2>2. HandlersTyped' /\ Others(c) /\ at'[c] = "insert" /\ who'[c] = a
      BY <1>2, <1>5, <2>1, ChangeActs DEF ChangePlaces
    <2>3. ChangeTyped(c)'
      BY <2>2 DEF ChangeTyped, ChangePlaces
    <2>. QED  BY <1>1, <1>3, <2>2, <2>3, ChangeMoves DEF identity
  <1>. QED  BY <1>4, <1>5 DEF FindAgent

LEMMA InsertTyped ==
  ASSUME Typed, NEW c \in Changes, InsertKey(c)
  PROVE  Typed'
  <1>1. UNCHANGED <<now, agents, trail, tokens, cred, who, gone, came>>
    BY DEF InsertKey
  <1>2. who[c] \in Agents
    BY DEF InsertKey, Typed, ChangeTyped
  <1>3. CASE Fault /\ Goto(c, "error") /\ UNCHANGED <<rows, key, new, given>>
    <2>1. TablesTyped'
      BY <1>1, <1>3 DEF Typed, TablesTyped, AgentsOK
    <2>. QED  BY <1>1, <1>3, <2>1, ChangeEnds
  <1>4. ASSUME NEW k \in Fresh, UNCHANGED faults,
               rows' = rows \cup {NewRow(k, who[c])},
               Generate(c, k, who[c]), given' = given \cup {k}, Goto(c, "done")
        PROVE  Typed'
    <2>1. k \in Keys
      BY DEF Fresh
    <2>2. rows' \subseteq Rows
      <3>1. Never \in 0 .. Never
        BY DEF Never
      <3>2. NewRow(k, who[c]) \in Rows
        BY <1>2, <1>4, <2>1, <3>1 DEF Rows, NewRow
      <3>. QED  BY <1>2, <1>4, <3>2 DEF Typed, TablesTyped
    <2>3. /\ key' \in [Keys -> Agents \cup {NoAgent}]
          /\ new' \in [Changes -> Keys \cup {NoKey}]
          /\ \A d \in Changes \ {c} : new'[d] = new[d]
      BY <1>2, <1>4, <2>1, GenerateTyped
    <2>4. TablesTyped'
      BY <1>1, <1>4, <2>1, <2>2, <2>3 DEF Typed, TablesTyped, AgentsOK
    <2>5. HandlersTyped' /\ Others(c) /\ at'[c] = "done"
      BY <1>1, <1>4, <2>3, ChangeGoto DEF ChangePlaces
    <2>6. ChangeTyped(c)'
      BY <2>5 DEF ChangeTyped, ChangePlaces
    <2>. QED  BY <1>1, <1>4, <2>3, <2>4, <2>5, <2>6, ChangeMoves
  <1>. QED  BY <1>3, <1>4 DEF InsertKey, Works

LEMMA ExpiryTyped ==
  ASSUME Typed, NEW c \in Changes, SetExpiry(c)
  PROVE  Typed'
  <1>1. UNCHANGED <<now, trail, key, given, tokens, cred, who, new, faults, gone, came>> /\ Goto(c, "done")
    BY DEF SetExpiry
  <1>2. ASSUME NEW t \in now .. MaxTime PROVE t \in 0 .. Never
    BY DEF Typed, TablesTyped, Never
  <1>3. rows' \subseteq Rows /\ AgentsOK'
    <2>1. CASE \E t \in now .. MaxTime, readable \in BOOLEAN : \E x \in rows :
                 rows' = (rows \ {x}) \cup {[x EXCEPT !.until = t, !.legible = readable]} /\ UNCHANGED agents
      BY <1>2, <2>1 DEF Rows, Typed, TablesTyped, AgentsOK
    <2>2. ASSUME NEW t \in now .. MaxTime, NEW readable \in BOOLEAN, NEW a \in Agents, UNCHANGED rows,
                 agents' = [agents EXCEPT ![a] = [@ EXCEPT !.until = t, !.legible = readable]]
          PROVE  rows' \subseteq Rows /\ AgentsOK'
      <3>1. [agents[a] EXCEPT !.until = t, !.legible = readable]
               \in [state : {"absent", "active", "revoked"}, hash : Keys \cup {NoKey},
                   until : 0 .. Never, legible : BOOLEAN]
        BY <1>2 DEF Typed, TablesTyped, AgentsOK
      <3>. QED  BY <2>2, <3>1 DEF Typed, TablesTyped, AgentsOK
    <2>. QED  BY <2>1, <2>2 DEF SetExpiry
  <1>4. TablesTyped'
    BY <1>1, <1>3 DEF Typed, TablesTyped
  <1>. QED  BY <1>1, <1>4, ChangeEnds

LEMMA ChangeSteps ==
  ASSUME Typed, NEW c \in Changes, Administer(c)
  PROVE  Typed'
  BY RegisterTyped, RegisteredTyped, RevokeTyped, RevokedTyped, RotateTyped, FindAgentTyped, InsertTyped,
     ExpiryTyped DEF Administer

LEMMA QuietTyped ==
  ASSUME Typed, TimePasses \/ UNCHANGED vars
  PROVE  Typed'
  <1>1. UNCHANGED <<identity, at, cred, who, new, gone, came, faults>> /\ now' \in 0 .. MaxTime
    BY DEF TimePasses, vars, identity, Typed, TablesTyped
  <1>. QED  BY <1>1 DEF Typed, TablesTyped, HandlersTyped, AgentsOK, RequestsOK, RequestTyped, ChangeTyped, identity

LEMMA NextTyped == Typed /\ [Next]_vars => Typed'
  BY RequestSteps, ChangeSteps, QuietTyped DEF Next

\* The tables and the handlers keep their types (AgentAccess.tla: the states the
\* handlers of middleware/ and of routes/auth.rs can be in).
THEOREM TypeCorrect == Spec => []TypeOK
  <1>1. Spec => []Typed
    BY InitTyped, NextTyped, PTL DEF Spec
  <1>2. []Typed => []TypeOK
    BY TypedIsTypeOK, PTL
  <1>. QED  BY <1>1, <1>2

-----------------------------------------------------------------------------
(* What the tables keep to.                                                *)

\* A key is in one place, with the agent it was generated for.
KeysOwned ==
    /\ \A x \in rows : key[x.key] = x.agent
    /\ \A x, y \in rows : x.key = y.key => x = y
    /\ \A a \in Agents : agents[a].hash \in Keys => key[agents[a].hash] = a
    /\ \A a \in Agents, x \in rows : agents[a].hash # x.key
    /\ \A k \in given : key[k] \in Agents
    /\ \A c \in Changes : at[c] = "registered" => key[new[c]] = who[c]

\* A token is for the agent of its key, and not for long after it.
TokensBounded ==
    \A t \in tokens :
        /\ t.by \in given /\ t.sub = key[t.by]
        /\ t.exp <= now + JwtLife
        /\ \A x \in rows : t.by = x.key => t.exp <= Ends(x) + JwtLife

TablesSound == KeysOwned /\ TokensBounded /\ RegistrationsAreLogged

(* What a request relies on, from one await to the next.                   *)

\* No row, and no agent, says that the key had expired when the request came.
OpenRow(r) == \A x \in rows : x.key = cred[r].key => came[r] <= Ends(x)
OpenKey(r) == OpenRow(r) /\ \A a \in Agents : agents[a].hash = cred[r].key => came[r] <= agents[a].until

InTime(r) == cred[r].kind = "jwt" => came[r] <= cred[r].jwt.exp + Leeway

RequestSound(r) ==
    /\ came[r] <= now
    /\ at[r] # "idle" => \A a \in gone[r] : agents[a].state = "revoked"
    /\ at[r] \in {"use", "admitted", "issued"} => who[r] \notin gone[r]
    /\ at[r] \in {"owner", "use", "admitted", "issued"} /\ cred[r].kind = "key"
          => who[r] = key[cred[r].key] /\ OpenRow(r)
    /\ at[r] \in {"owner", "use", "admitted"} /\ cred[r].kind = "key" => OpenKey(r)
    /\ at[r] \in {"load", "admitted", "issued"} => InTime(r)
    /\ at[r] \in {"admitted", "issued"} /\ cred[r].kind = "jwt" => who[r] = cred[r].jwt.sub

Sound == Typed /\ TablesSound /\ \A r \in Requests : RequestSound(r)

\* What every step does to the tables: a revocation is for good, a key keeps
\* its agent, and an expiry is set to a time to come.
Grows ==
    /\ now <= now'
    /\ \A a \in Agents : agents[a].state = "revoked" => agents'[a].state = "revoked"
    /\ \A k \in given : key'[k] = key[k]
    /\ \A x \in rows' : x \in rows \/ now <= Ends(x)
    /\ \A a \in Agents : \/ agents'[a].hash = agents[a].hash /\ agents'[a].until = agents[a].until
                         \/ now <= agents'[a].until

LEMMA InitSound == Init => Sound
  <1>. SUFFICES ASSUME Init PROVE Sound
    OBVIOUS
  <1>1. TablesSound
    BY DEF Init, TablesSound, KeysOwned, TokensBounded, RegistrationsAreLogged, Absent
  <1>2. \A r \in Requests : RequestSound(r)
    BY DEF Init, RequestSound
  <1>. QED  BY <1>1, <1>2, InitTyped DEF Sound

\* A request that does not move goes on knowing what it knew.
LEMMA RequestKept ==
  ASSUME Sound, Typed', Grows, NEW r \in Requests, at'[r] = at[r], who'[r] = who[r],
         UNCHANGED <<cred[r], gone[r], came[r]>>
  PROVE  RequestSound(r)'
  <1>1. now \in Nat /\ now' \in Nat /\ came[r] \in Nat /\ came'[r] = came[r] /\ came[r] <= now
    BY DEF Sound, Typed, TablesTyped, RequestsOK, RequestSound
  <1>2. /\ \A x \in rows : Ends(x) \in Nat
        /\ \A x \in rows' : Ends(x) \in Nat
        /\ \A a \in Agents : agents[a].until \in Nat /\ agents'[a].until \in Nat
    BY DEF Sound, Typed, TablesTyped, Rows, Ends, AgentsOK, Never
  <1>3. OpenRow(r) => OpenRow(r)'
    BY <1>1, <1>2 DEF OpenRow, Grows
  <1>4. OpenKey(r) => OpenKey(r)'
    BY <1>1, <1>2, <1>3 DEF OpenKey, Grows
  <1>5. InTime(r) => InTime(r)'
    BY DEF InTime
  <1>6. cred[r].kind = "key" => key'[cred[r].key] = key[cred[r].key]
    BY CredTypes DEF Sound, Grows
  <1>7. at[r] # "idle" => \A a \in gone[r] : agents'[a].state = "revoked"
    BY DEF Sound, RequestSound, Grows, Typed, RequestsOK
  <1>8. RequestSound(r)
    BY DEF Sound
  <1>. QED  BY <1>1, <1>3, <1>4, <1>5, <1>6, <1>7, <1>8 DEF RequestSound, Grows

\* A step of one request that leaves the tables, but for its audit row.
LEMMA ReadingKept ==
  ASSUME Sound, Typed', NEW r \in Requests, Others(r), UNCHANGED <<now, agents, rows, key, given, tokens, new>>,
         trail \subseteq trail',
         \A p \in Requests \ {r} : UNCHANGED <<cred[p], gone[p], came[p]>>,
         RequestSound(r)'
  PROVE  Sound'
  <1>1. Grows
    BY DEF Grows, Sound, Typed, TablesTyped
  <1>2. \A p \in Requests : RequestSound(p)'
    BY <1>1, RequestKept DEF Others
  <1>3. \A c \in Changes : at'[c] = at[c] /\ who'[c] = who[c]
    BY DEF Others
  <1>4. TablesSound'
    BY <1>3 DEF Sound, TablesSound, KeysOwned, TokensBounded, RegistrationsAreLogged
  <1>. QED  BY <1>2, <1>4 DEF Sound

LEMMA GotoOthers ==
  ASSUME Typed, NEW q \in Requests \cup Changes, NEW label, Goto(q, label), UNCHANGED who
  PROVE  Others(q) /\ at'[q] = label /\ who'[q] = who[q]
  BY DEF Typed, HandlersTyped, Goto, Others

LEMMA ActsOthers ==
  ASSUME Typed, NEW q \in Requests \cup Changes, NEW label, NEW a, ActAs(q, a, label)
  PROVE  Others(q) /\ at'[q] = label /\ who'[q] = a
  BY DEF Typed, HandlersTyped, ActAs, Goto, Others

\* A request that comes.
LEMMA ComeSound ==
  ASSUME Sound, Typed', NEW r \in Requests, NEW c \in Credentials, Come(r, c),
         UNCHANGED <<now, identity, who, new, faults>>,
         NEW label \in {"load", "lookup", "refused", "find"}, Goto(r, label),
         label = "load" => ValidToken(c.jwt)
  PROVE  Sound'
  <1>1. Others(r) /\ at'[r] = label
    BY GotoOthers DEF Sound
  <1>2. /\ cred'[r] = c /\ came'[r] = now
        /\ gone'[r] = {a \in Agents : agents[a].state = "revoked"}
        /\ \A p \in Requests \ {r} : UNCHANGED <<cred[p], gone[p], came[p]>>
    BY DEF Come, Sound, Typed, RequestsOK
  <1>3. now \in Nat
    BY DEF Sound, Typed, TablesTyped
  <1>4. RequestSound(r)'
    BY <1>1, <1>2, <1>3 DEF RequestSound, InTime, ValidToken, identity
  <1>. QED  BY <1>1, <1>2, <1>4, ReadingKept DEF identity

\* A request that is refused, or looks elsewhere, knows nothing.
LEMMA PassSound ==
  ASSUME Sound, Typed', NEW r \in Requests, NEW label \in {"refused", "legacy", "fallback"}, Goto(r, label),
         at[r] # "idle", UNCHANGED <<now, identity, cred, who, new, gone, came>>
  PROVE  Sound'
  <1>1. Others(r) /\ at'[r] = label
    BY GotoOthers DEF Sound
  <1>2. RequestSound(r)'
    BY <1>1 DEF Sound, RequestSound, identity
  <1>. QED  BY <1>1, <1>2, ReadingKept DEF identity

\* A row is found for its key and its agent, an agent for its first key.
LEMMA RowFound ==
  ASSUME Sound, NEW r \in Requests, NEW x \in rows, x.key = cred[r].key, ~Expired(x)
  PROVE  x.agent = key[cred[r].key] /\ OpenKey(r)
  <1>0. KeysOwned
    BY DEF Sound, TablesSound
  <1>1. now \in Nat /\ Ends(x) \in Nat /\ came[r] \in Nat /\ came[r] <= now
    <2>1. TablesTyped /\ RequestsOK /\ RequestSound(r)
      BY DEF Sound, Typed
    <2>2. now \in Nat /\ Ends(x) \in Nat
      BY <2>1 DEF TablesTyped, Rows, Ends, Never
    <2>3. came[r] \in Nat /\ came[r] <= now
      BY <2>1 DEF RequestsOK, RequestSound
    <2>. QED  BY <2>2, <2>3
  <1>2. came[r] <= Ends(x)
    BY <1>1 DEF Expired
  <1>3. \A y \in rows : y.key = cred[r].key => y = x
    <2>1. \A y, z \in rows : y.key = z.key => y = z
      BY <1>0 DEF KeysOwned
    <2>. QED  BY <2>1, Zenon
  <1>4. \A a \in Agents : agents[a].hash # cred[r].key
    <2>1. \A a \in Agents, y \in rows : agents[a].hash # y.key
      BY <1>0 DEF KeysOwned
    <2>. QED  BY <2>1, Zenon
  <1>5. x.agent = key[x.key]
    BY <1>0 DEF KeysOwned
  <1>6. OpenRow(r)
    BY <1>2, <1>3, <1>4, <1>5 DEF OpenRow
  <1>7. OpenKey(r)
    BY <1>4, <1>6 DEF OpenKey
  <1>. QED  BY <1>5, <1>7

\* The expiry of an agent's first key can be read, and is to come.
Opens(a) == agents[a].legible /\ ~Expired(agents[a])

LEMMA AgentFound ==
  ASSUME Sound, NEW r \in Requests, NEW a \in Agents, agents[a].hash = cred[r].key, cred[r].kind = "key"
  PROVE  a = key[cred[r].key] /\ OpenRow(r) /\ (Opens(a) => OpenKey(r))
  <1>1. now \in Nat /\ agents[a].until \in Nat /\ came[r] \in Nat /\ came[r] <= now
    BY DEF Sound, Typed, TablesTyped, AgentsOK, RequestsOK, RequestSound, Never
  <1>2. cred[r].key \in Keys
    BY CredTypes DEF Sound
  <1>3. a = key[cred[r].key]
    BY <1>2 DEF Sound, TablesSound, KeysOwned
  <1>4. \A b \in Agents : agents[b].hash = cred[r].key => b = a
    BY <1>2, <1>3 DEF Sound, TablesSound, KeysOwned
  <1>5. OpenRow(r)
    BY DEF OpenRow, Sound, TablesSound, KeysOwned
  <1>6. Opens(a) => OpenKey(r)
    BY <1>1, <1>4, <1>5 DEF Opens, Ends, Expired, OpenKey
  <1>. QED  BY <1>3, <1>5, <1>6

\* An agent that is found was not revoked when the request came.
LEMMA FoundNotGone ==
  ASSUME Sound, NEW r \in Requests, NEW a \in Agents, Live(a), at[r] # "idle"
  PROVE  a \notin gone[r]
  BY DEF Sound, RequestSound, Live

LEMMA LookUpSound ==
  ASSUME Sound, Typed', NEW r \in Requests, LoadSubject(r) \/ LookUpKey(r) \/ LoadOwner(r) \/ LookUpLegacy(r)
  PROVE  Sound'
  <1>1. UNCHANGED <<now, identity, cred, new, gone, came>> /\ at[r] # "idle"
    BY DEF LoadSubject, LookUpKey, LoadOwner, LookUpLegacy
  <1>2. Typed
    BY DEF Sound
  <1>3. CASE Refused(r)
    BY <1>1, <1>3, PassSound DEF Refused
  <1>4. CASE LoadSubject(r) /\ ~Refused(r)
    <2>1. ActAs(r, cred[r].jwt.sub, "admitted") /\ Live(cred[r].jwt.sub) /\ at[r] = "load"
      BY <1>4 DEF LoadSubject, Loaded, Found
    <2>2. cred[r].kind = "jwt" /\ cred[r].jwt.sub \in Agents
      BY <1>2, <2>1, CredTypes DEF Typed, RequestTyped, JWTs
    <2>3. cred[r].jwt.sub \notin gone[r]
      BY <1>1, <2>1, <2>2, FoundNotGone
    <2>4. Others(r) /\ at'[r] = "admitted" /\ who'[r] = cred[r].jwt.sub
      BY <1>2, <2>1, ActsOthers
    <2>5. RequestSound(r)'
      BY <1>1, <2>1, <2>2, <2>3, <2>4 DEF Sound, RequestSound, InTime, identity
    <2>. QED  BY <1>1, <2>4, <2>5, ReadingKept DEF identity
  <1>5. CASE LookUpKey(r) /\ ~Refused(r)
    <2>1. cred[r].kind = "key" /\ at[r] = "lookup"
      BY <1>2, <1>5 DEF LookUpKey, Typed, RequestTyped, KeyPlaces
    <2>2. CASE Goto(r, "legacy") /\ UNCHANGED who
      BY <1>1, <2>2, PassSound
    <2>3. ASSUME NEW x \in rows, x.key = cred[r].key, ~Expired(x), ActAs(r, x.agent, "owner")
          PROVE  Sound'
      <3>1. Others(r) /\ at'[r] = "owner" /\ who'[r] = x.agent
        BY <1>2, <2>3, ActsOthers
      <3>2. x.agent = key[cred[r].key] /\ OpenKey(r)
        BY <2>3, RowFound
      <3>3. OpenKey(r)' /\ OpenRow(r)'
        BY <1>1, <3>2 DEF OpenKey, OpenRow, identity
      <3>4. RequestSound(r)'
        BY <1>1, <2>1, <3>1, <3>2, <3>3 DEF Sound, RequestSound, identity
      <3>. QED  BY <1>1, <3>1, <3>4, ReadingKept DEF identity
    <2>. QED  BY <1>5, <2>2, <2>3 DEF LookUpKey
  <1>6. CASE LoadOwner(r) /\ ~Refused(r)
    <2>1. at[r] = "owner" /\ Live(who[r]) /\ Goto(r, "use") /\ UNCHANGED who
      BY <1>6 DEF LoadOwner, Loaded, Found
    <2>2. cred[r].kind = "key" /\ who[r] \in Agents
      BY <1>2, <2>1 DEF Typed, RequestTyped, KeyPlaces
    <2>3. who[r] \notin gone[r]
      BY <1>1, <2>1, <2>2, FoundNotGone
    <2>4. Others(r) /\ at'[r] = "use"
      BY <1>2, <2>1, GotoOthers
    <2>5. OpenKey(r)' /\ OpenRow(r)'
      BY <1>1, <2>1, <2>2 DEF Sound, RequestSound, OpenKey, OpenRow, identity
    <2>6. RequestSound(r)'
      BY <1>1, <2>1, <2>2, <2>3, <2>4, <2>5 DEF Sound, RequestSound, identity
    <2>. QED  BY <1>1, <2>4, <2>6, ReadingKept DEF identity
  <1>7. CASE LookUpLegacy(r) /\ ~Refused(r)
    <2>1. at[r] = "legacy" /\ cred[r].kind = "key"
      BY <1>2, <1>7 DEF LookUpLegacy, Typed, RequestTyped, KeyPlaces
    <2>2. ASSUME NEW a \in Agents, Live(a), agents[a].hash = cred[r].key, Opens(a),
                 ActAs(r, a, "use")
          PROVE  Sound'
      <3>1. Others(r) /\ at'[r] = "use" /\ who'[r] = a
        BY <1>2, <2>2, ActsOthers
      <3>2. a = key[cred[r].key] /\ OpenKey(r) /\ a \notin gone[r]
        BY <1>1, <2>1, <2>2, AgentFound, FoundNotGone
      <3>3. OpenKey(r)' /\ OpenRow(r)'
        BY <1>1, <3>2 DEF OpenKey, OpenRow, identity
      <3>4. RequestSound(r)'
        BY <1>1, <2>1, <3>1, <3>2, <3>3 DEF Sound, RequestSound, identity
      <3>. QED  BY <1>1, <3>1, <3>4, ReadingKept DEF identity
    <2>. QED  BY <1>7, <2>2 DEF LookUpLegacy, Opens
  <1>. QED  BY <1>3, <1>4, <1>5, <1>6, <1>7

LEMMA UseSound ==
  ASSUME Sound, Typed', NEW r \in Requests, RecordUse(r)
  PROVE  Sound'
  <1>1. UNCHANGED <<now, agents, rows, cred, who, new, key, given, tokens, gone, came>> /\ at[r] = "use"
    BY DEF RecordUse
  <1>2. trail \subseteq trail' /\ Goto(r, "admitted")
    BY DEF RecordUse, Recorded
  <1>3. cred[r].kind = "key"
    BY <1>1 DEF Sound, Typed, RequestTyped, KeyPlaces
  <1>4. Others(r) /\ at'[r] = "admitted"
    BY <1>1, <1>2, GotoOthers DEF Sound
  <1>5. OpenKey(r)' /\ OpenRow(r)'
    BY <1>1, <1>3 DEF Sound, RequestSound, OpenKey, OpenRow
  <1>6. RequestSound(r)'
    BY <1>1, <1>3, <1>4, <1>5 DEF Sound, RequestSound, InTime
  <1>. QED  BY <1>1, <1>2, <1>4, <1>6, ReadingKept

\* A token for the agent of a key that no row calls expired.
LEMMA MintSound ==
  ASSUME Sound, Typed', NEW r \in Requests, NEW a \in Agents, Mint(r, a),
         cred[r].kind = "key", a = key[cred[r].key], a \notin gone[r], at[r] # "idle",
         \A x \in rows : x.key = cred[r].key => now <= Ends(x),
         UNCHANGED <<now, agents, rows, trail, key, given, cred, new, gone, came>>
  PROVE  Sound'
  <1>1. Others(r) /\ at'[r] = "issued" /\ who'[r] = a
    BY ActsOthers DEF Mint, Sound
  <1>2. now \in Nat /\ JwtLife \in Nat /\ came[r] \in Nat /\ came[r] <= now
    BY DEF Sound, Typed, TablesTyped, RequestsOK, RequestSound
  <1>3. \A x \in rows : Ends(x) \in Nat
    BY DEF Sound, Typed, TablesTyped, Rows, Ends, Never
  <1>4. OpenRow(r)'
    BY <1>2, <1>3 DEF OpenRow
  <1>5. RequestSound(r)'
    BY <1>1, <1>4 DEF Sound, RequestSound, InTime
  <1>6. cred[r].key \in given
    BY CredTypes DEF Sound
  <1>7. TokensBounded'
    <2>. DEFINE t0 == [sub |-> a, exp |-> now + JwtLife, by |-> cred[r].key]
    <2>1. tokens' = tokens \cup {t0}
      BY DEF Mint
    <2>2. \A x \in rows : t0.by = x.key => t0.exp <= Ends(x) + JwtLife
      BY <1>2, <1>3
    <2>3. t0.by \in given /\ t0.sub = key[t0.by] /\ t0.exp <= now + JwtLife
      BY <1>2, <1>6
    <2>. HIDE DEF t0
    <2>. QED  BY <2>1, <2>2, <2>3 DEF Sound, TablesSound, TokensBounded
  <1>8. \A c \in Changes : at'[c] = at[c] /\ who'[c] = who[c]
    BY <1>1 DEF Others
  <1>9. KeysOwned' /\ RegistrationsAreLogged'
    BY <1>8 DEF Sound, TablesSound, KeysOwned, RegistrationsAreLogged
  <1>10. Grows
    BY <1>2 DEF Grows
  <1>11. \A p \in Requests : RequestSound(p)'
    BY <1>1, <1>5, <1>10, RequestKept DEF Others
  <1>. QED  BY <1>7, <1>9, <1>11 DEF Sound, TablesSound

LEMMA FindSound ==
  ASSUME Sound, Typed', NEW r \in Requests, FindKey(r) \/ FindLegacy(r)
  PROVE  Sound'
  <1>1. UNCHANGED <<now, agents, rows, trail, key, given, cred, new, gone, came>> /\ at[r] # "idle"
    BY DEF FindKey, FindLegacy
  <1>2. cred[r].kind = "key"
    BY DEF FindKey, FindLegacy, Sound, Typed, RequestTyped, KeyPlaces
  <1>3. CASE UNCHANGED <<who, tokens>> /\ \E label \in {"refused", "fallback"} : Goto(r, label)
    BY <1>1, <1>3, PassSound DEF identity
  <1>4. ASSUME NEW x \in rows, x.key = cred[r].key, Live(x.agent), ~Expired(x), Mint(r, x.agent)
        PROVE  Sound'
    <2>1. x.agent = key[cred[r].key]
      BY <1>4, RowFound
    <2>2. x.agent \in Agents /\ Ends(x) \in Nat /\ now \in Nat
      BY DEF Sound, Typed, TablesTyped, Rows, Ends, Never
    <2>3. x.agent \notin gone[r]
      BY <1>1, <1>4, <2>2, FoundNotGone
    <2>4. \A y \in rows : y.key = cred[r].key => now <= Ends(y)
      BY <1>4, <2>2 DEF Sound, TablesSound, KeysOwned, Expired
    <2>. QED  BY <1>1, <1>2, <1>4, <2>1, <2>2, <2>3, <2>4, MintSound
  <1>5. ASSUME NEW a \in Agents, Live(a), agents[a].hash = cred[r].key, Mint(r, a)
        PROVE  Sound'
    <2>1. a = key[cred[r].key] /\ a \notin gone[r]
      BY <1>1, <1>2, <1>5, AgentFound, FoundNotGone
    <2>2. \A y \in rows : y.key # cred[r].key
      BY <1>5 DEF Sound, TablesSound, KeysOwned
    <2>. QED  BY <1>1, <1>2, <1>5, <2>1, <2>2, MintSound
  <1>6. CASE FindKey(r)
    BY <1>3, <1>4, <1>6 DEF FindKey, Found
  <1>7. CASE FindLegacy(r)
    BY <1>3, <1>5, <1>7 DEF FindLegacy, Fallback, Refused
  <1>. QED  BY <1>6, <1>7

LEMMA RequestStepsSound ==
  ASSUME Sound, NEW r \in Requests, Authenticate(r)
  PROVE  Sound'
  <1>1. Typed'
    BY RequestSteps DEF Sound
  <1>2. CASE Arrive(r)
    <2>1. PICK c \in Credentials :
             /\ Come(r, c)
             /\ \/ ValidToken(c.jwt) /\ Goto(r, "load")
                \/ Goto(r, "lookup")
                \/ Goto(r, "refused")
      BY <1>2 DEF Arrive
    <2>. QED  BY <1>1, <1>2, <2>1, ComeSound DEF Arrive
  <1>3. CASE Exchange(r)
    <2>1. PICK k \in given : Come(r, ApiKey(k)) /\ Goto(r, "find")
      BY <1>3 DEF Exchange
    <2>2. ApiKey(k) \in Credentials
      BY DEF Credentials
    <2>. QED  BY <1>1, <1>3, <2>1, <2>2, ComeSound DEF Exchange
  <1>. QED  BY <1>1, <1>2, <1>3, LookUpSound, UseSound, FindSound DEF Authenticate

\* A step of a change moves no request.
LEMMA ChangeKept ==
  ASSUME Sound, Typed', NEW c \in Changes, Others(c), UNCHANGED <<cred, gone, came>>,
         Grows, TablesSound'
  PROVE  Sound'
  <1>1. \A r \in Requests : RequestSound(r)'
    BY RequestKept DEF Others
  <1>. QED  BY <1>1 DEF Sound

\* One that leaves the tables, but for the audit log, and waits for no answer
\* to a registration.
LEMMA ChangeLeaves ==
  ASSUME Sound, Typed', NEW c \in Changes, Others(c), at'[c] # "registered",
         UNCHANGED <<now, agents, rows, key, given, tokens, cred, new, gone, came>>, trail \subseteq trail'
  PROVE  Sound'
  <1>1. Grows
    BY DEF Grows, Sound, Typed, TablesTyped
  <1>2. \A d \in Changes : at'[d] = "registered" => at[d] = "registered" /\ who'[d] = who[d]
    BY DEF Others
  <1>3. TablesSound'
    BY <1>2 DEF Sound, TablesSound, KeysOwned, TokensBounded, RegistrationsAreLogged
  <1>. QED  BY <1>1, <1>3, ChangeKept

\* A key that is generated was with nobody.
LEMMA FreshKey ==
  ASSUME Sound, NEW c \in Changes, NEW k \in Fresh, NEW a \in Agents, Generate(c, k, a)
  PROVE  /\ k \in Keys \ given
         /\ \A x \in rows : x.key # k
         /\ \A b \in Agents : agents[b].hash # k
         /\ \A d \in Changes : at[d] = "registered" => new[d] # k
         /\ key'[k] = a /\ \A j \in Keys \ {k} : key'[j] = key[j]
         /\ new'[c] = k /\ \A d \in Changes \ {c} : new'[d] = new[d]
  <1>1. k \in Keys /\ key[k] = NoAgent /\ NoAgent \notin Agents
    BY DEF Fresh
  <1>2. \A x \in rows : x.agent \in Agents
    BY DEF Sound, Typed, TablesTyped, Rows
  <1>3. \A d \in Changes : at[d] = "registered" => who[d] \in Agents
    BY DEF Sound, Typed, ChangeTyped
  <1>4. /\ k \notin given
        /\ \A x \in rows : x.key # k
        /\ \A b \in Agents : agents[b].hash # k
        /\ \A d \in Changes : at[d] = "registered" => new[d] # k
    BY <1>1, <1>2, <1>3 DEF Sound, TablesSound, KeysOwned
  <1>5. /\ key'[k] = a /\ \A j \in Keys \ {k} : key'[j] = key[j]
        /\ new'[c] = k /\ \A d \in Changes \ {c} : new'[d] = new[d]
    BY <1>1 DEF Generate, Sound, Typed, TablesTyped, HandlersTyped
  <1>. QED  BY <1>1, <1>4, <1>5

LEMMA RegisterSound ==
  ASSUME Sound, Typed', NEW c \in Changes, Register(c)
  PROVE  Sound'
  <1>1. UNCHANGED <<now, rows, trail, cred, given, tokens, gone, came>>
    BY DEF Register
  <1>2. CASE Goto(c, "error") /\ UNCHANGED <<agents, key, new, who>>
    BY <1>1, <1>2, GotoOthers, ChangeLeaves DEF Sound
  <1>3. ASSUME NEW a \in Agents, NEW k \in Fresh,
               agents' = [agents EXCEPT ![a] = FirstKey(k)],
               agents[a].state = "absent",
               Generate(c, k, a), ActAs(c, a, "registered")
        PROVE  Sound'
    <2>1. Others(c) /\ at'[c] = "registered" /\ who'[c] = a
      BY <1>3, ActsOthers DEF Sound
    <2>2. /\ k \in Keys \ given
          /\ \A x \in rows : x.key # k
          /\ \A b \in Agents : agents[b].hash # k
          /\ \A d \in Changes : at[d] = "registered" => new[d] # k
          /\ key'[k] = a /\ \A j \in Keys \ {k} : key'[j] = key[j]
          /\ new'[c] = k /\ \A d \in Changes \ {c} : new'[d] = new[d]
      BY <1>3, FreshKey
    <2>3. /\ agents'[a].hash = k /\ agents'[a].until = Never
          /\ \A b \in Agents \ {a} : agents'[b] = agents[b]
      BY <1>3 DEF Sound, Typed, TablesTyped, AgentsOK, FirstKey
    <2>4. now \in Nat /\ now <= Never /\ given \subseteq Keys /\ \A x \in rows : x.key \in Keys
      BY DEF Sound, Typed, TablesTyped, Never, Rows
    <2>5. \A d \in Changes : at[d] = "registered" => new[d] \in Keys
      BY DEF Sound, Typed, ChangeTyped
    <2>6. Grows
      BY <1>1, <1>3, <2>2, <2>3, <2>4 DEF Grows
    <2>7. KeysOwned'
      <3>1. \A x \in rows' : key'[x.key] = x.agent
        BY <1>1, <2>2, <2>4 DEF Sound, TablesSound, KeysOwned
      <3>2. \A b \in Agents : agents'[b].hash \in Keys => key'[agents'[b].hash] = b
        BY <2>2, <2>3 DEF Sound, TablesSound, KeysOwned
      <3>3. \A b \in Agents, x \in rows : agents'[b].hash # x.key
        BY <2>2, <2>3 DEF Sound, TablesSound, KeysOwned
      <3>4. \A j \in given : key'[j] \in Agents
        BY <2>2, <2>4 DEF Sound, TablesSound, KeysOwned
      <3>5. \A d \in Changes : at'[d] = "registered" => key'[new'[d]] = who'[d]
        BY <2>1, <2>2, <2>5 DEF Sound, TablesSound, KeysOwned, Others
      <3>. QED  BY <1>1, <3>1, <3>2, <3>3, <3>4, <3>5 DEF KeysOwned, Sound, TablesSound
    <2>8. TokensBounded'
      BY <1>1, <2>2, <2>4 DEF Sound, TablesSound, TokensBounded
    <2>9. RegistrationsAreLogged'
      BY <1>1, <2>2, <2>3 DEF Sound, TablesSound, RegistrationsAreLogged
    <2>. QED  BY <1>1, <2>1, <2>6, <2>7, <2>8, <2>9, ChangeKept DEF TablesSound
  <1>. QED  BY <1>2, <1>3 DEF Register

LEMMA RegisteredSound ==
  ASSUME Sound, Typed', NEW c \in Changes, AnswerRegistration(c)
  PROVE  Sound'
  <1>1. UNCHANGED <<now, agents, rows, key, tokens, cred, who, new, gone, came>> /\ at[c] = "registered"
    BY DEF AnswerRegistration
  <1>2. CASE Goto(c, "error") /\ UNCHANGED <<trail, given>>
    BY <1>1, <1>2, GotoOthers, ChangeLeaves DEF Sound
  <1>3. CASE /\ Recorded("agent_registered", who[c], FALSE)
             /\ given' = given \cup {new[c]}
             /\ Goto(c, "done")
    <2>1. Others(c) /\ at'[c] = "done"
      BY <1>1, <1>3, GotoOthers DEF Sound
    <2>2. who[c] \in Agents /\ new[c] \in Keys /\ key[new[c]] = who[c]
      BY <1>1 DEF Sound, Typed, ChangeTyped, TablesSound, KeysOwned
    <2>3. trail' = trail \cup {[event |-> "agent_registered", agent |-> who[c]]}
      BY <1>3 DEF Recorded
    <2>4. Grows
      BY <1>1 DEF Grows, Sound, Typed, TablesTyped
    <2>5. KeysOwned'
      BY <1>1, <1>3, <2>1, <2>2 DEF Sound, TablesSound, KeysOwned, Others
    <2>6. TokensBounded'
      BY <1>1, <1>3 DEF Sound, TablesSound, TokensBounded
    <2>7. \A a \in Agents : agents[a].hash = new[c] => a = who[c]
      BY <2>2 DEF Sound, TablesSound, KeysOwned
    <2>8. RegistrationsAreLogged'
      BY <1>1, <1>3, <2>3, <2>7 DEF Sound, TablesSound, RegistrationsAreLogged
    <2>. QED  BY <1>1, <2>1, <2>4, <2>5, <2>6, <2>8, ChangeKept DEF TablesSound
  <1>. QED  BY <1>2, <1>3 DEF AnswerRegistration

LEMMA RevokeSound ==
  ASSUME Sound, Typed', NEW c \in Changes, Revoke(c)
  PROVE  Sound'
  <1>1. UNCHANGED <<now, rows, trail, key, given, tokens, cred, new, gone, came>>
    BY DEF Revoke
  <1>2. CASE Goto(c, "error") /\ UNCHANGED <<agents, who>>
    BY <1>1, <1>2, GotoOthers, ChangeLeaves DEF Sound
  <1>3. ASSUME NEW a \in Agents, agents' = [agents EXCEPT ![a].state = "revoked"], ActAs(c, a, "revoked")
        PROVE  Sound'
    <2>1. Others(c) /\ at'[c] = "revoked"
      BY <1>3, ActsOthers DEF Sound
    <2>2. /\ \A b \in Agents : agents'[b].hash = agents[b].hash /\ agents'[b].until = agents[b].until
          /\ \A b \in Agents : agents[b].state = "revoked" => agents'[b].state = "revoked"
      BY <1>3 DEF Sound, Typed, TablesTyped, AgentsOK
    <2>3. Grows
      BY <1>1, <2>2 DEF Grows, Sound, Typed, TablesTyped
    <2>4. TablesSound'
      BY <1>1, <2>1, <2>2 DEF Sound, TablesSound, KeysOwned, TokensBounded, RegistrationsAreLogged, Others
    <2>. QED  BY <1>1, <2>1, <2>3, <2>4, ChangeKept
  <1>. QED  BY <1>2, <1>3 DEF Revoke

LEMMA QuietChangeSound ==
  ASSUME Sound, Typed', NEW c \in Changes, AnswerRevocation(c) \/ RotateKey(c) \/ FindAgent(c)
  PROVE  Sound'
  <1>1. UNCHANGED <<now, agents, rows, key, given, tokens, cred, new, gone, came>> /\ trail \subseteq trail'
    BY DEF AnswerRevocation, RotateKey, FindAgent, identity, Recorded
  <1>2. CASE \E label \in {"done", "error"} : Goto(c, label) /\ UNCHANGED who
    BY <1>1, <1>2, GotoOthers, ChangeLeaves DEF Sound
  <1>3. CASE \E a \in Agents : ActAs(c, a, "insert")
    BY <1>1, <1>3, ActsOthers, ChangeLeaves DEF Sound
  <1>. QED  BY <1>2, <1>3 DEF AnswerRevocation, RotateKey, FindAgent

LEMMA InsertSound ==
  ASSUME Sound, Typed', NEW c \in Changes, InsertKey(c)
  PROVE  Sound'
  <1>1. UNCHANGED <<now, agents, trail, tokens, cred, who, gone, came>>
    BY DEF InsertKey
  <1>2. CASE Goto(c, "error") /\ UNCHANGED <<rows, key, new, given>>
    BY <1>1, <1>2, GotoOthers, ChangeLeaves DEF Sound
  <1>3. ASSUME NEW k \in Fresh, rows' = rows \cup {NewRow(k, who[c])},
               Generate(c, k, who[c]), given' = given \cup {k}, Goto(c, "done"), who[c] \in Agents
        PROVE  Sound'
    <2>1. Others(c) /\ at'[c] = "done"
      BY <1>1, <1>3, GotoOthers DEF Sound
    <2>2. /\ k \in Keys \ given
          /\ \A x \in rows : x.key # k
          /\ \A b \in Agents : agents[b].hash # k
          /\ \A d \in Changes : at[d] = "registered" => new[d] # k
          /\ key'[k] = who[c] /\ \A j \in Keys \ {k} : key'[j] = key[j]
          /\ new'[c] = k /\ \A d \in Changes \ {c} : new'[d] = new[d]
      BY <1>3, FreshKey
    <2>. DEFINE x0 == NewRow(k, who[c])
    <2>3. x0.key = k /\ x0.agent = who[c] /\ Ends(x0) = Never /\ rows' = rows \cup {x0}
      BY <1>3 DEF NewRow, Ends
    <2>. HIDE DEF x0
    <2>4. /\ now \in Nat /\ now <= Never /\ given \subseteq Keys /\ \A x \in rows : x.key \in Keys
          /\ Never \in Nat /\ JwtLife \in Nat
          /\ \A t \in tokens : t.exp \in Nat
      BY DEF Sound, Typed, TablesTyped, Never, Rows, JWTs
    <2>5. \A d \in Changes : at[d] = "registered" => new[d] \in Keys
      BY DEF Sound, Typed, ChangeTyped
    <2>6. Grows
      BY <1>1, <2>2, <2>3, <2>4 DEF Grows
    <2>7. KeysOwned'
      <3>1. \A x \in rows' : key'[x.key] = x.agent
        BY <2>2, <2>3, <2>4 DEF Sound, TablesSound, KeysOwned
      <3>2. \A x, y \in rows' : x.key = y.key => x = y
        BY <2>2, <2>3 DEF Sound, TablesSound, KeysOwned
      <3>3. \A b \in Agents : agents'[b].hash \in Keys => key'[agents'[b].hash] = b
        BY <1>1, <2>2 DEF Sound, TablesSound, KeysOwned
      <3>4. \A b \in Agents, x \in rows' : agents'[b].hash # x.key
        BY <1>1, <2>2, <2>3 DEF Sound, TablesSound, KeysOwned
      <3>5. \A j \in given' : key'[j] \in Agents
        BY <1>3, <2>2, <2>4 DEF Sound, TablesSound, KeysOwned
      <3>6. \A d \in Changes : at'[d] = "registered" => key'[new'[d]] = who'[d]
        BY <1>1, <2>1, <2>2, <2>5 DEF Sound, TablesSound, KeysOwned, Others
      <3>. QED  BY <3>1, <3>2, <3>3, <3>4, <3>5, <3>6 DEF KeysOwned
    <2>8. TokensBounded'
      <3>. SUFFICES ASSUME NEW t \in tokens
                    PROVE  /\ t.by \in given' /\ t.sub = key'[t.by]
                           /\ t.exp <= now' + JwtLife
                           /\ \A x \in rows' : t.by = x.key => t.exp <= Ends(x) + JwtLife
        BY <1>1 DEF TokensBounded
      <3>1. t.by \in given /\ t.sub = key[t.by] /\ t.exp <= now + JwtLife
            /\ \A x \in rows : t.by = x.key => t.exp <= Ends(x) + JwtLife
        BY DEF Sound, TablesSound, TokensBounded
      <3>2. t.exp <= Ends(x0) + JwtLife
        BY <2>3, <2>4, <3>1
      <3>. QED  BY <1>1, <1>3, <2>2, <2>3, <2>4, <3>1, <3>2
    <2>9. RegistrationsAreLogged'
      BY <1>1, <1>3, <2>2 DEF Sound, TablesSound, RegistrationsAreLogged
    <2>. QED  BY <1>1, <2>1, <2>6, <2>7, <2>8, <2>9, ChangeKept DEF TablesSound
  <1>4. who[c] \in Agents
    BY DEF InsertKey, Sound, Typed, ChangeTyped
  <1>. QED  BY <1>2, <1>3, <1>4 DEF InsertKey

LEMMA ExpirySound ==
  ASSUME Sound, Typed', NEW c \in Changes, SetExpiry(c)
  PROVE  Sound'
  <1>1. UNCHANGED <<now, trail, key, given, tokens, cred, who, new, faults, gone, came>> /\ Goto(c, "done")
    BY DEF SetExpiry
  <1>2. Others(c) /\ at'[c] = "done"
    BY <1>1, GotoOthers DEF Sound
  <1>3. PICK t \in now .. MaxTime, readable \in BOOLEAN :
           \/ \E x \in rows : rows' = (rows \ {x}) \cup {[x EXCEPT !.until = t, !.legible = readable]} /\ UNCHANGED agents
           \/ \E a \in Agents : agents' = [agents EXCEPT ![a] = [@ EXCEPT !.until = t, !.legible = readable]] /\ UNCHANGED rows
    BY DEF SetExpiry
  <1>4. /\ now \in Nat /\ t \in Nat /\ now <= t /\ JwtLife \in Nat
        /\ t <= MaxTime
        /\ \A j \in tokens : j.exp \in Nat
    BY DEF Sound, Typed, TablesTyped, JWTs
  <1>5. ASSUME NEW x \in rows, rows' = (rows \ {x}) \cup {[x EXCEPT !.until = t, !.legible = readable]}, UNCHANGED agents
        PROVE  Sound'
    <2>. DEFINE y == [x EXCEPT !.until = t, !.legible = readable]
    <2>1. y.key = x.key /\ y.agent = x.agent /\ Ends(y) \in Nat /\ t <= Ends(y) /\ rows' = (rows \ {x}) \cup {y}
      BY <1>4, <1>5 DEF Sound, Typed, TablesTyped, Rows, Ends, Never
    <2>. HIDE DEF y
    <2>2. Grows
      BY <1>1, <1>4, <1>5, <2>1 DEF Grows
    <2>3. KeysOwned'
      BY <1>1, <1>2, <1>5, <2>1 DEF Sound, TablesSound, KeysOwned, Others
    <2>4. \A j \in tokens : j.exp <= Ends(y) + JwtLife
      BY <1>4, <2>1 DEF Sound, TablesSound, TokensBounded
    <2>5. TokensBounded'
      BY <1>1, <2>1, <2>4 DEF Sound, TablesSound, TokensBounded
    <2>6. RegistrationsAreLogged'
      BY <1>1, <1>5 DEF Sound, TablesSound, RegistrationsAreLogged
    <2>. QED  BY <1>1, <1>2, <2>2, <2>3, <2>5, <2>6, ChangeKept DEF TablesSound
  <1>6. ASSUME NEW a \in Agents, agents' = [agents EXCEPT ![a] = [@ EXCEPT !.until = t, !.legible = readable]], UNCHANGED rows
        PROVE  Sound'
    <2>1. /\ \A b \in Agents : agents'[b].hash = agents[b].hash /\ agents'[b].state = agents[b].state
          /\ \A b \in Agents \ {a} : agents'[b].until = agents[b].until
          /\ agents'[a].until = t
      BY <1>6 DEF Sound, Typed, TablesTyped, AgentsOK
    <2>2. Grows
      BY <1>1, <1>4, <1>6, <2>1 DEF Grows
    <2>3. KeysOwned'
      BY <1>1, <1>2, <1>6, <2>1 DEF Sound, TablesSound, KeysOwned, Others
    <2>4. TokensBounded' /\ RegistrationsAreLogged'
      BY <1>1, <1>6, <2>1 DEF Sound, TablesSound, TokensBounded, RegistrationsAreLogged
    <2>. QED  BY <1>1, <1>2, <2>2, <2>3, <2>4, ChangeKept DEF TablesSound
  <1>. QED  BY <1>3, <1>5, <1>6

LEMMA ChangeStepsSound ==
  ASSUME Sound, NEW c \in Changes, Administer(c)
  PROVE  Sound'
  <1>1. Typed'
    BY ChangeSteps DEF Sound
  <1>. QED  BY <1>1, RegisterSound, RegisteredSound, RevokeSound, QuietChangeSound, InsertSound,
               ExpirySound DEF Administer

LEMMA QuietSound ==
  ASSUME Sound, TimePasses \/ UNCHANGED vars
  PROVE  Sound'
  <1>1. UNCHANGED <<identity, at, cred, who, new, gone, came>> /\ now <= now'
    BY DEF TimePasses, vars, identity, Sound, Typed, TablesTyped
  <1>2. Typed'
    BY QuietTyped DEF Sound
  <1>3. Grows
    BY <1>1 DEF Grows, identity
  <1>4. \A r \in Requests : RequestSound(r)'
    BY <1>1, <1>2, <1>3, RequestKept
  <1>5. /\ now \in Nat /\ now' \in Nat /\ JwtLife \in Nat
        /\ \A t \in tokens : t.exp \in Nat
    BY <1>2 DEF Sound, Typed, TablesTyped, JWTs
  <1>6. TablesSound'
    BY <1>1, <1>5 DEF Sound, TablesSound, KeysOwned, TokensBounded, RegistrationsAreLogged, identity
  <1>. QED  BY <1>2, <1>4, <1>6 DEF Sound

LEMMA NextSound == Sound /\ [Next]_vars => Sound'
  BY RequestStepsSound, ChangeStepsSound, QuietSound DEF Next

LEMMA AlwaysSound == Spec => []Sound
  BY InitSound, NextSound, PTL DEF Spec

-----------------------------------------------------------------------------
\* An agent that was revoked when a request came is not the one it is served
\* for, whatever credential it bears (middleware/auth.rs).
THEOREM RevocationAtOnce == Spec => []RevocationIsImmediate
  <1>1. Sound => RevocationIsImmediate
    BY DEF Sound, RequestSound, RevocationIsImmediate, Served
  <1>. QED  BY <1>1, AlwaysSound, PTL

\* A key acts for the agent it was generated for, and so does a token that was
\* exchanged for it (middleware/auth.rs, exchange_token of routes/token.rs).
THEOREM CredentialsKept == Spec => []CredentialsKeepTheirAgent
  <1>1. Sound => CredentialsKeepTheirAgent
    <2>. SUFFICES ASSUME Sound, NEW r \in Requests, Served(r)
                  PROVE  CASE cred[r].kind = "key" -> who[r] = key[cred[r].key]
                           [] cred[r].kind = "jwt" -> who[r] = key[cred[r].jwt.by]
      BY DEF CredentialsKeepTheirAgent
    <2>1. cred[r].kind = "key" => who[r] = key[cred[r].key]
      BY DEF Sound, RequestSound, Served
    <2>2. cred[r].kind = "jwt" => who[r] = key[cred[r].jwt.by]
      BY CredTypes DEF Sound, RequestSound, Served, TablesSound, TokensBounded
    <2>3. cred[r].kind = "key" \/ cred[r].kind = "jwt"
      BY DEF Sound, Typed, RequestTyped, Served
    <2>. QED  BY <2>1, <2>2, <2>3
  <1>. QED  BY <1>1, AlwaysSound, PTL

\* A key that had expired when the request came serves it with nothing but a
\* token for the first key of an agent (the two lookups of middleware/auth.rs,
\* and try_find_key of routes/token.rs).
THEOREM ExpiryHolds == Spec => []ExpiredKeysAreRefused
  <1>1. Sound => ExpiredKeysAreRefused
    <2>. SUFFICES ASSUME Sound, NEW r \in Requests, Served(r), cred[r].kind = "key",
                         at[r] = "issued" => Additional(cred[r].key)
                  PROVE  came[r] <= ExpiryOf(cred[r].key)
      BY DEF ExpiredKeysAreRefused
    <2>1. OpenRow(r) /\ (at[r] = "admitted" => OpenKey(r))
      BY DEF Sound, RequestSound, Served
    <2>2. came[r] <= Never
      BY DEF Sound, Typed, RequestsOK, Never
    <2>3. CASE \E x \in rows : x.key = cred[r].key
      BY <2>1, <2>3 DEF ExpiryOf, OpenRow
    <2>4. CASE ~\E x \in rows : x.key = cred[r].key
      <3>1. OpenKey(r)
        BY <2>1, <2>4 DEF Served, Additional
      <3>. QED  BY <2>2, <2>4, <3>1 DEF ExpiryOf, OpenKey
    <2>. QED  BY <2>3, <2>4
  <1>. QED  BY <1>1, AlwaysSound, PTL

\* The tokens of a key are good for no longer than a token's life, and the
\* leeway, after the key (create_token and validate_token of middleware/jwt.rs).
THEOREM AccessEnds == Spec => []AccessEndsWithTheKey
  <1>1. Sound => AccessEndsWithTheKey
    <2>. SUFFICES ASSUME Sound, NEW r \in Requests, NEW x \in rows, Served(r), cred[r].kind = "jwt",
                         cred[r].jwt.by = x.key
                  PROVE  came[r] <= Ends(x) + JwtLife + Leeway
      BY DEF AccessEndsWithTheKey
    <2>1. came[r] <= cred[r].jwt.exp + Leeway
      BY DEF Sound, RequestSound, Served, InTime
    <2>2. cred[r].jwt.exp <= Ends(x) + JwtLife
      BY CredTypes DEF Sound, TablesSound, TokensBounded
    <2>3. /\ came[r] \in Nat /\ Ends(x) \in Nat /\ JwtLife \in Nat /\ Leeway \in Nat
          /\ cred[r].jwt.exp \in Nat
      BY CredTypes DEF Sound, Typed, TablesTyped, RequestsOK, Rows, Ends, JWTs, Never
    <2>. QED  BY <2>1, <2>2, <2>3
  <1>. QED  BY <1>1, AlwaysSound, PTL

\* The key of a registration is answered after its audit row only
\* (register_agent of routes/auth.rs).
THEOREM RegistrationsLogged == Spec => []RegistrationsAreLogged
  <1>1. Sound => RegistrationsAreLogged
    BY DEF Sound, TablesSound
  <1>. QED  BY <1>1, AlwaysSound, PTL
=============================================================================
