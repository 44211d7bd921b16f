-------------------------- MODULE GuardedCallsProofs --------------------------
(***************************************************************************)
(* Theorems of GuardedCalls, for any number of calls, agents, keys,        *)
(* batches and faults: the type invariant, the uniqueness of keys, that a  *)
(* retry finds the action of its first attempt, and that nothing runs but  *)
(* under an approval of its own.                                           *)
(*                                                                         *)
(* The inductive invariant follows an action's id on its way: the row a    *)
(* handler works on, the row it answers and the row a call was told of are *)
(* all rows of that call's agent and key; rows only ever gain a verdict.   *)
(***************************************************************************)
EXTENDS GuardedCalls, TLAPS

-----------------------------------------------------------------------------
(* Types.                                                                  *)

\* A batch starts with its first item; one about to insert has an item left.
ItemLeft ==
    \A b \in Batches :
        /\ at[b] = "unsent" => found[b] = 0
        /\ at[b] = "insert" => found[b] < Len(Items[b])

\* Answering and moving on keep the types of a handler.
LEMMA TypeMove ==
    ASSUME ServerTypeOK, NEW q \in Handlers,
           NEW label \in Labels, NEW kind \in {"id", "ids", "verdict", "error"}, NEW i \in Nat,
           Goto(q, label) \/ Answer(q, kind, i)
    PROVE  at' \in [Handlers -> Labels] /\ answer' \in [Handlers -> Answers]
  <1>1. [kind |-> kind, id |-> i] \in Answers /\ "done" \in Labels
    BY DEF Answers, Labels
  <1>2. at \in [Handlers -> Labels] /\ answer \in [Handlers -> Answers]
    BY DEF ServerTypeOK
  <1> QED BY <1>1, <1>2 DEF Goto, Answer

\* A new row has the type of a row.
LEMMA TypeRow ==
    ASSUME NEW a \in Agents, NEW x \in Keys \cup {NoKey}
    PROVE  NewRow(a, x) \in Rows
  BY DEF NewRow, Rows

\* The counter of faults stays a number.
LEMMA TypeFaults == ASSUME ServerTypeOK, Works \/ Fault PROVE faults' \in Nat
  BY DEF ServerTypeOK, Works, Fault

\* The steps of create_action keep the types.
LEMMA TypeServe ==
    ASSUME ServerTypeOK, NEW q \in Requests, Serve(q)
    PROVE  ServerTypeOK'
  <1> USE DEF ServerTypeOK
  <1>q. q \in Handlers
    BY DEF Handlers
  <1>a. q[1] \in Calls /\ AgentOf[q[1]] \in Agents /\ q[2] \in Kinds
    BY SubmissionAssumption DEF Requests
  <1>l. {"unsent", "lookup", "peek", "insert", "audit", "hold", "done"} \subseteq Labels
    BY DEF Labels
  <1>n. DOMAIN actions \subseteq Nat /\ Len(actions) + 1 \in Nat /\ 0 \in Nat
    OBVIOUS
  <1>f. faults' \in Nat
    BY TypeFaults DEF Serve, Lookup, Peek, Insert, RecordCreated, Hold
  <1>1. CASE Lookup(q)
    <2>1. PICK i \in Nat : Goto(q, "peek") \/ Goto(q, "insert") \/ Answer(q, "id", i) \/ Answer(q, "error", i)
      BY <1>1, <1>n DEF Lookup
    <2>2. at' \in [Handlers -> Labels] /\ answer' \in [Handlers -> Answers]
      BY <1>q, <1>l, <2>1, TypeMove
    <2>3. found' \in [Handlers -> Nat]
      BY <1>1, <1>n DEF Lookup
    <2> QED BY <1>1, <1>f, <2>2, <2>3 DEF Lookup
  <1>2. CASE Peek(q)
    <2>1. Answer(q, "verdict", found[q]) \/ Answer(q, "id", found[q])
      BY <1>2 DEF Peek
    <2>2. at' \in [Handlers -> Labels] /\ answer' \in [Handlers -> Answers]
      BY <1>q, <1>l, <2>1, TypeMove
    <2> QED BY <1>2, <1>f, <2>2 DEF Peek
  <1>3. CASE Insert(q)
    <2>1. Goto(q, "audit") \/ Answer(q, "error", 0)
      BY <1>3 DEF Insert
    <2>2. at' \in [Handlers -> Labels] /\ answer' \in [Handlers -> Answers]
      BY <1>q, <1>l, <2>1, TypeMove
    <2>3. actions' \in Seq(Rows)
      <3>1. key[q] \in Keys \cup {NoKey}
        OBVIOUS
      <3>2. NewRow(AgentOf[q[1]], key[q]) \in Rows
        BY <1>a, <3>1, TypeRow
      <3>3. Append(actions, NewRow(AgentOf[q[1]], key[q])) \in Seq(Rows)
        BY <3>2
      <3> QED BY <1>3, <3>3 DEF Insert
    <2>4. found' \in [Handlers -> Nat]
      BY <1>3, <1>n DEF Insert
    <2> QED BY <1>3, <1>f, <2>2, <2>3, <2>4 DEF Insert
  <1>4. CASE RecordCreated(q)
    <2>1. Goto(q, "hold") \/ Answer(q, "id", found[q]) \/ Answer(q, "error", 0)
      BY <1>4 DEF RecordCreated
    <2>2. at' \in [Handlers -> Labels] /\ answer' \in [Handlers -> Answers]
      BY <1>q, <1>l, <2>1, TypeMove
    <2> QED BY <1>4, <1>f, <2>2 DEF RecordCreated
  <1>5. CASE Hold(q)
    <2>1. Answer(q, "verdict", found[q]) \/ Answer(q, "id", found[q])
      BY <1>5 DEF Hold
    <2>2. at' \in [Handlers -> Labels] /\ answer' \in [Handlers -> Answers]
      BY <1>q, <1>l, <2>1, TypeMove
    <2> QED BY <1>5, <1>f, <2>2 DEF Hold
  <1> QED BY <1>1, <1>2, <1>3, <1>4, <1>5 DEF Serve

\* So do the steps of a batch.
LEMMA TypeBatch ==
    ASSUME ServerTypeOK, ItemLeft, NEW b \in Batches, ServeBatch(b)
    PROVE  ServerTypeOK'
  <1> USE DEF ServerTypeOK
  <1>q. b \in Handlers
    BY DEF Handlers
  <1>a. AgentOf[b] \in Agents /\ Items[b] \in Seq(Keys \cup {NoKey})
    BY SubmissionAssumption
  <1>l. {"insert", "audit", "done"} \subseteq Labels
    BY DEF Labels
  <1>f. faults' \in Nat
    BY TypeFaults DEF ServeBatch, ArriveBatch, InsertItem, RecordItem
  <1>1. CASE InsertItem(b)
    <2>1. Goto(b, "audit") \/ Answer(b, "error", 0)
      BY <1>1 DEF InsertItem
    <2>2. at' \in [Handlers -> Labels] /\ answer' \in [Handlers -> Answers]
      BY <1>q, <1>l, <2>1, TypeMove
    <2>3. found[b] + 1 \in 1 .. Len(Items[b])
      BY <1>1, <1>a, <1>q DEF InsertItem, ItemLeft
    <2>4. Items[b][found[b] + 1] \in Keys \cup {NoKey}
      BY <1>a, <2>3
    <2>5. actions' \in Seq(Rows)
      <3>1. NewRow(AgentOf[b], Items[b][found[b] + 1]) \in Rows
        BY <1>a, <2>4, TypeRow
      <3>2. Append(actions, NewRow(AgentOf[b], Items[b][found[b] + 1])) \in Seq(Rows)
        BY <3>1
      <3> QED BY <1>1, <3>2 DEF InsertItem
    <2>6. found' \in [Handlers -> Nat]
      BY <1>1, <1>q DEF InsertItem
    <2> QED BY <1>1, <1>f, <2>2, <2>5, <2>6 DEF InsertItem
  <1>2. CASE ArriveBatch(b) \/ RecordItem(b)
    <2>1. PICK n \in Nat : NextItem(b, n)
      BY <1>2, <1>q DEF ArriveBatch, RecordItem
    <2>2. at' \in [Handlers -> Labels] /\ answer' \in [Handlers -> Answers]
      BY <1>q, <1>l, <2>1, TypeMove DEF NextItem
    <2> QED BY <1>2, <1>f, <2>2 DEF ArriveBatch, RecordItem
  <1> QED BY <1>1, <1>2 DEF ServeBatch

\* And the arrival of a request, a dropped handler and a decision.
LEMMA TypeRest ==
    ASSUME ServerTypeOK,
           \/ \E q \in Requests, x \in Keys \cup {NoKey} : Arrive(q, x)
           \/ \E q \in Handlers : Drop(q)
           \/ \E i \in DOMAIN actions : Decide(i)
    PROVE  ServerTypeOK'
  <1> USE DEF ServerTypeOK
  <1>1. ASSUME NEW q \in Requests, NEW x \in Keys \cup {NoKey}, Arrive(q, x) PROVE ServerTypeOK'
    <2>1. q \in Handlers
      BY DEF Handlers
    <2>2. at' \in [Handlers -> Labels] /\ answer' \in [Handlers -> Answers]
      BY <1>1, <2>1, TypeMove DEF Arrive, Labels
    <2> QED BY <1>1, <2>2 DEF Arrive
  <1>2. ASSUME NEW q \in Handlers, Drop(q) PROVE ServerTypeOK'
    <2>1. at' \in [Handlers -> Labels] /\ answer' \in [Handlers -> Answers]
      BY <1>2, TypeMove DEF Drop, Labels
    <2> QED BY <1>2, <2>1 DEF Drop
  <1>3. ASSUME NEW i \in DOMAIN actions, Decide(i) PROVE ServerTypeOK'
    <2>1. actions' \in Seq(Rows)
      <3>1. PICK d \in Decisions : actions' = [actions EXCEPT ![i].verdict = d]
        BY <1>3 DEF Decide
      <3>2. actions[i] \in Rows
        OBVIOUS
      <3>3. [actions[i] EXCEPT !.verdict = d] \in Rows
        BY <3>2 DEF Rows
      <3> QED BY <3>1, <3>3
    <2> QED BY <1>3, <2>1 DEF Decide
  <1> QED BY <1>1, <1>2, <1>3

-----------------------------------------------------------------------------
(* Rows only grow, and keep their agent and key.                           *)

Grown ==
    \A i \in DOMAIN actions :
        /\ i \in DOMAIN actions'
        /\ actions'[i].agent = actions[i].agent
        /\ actions'[i].key = actions[i].key
        /\ actions[i].verdict # "none" => actions'[i].verdict = actions[i].verdict

\* Appending a row leaves the others where they are.
LEMMA AppendGrows ==
    ASSUME ServerTypeOK, NEW r, actions' = Append(actions, r)
    PROVE  Grown /\ Len(actions') = Len(actions) + 1 /\ actions'[Len(actions) + 1] = r
  BY DEF ServerTypeOK, Grown

\* Deciding an action changes nothing but its verdict, and only the first time.
LEMMA DecideGrows ==
    ASSUME ServerTypeOK, NEW i \in DOMAIN actions, Decide(i)
    PROVE  Grown /\ DOMAIN actions' = DOMAIN actions
  <1>1. actions[i].verdict = "none"
    BY DEF Decide
  <1>2. PICK d \in Decisions : actions' = [actions EXCEPT ![i].verdict = d]
    BY DEF Decide
  <1>3. actions[i] \in Rows
    BY DEF ServerTypeOK
  <1>4. /\ [actions[i] EXCEPT !.verdict = d].agent = actions[i].agent
        /\ [actions[i] EXCEPT !.verdict = d].key = actions[i].key
    BY <1>3 DEF Rows
  <1>5. DOMAIN actions' = DOMAIN actions
    BY <1>2 DEF ServerTypeOK
  <1>6. \A j \in DOMAIN actions : actions'[j] = IF j = i THEN [actions[i] EXCEPT !.verdict = d] ELSE actions[j]
    BY <1>2 DEF ServerTypeOK
  <1> QED BY <1>1, <1>4, <1>5, <1>6 DEF Grown

-----------------------------------------------------------------------------
(* Keys are unique.                                                        *)

\* The index admits no second row of a key.
LEMMA InsertKeepsUnique ==
    ASSUME ServerTypeOK, KeysUnique, NEW a, NEW x, ~Taken(a, x),
           actions' = Append(actions, NewRow(a, x))
    PROVE  KeysUnique'
  <1>1. /\ NewRow(a, x).agent = a
        /\ NewRow(a, x).key = x
    BY DEF NewRow
  <1>2. DOMAIN actions' = DOMAIN actions \cup {Len(actions) + 1}
    BY AppendGrows DEF ServerTypeOK
  <1>3. /\ actions'[Len(actions) + 1].agent = a
        /\ actions'[Len(actions) + 1].key = x
    BY <1>1, AppendGrows
  <1>4. x = NoKey \/ \A i \in DOMAIN actions : actions[i].agent # a \/ actions[i].key # x
    BY DEF Taken
  <1>5. \A i \in DOMAIN actions : actions'[i].agent = actions[i].agent /\ actions'[i].key = actions[i].key
    BY AppendGrows DEF Grown
  <1> QED BY <1>2, <1>3, <1>4, <1>5 DEF KeysUnique

\* No other step touches agents and keys.
LEMMA SameRowsUnique ==
    ASSUME KeysUnique, Grown, DOMAIN actions' = DOMAIN actions
    PROVE  KeysUnique'
  BY DEF KeysUnique, Grown

-----------------------------------------------------------------------------
(* The way of an action's id, from the row to the call.                    *)

\* A row of this agent and key.
Mine(i, agent, k) ==
    /\ i \in DOMAIN actions
    /\ actions[i].agent = agent
    /\ actions[i].key = k

\* A handler that has a row has one of its own.
HandlersOK ==
    \A q \in Requests :
        at[q] \in {"peek", "audit", "hold"} => Mine(found[q], AgentOf[q[1]], key[q])

\* So has an answer; an answer with a verdict names a decided action.
AnswersOK ==
    \A q \in Requests :
        /\ answer[q].kind \in {"id", "verdict"} => Mine(answer[q].id, AgentOf[q[1]], key[q])
        /\ answer[q].kind = "verdict" => actions[answer[q].id].verdict # "none"
        /\ answer[q].kind # "none" => at[q] # "unsent"

\* A request the server works on was posted by a call and carries its key.
KeysOK ==
    \A q \in Requests :
        /\ at[q] # "unsent" => q \in posted /\ key[q] = CallKey(q[1])
        /\ q \in posted => pc[q[1]] # "idle"

\* What a call knows of its action is so.
CallsOK ==
    \A c \in Calls :
        /\ pc[c] \in {"polling", "judge", "forward", "ran", "relayed"} => act[c] # 0
        /\ act[c] # 0 => pc[c] # "idle" /\ Mine(act[c], AgentOf[c], CallKey(c))
        /\ pc[c] \in {"judge", "forward", "ran", "relayed"} =>
              heard[c] # "none" /\ heard[c] = actions[act[c]].verdict

IInv == /\ ServerTypeOK /\ ClientTypeOK /\ ItemLeft /\ KeysUnique
        /\ HandlersOK /\ AnswersOK /\ KeysOK /\ CallsOK

\* A row stays one's own while rows grow.
LEMMA MineStays ==
    ASSUME Grown, NEW i, NEW a, NEW x, Mine(i, a, x)
    PROVE  Mine(i, a, x)'
  BY DEF Grown, Mine

\* Growing rows take nothing from the calls.
LEMMA CallsStay ==
    ASSUME IInv, Grown, UNCHANGED client
    PROVE  CallsOK'
  <1> SUFFICES ASSUME NEW c \in Calls
               PROVE  /\ pc[c] \in {"polling", "judge", "forward", "ran", "relayed"} => act[c] # 0
                      /\ act[c] # 0 => pc[c] # "idle" /\ Mine(act[c], AgentOf[c], CallKey(c))'
                      /\ pc[c] \in {"judge", "forward", "ran", "relayed"} =>
                            heard[c] # "none" /\ heard[c] = actions'[act[c]].verdict
    BY DEF CallsOK, client
  <1>1. CallKey(c)' = CallKey(c)
    BY DEF CallKey, client
  <1>2. act[c] # 0 => Mine(act[c], AgentOf[c], CallKey(c))'
    BY <1>1, MineStays DEF IInv, CallsOK, Mine, client
  <1>3. Grown /\ (act[c] # 0 => act[c] \in DOMAIN actions)
    BY DEF IInv, CallsOK, Mine
  <1> QED BY <1>2, <1>3 DEF IInv, CallsOK, Grown

\* A step of one handler that leaves the others alone.
LEMMA OtherHandlers ==
    ASSUME IInv, Grown, NEW q \in Handlers,
           NEW r \in Requests, r # q,
           at'[r] = at[r], found'[r] = found[r], key'[r] = key[r], answer'[r] = answer[r]
    PROVE  /\ at'[r] \in {"peek", "audit", "hold"} => Mine(found[r], AgentOf[r[1]], key[r])'
           /\ answer'[r].kind \in {"id", "verdict"} => Mine(answer[r].id, AgentOf[r[1]], key[r])'
           /\ answer'[r].kind = "verdict" => actions'[answer'[r].id].verdict # "none"
           /\ answer'[r].kind # "none" => at'[r] # "unsent"
  <1>1. at[r] \in {"peek", "audit", "hold"} => Mine(found[r], AgentOf[r[1]], key[r])'
    BY MineStays DEF IInv, HandlersOK, Mine
  <1>2. answer[r].kind \in {"id", "verdict"} => Mine(answer[r].id, AgentOf[r[1]], key[r])'
    BY MineStays DEF IInv, AnswersOK, Mine
  <1>3. answer[r].kind = "verdict" => answer[r].id \in DOMAIN actions /\ actions[answer[r].id].verdict # "none"
    BY DEF IInv, AnswersOK, Mine
  <1> QED BY <1>1, <1>2, <1>3 DEF IInv, AnswersOK, Grown

\* An unchanged log of rows has grown.
LEMMA StillGrown == ASSUME UNCHANGED actions PROVE Grown
  BY DEF Grown

\* Every step of a request's handler keeps the invariant.
LEMMA StepServe ==
    ASSUME IInv, NEW q \in Requests, Serve(q), UNCHANGED client
    PROVE  IInv'
  <1> DEFINE agent == AgentOf[q[1]]
  <1>t. ServerTypeOK /\ ServerTypeOK'
    BY TypeServe DEF IInv
  <1>q. q \in Handlers /\ q \notin Batches /\ q[2] \in Kinds
    BY SubmissionAssumption DEF Handlers, Requests, Kinds
  <1>k. key' = key
    BY DEF Serve, Lookup, Peek, Insert, RecordCreated, Hold
  <1>g. Grown /\ KeysUnique'
    <2>1. CASE actions' = actions
      BY <2>1, StillGrown, SameRowsUnique DEF IInv
    <2>2. CASE ~Taken(agent, key[q]) /\ actions' = Append(actions, NewRow(agent, key[q]))
      BY <1>t, <2>2, AppendGrows, InsertKeepsUnique DEF IInv
    <2> QED BY <2>1, <2>2 DEF Serve, Lookup, Peek, Insert, RecordCreated, Hold
  <1>o. ASSUME NEW h \in Handlers, h # q
        PROVE  at'[h] = at[h] /\ found'[h] = found[h] /\ answer'[h] = answer[h]
    BY <1>o, <1>q, <1>t DEF ServerTypeOK, Serve, Lookup, Peek, Insert, RecordCreated, Hold, Goto, Answer
  <1>b. ItemLeft'
    BY <1>o, <1>q DEF IInv, ItemLeft, Handlers
  <1>n. at[q] # "unsent"
    BY DEF Serve, Lookup, Peek, Insert, RecordCreated, Hold
  <1>m. /\ at'[q] \in {"peek", "audit", "hold"} => Mine(found[q], agent, key[q])'
        /\ at'[q] # "unsent"
        /\ \/ answer'[q] = answer[q]
           \/ answer'[q].kind = "error"
           \/ answer'[q].kind = "id" /\ Mine(answer[q].id, agent, key[q])'
           \/ /\ answer'[q].kind = "verdict"
              /\ Mine(answer[q].id, agent, key[q])'
              /\ actions'[answer'[q].id].verdict # "none"
    <2>h. at[q] \in {"peek", "audit", "hold"} => Mine(found[q], agent, key[q])
      BY DEF IInv, HandlersOK
    <2>s. ASSUME actions' = actions, NEW i, Mine(i, agent, key[q]), NEW j, j = i
          PROVE  j \in DOMAIN actions' /\ actions'[j].agent = agent /\ actions'[j].key = key'[q]
      BY <1>k, <2>s DEF Mine
    <2>1. CASE Lookup(q)
      <3>1. ASSUME NEW i \in DOMAIN actions, Same(i, agent, key[q]) PROVE Mine(i, agent, key[q])
        BY <3>1 DEF Mine, Same
      <3> QED BY <1>q, <1>t, <1>k, <2>1, <2>s, <3>1 DEF ServerTypeOK, Lookup, Goto, Answer, Mine, Kinds
    <2>2. CASE Peek(q)
      BY <1>q, <1>t, <1>k, <2>h, <2>2 DEF ServerTypeOK, Peek, Goto, Answer, Mine
    <2>3. CASE Insert(q)
      <3>1. CASE actions' = Append(actions, NewRow(agent, key[q])) /\ found' = [found EXCEPT ![q] = Len(actions) + 1] /\ Goto(q, "audit")
        <4>1. Len(actions) + 1 \in DOMAIN actions' /\ actions'[Len(actions) + 1] = NewRow(agent, key[q])
          BY <1>t, <3>1, AppendGrows DEF ServerTypeOK
        <4> QED BY <1>q, <1>t, <1>k, <3>1, <4>1 DEF ServerTypeOK, Goto, Mine, NewRow
      <3>2. CASE Answer(q, "error", 0)
        BY <1>q, <1>t, <3>2 DEF ServerTypeOK, Answer
      <3> QED BY <2>3, <3>1, <3>2 DEF Insert
    <2>4. CASE RecordCreated(q)
      BY <1>q, <1>t, <1>k, <2>h, <2>4 DEF ServerTypeOK, RecordCreated, Goto, Answer, Mine
    <2>5. CASE Hold(q)
      BY <1>q, <1>t, <1>k, <2>h, <2>5 DEF ServerTypeOK, Hold, Answer, Mine
    <2> QED BY <2>1, <2>2, <2>3, <2>4, <2>5 DEF Serve
  <1>a. ASSUME answer'[q] = answer[q]
        PROVE  /\ answer'[q].kind \in {"id", "verdict"} => Mine(answer[q].id, agent, key[q])'
               /\ answer'[q].kind = "verdict" => actions'[answer'[q].id].verdict # "none"
    <2>1. answer[q].kind \in {"id", "verdict"} => Mine(answer[q].id, agent, key[q])
      BY DEF IInv, AnswersOK
    <2>2. answer[q].kind \in {"id", "verdict"} => Mine(answer[q].id, agent, key[q])'
      BY <1>g, <1>k, <1>a, <2>1 DEF Mine, Grown
    <2> QED BY <1>g, <1>a, <2>1, <2>2 DEF IInv, AnswersOK, Grown, Mine
  <1>1. HandlersOK' /\ AnswersOK'
    <2> SUFFICES ASSUME NEW r \in Requests
                 PROVE  /\ at'[r] \in {"peek", "audit", "hold"} => Mine(found[r], AgentOf[r[1]], key[r])'
                        /\ answer'[r].kind \in {"id", "verdict"} => Mine(answer[r].id, AgentOf[r[1]], key[r])'
                        /\ answer'[r].kind = "verdict" => actions'[answer'[r].id].verdict # "none"
                        /\ answer'[r].kind # "none" => at'[r] # "unsent"
      BY DEF HandlersOK, AnswersOK
    <2>1. CASE r = q
      BY <1>m, <1>a, <2>1
    <2>2. CASE r # q
      BY <1>g, <1>k, <1>o, <1>q, <2>2, OtherHandlers DEF Handlers
    <2> QED BY <2>1, <2>2
  <1>2. KeysOK'
    <2>1. CallKey(q[1])' = CallKey(q[1]) /\ \A r \in Requests : CallKey(r[1])' = CallKey(r[1])
      BY DEF CallKey, client
    <2> QED BY <1>k, <1>n, <1>o, <2>1 DEF IInv, KeysOK, client, Handlers
  <1>3. ClientTypeOK'
    BY DEF IInv, ClientTypeOK, client
  <1> QED BY <1>t, <1>g, <1>b, <1>1, <1>2, <1>3, CallsStay DEF IInv

\* A server step that leaves every request's handler where it is, or done with
\* nothing answered, keeps what is known of requests and calls.
LEMMA RequestsStay ==
    ASSUME IInv, Grown, UNCHANGED client, key' = key,
           \A r \in Requests :
              /\ at'[r] \in {at[r], "done"}
              /\ found'[r] = found[r]
              /\ answer'[r] = answer[r]
              /\ at[r] = "unsent" => at'[r] = "unsent"
    PROVE  HandlersOK' /\ AnswersOK' /\ KeysOK' /\ CallsOK' /\ ClientTypeOK'
  <1>1. HandlersOK'
    BY MineStays DEF IInv, HandlersOK, Mine
  <1>2. ASSUME NEW r \in Requests
        PROVE  /\ answer'[r].kind \in {"id", "verdict"} => Mine(answer[r].id, AgentOf[r[1]], key[r])'
               /\ answer'[r].kind = "verdict" => actions'[answer'[r].id].verdict # "none"
               /\ answer'[r].kind # "none" => at'[r] # "unsent"
    <2>1. answer[r].kind \in {"id", "verdict"} => Mine(answer[r].id, AgentOf[r[1]], key[r])'
      BY MineStays DEF IInv, AnswersOK, Mine
    <2>2. answer[r].kind = "verdict" => answer[r].id \in DOMAIN actions /\ actions[answer[r].id].verdict # "none"
      BY DEF IInv, AnswersOK, Mine
    <2> QED BY <2>1, <2>2 DEF IInv, AnswersOK, Grown
  <1>3. AnswersOK'
    BY <1>2 DEF AnswersOK
  <1>4. KeysOK'
    BY DEF IInv, KeysOK, client, CallKey
  <1>5. ClientTypeOK'
    BY DEF IInv, ClientTypeOK, client
  <1> QED BY <1>1, <1>3, <1>4, <1>5, CallsStay

\* Every step of a batch keeps the invariant.
LEMMA StepBatch ==
    ASSUME IInv, NEW b \in Batches, ServeBatch(b), UNCHANGED client
    PROVE  IInv'
  <1>t. ServerTypeOK /\ ServerTypeOK'
    BY TypeBatch DEF IInv
  <1>q. b \in Handlers /\ b \notin Requests
    BY SubmissionAssumption DEF Handlers, Requests, Kinds
  <1>g. Grown /\ KeysUnique'
    <2>1. CASE actions' = actions
      BY <2>1, StillGrown, SameRowsUnique DEF IInv
    <2>2. CASE /\ ~Taken(AgentOf[b], Items[b][found[b] + 1])
               /\ actions' = Append(actions, NewRow(AgentOf[b], Items[b][found[b] + 1]))
      BY <1>t, <2>2, AppendGrows, InsertKeepsUnique DEF IInv
    <2> QED BY <2>1, <2>2 DEF ServeBatch, ArriveBatch, InsertItem, RecordItem
  <1>o. ASSUME NEW h \in Handlers, h # b
        PROVE  at'[h] = at[h] /\ found'[h] = found[h] /\ answer'[h] = answer[h]
    BY <1>o, <1>q, <1>t
       DEF ServerTypeOK, ServeBatch, ArriveBatch, InsertItem, RecordItem, NextItem, Goto, Answer
  <1>b. ItemLeft'
    <2>1. CASE ArriveBatch(b) \/ RecordItem(b)
      <3>0. at[b] = "unsent" => found[b] = 0
        BY DEF IInv, ItemLeft
      <3>1. at'[b] = "insert" => found[b] < Len(Items[b])
        BY <1>q, <1>t, <2>1, <3>0 DEF ServerTypeOK, ArriveBatch, RecordItem, NextItem, Goto, Answer
      <3>2. at'[b] # "unsent"
        BY <1>q, <1>t, <2>1 DEF ServerTypeOK, ArriveBatch, RecordItem, NextItem, Goto, Answer
      <3> QED BY <1>o, <1>q, <2>1, <3>1, <3>2 DEF IInv, ItemLeft, Handlers, ArriveBatch, RecordItem
    <2>2. CASE InsertItem(b)
      <3>1. at'[b] \notin {"unsent", "insert"}
        BY <1>q, <1>t, <2>2 DEF ServerTypeOK, InsertItem, Goto, Answer
      <3> QED BY <1>o, <1>q, <3>1 DEF IInv, ItemLeft, Handlers
    <2> QED BY <2>1, <2>2 DEF ServeBatch
  <1>r. HandlersOK' /\ AnswersOK' /\ KeysOK' /\ CallsOK' /\ ClientTypeOK'
    <2>1. key' = key
      BY DEF ServeBatch, ArriveBatch, InsertItem, RecordItem
    <2> QED BY <1>g, <1>o, <1>q, <2>1, RequestsStay DEF Handlers
  <1> QED BY <1>t, <1>g, <1>b, <1>r DEF IInv

\* A dropped handler answers nothing.
LEMMA StepDrop ==
    ASSUME IInv, NEW q \in Handlers, Drop(q), UNCHANGED client
    PROVE  IInv'
  <1>t. ServerTypeOK /\ ServerTypeOK'
    BY TypeRest DEF IInv
  <1>g. Grown /\ KeysUnique'
    BY StillGrown, SameRowsUnique DEF IInv, Drop
  <1>a. \A h \in Handlers : at'[h] = IF h = q THEN "done" ELSE at[h]
    BY <1>t DEF ServerTypeOK, Drop, Goto
  <1>b. ItemLeft'
    BY <1>a DEF IInv, ItemLeft, Drop, Handlers
  <1>r. HandlersOK' /\ AnswersOK' /\ KeysOK' /\ CallsOK' /\ ClientTypeOK'
    BY <1>a, <1>g, RequestsStay DEF Drop, Goto, Handlers
  <1> QED BY <1>t, <1>g, <1>b, <1>r DEF IInv

\* A decision disturbs nothing that is known already.
LEMMA StepDecide ==
    ASSUME IInv, NEW i \in DOMAIN actions, Decide(i), UNCHANGED client
    PROVE  IInv'
  <1>t. ServerTypeOK /\ ServerTypeOK'
    BY TypeRest DEF IInv
  <1>g. Grown /\ KeysUnique'
    BY <1>t, DecideGrows, SameRowsUnique DEF IInv
  <1>b. ItemLeft'
    BY DEF IInv, ItemLeft, Decide
  <1>r. HandlersOK' /\ AnswersOK' /\ KeysOK' /\ CallsOK' /\ ClientTypeOK'
    BY <1>g, RequestsStay DEF Decide
  <1> QED BY <1>t, <1>g, <1>b, <1>r DEF IInv

\* A request arrives with the key of its call.
LEMMA StepDeliver ==
    ASSUME IInv, NEW q \in Requests, Deliver(q)
    PROVE  IInv'
  <1>c. q[1] \in Calls /\ CallKey(q[1]) \in Keys \cup {NoKey}
    BY SubmissionAssumption DEF Requests, CallKey
  <1>t. ServerTypeOK /\ ServerTypeOK'
    BY <1>c, TypeRest DEF IInv, Deliver
  <1>q. q \in Handlers /\ q \notin Batches
    BY SubmissionAssumption DEF Handlers, Requests, Kinds
  <1>g. Grown /\ KeysUnique'
    BY StillGrown, SameRowsUnique DEF IInv, Deliver, Arrive
  <1>n. /\ at[q] = "unsent" /\ at'[q] \in {"insert", "lookup"} /\ key'[q] = CallKey(q[1])
        /\ q \in posted
    BY <1>q, <1>t DEF ServerTypeOK, Deliver, Arrive, Goto
  <1>o. \A h \in Handlers : h # q => at'[h] = at[h]
    BY <1>t DEF ServerTypeOK, Deliver, Arrive, Goto
  <1>k. \A r \in Requests : r # q => key'[r] = key[r]
    BY <1>t DEF ServerTypeOK, Deliver, Arrive
  <1>u. found' = found /\ answer' = answer /\ UNCHANGED client
    BY DEF Deliver, Arrive, Goto
  <1>b. ItemLeft'
    BY <1>o, <1>q, <1>u DEF IInv, ItemLeft, Handlers
  <1>1. HandlersOK' /\ AnswersOK'
    <2> SUFFICES ASSUME NEW r \in Requests
                 PROVE  /\ at'[r] \in {"peek", "audit", "hold"} => Mine(found[r], AgentOf[r[1]], key[r])'
                        /\ answer'[r].kind \in {"id", "verdict"} => Mine(answer[r].id, AgentOf[r[1]], key[r])'
                        /\ answer'[r].kind = "verdict" => actions'[answer'[r].id].verdict # "none"
                        /\ answer'[r].kind # "none" => at'[r] # "unsent"
      BY DEF HandlersOK, AnswersOK
    <2>1. CASE r = q
      <3>1. answer'[q].kind \notin {"id", "verdict"} /\ answer'[q].kind = "none"
        BY <1>n, <1>u DEF IInv, AnswersOK
      <3> QED BY <1>n, <2>1, <3>1
    <2>2. CASE r # q
      BY <1>g, <1>k, <1>o, <1>q, <1>u, <2>2, OtherHandlers DEF Handlers
    <2> QED BY <2>1, <2>2
  <1>2. KeysOK'
    <2>1. \A r \in Requests : CallKey(r[1])' = CallKey(r[1])
      BY <1>u DEF CallKey, client
    <2> QED BY <1>k, <1>n, <1>o, <1>u, <2>1 DEF IInv, KeysOK, client, Handlers
  <1>3. ClientTypeOK'
    BY <1>u DEF IInv, ClientTypeOK, client
  <1> QED BY <1>t, <1>g, <1>b, <1>u, <1>1, <1>2, <1>3, CallsStay DEF IInv

\* What a client's step has to keep: its own part of CallsOK.
LEMMA StepOfCall ==
    ASSUME IInv, NEW c \in Calls,
           UNCHANGED <<actions, at, key, found, answer>>, faults' \in Nat, ClientTypeOK',
           pc'[c] # "idle",
           style'[c] = style[c] \/ pc[c] = "idle",
           \A d \in Calls : d # c =>
              pc'[d] = pc[d] /\ act'[d] = act[d] /\ heard'[d] = heard[d] /\ style'[d] = style[d],
           posted \subseteq posted',
           \A r \in posted' \ posted : r[1] = c,
           pc'[c] \in {"polling", "judge", "forward", "ran", "relayed"} => act'[c] # 0,
           act'[c] # 0 => Mine(act'[c], AgentOf[c], CallKey(c)'),
           pc'[c] \in {"judge", "forward", "ran", "relayed"} =>
              heard'[c] # "none" /\ heard'[c] = actions[act'[c]].verdict
    PROVE  IInv'
  <1>1. ServerTypeOK' /\ ItemLeft' /\ KeysUnique' /\ HandlersOK' /\ AnswersOK'
    BY DEF IInv, ServerTypeOK, ItemLeft, KeysUnique, HandlersOK, AnswersOK, Mine
  <1>2. ASSUME NEW d \in Calls, d # c PROVE CallKey(d)' = CallKey(d)
    BY <1>2 DEF CallKey
  <1>3. CallKey(c)' = CallKey(c) \/ pc[c] = "idle"
    BY DEF CallKey
  <1>4. KeysOK'
    <2> SUFFICES ASSUME NEW r \in Requests
                 PROVE  /\ at[r] # "unsent" => r \in posted' /\ key[r] = CallKey(r[1])'
                        /\ r \in posted' => pc'[r[1]] # "idle"
      BY DEF KeysOK
    <2>1. r[1] \in Calls
      BY DEF Requests
    <2>2. CASE r[1] = c
      BY <1>3, <2>2 DEF IInv, KeysOK
    <2>3. CASE r[1] # c
      BY <1>2, <2>1, <2>3 DEF IInv, KeysOK
    <2> QED BY <2>2, <2>3
  <1>5. CallsOK'
    <2> SUFFICES ASSUME NEW d \in Calls
                 PROVE  /\ pc'[d] \in {"polling", "judge", "forward", "ran", "relayed"} => act'[d] # 0
                        /\ act'[d] # 0 => pc'[d] # "idle" /\ Mine(act[d], AgentOf[d], CallKey(d))'
                        /\ pc'[d] \in {"judge", "forward", "ran", "relayed"} =>
                              heard'[d] # "none" /\ heard'[d] = actions'[act'[d]].verdict
      BY DEF CallsOK
    <2>1. CASE d = c
      BY <2>1 DEF Mine
    <2>2. CASE d # c
      BY <1>2, <2>2 DEF IInv, CallsOK, Mine
    <2> QED BY <2>1, <2>2
  <1> QED BY <1>1, <1>4, <1>5 DEF IInv

\* A failure posts the second request or ends the call; what the call knows of
\* its action it keeps.
LEMMA Failing ==
    ASSUME ClientTypeOK, NEW c \in Calls, Fail(c)
    PROVE  /\ ClientTypeOK'
           /\ pc'[c] \in {"posted", "failed"}
           /\ style' = style /\ act' = act /\ heard' = heard
           /\ \A d \in Calls : d # c => pc'[d] = pc[d]
           /\ posted \subseteq posted' /\ \A r \in posted' \ posted : r[1] = c
  BY DEF ClientTypeOK, Fail, Post, Move, Requests, Kinds, Ended

\* Learning a verdict.
LEMMA Learning ==
    ASSUME ClientTypeOK, NEW c \in Calls, NEW i \in Nat, Learn(c, i),
           actions[i].verdict \in Decisions
    PROVE  /\ ClientTypeOK'
           /\ pc'[c] = "judge" /\ act'[c] = i /\ heard'[c] = actions[i].verdict
           /\ style' = style /\ posted' = posted
           /\ \A d \in Calls : d # c => pc'[d] = pc[d] /\ act'[d] = act[d] /\ heard'[d] = heard[d]
  BY DEF ClientTypeOK, Learn, Move

\* A row with a verdict has a decision.
LEMMA Decided ==
    ASSUME ServerTypeOK, NEW i \in DOMAIN actions, actions[i].verdict # "none"
    PROVE  actions[i].verdict \in Decisions
  <1>1. actions[i] \in Rows
    BY DEF ServerTypeOK
  <1> QED BY <1>1 DEF Rows

\* Every step of a client keeps the invariant.
LEMMA StepClient ==
    ASSUME IInv, NEW c \in Calls, Call(c) \/ Proceed(c)
    PROVE  IInv'
  <1>t. ServerTypeOK /\ ClientTypeOK
    BY DEF IInv
  <1>k. act[c] # 0 => Mine(act[c], AgentOf[c], CallKey(c))
    BY DEF IInv, CallsOK
  <1>s. style' = style => CallKey(c)' = CallKey(c)
    BY DEF CallKey
  <1>f. ASSUME Fail(c), UNCHANGED <<actions, at, key, found, answer>>, faults' \in Nat PROVE IInv'
    BY <1>f, <1>k, <1>s, <1>t, Failing, StepOfCall
  <1>l. ASSUME NEW i \in Nat, Learn(c, i), i # 0, Mine(i, AgentOf[c], CallKey(c)), actions[i].verdict # "none",
               UNCHANGED <<actions, at, key, found, answer>>, faults' \in Nat
        PROVE  IInv'
    <2>1. actions[i].verdict \in Decisions
      BY <1>l, <1>t, Decided DEF Mine
    <2> QED BY <1>l, <1>s, <1>t, <2>1, Learning, StepOfCall
  <1>1. CASE Call(c)
    <2>1. ClientTypeOK'
      BY <1>1, <1>t, GuardAssumption DEF ClientTypeOK, Call, Post, Move, Requests
    <2>2. pc[c] = "idle" /\ act[c] = 0 /\ act' = act /\ heard' = heard /\ pc'[c] = "posted"
      BY <1>1, <1>t DEF ClientTypeOK, Call, Move, IInv, CallsOK
    <2>3. /\ \A d \in Calls : d # c => pc'[d] = pc[d] /\ style'[d] = style[d]
          /\ posted \subseteq posted' /\ \A r \in posted' \ posted : r[1] = c
      BY <1>1, <1>t DEF ClientTypeOK, Call, Post, Move
    <2>4. UNCHANGED <<actions, at, key, found, answer>> /\ faults' \in Nat
      BY <1>1, <1>t DEF Call, server, ServerTypeOK
    <2> QED BY <2>1, <2>2, <2>3, <2>4, StepOfCall
  <1>2. CASE Receive(c)
    <2> DEFINE q == <<c, mode[c]>>
    <2>1. q \in Requests /\ q[1] = c
      BY <1>t DEF Requests, ClientTypeOK
    <2>2. answer[q].kind \in {"id", "verdict"} =>
             /\ answer[q].id # 0 /\ answer[q].id \in Nat
             /\ Mine(answer[q].id, AgentOf[c], CallKey(c))
      BY <1>t, <2>1 DEF IInv, AnswersOK, KeysOK, Mine, ServerTypeOK
    <2>3. UNCHANGED <<actions, at, key, found, answer>> /\ faults' \in Nat
      BY <1>2, <1>t DEF Receive, server, ServerTypeOK
    <2>4. CASE answer[q].kind = "verdict" /\ Learn(c, answer[q].id)
      <3>1. actions[answer[q].id].verdict # "none"
        BY <2>1, <2>4 DEF IInv, AnswersOK
      <3> QED BY <1>l, <2>2, <2>3, <2>4, <3>1
    <2>5. CASE /\ answer[q].kind = "id"
               /\ act' = [act EXCEPT ![c] = answer[q].id]
               /\ Move(c, "polling")
               /\ UNCHANGED <<style, mode, posted, heard>>
      <3>1. ClientTypeOK' /\ pc'[c] = "polling" /\ act'[c] = answer[q].id
        BY <1>t, <2>2, <2>5 DEF ClientTypeOK, Move
      <3>2. \A d \in Calls : d # c => pc'[d] = pc[d] /\ act'[d] = act[d]
        BY <1>t, <2>5 DEF ClientTypeOK, Move
      <3> QED BY <1>s, <2>2, <2>3, <2>5, <3>1, <3>2, StepOfCall
    <2>6. CASE Fail(c)
      BY <1>f, <2>3, <2>6
    <2> QED BY <1>2, <2>4, <2>5, <2>6 DEF Receive
  <1>3. CASE Poll(c)
    <2>1. act[c] # 0 /\ act[c] \in Nat
      BY <1>3, <1>t DEF IInv, CallsOK, Poll, ClientTypeOK
    <2>2. UNCHANGED <<actions, at, key, found, answer>> /\ faults' \in Nat
      BY <1>3, <1>t DEF Poll, Works, Fault, ServerTypeOK
    <2> QED BY <1>3, <1>f, <1>k, <1>l, <2>1, <2>2 DEF Poll
  <1>4. CASE GiveUp(c)
    BY <1>4, <1>f, <1>t DEF GiveUp, server, ServerTypeOK
  <1>5. CASE Judge(c) \/ Forward(c)
    <2>1. ClientTypeOK'
      BY <1>5, <1>t DEF ClientTypeOK, Judge, Forward, Move, Ended
    <2>2. pc[c] \in {"judge", "forward"} /\ pc'[c] # "idle" /\ act' = act /\ heard' = heard /\ style' = style /\ posted' = posted
      BY <1>5, <1>t DEF ClientTypeOK, Judge, Forward, Move
    <2>3. act[c] # 0 /\ heard[c] # "none" /\ heard[c] = actions[act[c]].verdict
      BY <2>2 DEF IInv, CallsOK
    <2>4. UNCHANGED <<actions, at, key, found, answer>> /\ faults' \in Nat
      BY <1>5, <1>t DEF Judge, Forward, server, ServerTypeOK
    <2>5. \A d \in Calls : d # c => pc'[d] = pc[d]
      BY <1>5, <1>t DEF ClientTypeOK, Judge, Forward, Move
    <2> QED BY <1>k, <1>s, <2>1, <2>2, <2>3, <2>4, <2>5, StepOfCall
  <1> QED BY <1>1, <1>2, <1>3, <1>4, <1>5 DEF Proceed

\* Every step keeps the invariant.
LEMMA StepNext == ASSUME IInv, Next PROVE IInv'
  <1>1. ASSUME NEW c \in Calls, Call(c) \/ Proceed(c) PROVE IInv'
    BY <1>1, StepClient
  <1>2. ASSUME NEW q \in Requests, Deliver(q) PROVE IInv'
    BY <1>2, StepDeliver
  <1>3. ASSUME NEW q \in Requests, Serve(q), UNCHANGED client PROVE IInv'
    BY <1>3, StepServe
  <1>4. ASSUME NEW b \in Batches, ServeBatch(b), UNCHANGED client PROVE IInv'
    BY <1>4, StepBatch
  <1>5. ASSUME NEW q \in Handlers, Drop(q), UNCHANGED client PROVE IInv'
    BY <1>5, StepDrop
  <1>6. ASSUME NEW i \in DOMAIN actions, Decide(i), UNCHANGED client PROVE IInv'
    BY <1>6, StepDecide
  <1> QED BY <1>1, <1>2, <1>3, <1>4, <1>5, <1>6 DEF Next

\* A step that changes nothing keeps it, too.
LEMMA Stutter == ASSUME IInv, UNCHANGED vars PROVE IInv'
  BY DEF IInv, vars, server, client, ServerTypeOK, ClientTypeOK, ItemLeft, KeysUnique,
         HandlersOK, AnswersOK, KeysOK, CallsOK, Mine, CallKey

\* At the start there are no rows, requests or calls.
LEMMA Initially == ASSUME Init PROVE IInv
  <1>1. ServerTypeOK /\ ClientTypeOK
    BY DEF Init, ServerInit, ServerTypeOK, ClientTypeOK, NoAnswer, Labels, Answers, Styles, Kinds
  <1>2. ItemLeft /\ KeysUnique
    BY DEF Init, ServerInit, ItemLeft, KeysUnique, Handlers
  <1>3. HandlersOK /\ AnswersOK /\ KeysOK
    BY DEF Init, ServerInit, HandlersOK, AnswersOK, KeysOK, NoAnswer, Handlers
  <1>4. CallsOK
    BY DEF Init, CallsOK
  <1> QED BY <1>1, <1>2, <1>3, <1>4 DEF IInv

\* The way of an id holds always: requests and calls know rows of their own.
THEOREM Invariant == Spec => []IInv
  BY Initially, StepNext, Stutter, PTL DEF Spec

\* Every variable of the submissions and the calls keeps its type.
THEOREM TypeCorrect == Spec => []TypeOK
  <1>1. IInv => TypeOK
    BY DEF IInv, TypeOK
  <1> QED BY <1>1, Invariant, PTL

\* No agent ever has two actions of one key (the index of migration 008 under
\* create_action and batch_create_actions).
THEOREM OneActionPerKey == Spec => []KeysUnique
  <1>1. IInv => KeysUnique
    BY DEF IInv
  <1> QED BY <1>1, Invariant, PTL

\* An answer to a call names its action; with a key there is only one.
LEMMA StepKeepsAction ==
    ASSUME IInv, Next, NEW c \in Calls, CallKey(c) # NoKey, act[c] # 0
    PROVE  act'[c] = act[c]
  <1>t. ServerTypeOK /\ ClientTypeOK
    BY DEF IInv
  <1>k. Mine(act[c], AgentOf[c], CallKey(c))
    BY DEF IInv, CallsOK
  <1>1. ASSUME NEW d \in Calls, d # c, Call(d) \/ Proceed(d) PROVE act'[c] = act[c]
    BY <1>1, <1>t DEF ClientTypeOK, Call, Proceed, Receive, Poll, GiveUp, Judge, Forward, Learn, Fail
  <1>2. CASE Receive(c)
    <2> DEFINE q == <<c, mode[c]>>
    <2>1. q \in Requests /\ q[1] = c
      BY <1>t DEF Requests, ClientTypeOK
    <2>2. answer[q].kind \in {"id", "verdict"} => Mine(answer[q].id, AgentOf[c], CallKey(c))
      BY <2>1 DEF IInv, AnswersOK, KeysOK
    <2>3. answer[q].kind \in {"id", "verdict"} => answer[q].id = act[c]
      BY <1>k, <2>2 DEF IInv, KeysUnique, Mine
    <2> QED BY <1>2, <1>t, <2>3 DEF Receive, Learn, Fail, ClientTypeOK
  <1>3. CASE Call(c) \/ Poll(c) \/ GiveUp(c) \/ Judge(c) \/ Forward(c)
    BY <1>3, <1>t DEF ClientTypeOK, Call, Poll, GiveUp, Judge, Forward, Learn, Fail
  <1>4. CASE UNCHANGED client
    BY <1>4 DEF client
  <1> QED BY <1>1, <1>2, <1>3, <1>4 DEF Next, Deliver, Proceed

\* A call with a key never hears of a second action, whichever of its requests
\* is answered and in whatever order (Deko.check's fallback).
THEOREM RetriesKeepAction == Spec => RetriesFindTheirAction
  <1>1. ASSUME IInv, [Next]_vars, NEW c \in Calls, CallKey(c) # NoKey /\ act[c] # 0
        PROVE  act'[c] = act[c]
    BY <1>1, StepKeepsAction DEF vars, client
  <1>2. IInv /\ [Next]_vars =>
           [\A c \in Calls : CallKey(c) # NoKey /\ act[c] # 0 => act'[c] = act[c]]_vars
    BY <1>1
  <1> QED BY <1>2, Invariant, PTL DEF Spec, RetriesFindTheirAction

-----------------------------------------------------------------------------
(* Nothing runs but under an approval of its own.                          *)

\* What is past its verdict heard an approval.
PastVerdictOK ==
    \A c \in Calls : pc[c] \in {"forward", "ran", "relayed"} => heard[c] = "approved"

\* With the options the guard knows, only an approval gets a call past Judge.
LEMMA StepPastVerdict ==
    ASSUME OnDenied \in {"raise", "return"}, OnEscalate \in {"raise", "return"},
           IInv, PastVerdictOK, [Next]_vars
    PROVE  PastVerdictOK'
  <1> SUFFICES ASSUME NEW c \in Calls, pc'[c] \in {"forward", "ran", "relayed"}
               PROVE  heard'[c] = "approved"
    BY DEF PastVerdictOK
  <1>t. ClientTypeOK
    BY DEF IInv
  <1>1. ASSUME NEW d \in Calls, d # c, Call(d) \/ Proceed(d)
        PROVE  pc'[c] = pc[c] /\ heard'[c] = heard[c]
    BY <1>1, <1>t DEF ClientTypeOK, Call, Proceed, Receive, Poll, GiveUp, Judge, Forward,
                      Learn, Fail, Move
  <1>2. CASE Call(c) \/ Receive(c) \/ Poll(c) \/ GiveUp(c)
    BY <1>2, <1>t DEF ClientTypeOK, Call, Receive, Poll, GiveUp, Learn, Fail, Move
  <1>3. CASE Judge(c)
    <2>1. heard[c] \in Decisions
      BY <1>3, <1>t DEF IInv, CallsOK, Judge, ClientTypeOK
    <2>2. ~Stops(c) /\ heard' = heard
      BY <1>3, <1>t DEF Judge, Move, ClientTypeOK
    <2> QED BY <2>1, <2>2 DEF Stops, Decisions
  <1>4. CASE Forward(c)
    BY <1>4 DEF PastVerdictOK, Forward
  <1>5. CASE UNCHANGED client
    BY <1>5 DEF PastVerdictOK, client
  <1> QED BY <1>1, <1>2, <1>3, <1>4, <1>5 DEF Next, Deliver, Proceed, PastVerdictOK, vars

\* A guarded tool runs only under an approving verdict on its own action, for
\* every front end, if the guard's options are ones it knows.
THEOREM ApprovedBeforeRun ==
    ASSUME OnDenied \in {"raise", "return"}, OnEscalate \in {"raise", "return"}
    PROVE  Spec => []RunsOnlyApproved
  <1>1. Init => PastVerdictOK
    BY DEF Init, PastVerdictOK
  <1>2. IInv /\ PastVerdictOK /\ [Next]_vars => PastVerdictOK'
    BY StepPastVerdict
  <1>3. IInv /\ PastVerdictOK => RunsOnlyApproved
    <2> SUFFICES ASSUME IInv, PastVerdictOK, NEW c \in Calls, pc[c] \in {"ran", "relayed"}
                 PROVE  /\ act[c] \in DOMAIN actions
                        /\ actions[act[c]] =
                              [agent |-> AgentOf[c], key |-> CallKey(c), verdict |-> "approved"]
      BY DEF RunsOnlyApproved
    <2>1. Mine(act[c], AgentOf[c], CallKey(c)) /\ actions[act[c]].verdict = "approved"
      BY DEF IInv, CallsOK, PastVerdictOK
    <2>2. actions[act[c]] \in Rows
      BY <2>1 DEF IInv, ServerTypeOK, Mine
    <2> QED BY <2>1, <2>2 DEF Mine, Rows
  <1> QED BY <1>1, <1>2, <1>3, Invariant, PTL DEF Spec
=============================================================================
