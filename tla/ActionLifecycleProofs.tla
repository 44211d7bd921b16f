------------------------ MODULE ActionLifecycleProofs ------------------------
(***************************************************************************)
(* Proofs about ActionLifecycle, for any number of actions, processors,    *)
(* admins and forward requests, and any bound on faults and restarts.      *)
(*                                                                         *)
(* TypeOK is not inductive alone: a process that awaits must hold an       *)
(* action and remember a value of the right type when it goes on.  Fits    *)
(* says so for each label, ControlOK for each process.                     *)
(***************************************************************************)
EXTENDS ActionLifecycle, TLAPS

Args == Decisions \cup Statuses \cup {"none"}

JsonTargets == {"approved", "denied", "escalated"}

Resting == {"idle", "select", "next"}

Fits(label, a, x) ==
    /\ label \notin Resting => a \in Actions
    /\ label = "save" => x \in Decisions
    /\ label = "json_write" => x \in JsonTargets

ControlOK ==
    /\ pc \in [Procs -> Labels]
    /\ cur \in [Procs -> Actions \cup {None}]
    /\ arg \in [Procs -> Args]
    /\ \A p \in Procs : Fits(pc[p], cur[p], arg[p])

RowsOK ==
    /\ status \in [Actions -> Statuses \cup {"absent"}]
    /\ scheduled \in SUBSET Actions
    /\ verdicts \in [Actions -> Seq(Decisions)]
    /\ trail \in [Actions -> SUBSET Events]
    /\ batch \in [Workers -> SUBSET Actions]
    /\ overridden \in SUBSET Actions

ForwardOK ==
    /\ attempt \in [Agents -> Nat]
    /\ reply \in [Agents -> Replies]
    /\ relays \in [Actions -> Nat]
    /\ answered \in SUBSET Actions

BoundsOK == calls \in Nat /\ faults \in Nat /\ restarts \in Nat /\ drops \in Nat

DataOK == RowsOK /\ ForwardOK /\ BoundsOK

\* The two halves of the type invariant, and what relates them.
LEMMA TypeSplit == ControlOK /\ DataOK <=> TypeOK /\ \A p \in Procs : Fits(pc[p], cur[p], arg[p])
  BY DEF ControlOK, DataOK, RowsOK, ForwardOK, BoundsOK, TypeOK, Args

-----------------------------------------------------------------------------
(* How the control variables move.                                         *)

\* A process takes up a piece of work.
LEMMA BeginControl ==
  ASSUME ControlOK, NEW p \in Procs, NEW label \in Labels,
         NEW a \in Actions \cup {None}, NEW x \in Args, Fits(label, a, x),
         Begin(p, label, a, x)
  PROVE  ControlOK'
  BY DEF ControlOK, Begin, Fits

\* A process puts its work down.
LEMMA EndControl ==
  ASSUME ControlOK, NEW p \in Procs, NEW label \in {"idle", "next"}, End(p, label)
  PROVE  ControlOK'
  <1>1. label \in Labels /\ "none" \in Args /\ Fits(label, None, "none")
    BY DEF Labels, Args, Fits, Resting
  <1>2. QED
    BY <1>1, BeginControl DEF End

\* A step of the control that keeps the action and what is remembered.
LEMMA GotoControl ==
  ASSUME ControlOK, NEW p \in Procs, NEW label \in Labels,
         Fits(label, cur[p], arg[p]), Goto(p, label)
  PROVE  ControlOK'
  BY DEF ControlOK, Goto, Fits

\* A process goes on with the work it has.
LEMMA GotoBusy ==
  ASSUME ControlOK, NEW p \in Procs, pc[p] \notin Resting,
         NEW label \in Labels \ (Resting \cup {"save", "json_write"}), Goto(p, label)
  PROVE  ControlOK'
  <1>1. Fits(label, cur[p], arg[p])
    BY DEF ControlOK, Fits
  <1>2. QED
    BY <1>1, GotoControl

\* A process goes back to rest.
LEMMA GotoResting ==
  ASSUME ControlOK, NEW p \in Procs, NEW label \in Resting, Goto(p, label)
  PROVE  ControlOK'
  <1>1. label \in Labels /\ Fits(label, cur[p], arg[p])
    BY DEF Fits, Resting, Labels
  <1>2. QED
    BY <1>1, GotoControl

\* After an action a worker rests or takes the next one.
LEMMA NextLabelType == ASSUME NEW B PROVE NextLabel(B) \in {"idle", "next"}
  BY DEF NextLabel

-----------------------------------------------------------------------------
(* The processor.                                                          *)

\* A worker is where its work fits.
LEMMA ProcessControl ==
  ASSUME ControlOK, DataOK, NEW w \in Workers, Process(w)
  PROVE  ControlOK'
  <1>0. w \in Procs
    BY DEF Procs
  <1> USE <1>0, NextLabelType DEF At
  <1>1. CASE Expire(w)
    BY <1>1, GotoResting DEF Expire, Resting
  <1>2. CASE FetchBatch(w)
    BY <1>2, GotoResting DEF FetchBatch, Resting
  <1>3. CASE ReadAction(w)
    <2>1. PICK a \in batch[w] :
             \/ Begin(w, "claim", a, "none")
             \/ Goto(w, NextLabel(batch[w] \ {a}))
             \/ Begin(w, "deny", a, "none")
      BY <1>3 DEF ReadAction
    <2>2. a \in Actions
      BY <2>1 DEF DataOK, RowsOK
    <2>3. /\ {"claim", "deny"} \subseteq Labels /\ "none" \in Args
          /\ Fits("claim", a, "none") /\ Fits("deny", a, "none")
      BY <2>2 DEF Labels, Args, Fits
    <2>4. QED
      BY <2>1, <2>2, <2>3, BeginControl, GotoResting DEF Resting
  <1>4. CASE Claim(w)
    BY <1>4, GotoBusy DEF Claim, Labels, Resting
  <1>5. CASE RecordStarted(w)
    BY <1>5, GotoBusy DEF RecordStarted, Labels, Resting
  <1>6. CASE Evaluate(w)
    <2>1. CASE Goto(w, "deny")
      BY <1>6, <2>1, GotoBusy DEF Evaluate, Labels, Resting
    <2>2. CASE \E d \in Decisions : Begin(w, "save", cur[w], d)
      <3>1. PICK d \in Decisions : Begin(w, "save", cur[w], d)
        BY <2>2
      <3>2. cur[w] \in Actions
        BY <1>6 DEF Evaluate, ControlOK, Fits, Resting
      <3>3. "save" \in Labels /\ d \in Args /\ Fits("save", cur[w], d)
        BY <3>2 DEF Labels, Args, Fits
      <3>4. QED
        BY <3>1, <3>2, <3>3, BeginControl
    <2>3. QED
      BY <1>6, <2>1, <2>2 DEF Evaluate
  <1>7. CASE SaveVerdict(w)
    BY <1>7, GotoBusy, EndControl DEF SaveVerdict, Labels, Resting
  <1>8. CASE Notify(w)
    BY <1>8, GotoBusy, EndControl DEF Notify, Labels, Resting
  <1>9. CASE DenyOnError(w)
    BY <1>9, EndControl DEF DenyOnError, AnswerError
  <1>10. QED
    BY <1>1, <1>2, <1>3, <1>4, <1>5, <1>6, <1>7, <1>8, <1>9 DEF Process

\* A statement counts at most one fault.
LEMMA StatementBounds ==
  ASSUME BoundsOK, Works \/ Fault
  PROVE  BoundsOK'
  BY DEF BoundsOK, Works, Fault, bounds

\* An audit write adds an event of the vocabulary.
LEMMA RecordType ==
  ASSUME trail \in [Actions -> SUBSET Events], NEW a, NEW e \in Events, Record(a, e)
  PROVE  trail' \in [Actions -> SUBSET Events]
  <1>1. CASE a \in Actions
    <2>1. trail[a] \cup {e} \in SUBSET Events
      BY <1>1
    <2>2. QED
      BY <1>1, <2>1 DEF Record
  <1>2. CASE a \notin Actions
    BY <1>2 DEF Record
  <1>3. QED
    BY <1>1, <1>2

\* What the processor writes are rows.
LEMMA ProcessRows ==
  ASSUME ControlOK, RowsOK, NEW w \in Workers, Process(w)
  PROVE  RowsOK'
  <1>0. w \in Procs
    BY DEF Procs
  <1> USE <1>0 DEF RowsOK, workerFrame, SetStatus, At
  <1>1. CASE Expire(w)
    BY <1>1 DEF Expire, Statuses
  <1>2. CASE FetchBatch(w)
    <2>1. batch' = batch \/ \E B \in SUBSET Actions : batch' = [batch EXCEPT ![w] = B]
      BY <1>2 DEF FetchBatch, Batches, Due
    <2>2. QED
      BY <1>2, <2>1 DEF FetchBatch
  <1>3. CASE ReadAction(w)
    <2>1. PICK a \in batch[w] : batch' = [batch EXCEPT ![w] = batch[w] \ {a}]
      BY <1>3 DEF ReadAction
    <2>2. QED
      BY <1>3, <2>1 DEF ReadAction
  <1>4. CASE Claim(w)
    BY <1>4 DEF Claim, Statuses
  <1>5. CASE RecordStarted(w)
    BY <1>5, RecordType DEF RecordStarted, Events
  <1>6. CASE Evaluate(w)
    BY <1>6 DEF Evaluate
  <1>7. CASE SaveVerdict(w)
    <2>1. CASE UNCHANGED <<status, verdicts, trail>>
      BY <1>7, <2>1 DEF SaveVerdict
    <2>2. CASE /\ verdicts' = [verdicts EXCEPT ![cur[w]] = Append(@, arg[w])]
               /\ SetStatus(cur[w], StatusOf(arg[w]))
               /\ Record(cur[w], "verdict_issued")
      <3>1. cur[w] \in Actions /\ arg[w] \in Decisions
        BY <1>7 DEF SaveVerdict, ControlOK, Fits, Resting
      <3>2. StatusOf(arg[w]) \in Statuses
        BY <3>1 DEF StatusOf, Decisions, Statuses
      <3>3. Append(verdicts[cur[w]], arg[w]) \in Seq(Decisions)
        BY <3>1
      <3>4. QED
        BY <1>7, <2>2, <3>1, <3>2, <3>3, RecordType DEF SaveVerdict, Events
    <2>3. QED
      BY <1>7, <2>1, <2>2 DEF SaveVerdict
  <1>8. CASE Notify(w)
    BY <1>8 DEF Notify
  <1>9. CASE DenyOnError(w)
    BY <1>9 DEF DenyOnError, AnswerError, Statuses
  <1>10. QED
    BY <1>1, <1>2, <1>3, <1>4, <1>5, <1>6, <1>7, <1>8, <1>9 DEF Process

\* The processor leaves the forwards and the bounds alone.
LEMMA ProcessRest ==
  ASSUME ForwardOK, BoundsOK, NEW w \in Workers, Process(w)
  PROVE  ForwardOK' /\ BoundsOK'
  <1>1. Works \/ Fault
    BY DEF Process, Expire, FetchBatch, ReadAction, Claim, RecordStarted, Evaluate,
           SaveVerdict, Notify, DenyOnError, AnswerError
  <1>2. UNCHANGED workerFrame
    BY DEF Process, Expire, FetchBatch, ReadAction, Claim, RecordStarted, Evaluate,
           SaveVerdict, Notify, DenyOnError, AnswerError, workerFrame
  <1>3. QED
    BY <1>1, <1>2, StatementBounds DEF workerFrame, target, ForwardOK

-----------------------------------------------------------------------------
(* Admins.                                                                 *)

\* An admin is where the override fits.
LEMMA AdministerControl ==
  ASSUME ControlOK, NEW d \in Admins, Administer(d)
  PROVE  ControlOK'
  <1>0. d \in Procs
    BY DEF Procs
  <1> USE <1>0 DEF At
  <1>1. ASSUME NEW a \in Actions, OverrideForm(d, a) \/ OverrideBulk(d, a)
        PROVE  ControlOK'
    <2>1. /\ {"form_write", "bulk_audit"} \subseteq Labels
          /\ {"approved", "none"} \subseteq Args
          /\ Fits("form_write", a, "approved") /\ Fits("bulk_audit", a, "none")
      BY DEF Labels, Args, Decisions, Fits
    <2>2. QED
      BY <1>1, <2>1, BeginControl DEF OverrideForm, OverrideBulk
  <1>2. ASSUME NEW a \in Actions, NEW s \in JsonTargets, OverrideJson(d, a, s)
        PROVE  ControlOK'
    <2>1. "json_write" \in Labels /\ s \in Args /\ Fits("json_write", a, s)
      BY DEF Labels, Args, JsonTargets, Statuses, Fits
    <2>2. QED
      BY <1>2, <2>1, BeginControl DEF OverrideJson
  <1>3. CASE WriteForm(d) \/ RecordJson(d) \/ RecordBulk(d)
    BY <1>3, EndControl DEF WriteForm, RecordJson, RecordBulk
  <1>4. CASE WriteJson(d)
    BY <1>4, EndControl, GotoBusy DEF WriteJson, Labels, Resting
  <1>5. QED
    BY <1>1, <1>2, <1>3, <1>4 DEF Administer, JsonTargets

\* What an override writes are rows.
LEMMA AdministerRows ==
  ASSUME ControlOK, RowsOK, NEW d \in Admins, Administer(d)
  PROVE  RowsOK'
  <1>0. d \in Procs
    BY DEF Procs
  <1> USE <1>0 DEF RowsOK, adminFrame, SetStatus, At
  <1>1. ASSUME NEW a \in Actions, OverrideForm(d, a)
        PROVE  RowsOK'
    BY <1>1 DEF OverrideForm
  <1>2. ASSUME NEW a \in Actions, OverrideBulk(d, a)
        PROVE  RowsOK'
    BY <1>2 DEF OverrideBulk, Statuses
  <1>3. ASSUME NEW a \in Actions, NEW s, OverrideJson(d, a, s)
        PROVE  RowsOK'
    BY <1>3 DEF OverrideJson
  <1>4. CASE WriteForm(d)
    <2>1. cur[d] \in Actions
      BY <1>4 DEF WriteForm, ControlOK, Fits, Resting
    <2>2. trail' \in [Actions -> SUBSET Events]
      BY <1>4, RecordType DEF WriteForm, Events
    <2>3. status' \in [Actions -> Statuses \cup {"absent"}] /\ overridden' \in SUBSET Actions
      BY <1>4, <2>1 DEF WriteForm, Statuses
    <2>4. QED
      BY <1>4, <2>2, <2>3 DEF WriteForm
  <1>5. CASE WriteJson(d)
    <2>1. cur[d] \in Actions /\ arg[d] \in Statuses
      BY <1>5 DEF WriteJson, ControlOK, Fits, Resting, JsonTargets, Statuses
    <2>2. QED
      BY <1>5, <2>1 DEF WriteJson
  <1>6. CASE RecordJson(d) \/ RecordBulk(d)
    BY <1>6, RecordType DEF RecordJson, RecordBulk, Events
  <1>7. QED
    BY <1>1, <1>2, <1>3, <1>4, <1>5, <1>6 DEF Administer

\* An override leaves the forwards and the bounds alone.
LEMMA AdministerRest ==
  ASSUME ForwardOK, BoundsOK, NEW d \in Admins, Administer(d)
  PROVE  ForwardOK' /\ BoundsOK'
  <1>1. Works \/ Fault
    BY DEF Administer, OverrideForm, OverrideBulk, OverrideJson, WriteForm, WriteJson,
           RecordJson, RecordBulk
  <1>2. UNCHANGED adminFrame
    BY DEF Administer, OverrideForm, OverrideBulk, OverrideJson, WriteForm, WriteJson,
           RecordJson, RecordBulk, adminFrame
  <1>3. QED
    BY <1>1, <1>2, StatementBounds DEF adminFrame, target, ForwardOK

-----------------------------------------------------------------------------
(* Agents forwarding actions.                                              *)

\* An agent is where its forward fits.
LEMMA ForwardControl ==
  ASSUME ControlOK, RowsOK, NEW f \in Agents, Forward(f)
  PROVE  ControlOK'
  <1>0. f \in Procs
    BY DEF Procs
  <1> USE <1>0 DEF At, Finish
  <1>1. ASSUME NEW a \in Actions, ReadForward(f, a)
        PROVE  ControlOK'
    <2>1. "check" \in Labels /\ status[a] \in Args /\ Fits("check", a, status[a])
      BY <1>1 DEF ReadForward, RowsOK, Labels, Args, Fits
    <2>2. QED
      BY <1>1, <2>1, BeginControl DEF ReadForward
  <1>2. CASE CheckVerdict(f)
    BY <1>2, EndControl, GotoBusy DEF CheckVerdict, Labels, Resting
  <1>3. CASE MarkForwarded(f)
    BY <1>3, EndControl, GotoBusy DEF MarkForwarded, Labels, Resting
  <1>4. CASE Relay(f)
    BY <1>4, GotoBusy DEF Relay, Labels, Resting
  <1>5. CASE RecordForwarded(f)
    BY <1>5, EndControl DEF RecordForwarded
  <1>6. CASE Revert(f)
    BY <1>6, GotoBusy DEF Revert, Labels, Resting
  <1>7. CASE RecordFailure(f)
    BY <1>7, EndControl DEF RecordFailure
  <1>8. QED
    BY <1>1, <1>2, <1>3, <1>4, <1>5, <1>6, <1>7 DEF Forward

\* What a forward writes are rows.
LEMMA ForwardRows ==
  ASSUME RowsOK, NEW f \in Agents, Forward(f)
  PROVE  RowsOK'
  <1> USE DEF RowsOK, agentFrame, SetStatus
  <1>1. ASSUME NEW a \in Actions, ReadForward(f, a)
        PROVE  RowsOK'
    BY <1>1 DEF ReadForward
  <1>2. CASE CheckVerdict(f)
    BY <1>2 DEF CheckVerdict
  <1>3. CASE MarkForwarded(f)
    BY <1>3 DEF MarkForwarded, Statuses
  <1>4. CASE Relay(f)
    BY <1>4 DEF Relay
  <1>5. CASE RecordForwarded(f)
    BY <1>5, RecordType DEF RecordForwarded, Events
  <1>6. CASE Revert(f)
    BY <1>6 DEF Revert, Statuses
  <1>7. CASE RecordFailure(f)
    BY <1>7, RecordType DEF RecordFailure, Events
  <1>8. QED
    BY <1>1, <1>2, <1>3, <1>4, <1>5, <1>6, <1>7 DEF Forward

\* A forward ends with a reply.
LEMMA FinishType ==
  ASSUME ForwardOK, NEW f \in Agents, NEW r \in Replies, Finish(f, r)
  PROVE  attempt' \in [Agents -> Nat] /\ reply' \in [Agents -> Replies]
  BY DEF ForwardOK, Finish

\* A refusal is a reply.
LEMMA RefusalType ==
  ASSUME ControlOK, RowsOK, NEW f \in Agents, At(f, "check")
  PROVE  Refusal(f) \in Replies
  <1>1. CASE verdicts[cur[f]] = <<>>
    BY <1>1 DEF Refusal, Replies
  <1>2. CASE verdicts[cur[f]] # <<>>
    <2>1. f \in Procs /\ cur[f] \in Actions
      BY DEF Procs, At, ControlOK, Fits, Resting
    <2>2. verdicts[cur[f]][1] \in Decisions
      BY <1>2, <2>1 DEF RowsOK
    <2>3. QED
      BY <1>2, <2>2 DEF Refusal, Replies, Decisions
  <1>3. QED
    BY <1>1, <1>2

\* Attempts, relays and replies keep their types.
LEMMA ForwardRest ==
  ASSUME ControlOK, RowsOK, ForwardOK, BoundsOK, NEW f \in Agents, Forward(f)
  PROVE  ForwardOK' /\ BoundsOK'
  <1> USE DEF target
  <1>0. {"error", "forwarded", "failed", "none"} \subseteq Replies
    BY DEF Replies
  <1>1. ASSUME NEW a \in Actions, ReadForward(f, a)
        PROVE  ForwardOK' /\ BoundsOK'
    BY <1>0, <1>1 DEF ReadForward, ForwardOK, BoundsOK
  <1>2. CASE CheckVerdict(f)
    BY <1>0, <1>2, FinishType, RefusalType, StatementBounds DEF CheckVerdict, ForwardOK
  <1>3. CASE MarkForwarded(f)
    BY <1>0, <1>3, FinishType, StatementBounds DEF MarkForwarded, ForwardOK
  <1>4. CASE Relay(f)
    <2>1. cur[f] \in Actions
      BY <1>4 DEF Relay, At, Procs, ControlOK, Fits, Resting
    <2>2. relays' \in [Actions -> Nat] /\ answered' \in SUBSET Actions
      <3>1. \E got \in {0, 1} : relays' = [relays EXCEPT ![cur[f]] = @ + got]
        BY <1>4 DEF Relay
      <3>2. answered' \in {answered, answered \cup {cur[f]}}
        BY <1>4 DEF Relay
      <3>3. QED
        BY <2>1, <3>1, <3>2 DEF ForwardOK
    <2>3. attempt' \in [Agents -> Nat] /\ reply' = reply /\ Works
      BY <1>4 DEF Relay, ForwardOK
    <2>4. QED
      BY <2>2, <2>3, StatementBounds DEF ForwardOK
  <1>5. CASE RecordForwarded(f)
    BY <1>0, <1>5, FinishType, StatementBounds DEF RecordForwarded, ForwardOK
  <1>6. CASE Revert(f)
    BY <1>6, StatementBounds DEF Revert, ForwardOK
  <1>7. CASE RecordFailure(f)
    BY <1>0, <1>7, FinishType, StatementBounds DEF RecordFailure, ForwardOK
  <1>8. QED
    BY <1>1, <1>2, <1>3, <1>4, <1>5, <1>6, <1>7 DEF Forward

-----------------------------------------------------------------------------
(* Every step keeps the types.                                             *)

TypeInv == ControlOK /\ DataOK

\* Nothing is stored and nobody is busy at first.
LEMMA InitType == Init => TypeInv
  BY DEF Init, TypeInv, ControlOK, DataOK, RowsOK, ForwardOK, BoundsOK, Labels, Args,
         Replies, Fits, Resting

\* Time and new actions leave the processes alone.
LEMMA SubmitType ==
  ASSUME TypeInv, NEW a \in Actions, Submit(a) \/ ReachDue(a)
  PROVE  TypeInv'
  BY DEF TypeInv, ControlOK, DataOK, RowsOK, ForwardOK, BoundsOK, Submit, ReachDue,
         SetStatus, Statuses, control, target, bounds

\* A dropped connection puts its handler to rest.
LEMMA DropType ==
  ASSUME TypeInv, NEW p \in Admins \cup Agents, Drop(p)
  PROVE  TypeInv'
  <1>1. ControlOK'
    BY EndControl DEF TypeInv, Drop, Procs
  <1>2. DataOK'
    BY DEF TypeInv, DataOK, RowsOK, ForwardOK, BoundsOK, Drop, rows, target
  <1>3. QED
    BY <1>1, <1>2 DEF TypeInv

\* A restart puts every process to rest.
LEMMA RestartType ==
  ASSUME TypeInv, Restart
  PROVE  TypeInv'
  <1>1. ControlOK'
    BY DEF Restart, ControlOK, Fits, Resting, Labels, Args
  <1>2. DataOK'
    BY DEF TypeInv, DataOK, RowsOK, ForwardOK, BoundsOK, Restart, rows, target
  <1>3. QED
    BY <1>1, <1>2 DEF TypeInv

\* Nothing happens to what is unchanged.
LEMMA StutterType ==
  ASSUME TypeInv, UNCHANGED vars
  PROVE  TypeInv'
  BY DEF TypeInv, ControlOK, DataOK, RowsOK, ForwardOK, BoundsOK, vars, rows, control,
         target, bounds

\* Every step keeps the types.
LEMMA NextType == TypeInv /\ [Next]_vars => TypeInv'
  <1> SUFFICES ASSUME TypeInv, [Next]_vars
               PROVE  TypeInv'
    OBVIOUS
  <1>1. ASSUME NEW w \in Workers, Process(w)
        PROVE  TypeInv'
    BY <1>1, ProcessControl, ProcessRows, ProcessRest DEF TypeInv, DataOK
  <1>2. ASSUME NEW d \in Admins, Administer(d)
        PROVE  TypeInv'
    BY <1>2, AdministerControl, AdministerRows, AdministerRest DEF TypeInv, DataOK
  <1>3. ASSUME NEW f \in Agents, Forward(f)
        PROVE  TypeInv'
    BY <1>3, ForwardControl, ForwardRows, ForwardRest DEF TypeInv, DataOK
  <1>4. QED
    BY <1>1, <1>2, <1>3, SubmitType, DropType, RestartType, StutterType DEF Next

\* The type invariant, in the form the other proofs use.
LEMMA TypeInvariant == Spec => []TypeInv
  BY InitType, NextType, PTL DEF Spec

\* Every reachable state of the lifecycle is well typed.
THEOREM TypeCorrect == Spec => []TypeOK
  <1>1. TypeInv => TypeOK
    BY TypeSplit DEF TypeInv
  <1>2. QED
    BY <1>1, TypeInvariant, PTL

-----------------------------------------------------------------------------
(* The lifecycle keeps the promise of Gate.  Verdict rows are only ever    *)
(* appended, so the first one stands; a forward request that has passed    *)
(* the check (Cleared) works on an action whose first verdict approves,    *)
(* whatever has happened to its status since.                              *)

Cleared(p) == pc[p] \in {"mark", "send", "revert"} => FirstVerdict(cur[p]) = "approved"

ClearedInv == \A p \in Procs : Cleared(p)

\* A verdict row is inserted for the worker's action, or none is.
LEMMA VerdictSteps ==
  ASSUME TypeInv, [Next]_vars
  PROVE  \/ verdicts' = verdicts
         \/ /\ relays' = relays
            /\ \E a \in Actions, d \in Decisions :
                  verdicts' = [verdicts EXCEPT ![a] = Append(@, d)]
  <1>1. ASSUME NEW w \in Workers, SaveVerdict(w)
        PROVE  \/ verdicts' = verdicts
               \/ /\ relays' = relays
                  /\ \E a \in Actions, d \in Decisions :
                        verdicts' = [verdicts EXCEPT ![a] = Append(@, d)]
    <2>1. cur[w] \in Actions /\ arg[w] \in Decisions
      BY <1>1 DEF SaveVerdict, At, TypeInv, ControlOK, Fits, Resting, Procs
    <2>2. QED
      BY <1>1, <2>1 DEF SaveVerdict, workerFrame, target
  <1>2. ASSUME NEW w \in Workers, Process(w), ~SaveVerdict(w)
        PROVE  verdicts' = verdicts
    BY <1>2 DEF Process, Expire, FetchBatch, ReadAction, Claim, RecordStarted, Evaluate,
                Notify, DenyOnError, AnswerError
  <1>3. ASSUME NEW d \in Admins, Administer(d)
        PROVE  verdicts' = verdicts
    BY <1>3 DEF Administer, OverrideForm, OverrideBulk, OverrideJson, WriteForm,
                WriteJson, RecordJson, RecordBulk, adminFrame
  <1>4. ASSUME NEW f \in Agents, Forward(f)
        PROVE  verdicts' = verdicts
    BY <1>4 DEF Forward, ReadForward, CheckVerdict, MarkForwarded, Relay,
                RecordForwarded, Revert, RecordFailure, agentFrame
  <1>5. QED
    BY <1>1, <1>2, <1>3, <1>4 DEF Next, Submit, ReachDue, Drop, Restart, vars, rows

\* The first verdict of an action never changes.
LEMMA FirstStands ==
  ASSUME TypeInv, [Next]_vars, NEW a \in Actions, verdicts[a] # <<>>
  PROVE  FirstVerdict(a)' = FirstVerdict(a) /\ verdicts'[a] # <<>>
  <1>1. CASE verdicts' = verdicts
    BY <1>1 DEF FirstVerdict
  <1>2. ASSUME NEW b \in Actions, NEW d \in Decisions,
               verdicts' = [verdicts EXCEPT ![b] = Append(@, d)]
        PROVE  FirstVerdict(a)' = FirstVerdict(a) /\ verdicts'[a] # <<>>
    <2>1. verdicts[a] \in Seq(Decisions) /\ verdicts \in [Actions -> Seq(Decisions)]
      BY DEF TypeInv, DataOK, RowsOK
    <2>2. CASE a = b
      <3>1. verdicts'[a] = Append(verdicts[a], d)
        BY <1>2, <2>1, <2>2
      <3>2. Append(verdicts[a], d) # <<>> /\ Append(verdicts[a], d)[1] = verdicts[a][1]
        BY <2>1
      <3>3. QED
        BY <3>1, <3>2 DEF FirstVerdict
    <2>3. CASE a # b
      BY <1>2, <2>1, <2>3 DEF FirstVerdict
    <2>4. QED
      BY <2>2, <2>3
  <1>3. QED
    BY <1>1, <1>2, VerdictSteps

\* Only the check lets a process reach the relay.
LEMMA ClearedSteps ==
  ASSUME TypeInv, [Next]_vars, NEW p \in Procs, pc'[p] \in {"mark", "send", "revert"}
  PROVE  /\ cur'[p] = cur[p]
         /\ \/ pc[p] \in {"mark", "send", "revert"}
            \/ pc[p] = "check" /\ Refusal(p) = "none" /\ verdicts' = verdicts
  <1> USE DEF At, Goto, Begin, End, Finish, NextLabel
  <1>0. pc \in [Procs -> Labels] /\ cur \in [Procs -> Actions \cup {None}]
    BY DEF TypeInv, ControlOK
  <1>1. ASSUME NEW w \in Workers, Process(w)
        PROVE  cur'[p] = cur[p] /\ pc[p] \in {"mark", "send", "revert"}
    <2>1. w \in Procs
      BY DEF Procs
    <2>2. QED
      BY <1>0, <1>1, <2>1 DEF Process, Expire, FetchBatch, ReadAction, Claim,
         RecordStarted, Evaluate, SaveVerdict, Notify, DenyOnError, AnswerError
  <1>2. ASSUME NEW d \in Admins, Administer(d)
        PROVE  cur'[p] = cur[p] /\ pc[p] \in {"mark", "send", "revert"}
    <2>1. d \in Procs
      BY DEF Procs
    <2>2. QED
      BY <1>0, <1>2, <2>1 DEF Administer, OverrideForm, OverrideBulk, OverrideJson,
         WriteForm, WriteJson, RecordJson, RecordBulk
  <1>3. ASSUME NEW f \in Agents, Forward(f)
        PROVE  /\ cur'[p] = cur[p]
               /\ \/ pc[p] \in {"mark", "send", "revert"}
                  \/ pc[p] = "check" /\ Refusal(p) = "none" /\ verdicts' = verdicts
    <2>1. f \in Procs
      BY DEF Procs
    <2>2. QED
      BY <1>0, <1>3, <2>1 DEF Forward, ReadForward, CheckVerdict, MarkForwarded, Relay,
         RecordForwarded, Revert, RecordFailure, agentFrame
  <1>4. ASSUME NEW q \in Admins \cup Agents, Drop(q)
        PROVE  cur'[p] = cur[p] /\ pc[p] \in {"mark", "send", "revert"}
    <2>1. q \in Procs
      BY DEF Procs
    <2>2. QED
      BY <1>0, <1>4, <2>1 DEF Drop
  <1>5. QED
    BY <1>0, <1>1, <1>2, <1>3, <1>4
       DEF Next, Submit, ReachDue, Restart, vars, control

\* Whoever marks or sends has seen a first verdict that approves, and it stands.
LEMMA ClearedNext == TypeInv /\ ClearedInv /\ [Next]_vars => ClearedInv'
  <1> SUFFICES ASSUME TypeInv, ClearedInv, [Next]_vars, NEW p \in Procs,
                      pc'[p] \in {"mark", "send", "revert"}
               PROVE  FirstVerdict(cur[p])' = "approved"
    BY DEF ClearedInv, Cleared
  <1>1. cur[p] \in Actions /\ cur'[p] = cur[p]
    BY ClearedSteps DEF TypeInv, ControlOK, Fits, Resting
  <1>2. FirstVerdict(cur[p]) = "approved"
    <2>1. CASE pc[p] \in {"mark", "send", "revert"}
      BY <2>1 DEF ClearedInv, Cleared
    <2>2. CASE pc[p] = "check" /\ Refusal(p) = "none"
      <3>1. verdicts[cur[p]] # <<>>
        BY <2>2 DEF Refusal
      <3>2. verdicts[cur[p]][1] \in Decisions
        <4>1. cur[p] \in Actions
          BY <2>2 DEF TypeInv, ControlOK, Fits, Resting
        <4>2. QED
          BY <3>1, <4>1 DEF TypeInv, DataOK, RowsOK
      <3>3. QED
        BY <2>2, <3>1, <3>2 DEF Refusal, FirstVerdict, Decisions
    <2>3. QED
      BY <2>1, <2>2, ClearedSteps
  <1>3. verdicts[cur[p]] # <<>>
    BY <1>2 DEF FirstVerdict
  <1>4. QED
    BY <1>1, <1>2, <1>3, FirstStands DEF FirstVerdict

\* At every mark and send the first verdict approves.
LEMMA ClearedInvariant == Spec => []ClearedInv
  <1>1. Init => ClearedInv
    BY DEF Init, ClearedInv, Cleared
  <1>2. QED
    BY <1>1, ClearedNext, TypeInvariant, PTL DEF Spec

\* What a step sends, it sends for an action that has been approved.
LEMMA RelaySteps ==
  ASSUME TypeInv, ClearedInv, [Next]_vars
  PROVE  \/ relays' = relays
         \/ /\ verdicts' = verdicts
            /\ \E a \in Actions, n \in {0, 1} :
                  /\ FirstVerdict(a) = "approved"
                  /\ relays' = [relays EXCEPT ![a] = @ + n]
  <1>1. ASSUME NEW f \in Agents, Relay(f)
        PROVE  \/ relays' = relays
               \/ /\ verdicts' = verdicts
                  /\ \E a \in Actions, n \in {0, 1} :
                        /\ FirstVerdict(a) = "approved"
                        /\ relays' = [relays EXCEPT ![a] = @ + n]
    <2>1. f \in Procs /\ pc[f] = "send"
      BY <1>1 DEF Procs, Relay, At
    <2>2. cur[f] \in Actions /\ FirstVerdict(cur[f]) = "approved"
      BY <2>1 DEF TypeInv, ControlOK, Fits, Resting, ClearedInv, Cleared
    <2>3. \E n \in {0, 1} : relays' = [relays EXCEPT ![cur[f]] = @ + n]
      BY <1>1 DEF Relay
    <2>4. verdicts' = verdicts
      BY <1>1 DEF Relay, agentFrame
    <2>5. QED
      BY <2>2, <2>3, <2>4
  <1>2. ASSUME NEW f \in Agents, Forward(f), ~Relay(f)
        PROVE  relays' = relays
    BY <1>2 DEF Forward, ReadForward, CheckVerdict, MarkForwarded, RecordForwarded,
                Revert, RecordFailure, target
  <1>3. ASSUME NEW w \in Workers, Process(w)
        PROVE  relays' = relays
    BY <1>3 DEF Process, Expire, FetchBatch, ReadAction, Claim, RecordStarted, Evaluate,
                SaveVerdict, Notify, DenyOnError, AnswerError, workerFrame, target
  <1>4. ASSUME NEW d \in Admins, Administer(d)
        PROVE  relays' = relays
    BY <1>4 DEF Administer, OverrideForm, OverrideBulk, OverrideJson, WriteForm,
                WriteJson, RecordJson, RecordBulk, adminFrame, target
  <1>5. QED
    BY <1>1, <1>2, <1>3, <1>4 DEF Next, Submit, ReachDue, Drop, Restart, vars, target

\* No action is decided or relayed at first.
LEMMA PromiseInit == Init => Promise!Init
  BY DEF Init, Promise!Init, FirstVerdict

\* A step appends a first verdict, relays an approved action, or does neither.
LEMMA PromiseNext ==
  TypeInv /\ ClearedInv /\ [Next]_vars => [Promise!Next]_(Promise!vars)
  <1> SUFFICES ASSUME TypeInv, ClearedInv, [Next]_vars
               PROVE  [Promise!Next]_(Promise!vars)
    OBVIOUS
  <1>1. relays \in [Actions -> Nat] /\ verdicts \in [Actions -> Seq(Decisions)]
    BY DEF TypeInv, DataOK, RowsOK, ForwardOK
  <1>2. CASE relays' = relays /\ verdicts' = verdicts
    BY <1>2 DEF Promise!vars, FirstVerdict
  <1>3. ASSUME relays' = relays, NEW a \in Actions, NEW d \in Decisions,
               verdicts' = [verdicts EXCEPT ![a] = Append(@, d)]
        PROVE  [Promise!Next]_(Promise!vars)
    <2>1. CASE verdicts[a] = <<>>
      <3>1. verdicts'[a] = Append(verdicts[a], d)
        BY <1>1, <1>3
      <3>2. Append(verdicts[a], d) # <<>> /\ Append(verdicts[a], d)[1] = d
        BY <2>1
      <3>3. FirstVerdict(a) = "none" /\ FirstVerdict(a)' = d
        BY <2>1, <3>1, <3>2 DEF FirstVerdict
      <3>4. \A b \in Actions : b # a => FirstVerdict(b)' = FirstVerdict(b)
        BY <1>1, <1>3 DEF FirstVerdict
      <3>5. Promise!Decide(a)
        BY <1>3, <3>3, <3>4 DEF Promise!Decide, Promise!Decisions, Decisions
      <3>6. QED
        BY <3>5 DEF Promise!Next
    <2>2. CASE verdicts[a] # <<>>
      <3>1. FirstVerdict(a)' = FirstVerdict(a)
        BY <2>2, FirstStands
      <3>2. \A b \in Actions : FirstVerdict(b)' = FirstVerdict(b)
        BY <1>1, <1>3, <3>1 DEF FirstVerdict
      <3>3. QED
        BY <1>3, <3>2 DEF Promise!vars
    <2>3. QED
      BY <2>1, <2>2
  <1>4. ASSUME verdicts' = verdicts, NEW a \in Actions, NEW n \in {0, 1},
               FirstVerdict(a) = "approved", relays' = [relays EXCEPT ![a] = @ + n]
        PROVE  [Promise!Next]_(Promise!vars)
    <2>1. \A b \in Actions : FirstVerdict(b)' = FirstVerdict(b)
      BY <1>4 DEF FirstVerdict
    <2>2. CASE n = 0
      <3>1. relays' = relays
        BY <1>1, <1>4, <2>2
      <3>2. QED
        BY <2>1, <3>1 DEF Promise!vars
    <2>3. CASE n = 1
      <3>1. relays'[a] > 0 /\ \A b \in Actions : b # a => relays'[b] = relays[b]
        BY <1>1, <1>4, <2>3
      <3>2. Promise!Release(a)
        BY <1>4, <2>1, <3>1 DEF Promise!Release
      <3>3. QED
        BY <3>2 DEF Promise!Next
    <2>4. QED
      BY <2>2, <2>3
  <1>5. QED
    BY <1>2, <1>3, <1>4, VerdictSteps, RelaySteps

\* Default-deny: for any number of processors, admins and forward requests,
\* and any faults, drops and restarts, the target hears of an action only
\* after an approving first verdict, and that verdict stands.
THEOREM GateRefined == Spec => GateHolds
  BY PromiseInit, PromiseNext, TypeInvariant, ClearedInvariant, PTL
     DEF Spec, GateHolds, Promise!Spec

-----------------------------------------------------------------------------
(* Verdict and audit row commit together, and audit rows are never removed *)
(* so every verdict is on record, and with it every relay.                 *)

RecordedInv == \A a \in Actions : verdicts[a] # <<>> => "verdict_issued" \in trail[a]

RelayedInv == \A a \in Actions : relays[a] > 0 => verdicts[a] # <<>>

\* Audit rows are only added.
LEMMA TrailGrows ==
  ASSUME TypeInv, [Next]_vars, NEW a \in Actions
  PROVE  trail[a] \subseteq trail'[a]
  <1>0. trail \in [Actions -> SUBSET Events]
    BY DEF TypeInv, DataOK, RowsOK
  <1> USE <1>0 DEF Record
  <1>1. ASSUME NEW w \in Workers, Process(w)
        PROVE  trail[a] \subseteq trail'[a]
    BY <1>1 DEF Process, Expire, FetchBatch, ReadAction, Claim, RecordStarted, Evaluate,
                SaveVerdict, Notify, DenyOnError, AnswerError
  <1>2. ASSUME NEW d \in Admins, Administer(d)
        PROVE  trail[a] \subseteq trail'[a]
    BY <1>2 DEF Administer, OverrideForm, OverrideBulk, OverrideJson, WriteForm,
                WriteJson, RecordJson, RecordBulk
  <1>3. ASSUME NEW f \in Agents, Forward(f)
        PROVE  trail[a] \subseteq trail'[a]
    BY <1>3 DEF Forward, ReadForward, CheckVerdict, MarkForwarded, Relay,
                RecordForwarded, Revert, RecordFailure
  <1>4. QED
    BY <1>1, <1>2, <1>3 DEF Next, Submit, ReachDue, Drop, Restart, vars

\* The one step that inserts a verdict sets the status and the audit row too.
LEMMA VerdictCommit ==
  ASSUME TypeInv, [Next]_vars, NEW a \in Actions, verdicts[a] = <<>>, verdicts'[a] # <<>>
  PROVE  /\ "verdict_issued" \in trail'[a]
         /\ status'[a] \in {"approved", "denied", "escalated"}
  <1>0. /\ trail \in [Actions -> SUBSET Events]
        /\ status \in [Actions -> Statuses \cup {"absent"}]
        /\ verdicts \in [Actions -> Seq(Decisions)]
    BY DEF TypeInv, DataOK, RowsOK
  <1>1. PICK w \in Workers : SaveVerdict(w)
    <2>1. ASSUME NEW w \in Workers, Process(w), ~SaveVerdict(w)
          PROVE  verdicts' = verdicts
      BY <2>1 DEF Process, Expire, FetchBatch, ReadAction, Claim, RecordStarted, Evaluate,
                  Notify, DenyOnError, AnswerError
    <2>2. ASSUME NEW d \in Admins, Administer(d)
          PROVE  verdicts' = verdicts
      BY <2>2 DEF Administer, OverrideForm, OverrideBulk, OverrideJson, WriteForm,
                  WriteJson, RecordJson, RecordBulk, adminFrame
    <2>3. ASSUME NEW f \in Agents, Forward(f)
          PROVE  verdicts' = verdicts
      BY <2>3 DEF Forward, ReadForward, CheckVerdict, MarkForwarded, Relay,
                  RecordForwarded, Revert, RecordFailure, agentFrame
    <2>4. QED
      BY <2>1, <2>2, <2>3 DEF Next, Submit, ReachDue, Drop, Restart, vars, rows
  <1>2. cur[w] \in Actions /\ arg[w] \in Decisions
    BY <1>1 DEF SaveVerdict, At, TypeInv, ControlOK, Fits, Resting, Procs
  <1>3. /\ verdicts' = [verdicts EXCEPT ![cur[w]] = Append(@, arg[w])]
        /\ SetStatus(cur[w], StatusOf(arg[w]))
        /\ Record(cur[w], "verdict_issued")
    BY <1>1 DEF SaveVerdict
  <1>4. a = cur[w]
    BY <1>0, <1>2, <1>3
  <1>5. QED
    BY <1>0, <1>2, <1>3, <1>4 DEF SetStatus, StatusOf, Record, Decisions

\* Verdict and audit row are of one transaction, and a relay has its verdict.
LEMMA RecordedNext ==
  TypeInv /\ ClearedInv /\ RecordedInv /\ RelayedInv /\ [Next]_vars
    => RecordedInv' /\ RelayedInv'
  <1> SUFFICES ASSUME TypeInv, ClearedInv, RecordedInv, RelayedInv, [Next]_vars,
                      NEW a \in Actions
               PROVE  /\ verdicts'[a] # <<>> => "verdict_issued" \in trail'[a]
                      /\ relays'[a] > 0 => verdicts'[a] # <<>>
    BY DEF RecordedInv, RelayedInv
  <1>1. verdicts'[a] # <<>> => "verdict_issued" \in trail'[a]
    BY VerdictCommit, TrailGrows DEF RecordedInv
  <1>2. relays'[a] > 0 => verdicts[a] # <<>>
    BY RelaySteps DEF RelayedInv, FirstVerdict, TypeInv, DataOK, ForwardOK
  <1>3. QED
    BY <1>1, <1>2, FirstStands

\* Nothing was relayed whose verdict is not in the audit log.
THEOREM RelaysRecorded == Spec => []RelayIsRecorded
  <1>1. Init => RecordedInv /\ RelayedInv
    BY DEF Init, RecordedInv, RelayedInv
  <1>2. RecordedInv /\ RelayedInv => RelayIsRecorded
    BY DEF RecordedInv, RelayedInv, RelayIsRecorded
  <1>3. QED
    BY <1>1, <1>2, RecordedNext, TypeInvariant, ClearedInvariant, PTL DEF Spec

-----------------------------------------------------------------------------
(* With one processor, an action is decided once.  The claim does not look *)
(* at the status, so what keeps a decided action from being claimed is an  *)
(* argument about the whole system: no statement anywhere sets an action   *)
(* back to pending (NeverPendingAgain), and the only process that decides  *)
(* is the one that read it as pending (Undecided).                         *)

DecidedInv == \A a \in Actions : verdicts[a] # <<>> => status[a] \notin {"absent", "pending"}

Deciding == {"claim", "started", "evaluate", "save"}

Undecided == \A w \in Workers : pc[w] \in Deciding => verdicts[cur[w]] = <<>>

OnceInv == DecidedInv /\ Undecided /\ OneVerdict

\* No statement makes a decided or claimed action pending.
LEMMA NeverPendingAgain ==
  ASSUME TypeInv, [Next]_vars, NEW a \in Actions, status[a] \notin {"absent", "pending"}
  PROVE  status'[a] \notin {"absent", "pending"}
  <1>0. status \in [Actions -> Statuses \cup {"absent"}]
    BY DEF TypeInv, DataOK, RowsOK
  <1> USE <1>0 DEF SetStatus, At
  <1>1. ASSUME NEW w \in Workers, Process(w), ~SaveVerdict(w)
        PROVE  status'[a] \notin {"absent", "pending"}
    BY <1>1 DEF Process, Expire, FetchBatch, ReadAction, Claim, RecordStarted, Evaluate,
                Notify, DenyOnError, AnswerError
  <1>2. ASSUME NEW w \in Workers, SaveVerdict(w)
        PROVE  status'[a] \notin {"absent", "pending"}
    <2>1. arg[w] \in Decisions
      BY <1>2 DEF SaveVerdict, TypeInv, ControlOK, Fits, Procs
    <2>2. QED
      BY <1>2, <2>1 DEF SaveVerdict, StatusOf, Decisions
  <1>3. ASSUME NEW d \in Admins, Administer(d)
        PROVE  status'[a] \notin {"absent", "pending"}
    <2>1. pc[d] = "json_write" => arg[d] \in JsonTargets
      BY DEF TypeInv, ControlOK, Fits, Procs
    <2>2. QED
      BY <1>3, <2>1 DEF Administer, OverrideForm, OverrideBulk, OverrideJson, WriteForm,
                WriteJson, RecordJson, RecordBulk, JsonTargets
  <1>4. ASSUME NEW f \in Agents, Forward(f)
        PROVE  status'[a] \notin {"absent", "pending"}
    BY <1>4 DEF Forward, ReadForward, CheckVerdict, MarkForwarded, Relay,
                RecordForwarded, Revert, RecordFailure
  <1>5. QED
    BY <1>1, <1>2, <1>3, <1>4 DEF Next, Submit, ReachDue, Drop, Restart, vars, rows

\* Which steps leave a deciding worker undisturbed.
LEMMA OthersSteps ==
  ASSUME TypeInv, [Next]_vars, \A w \in Workers : ~Process(w)
  PROVE  /\ verdicts' = verdicts
         /\ \A w \in Workers : pc'[w] \in Deciding => pc'[w] = pc[w] /\ cur'[w] = cur[w]
  <1> USE ConstantsAssumption DEF Goto, Begin, End, Finish, Deciding
  <1>0. pc \in [Procs -> Labels] /\ cur \in [Procs -> Actions \cup {None}]
    BY DEF TypeInv, ControlOK
  <1>1. ASSUME NEW d \in Admins, Administer(d)
        PROVE  verdicts' = verdicts /\ \A w \in Workers : pc'[w] = pc[w] /\ cur'[w] = cur[w]
    <2>1. d \in Procs /\ d \notin Workers
      BY DEF Procs
    <2>2. QED
      BY <1>0, <1>1, <2>1 DEF Procs, Administer, OverrideForm, OverrideBulk, OverrideJson,
         WriteForm, WriteJson, RecordJson, RecordBulk, adminFrame
  <1>2. ASSUME NEW f \in Agents, Forward(f)
        PROVE  verdicts' = verdicts /\ \A w \in Workers : pc'[w] = pc[w] /\ cur'[w] = cur[w]
    <2>1. f \in Procs /\ f \notin Workers
      BY DEF Procs
    <2>2. QED
      BY <1>0, <1>2, <2>1 DEF Procs, Forward, ReadForward, CheckVerdict, MarkForwarded,
         Relay, RecordForwarded, Revert, RecordFailure, agentFrame
  <1>3. ASSUME NEW q \in Admins \cup Agents, Drop(q)
        PROVE  verdicts' = verdicts /\ \A w \in Workers : pc'[w] = pc[w] /\ cur'[w] = cur[w]
    <2>1. q \in Procs /\ q \notin Workers
      BY DEF Procs
    <2>2. QED
      BY <1>0, <1>3, <2>1 DEF Procs, Drop, rows
  <1>4. ASSUME Restart
        PROVE  verdicts' = verdicts /\ \A w \in Workers : pc'[w] \notin Deciding
    BY <1>4 DEF Restart, rows, Procs
  <1>5. QED
    BY <1>1, <1>2, <1>3, <1>4 DEF Next, Submit, ReachDue, vars, rows, control

\* What the worker's own steps do to a deciding worker.
LEMMA DecidingSteps ==
  ASSUME TypeInv, DecidedInv, Undecided, NEW w \in Workers, Process(w)
  PROVE  /\ pc'[w] \in Deciding => verdicts'[cur'[w]] = <<>>
         /\ \/ verdicts' = verdicts
            \/ \E a \in Actions, d \in Decisions :
                  verdicts[a] = <<>> /\ verdicts' = [verdicts EXCEPT ![a] = Append(@, d)]
  <1> USE DEF Goto, Begin, End, Deciding, NextLabel, At
  <1>0. /\ pc \in [Procs -> Labels] /\ cur \in [Procs -> Actions \cup {None}]
        /\ w \in Procs
    BY DEF TypeInv, ControlOK, Procs
  <1>1. CASE ReadAction(w)
    <2>1. batch[w] \subseteq Actions
      BY DEF TypeInv, DataOK, RowsOK
    <2>2. QED
      BY <1>0, <1>1, <2>1 DEF ReadAction, DecidedInv
  <1>2. CASE Claim(w) \/ RecordStarted(w) \/ Evaluate(w)
    BY <1>0, <1>2 DEF Claim, RecordStarted, Evaluate, Undecided
  <1>3. CASE SaveVerdict(w)
    <2>1. cur[w] \in Actions /\ arg[w] \in Decisions
      BY <1>3 DEF SaveVerdict, TypeInv, ControlOK, Fits, Resting, Procs
    <2>2. verdicts[cur[w]] = <<>>
      BY <1>3 DEF SaveVerdict, Undecided
    <2>3. pc'[w] \notin Deciding
      BY <1>0, <1>3 DEF SaveVerdict
    <2>4. QED
      BY <1>3, <2>1, <2>2, <2>3 DEF SaveVerdict
  <1>4. CASE Expire(w) \/ FetchBatch(w) \/ Notify(w) \/ DenyOnError(w)
    BY <1>0, <1>4 DEF Expire, FetchBatch, Notify, DenyOnError, AnswerError
  <1>5. QED
    BY <1>1, <1>2, <1>3, <1>4 DEF Process

\* One processor, as deko runs when it is not replicated.
OneProcessor == \A v, w \in Workers : v = w

\* One processor meets each action once between pending and its verdict.
LEMMA OnceNext ==
  ASSUME OneProcessor
  PROVE  TypeInv /\ OnceInv /\ [Next]_vars => OnceInv'
  <1> SUFFICES ASSUME TypeInv, OnceInv, [Next]_vars
               PROVE  OnceInv'
    OBVIOUS
  <1>0. verdicts \in [Actions -> Seq(Decisions)]
    BY DEF TypeInv, DataOK, RowsOK
  <1>1. DecidedInv'
    BY NeverPendingAgain, VerdictCommit DEF OnceInv, DecidedInv
  <1>2. CASE \A w \in Workers : ~Process(w)
    <2>1. Undecided'
      BY <1>2, OthersSteps DEF OnceInv, Undecided
    <2>2. OneVerdict'
      BY <1>2, OthersSteps DEF OnceInv, OneVerdict
    <2>3. QED
      BY <1>1, <2>1, <2>2 DEF OnceInv
  <1>3. ASSUME NEW w \in Workers, Process(w)
        PROVE  OnceInv'
    <2>1. Undecided'
      <3>1. pc'[w] \in Deciding => verdicts'[cur'[w]] = <<>>
        BY <1>3, DecidingSteps DEF OnceInv
      <3>2. QED
        BY <3>1 DEF OneProcessor, Undecided
    <2>2. OneVerdict'
      <3>1. CASE verdicts' = verdicts
        BY <3>1 DEF OnceInv, OneVerdict
      <3>2. ASSUME NEW a \in Actions, NEW d \in Decisions, verdicts[a] = <<>>,
                   verdicts' = [verdicts EXCEPT ![a] = Append(@, d)]
            PROVE  OneVerdict'
        <4>1. Len(verdicts'[a]) = 1
          <5>1. verdicts'[a] = Append(verdicts[a], d)
            BY <1>0, <3>2
          <5>2. Len(Append(verdicts[a], d)) = Len(verdicts[a]) + 1 /\ Len(verdicts[a]) = 0
            BY <1>0, <3>2
          <5>3. QED
            BY <5>1, <5>2
        <4>2. \A b \in Actions : b # a => verdicts'[b] = verdicts[b]
          BY <1>0, <3>2
        <4>3. ASSUME NEW b \in Actions
              PROVE  Len(verdicts'[b]) <= 1
          <5>1. CASE b = a
            <6> DEFINE n == Len(verdicts'[a])
            <6>1. n <= 1
              <7>1. n = 1
                BY <4>1
              <7> HIDE DEF n
              <7>2. QED
                BY <7>1
            <6>2. QED
              BY <5>1, <6>1
          <5>2. CASE b # a
            <6>1. verdicts'[b] = verdicts[b]
              BY <4>2, <5>2
            <6>2. Len(verdicts[b]) <= 1
              BY DEF OnceInv, OneVerdict
            <6>3. QED
              BY <6>1, <6>2
          <5>3. QED
            BY <5>1, <5>2
        <4>4. QED
          BY <4>3 DEF OneVerdict
      <3>3. QED
        BY <1>3, <3>1, <3>2, DecidingSteps DEF OnceInv
    <2>3. QED
      BY <1>1, <2>1, <2>2 DEF OnceInv
  <1>4. QED
    BY <1>2, <1>3

\* With one processor no action ever gets a second verdict.
THEOREM DecidedOnce ==
  ASSUME OneProcessor
  PROVE  Spec => []OneVerdict
  <1>1. Init => OnceInv
    BY DEF Init, OnceInv, DecidedInv, Undecided, Deciding, OneVerdict, Procs
  <1>2. TypeInv /\ OnceInv /\ [Next]_vars => OnceInv'
    BY OnceNext
  <1>3. OnceInv => OneVerdict
    BY DEF OnceInv
  <1>4. QED
    BY <1>1, <1>2, <1>3, TypeInvariant, PTL DEF Spec

-----------------------------------------------------------------------------
(* What can change a status, and who.                                      *)

\* A status changes to one that needs no cause, by an override, by a verdict
\* of this step, or by a forward request that has passed the check.
LEMMA StatusSteps ==
  ASSUME TypeInv, ClearedInv, [Next]_vars, NEW a \in Actions
  PROVE  \/ status'[a] = status[a]
         \/ status'[a] \in {"pending", "processing", "denied"}
         \/ a \in overridden' /\ status'[a] \in JsonTargets
         \/ \E d \in Decisions :
               /\ status'[a] = StatusOf(d)
               /\ verdicts' = [verdicts EXCEPT ![a] = Append(@, d)]
         \/ status'[a] \in {"forwarded", "forward_failed"} /\ FirstVerdict(a) = "approved"
  <1>0. status \in [Actions -> Statuses \cup {"absent"}]
    BY DEF TypeInv, DataOK, RowsOK
  <1> USE <1>0 DEF SetStatus, At
  <1>1. ASSUME NEW w \in Workers, Process(w), ~SaveVerdict(w)
        PROVE  status'[a] = status[a] \/ status'[a] \in {"pending", "processing", "denied"}
    BY <1>1 DEF Process, Expire, FetchBatch, ReadAction, Claim, RecordStarted, Evaluate,
                Notify, DenyOnError, AnswerError
  <1>2. ASSUME NEW w \in Workers, SaveVerdict(w)
        PROVE  \/ status'[a] = status[a]
               \/ \E d \in Decisions :
                     /\ status'[a] = StatusOf(d)
                     /\ verdicts' = [verdicts EXCEPT ![a] = Append(@, d)]
    <2>1. arg[w] \in Decisions
      BY <1>2 DEF SaveVerdict, TypeInv, ControlOK, Fits, Procs
    <2>2. QED
      BY <1>2, <2>1 DEF SaveVerdict
  <1>3. ASSUME NEW d \in Admins, Administer(d)
        PROVE  status'[a] = status[a] \/ (a \in overridden' /\ status'[a] \in JsonTargets)
    <2>1. pc[d] = "json_write" => arg[d] \in JsonTargets
      BY DEF TypeInv, ControlOK, Fits, Procs
    <2>2. QED
      BY <1>3, <2>1 DEF Administer, OverrideForm, OverrideBulk, OverrideJson, WriteForm,
                WriteJson, RecordJson, RecordBulk, JsonTargets
  <1>4. ASSUME NEW f \in Agents, Forward(f)
        PROVE  \/ status'[a] = status[a]
               \/ status'[a] \in {"forwarded", "forward_failed"} /\ FirstVerdict(a) = "approved"
    <2>1. f \in Procs
      BY DEF Procs
    <2>2. pc[f] \in {"mark", "revert"} => FirstVerdict(cur[f]) = "approved"
      BY <2>1 DEF ClearedInv, Cleared
    <2>3. QED
      BY <1>4, <2>2 DEF Forward, ReadForward, CheckVerdict, MarkForwarded, Relay,
                RecordForwarded, Revert, RecordFailure
  <1>5. QED
    BY <1>1, <1>2, <1>3, <1>4 DEF Process, Next, Submit, ReachDue, Drop, Restart, vars, rows

\* What the history and the bounds count only grows.
LEMMA HistoryGrows ==
  ASSUME TypeInv, [Next]_vars
  PROVE  /\ overridden \subseteq overridden'
         /\ {faults, restarts, faults', restarts'} \subseteq Nat
         /\ faults <= faults' /\ restarts <= restarts'
  <1>0. faults \in Nat /\ restarts \in Nat
    BY DEF TypeInv, DataOK, BoundsOK
  <1> USE <1>0 DEF Works, Fault, bounds
  <1>1. ASSUME NEW w \in Workers, Process(w)
        PROVE  overridden' = overridden /\ faults' \in {faults, faults + 1} /\ restarts' = restarts
    BY <1>1 DEF Process, Expire, FetchBatch, ReadAction, Claim, RecordStarted, Evaluate,
                SaveVerdict, Notify, DenyOnError, AnswerError, workerFrame
  <1>2. ASSUME NEW d \in Admins, Administer(d)
        PROVE  /\ overridden \subseteq overridden'
               /\ faults' \in {faults, faults + 1} /\ restarts' = restarts
    BY <1>2 DEF Administer, OverrideForm, OverrideBulk, OverrideJson, WriteForm,
                WriteJson, RecordJson, RecordBulk
  <1>3. ASSUME NEW f \in Agents, Forward(f)
        PROVE  overridden' = overridden /\ faults' \in {faults, faults + 1} /\ restarts' = restarts
    BY <1>3 DEF Forward, ReadForward, CheckVerdict, MarkForwarded, Relay,
                RecordForwarded, Revert, RecordFailure, agentFrame
  <1>4. /\ overridden \subseteq overridden'
        /\ faults' \in {faults, faults + 1} /\ restarts' \in {restarts, restarts + 1}
    BY <1>1, <1>2, <1>3 DEF Next, Submit, ReachDue, Drop, Restart, vars
  <1>5. QED
    BY <1>4

\* A verdict that approves goes on approving.
LEMMA ApprovalStands ==
  ASSUME TypeInv, [Next]_vars, NEW a \in Actions, NEW i \in DOMAIN verdicts[a],
         verdicts[a][i] = "approved"
  PROVE  i \in DOMAIN verdicts'[a] /\ verdicts'[a][i] = "approved"
  <1>0. verdicts \in [Actions -> Seq(Decisions)] /\ verdicts[a] \in Seq(Decisions)
    BY DEF TypeInv, DataOK, RowsOK
  <1>1. ASSUME NEW b \in Actions, NEW d \in Decisions,
               verdicts' = [verdicts EXCEPT ![b] = Append(@, d)]
        PROVE  i \in DOMAIN verdicts'[a] /\ verdicts'[a][i] = "approved"
    <2>1. CASE a = b
      <3>1. verdicts'[a] = Append(verdicts[a], d)
        BY <1>0, <1>1, <2>1
      <3>2. i \in DOMAIN Append(verdicts[a], d) /\ Append(verdicts[a], d)[i] = verdicts[a][i]
        BY <1>0
      <3>3. QED
        BY <3>1, <3>2
    <2>2. CASE a # b
      BY <1>0, <1>1, <2>2
    <2>3. QED
      BY <2>1, <2>2
  <1>2. QED
    BY <1>1, VerdictSteps

\* An approved action has an approving verdict or was overridden, and one that
\* was forwarded, or failed to be, had the approving verdict first
\* (save_verdict, the three overrides and forward_action).
THEOREM ApprovalsCaused == Spec => []ApprovalHasCause
  <1>1. Init => ApprovalHasCause
    BY DEF Init, ApprovalHasCause
  <1>2. TypeInv /\ ClearedInv /\ ApprovalHasCause /\ [Next]_vars => ApprovalHasCause'
    <2> SUFFICES ASSUME TypeInv, ClearedInv, ApprovalHasCause, [Next]_vars, NEW a \in Actions
                 PROVE  /\ status'[a] = "approved" =>
                              \/ a \in overridden'
                              \/ \E i \in DOMAIN verdicts'[a] : verdicts'[a][i] = "approved"
                        /\ status'[a] \in {"forwarded", "forward_failed"} =>
                              verdicts'[a] # <<>> /\ verdicts'[a][1] = "approved"
      BY DEF ApprovalHasCause
    <2>0. verdicts \in [Actions -> Seq(Decisions)] /\ verdicts[a] \in Seq(Decisions)
      BY DEF TypeInv, DataOK, RowsOK
    <2>1. FirstVerdict(a) = "approved" => verdicts'[a] # <<>> /\ verdicts'[a][1] = "approved"
      BY FirstStands DEF FirstVerdict
    <2>2. CASE status'[a] = status[a]
      <3>1. status[a] = "approved" =>
               a \in overridden \/ \E i \in DOMAIN verdicts[a] : verdicts[a][i] = "approved"
        BY DEF ApprovalHasCause
      <3>2. status[a] \in {"forwarded", "forward_failed"} => FirstVerdict(a) = "approved"
        BY DEF ApprovalHasCause, FirstVerdict
      <3>. QED  BY <2>1, <2>2, <3>1, <3>2, HistoryGrows, ApprovalStands
    <2>3. ASSUME NEW d \in Decisions, status'[a] = StatusOf(d),
                 verdicts' = [verdicts EXCEPT ![a] = Append(@, d)]
          PROVE  /\ status'[a] \notin {"forwarded", "forward_failed"}
                 /\ status'[a] = "approved" =>
                       \E i \in DOMAIN verdicts'[a] : verdicts'[a][i] = "approved"
      <3>1. status'[a] = "approved" => d = "approved"
        BY <2>3 DEF StatusOf
      <3>2. verdicts'[a] = Append(verdicts[a], d)
        BY <2>0, <2>3
      <3>3. /\ Len(verdicts[a]) + 1 \in DOMAIN Append(verdicts[a], d)
            /\ Append(verdicts[a], d)[Len(verdicts[a]) + 1] = d
        BY <2>0
      <3>. QED  BY <2>3, <3>1, <3>2, <3>3 DEF StatusOf, Decisions
    <2>. QED  BY <2>1, <2>2, <2>3, StatusSteps DEF JsonTargets
  <1>. QED  BY <1>1, <1>2, TypeInvariant, ClearedInvariant, PTL DEF Spec

-----------------------------------------------------------------------------
(* An action in processing is held by a worker that will decide it, unless *)
(* the denial that answers an error was lost too.                          *)

Holding == {"started", "evaluate", "save", "deny"}

Held(a) == \E w \in Workers : cur[w] = a /\ pc[w] \in Holding

FaultBefore == \A w \in Workers : pc[w] = "deny" => faults > 0

HeldInv ==
    /\ FaultBefore
    /\ \A a \in Actions : status[a] = "processing" => Held(a) \/ restarts > 0 \/ faults > 1

\* A step of a worker, seen from itself: it turns to the denial with a fault,
\* what it claims it holds, and what it holds it decides or loses.
LEMMA HoldingSteps ==
  ASSUME TypeInv, FaultBefore, NEW w \in Workers, Process(w), NEW a \in Actions
  PROVE  /\ pc'[w] = "deny" => faults' > 0
         /\ status'[a] = "processing" =>
               \/ cur'[w] = a /\ pc'[w] \in Holding
               \/ status[a] = "processing" /\ ~(cur[w] = a /\ pc[w] \in Holding)
               \/ faults' > 1
  <1> USE DEF Goto, Begin, End, Holding, NextLabel, At, SetStatus
  <1>0. /\ pc \in [Procs -> Labels] /\ cur \in [Procs -> Actions \cup {None}]
        /\ status \in [Actions -> Statuses \cup {"absent"}]
        /\ w \in Procs /\ faults \in Nat
        /\ pc[w] = "deny" => faults > 0
    BY DEF TypeInv, ControlOK, DataOK, RowsOK, BoundsOK, Procs, FaultBefore
  <1>1. CASE Expire(w) \/ FetchBatch(w)
    BY <1>0, <1>1 DEF Expire, FetchBatch
  <1>2. CASE ReadAction(w)
    BY <1>0, <1>2 DEF ReadAction, Fault
  <1>3. CASE Claim(w)
    BY <1>0, <1>3 DEF Claim, Fault
  <1>4. CASE RecordStarted(w) \/ Evaluate(w)
    BY <1>0, <1>4 DEF RecordStarted, Evaluate, Fault
  <1>5. CASE SaveVerdict(w)
    <2>1. arg[w] \in Decisions
      BY <1>5 DEF SaveVerdict, TypeInv, ControlOK, Fits, Procs
    <2>2. QED
      BY <1>0, <1>5, <2>1 DEF SaveVerdict, StatusOf, Decisions, Fault
  <1>6. CASE Notify(w)
    BY <1>0, <1>6 DEF Notify, Fault
  <1>7. CASE DenyOnError(w)
    BY <1>0, <1>7 DEF DenyOnError, AnswerError, Fault
  <1>8. QED
    BY <1>1, <1>2, <1>3, <1>4, <1>5, <1>6, <1>7 DEF Process

\* The steps of the others put no action into processing and take none from a
\* worker, but for a restart.
LEMMA OthersHold ==
  ASSUME TypeInv, [Next]_vars, \A w \in Workers : ~Process(w)
  PROVE  \/ restarts' > 0 /\ \A w \in Workers : pc'[w] = "idle"
         \/ /\ \A w \in Workers : pc'[w] = pc[w] /\ cur'[w] = cur[w]
            /\ \A a \in Actions : status'[a] = "processing" => status[a] = "processing"
  <1> USE ConstantsAssumption DEF Goto, Begin, End, Finish, SetStatus, At
  <1>0. /\ pc \in [Procs -> Labels] /\ cur \in [Procs -> Actions \cup {None}]
        /\ status \in [Actions -> Statuses \cup {"absent"}] /\ restarts \in Nat
    BY DEF TypeInv, ControlOK, DataOK, RowsOK, BoundsOK
  <1>1. ASSUME NEW d \in Admins, Administer(d)
        PROVE  /\ \A w \in Workers : pc'[w] = pc[w] /\ cur'[w] = cur[w]
               /\ \A a \in Actions : status'[a] = "processing" => status[a] = "processing"
    <2>1. d \in Procs /\ d \notin Workers /\ (pc[d] = "json_write" => arg[d] \in JsonTargets)
      BY DEF Procs, TypeInv, ControlOK, Fits
    <2>2. QED
      BY <1>0, <1>1, <2>1 DEF Procs, Administer, OverrideForm, OverrideBulk, OverrideJson,
         WriteForm, WriteJson, RecordJson, RecordBulk, JsonTargets
  <1>2. ASSUME NEW f \in Agents, Forward(f)
        PROVE  /\ \A w \in Workers : pc'[w] = pc[w] /\ cur'[w] = cur[w]
               /\ \A a \in Actions : status'[a] = "processing" => status[a] = "processing"
    <2>1. f \in Procs /\ f \notin Workers
      BY DEF Procs
    <2>2. QED
      BY <1>0, <1>2, <2>1 DEF Procs, Forward, ReadForward, CheckVerdict, MarkForwarded,
         Relay, RecordForwarded, Revert, RecordFailure
  <1>3. ASSUME NEW q \in Admins \cup Agents, Drop(q)
        PROVE  status' = status /\ \A w \in Workers : pc'[w] = pc[w] /\ cur'[w] = cur[w]
    <2>1. q \in Procs /\ q \notin Workers
      BY DEF Procs
    <2>2. QED
      BY <1>0, <1>3, <2>1 DEF Procs, Drop, rows
  <1>4. ASSUME Restart
        PROVE  restarts' > 0 /\ \A w \in Workers : pc'[w] = "idle"
    BY <1>0, <1>4 DEF Restart, Procs
  <1>5. ASSUME NEW a \in Actions, Submit(a) \/ ReachDue(a)
        PROVE  /\ \A w \in Workers : pc'[w] = pc[w] /\ cur'[w] = cur[w]
               /\ \A b \in Actions : status'[b] = "processing" => status[b] = "processing"
    BY <1>0, <1>5 DEF Submit, ReachDue, control
  <1>6. QED
    BY <1>1, <1>2, <1>3, <1>4, <1>5 DEF Next, vars, rows, control

\* The steps of a worker leave the other processes alone.
LEMMA WorkerAlone ==
  ASSUME TypeInv, NEW w \in Workers, Process(w), NEW p \in Procs \ {w}
  PROVE  pc'[p] = pc[p] /\ cur'[p] = cur[p]
  <1>0. pc \in [Procs -> Labels] /\ cur \in [Procs -> Actions \cup {None}] /\ w \in Procs
    BY DEF TypeInv, ControlOK, Procs
  <1>1. QED
    BY <1>0 DEF Goto, Begin, End, Process, Expire, FetchBatch, ReadAction, Claim,
         RecordStarted, Evaluate, SaveVerdict, Notify, DenyOnError, AnswerError

LEMMA HeldNext == TypeInv /\ HeldInv /\ [Next]_vars => HeldInv'
  <1> SUFFICES ASSUME TypeInv, HeldInv, [Next]_vars
               PROVE  HeldInv'
    OBVIOUS
  <1>0. /\ {faults, restarts, faults', restarts'} \subseteq Nat
        /\ faults <= faults' /\ restarts <= restarts'
    BY HistoryGrows
  <1>1. CASE \A w \in Workers : ~Process(w)
    <2>1. CASE restarts' > 0 /\ \A w \in Workers : pc'[w] = "idle"
      BY <2>1 DEF HeldInv, FaultBefore
    <2>2. CASE /\ \A w \in Workers : pc'[w] = pc[w] /\ cur'[w] = cur[w]
               /\ \A a \in Actions : status'[a] = "processing" => status[a] = "processing"
      BY <1>0, <2>2 DEF HeldInv, FaultBefore, Held
    <2>. QED  BY <1>1, <2>1, <2>2, OthersHold
  <1>2. ASSUME NEW w \in Workers, Process(w)
        PROVE  HeldInv'
    <2>0. \A v \in Workers \ {w} : pc'[v] = pc[v] /\ cur'[v] = cur[v]
      BY <1>2, WorkerAlone DEF Procs
    <2>1. FaultBefore /\ Actions # {} /\ pc'[w] = "deny" => faults' > 0
      BY <1>2, HoldingSteps
    <2>2. Actions = {} => pc'[w] # "deny"
      BY NextType DEF TypeInv, ControlOK, Fits, Resting, Procs
    <2>3. FaultBefore'
      BY <1>0, <2>0, <2>1, <2>2 DEF HeldInv, FaultBefore
    <2>4. ASSUME NEW a \in Actions, status'[a] = "processing"
          PROVE  Held(a)' \/ restarts' > 0 \/ faults' > 1
      <3>1. CASE cur'[w] = a /\ pc'[w] \in Holding
        BY <3>1 DEF Held
      <3>2. CASE status[a] = "processing" /\ ~(cur[w] = a /\ pc[w] \in Holding)
        <4>1. Held(a) \/ restarts > 0 \/ faults > 1
          BY <3>2 DEF HeldInv
        <4>2. CASE Held(a)
          BY <2>0, <3>2, <4>2 DEF Held
        <4>. QED  BY <1>0, <4>1, <4>2
      <3>. QED  BY <1>2, <2>4, <3>1, <3>2, HoldingSteps DEF HeldInv
    <2>. QED  BY <2>3, <2>4 DEF HeldInv
  <1>. QED  BY <1>1, <1>2

\* No action is left in processing but by a restart or by two faults
\* (process_pending and its denial).
THEOREM ProcessingOwned == Spec => []ProcessingIsOwned
  <1>1. Init => HeldInv
    BY DEF Init, HeldInv, FaultBefore, Procs
  <1>2. HeldInv => ProcessingIsOwned
    BY DEF HeldInv, Held, ProcessingIsOwned
  <1>. QED  BY <1>1, <1>2, HeldNext, TypeInvariant, PTL DEF Spec

-----------------------------------------------------------------------------
(* With one processor, status and verdict agree until an admin steps in.   *)
(* What the worker has fetched and not read has no verdict yet, and what   *)
(* it holds after a verdict was not approved.                              *)

First(v) == IF v = <<>> THEN "none" ELSE v[1]

Fresh == \A w \in Workers :
    /\ \A a \in batch[w] : verdicts[a] = <<>>
    /\ pc[w] \notin Resting => cur[w] \notin batch[w]

Blamed == \A w \in Workers :
    /\ pc[w] = "notify" => verdicts[cur[w]] # <<>>
    /\ pc[w] \in {"notify", "deny"} => First(verdicts[cur[w]]) # "approved"

AgreesInv == OnceInv /\ FaultBefore /\ Fresh /\ Blamed /\ StatusAgreesWithVerdict

\* The verdicts v of an action, its status s, and the number of faults.
Agreement(v, s, n) ==
    v # <<>> =>
        CASE v[1] = "approved" -> s \in {"approved", "forwarded", "forward_failed"}
          [] v[1] = "denied" -> s = "denied"
          [] v[1] = "escalate" -> s = "escalated" \/ (s = "denied" /\ n > 0)

Agrees(a) == Agreement(verdicts[a], status[a], faults)

\* Agreement, without the CASE.
LEMMA AgreementIs ==
  ASSUME NEW v \in Seq(Decisions), NEW s, NEW n
  PROVE  Agreement(v, s, n) <=>
            /\ First(v) = "approved" => s \in {"approved", "forwarded", "forward_failed"}
            /\ First(v) = "denied" => s = "denied"
            /\ First(v) = "escalate" => s = "escalated" \/ (s = "denied" /\ n > 0)
  <1>1. v # <<>> => v[1] \in Decisions
    OBVIOUS
  <1>. QED  BY <1>1 DEF Agreement, First, Decisions

\* What the worker's steps do to what it has fetched and what it holds.
LEMMA FreshSteps ==
  ASSUME TypeInv, AgreesInv, NEW w \in Workers, Process(w)
  PROVE  /\ \A a \in batch'[w] : verdicts'[a] = <<>>
         /\ pc'[w] \notin Resting => cur'[w] \notin batch'[w]
         /\ pc'[w] = "notify" => verdicts'[cur'[w]] # <<>>
         /\ pc'[w] \in {"notify", "deny"} => First(verdicts'[cur'[w]]) # "approved"
  <1> USE DEF Goto, Begin, End, Resting, NextLabel, At
  <1>0. /\ pc \in [Procs -> Labels] /\ cur \in [Procs -> Actions \cup {None}]
        /\ verdicts \in [Actions -> Seq(Decisions)]
        /\ batch \in [Workers -> SUBSET Actions]
        /\ w \in Procs
    BY DEF TypeInv, ControlOK, DataOK, RowsOK, Procs
  <1>1. /\ \A a \in batch[w] : verdicts[a] = <<>>
        /\ pc[w] \notin Resting => cur[w] \notin batch[w]
        /\ pc[w] = "notify" => verdicts[cur[w]] # <<>>
        /\ pc[w] \in {"notify", "deny"} => First(verdicts[cur[w]]) # "approved"
    BY DEF AgreesInv, Fresh, Blamed
  <1>2. CASE Expire(w)
    BY <1>0, <1>1, <1>2 DEF Expire
  <1>3. CASE FetchBatch(w)
    <2>1. \A a \in Due : verdicts[a] = <<>>
      BY DEF Due, AgreesInv, OnceInv, DecidedInv
    <2>2. \A B \in Batches : B \subseteq Due
      BY DEF Batches
    <2>. QED  BY <1>0, <1>1, <1>3, <2>1, <2>2 DEF FetchBatch
  <1>4. CASE ReadAction(w)
    BY <1>0, <1>1, <1>4 DEF ReadAction, First
  <1>5. CASE Claim(w) \/ RecordStarted(w) \/ Evaluate(w)
    BY <1>0, <1>1, <1>5 DEF Claim, RecordStarted, Evaluate, First, AgreesInv, OnceInv, Undecided, Deciding
  <1>6. CASE SaveVerdict(w)
    <2>1. cur[w] \in Actions /\ arg[w] \in Decisions /\ cur[w] \notin batch[w]
      BY <1>1, <1>6 DEF SaveVerdict, TypeInv, ControlOK, Fits, Procs
    <2>2. verdicts[cur[w]] = <<>>
      BY <1>6 DEF SaveVerdict, AgreesInv, OnceInv, Undecided, Deciding
    <2>3. CASE verdicts' = [verdicts EXCEPT ![cur[w]] = Append(@, arg[w])]
      <3>1. verdicts'[cur[w]] = Append(verdicts[cur[w]], arg[w])
        BY <1>0, <2>1, <2>3
      <3>2. Append(verdicts[cur[w]], arg[w]) # <<>> /\ Append(verdicts[cur[w]], arg[w])[1] = arg[w]
        BY <1>0, <2>1, <2>2
      <3>3. verdicts'[cur[w]] # <<>> /\ First(verdicts'[cur[w]]) = arg[w]
        BY <3>1, <3>2 DEF First
      <3>4. \A a \in batch[w] : verdicts'[a] = <<>>
        BY <1>0, <1>1, <2>1, <2>3
      <3>5. /\ batch' = batch /\ pc'[w] \in {"idle", "next", "notify", "deny"}
            /\ \/ pc'[w] \in {"idle", "next"}
               \/ arg[w] # "approved" /\ pc'[w] = "notify" /\ cur'[w] = cur[w]
               \/ verdicts' = verdicts
        BY <1>0, <1>6 DEF SaveVerdict
      <3>6. verdicts' # verdicts
        BY <2>2, <3>3
      <3>7. CASE pc'[w] \in {"idle", "next"}
        BY <3>4, <3>5, <3>7
      <3>8. CASE arg[w] # "approved" /\ pc'[w] = "notify" /\ cur'[w] = cur[w]
        BY <2>1, <3>3, <3>4, <3>5, <3>8
      <3>. QED  BY <3>5, <3>6, <3>7, <3>8
    <2>4. CASE verdicts' = verdicts /\ Goto(w, "deny")
      <3>1. batch' = batch
        BY <1>6 DEF SaveVerdict
      <3>. QED  BY <1>0, <1>1, <1>6, <2>1, <2>2, <2>4, <3>1 DEF First
    <2>. QED  BY <1>6, <2>3, <2>4 DEF SaveVerdict
  <1>7. CASE Notify(w)
    BY <1>0, <1>1, <1>7 DEF Notify, First
  <1>8. CASE DenyOnError(w)
    BY <1>0, <1>1, <1>8 DEF DenyOnError, AnswerError, First
  <1>. QED  BY <1>2, <1>3, <1>4, <1>5, <1>6, <1>7, <1>8 DEF Process

\* A step of a worker keeps status and verdict in agreement.
LEMMA WorkerAgrees ==
  ASSUME TypeInv, AgreesInv, [Next]_vars, NEW w \in Workers, Process(w), NEW a \in Actions, Agrees(a)
  PROVE  Agrees(a)'
  <1> USE DEF SetStatus, At
  <1>0. /\ status \in [Actions -> Statuses \cup {"absent"}]
        /\ verdicts \in [Actions -> Seq(Decisions)]
        /\ {faults, faults'} \subseteq Nat /\ faults <= faults'
    BY HistoryGrows DEF TypeInv, DataOK, RowsOK
  <1>2. CASE status'[a] = status[a] /\ verdicts' = verdicts
    BY <1>0, <1>2, AgreementIs DEF Agrees
  <1>3. CASE Expire(w)
    <2>1. verdicts' = verdicts /\ (status'[a] # status[a] => status[a] = "pending")
      BY <1>0, <1>3 DEF Expire
    <2>2. status[a] = "pending" => verdicts[a] = <<>>
      BY DEF AgreesInv, OnceInv, DecidedInv
    <2>. QED  BY <1>2, <2>1, <2>2 DEF Agrees, Agreement
  <1>4. CASE Claim(w)
    <2>1. verdicts' = verdicts /\ (status'[a] # status[a] => a = cur[w])
      BY <1>0, <1>4 DEF Claim
    <2>2. verdicts[cur[w]] = <<>>
      BY <1>4 DEF Claim, AgreesInv, OnceInv, Undecided, Deciding
    <2>. QED  BY <1>2, <2>1, <2>2 DEF Agrees, Agreement
  <1>5. CASE SaveVerdict(w)
    <2>1. cur[w] \in Actions /\ arg[w] \in Decisions
      BY <1>5 DEF SaveVerdict, TypeInv, ControlOK, Fits, Resting, Procs
    <2>2. verdicts[cur[w]] = <<>>
      BY <1>5 DEF SaveVerdict, AgreesInv, OnceInv, Undecided, Deciding
    <2>3. CASE UNCHANGED <<status, verdicts>>
      BY <1>2, <2>3
    <2>4. CASE /\ verdicts' = [verdicts EXCEPT ![cur[w]] = Append(@, arg[w])]
               /\ SetStatus(cur[w], StatusOf(arg[w]))
      <3>1. CASE a # cur[w]
        <4>1. status'[a] = status[a] /\ verdicts'[a] = verdicts[a]
          BY <1>0, <2>1, <2>4, <3>1
        <4>. QED  BY <1>0, <4>1, AgreementIs DEF Agrees
      <3>2. CASE a = cur[w]
        <4>1. verdicts'[a] = Append(verdicts[a], arg[w]) /\ status'[a] = StatusOf(arg[w])
          BY <1>0, <2>1, <2>4, <3>2
        <4>2. Append(verdicts[a], arg[w]) # <<>> /\ Append(verdicts[a], arg[w])[1] = arg[w]
          BY <1>0, <2>1, <2>2, <3>2
        <4>3. First(verdicts'[a]) = arg[w] /\ verdicts'[a] \in Seq(Decisions)
          BY <1>0, <2>1, <4>1, <4>2 DEF First
        <4>. QED  BY <2>1, <4>1, <4>3, AgreementIs DEF Agrees, StatusOf, Decisions
      <3>. QED  BY <3>1, <3>2
    <2>. QED  BY <1>5, <2>3, <2>4 DEF SaveVerdict
  <1>6. CASE DenyOnError(w)
    <2>1. verdicts' = verdicts /\ (status'[a] # status[a] => a = cur[w] /\ status'[a] = "denied")
      BY <1>0, <1>6 DEF DenyOnError, AnswerError
    <2>2. First(verdicts[cur[w]]) # "approved" /\ faults > 0
      BY <1>6 DEF DenyOnError, AnswerError, AgreesInv, Blamed, FaultBefore
    <2>. QED  BY <1>0, <1>2, <2>1, <2>2, AgreementIs DEF Agrees
  <1>7. CASE FetchBatch(w) \/ ReadAction(w) \/ RecordStarted(w) \/ Evaluate(w) \/ Notify(w)
    BY <1>2, <1>7 DEF FetchBatch, ReadAction, RecordStarted, Evaluate, Notify
  <1>. QED  BY <1>3, <1>4, <1>5, <1>6, <1>7 DEF Process

\* So does one of the others, unless it overrides.
LEMMA OthersAgree ==
  ASSUME TypeInv, ClearedInv, AgreesInv, [Next]_vars, \A w \in Workers : ~Process(w),
         NEW a \in Actions \ overridden', Agrees(a)
  PROVE  Agrees(a)'
  <1>0. /\ {faults, faults'} \subseteq Nat /\ faults <= faults'
        /\ status \in [Actions -> Statuses \cup {"absent"}]
    BY HistoryGrows DEF TypeInv, DataOK, RowsOK
  <1>1. verdicts' = verdicts /\ verdicts[a] \in Seq(Decisions)
    BY OthersSteps DEF TypeInv, DataOK, RowsOK
  <1>2. \/ status'[a] = status[a]
        \/ verdicts[a] = <<>>
        \/ status'[a] \in {"forwarded", "forward_failed"} /\ First(verdicts[a]) = "approved"
    <2> USE <1>0 DEF SetStatus, At
    <2>1. ASSUME NEW d \in Admins, Administer(d)
          PROVE  status'[a] = status[a]
      BY <2>1 DEF Administer, OverrideForm, OverrideBulk, OverrideJson, WriteForm,
                  WriteJson, RecordJson, RecordBulk
    <2>2. ASSUME NEW f \in Agents, Forward(f)
          PROVE  \/ status'[a] = status[a]
                 \/ status'[a] \in {"forwarded", "forward_failed"} /\ First(verdicts[a]) = "approved"
      <3>1. pc[f] \in {"mark", "revert"} => First(verdicts[cur[f]]) = "approved"
        BY DEF ClearedInv, Cleared, Procs, FirstVerdict, First
      <3>. QED  BY <2>2, <3>1 DEF Forward, ReadForward, CheckVerdict, MarkForwarded, Relay,
                RecordForwarded, Revert, RecordFailure
    <2>3. ASSUME NEW b \in Actions, Submit(b) \/ ReachDue(b)
          PROVE  status'[a] = status[a] \/ verdicts[a] = <<>>
      BY <2>3 DEF Submit, ReachDue, AgreesInv, OnceInv, DecidedInv
    <2>. QED  BY <2>1, <2>2, <2>3 DEF Next, Drop, Restart, vars, rows
  <1>3. CASE status'[a] = status[a]
    BY <1>0, <1>1, <1>3, AgreementIs DEF Agrees
  <1>4. CASE verdicts[a] = <<>>
    BY <1>1, <1>4 DEF Agrees, Agreement
  <1>5. CASE status'[a] \in {"forwarded", "forward_failed"} /\ First(verdicts[a]) = "approved"
    BY <1>1, <1>5, AgreementIs DEF Agrees
  <1>. QED  BY <1>2, <1>3, <1>4, <1>5

LEMMA AgreesNext ==
  ASSUME OneProcessor
  PROVE  TypeInv /\ ClearedInv /\ AgreesInv /\ [Next]_vars => AgreesInv'
  <1> SUFFICES ASSUME TypeInv, ClearedInv, AgreesInv, [Next]_vars
               PROVE  AgreesInv'
    OBVIOUS
  <1>1. OnceInv'
    BY OnceNext DEF AgreesInv
  <1>2. StatusAgreesWithVerdict <=> \A a \in Actions \ overridden : Agrees(a)
    BY DEF StatusAgreesWithVerdict, Agrees, Agreement
  <1>3. StatusAgreesWithVerdict'
    <2>1. ASSUME NEW a \in Actions \ overridden' PROVE Agrees(a)'
      <3>1. Agrees(a)
        BY <1>2, HistoryGrows DEF AgreesInv
      <3>. QED  BY <3>1, WorkerAgrees, OthersAgree
    <2>. QED  BY <2>1 DEF StatusAgreesWithVerdict, Agrees, Agreement
  <1>4. CASE \A w \in Workers : ~Process(w)
    <2>0. verdicts' = verdicts
      BY <1>4, OthersSteps
    <2>1. \/ \A w \in Workers : batch'[w] = {}
          \/ batch' = batch
      BY <1>4 DEF Next, Submit, ReachDue, Administer, OverrideForm, OverrideBulk, OverrideJson, WriteForm,
         WriteJson, RecordJson, RecordBulk, adminFrame, Forward, ReadForward, CheckVerdict, MarkForwarded,
         Relay, RecordForwarded, Revert, RecordFailure, agentFrame, Drop, Restart, vars
    <2>2. {faults, faults'} \subseteq Nat /\ faults <= faults'
      BY HistoryGrows
    <2>3. CASE \A w \in Workers : pc'[w] = "idle"
      <3>1. Fresh'
        BY <2>0, <2>1, <2>3 DEF AgreesInv, Fresh, Resting
      <3>. QED  BY <1>1, <1>3, <2>3, <3>1 DEF AgreesInv, FaultBefore, Blamed
    <2>4. CASE \A w \in Workers : pc'[w] = pc[w] /\ cur'[w] = cur[w]
      <3>1. FaultBefore'
        BY <2>2, <2>4 DEF AgreesInv, FaultBefore
      <3>2. Fresh'
        BY <2>0, <2>1, <2>4 DEF AgreesInv, Fresh
      <3>3. Blamed'
        BY <2>0, <2>4 DEF AgreesInv, Blamed, First
      <3>. QED  BY <1>1, <1>3, <3>1, <3>2, <3>3 DEF AgreesInv
    <2>. QED  BY <1>4, <2>3, <2>4, OthersHold
  <1>5. ASSUME NEW w \in Workers, Process(w)
        PROVE  AgreesInv'
    <2>0. \A v \in Workers : v = w
      BY DEF OneProcessor
    <2>1. FaultBefore'
      <3>1. Actions # {} => (pc'[w] = "deny" => faults' > 0)
        BY <1>5, HoldingSteps DEF AgreesInv
      <3>2. Actions = {} => pc'[w] # "deny"
        BY NextType DEF TypeInv, ControlOK, Fits, Resting, Procs
      <3>. QED  BY <2>0, <3>1, <3>2 DEF FaultBefore
    <2>2. Fresh' /\ Blamed'
      <3>1. /\ \A a \in batch'[w] : verdicts'[a] = <<>>
            /\ pc'[w] \notin Resting => cur'[w] \notin batch'[w]
            /\ pc'[w] = "notify" => verdicts'[cur'[w]] # <<>>
            /\ pc'[w] \in {"notify", "deny"} => First(verdicts'[cur'[w]]) # "approved"
        BY <1>5, FreshSteps
      <3>. QED  BY <2>0, <3>1 DEF Fresh, Blamed, First
    <2>. QED  BY <1>1, <1>3, <2>1, <2>2 DEF AgreesInv
  <1>. QED  BY <1>4, <1>5

\* Status and verdict agree, with what that rests on.
LEMMA AgreesInvariant ==
  ASSUME OneProcessor
  PROVE  Spec => []AgreesInv
  <1>1. Init => AgreesInv
    BY DEF Init, AgreesInv, OnceInv, DecidedInv, Undecided, Deciding, OneVerdict, Procs, FaultBefore, Fresh,
       Blamed, StatusAgreesWithVerdict, Resting
  <1>2. TypeInv /\ ClearedInv /\ AgreesInv /\ [Next]_vars => AgreesInv'
    BY AgreesNext
  <1>. QED  BY <1>1, <1>2, TypeInvariant, ClearedInvariant, PTL DEF Spec

\* With one processor, the status an agent polls says what the first verdict
\* says, until an admin overrides the action (save_verdict, process_pending and
\* forward_action).
THEOREM StatusAgrees ==
  ASSUME OneProcessor
  PROVE  Spec => []StatusAgreesWithVerdict
  <1>1. AgreesInv => StatusAgreesWithVerdict
    BY DEF AgreesInv
  <1>. QED  BY <1>1, AgreesInvariant, PTL

-----------------------------------------------------------------------------
(* What one agent that makes one request at a time can rely on.  The       *)
(* status of an action with an approving first verdict is left alone by    *)
(* all but an override and the agent's own forward (StatusHeld); so it is  *)
(* what the last step of that forward made it (ForwardInv).                *)

OneAgent == \A f, g \in Agents : f = g

\* A's target has answered: no forward request will go out for it any more.
Settled(a) ==
    /\ status[a] = "forwarded" /\ FirstVerdict(a) = "approved"
    /\ \A f \in Agents : cur[f] = a =>
          pc[f] \in {"idle", "sent_audit"} \/ (pc[f] = "check" /\ arg[f] = "forwarded")

\* The status is the one the forward that holds the action has written.
Marked(f) ==
    /\ pc[f] \in {"send", "sent_audit"} =>
          status[cur[f]] = "forwarded" \/ cur[f] \in overridden
    /\ pc[f] = "failed_audit" =>
          status[cur[f]] = "forward_failed" \/ cur[f] \in overridden \/ faults > 0
    /\ pc[f] \in {"sent_audit", "failed_audit"} => FirstVerdict(cur[f]) = "approved"

ForwardInv ==
    /\ \A f \in Agents : Marked(f)
    /\ \A a \in answered \ overridden : Settled(a)

\* Only a forward or an override touches the status of an approved action.
LEMMA StatusHeld ==
  ASSUME TypeInv, AgreesInv, [Next]_vars, \A f \in Agents : ~Forward(f),
         NEW a \in Actions \ overridden', FirstVerdict(a) = "approved"
  PROVE  status'[a] = status[a] /\ FirstVerdict(a)' = "approved"
  <1>0. /\ status \in [Actions -> Statuses \cup {"absent"}]
        /\ verdicts \in [Actions -> Seq(Decisions)]
        /\ a \in Actions /\ verdicts[a] # <<>> /\ verdicts[a][1] = "approved"
    BY DEF TypeInv, DataOK, RowsOK, FirstVerdict
  <1>1. status[a] \notin {"absent", "pending"}
    BY <1>0 DEF AgreesInv, OnceInv, DecidedInv
  <1>2. ASSUME NEW w \in Workers, Process(w)
        PROVE  status'[a] = status[a]
    <2> USE <1>0 DEF SetStatus, At
    <2>1. CASE Expire(w)
      BY <1>1, <2>1 DEF Expire
    <2>2. CASE Claim(w) \/ SaveVerdict(w)
      <3>1. cur[w] # a
        BY <2>2 DEF Claim, SaveVerdict, AgreesInv, OnceInv, Undecided, Deciding
      <3>. QED  BY <2>2, <3>1 DEF Claim, SaveVerdict
    <2>3. CASE DenyOnError(w)
      <3>1. cur[w] # a
        BY <2>3 DEF DenyOnError, AnswerError, AgreesInv, Blamed, First
      <3>. QED  BY <2>3, <3>1 DEF DenyOnError, AnswerError
    <2>4. CASE FetchBatch(w) \/ ReadAction(w) \/ RecordStarted(w) \/ Evaluate(w) \/ Notify(w)
      BY <2>4 DEF FetchBatch, ReadAction, RecordStarted, Evaluate, Notify
    <2>. QED  BY <1>2, <2>1, <2>2, <2>3, <2>4 DEF Process
  <1>3. ASSUME NEW d \in Admins, Administer(d)
        PROVE  status'[a] = status[a]
    BY <1>0, <1>3 DEF Administer, OverrideForm, OverrideBulk, OverrideJson, WriteForm,
                      WriteJson, RecordJson, RecordBulk, SetStatus
  <1>4. status'[a] = status[a]
    BY <1>0, <1>1, <1>2, <1>3 DEF Next, Submit, ReachDue, SetStatus, Drop, Restart, vars, rows
  <1>5. FirstVerdict(a)' = "approved"
    BY <1>0, FirstStands
  <1>. QED  BY <1>4, <1>5

\* The steps of the others leave a forward where it is, or end it.
LEMMA ForwardsAlone ==
  ASSUME TypeInv, [Next]_vars, \A f \in Agents : ~Forward(f)
  PROVE  /\ \A g \in Agents :
               pc'[g] = "idle" \/ (pc'[g] = pc[g] /\ cur'[g] = cur[g] /\ arg'[g] = arg[g])
         /\ UNCHANGED <<relays, answered, reply>>
  <1> USE ConstantsAssumption DEF Goto, Begin, End, Procs
  <1> DEFINE Alone == /\ \A g \in Agents : pc'[g] = pc[g] /\ cur'[g] = cur[g] /\ arg'[g] = arg[g]
                      /\ UNCHANGED <<relays, answered, reply>>
  <1>0. /\ pc \in [Procs -> Labels] /\ cur \in [Procs -> Actions \cup {None}]
        /\ arg \in [Procs -> Args]
    BY DEF TypeInv, ControlOK
  <1>1. ASSUME NEW w \in Workers, Process(w)
        PROVE  Alone
    <2>1. \A g \in Agents : g # w
      OBVIOUS
    <2>. QED  BY <1>0, <1>1, <2>1 DEF Process, Expire, FetchBatch, ReadAction, Claim, RecordStarted, Evaluate,
                SaveVerdict, Notify, DenyOnError, AnswerError, workerFrame, target
  <1>2. ASSUME NEW d \in Admins, Administer(d)
        PROVE  Alone
    <2>1. \A g \in Agents : g # d
      OBVIOUS
    <2>. QED  BY <1>0, <1>2, <2>1 DEF Administer, OverrideForm, OverrideBulk, OverrideJson, WriteForm,
                WriteJson, RecordJson, RecordBulk, adminFrame, target
  <1>3. ASSUME NEW p \in Admins \cup Agents, Drop(p)
        PROVE  /\ \A g \in Agents :
                     pc'[g] = "idle" \/ (pc'[g] = pc[g] /\ cur'[g] = cur[g] /\ arg'[g] = arg[g])
               /\ UNCHANGED <<relays, answered, reply>>
    BY <1>0, <1>3 DEF Drop, target
  <1>4. CASE Restart
    BY <1>4 DEF Restart, target
  <1>5. CASE UNCHANGED <<control, target, reply>>
    BY <1>5 DEF control, target
  <1>. QED  BY <1>1, <1>2, <1>3, <1>4, <1>5 DEF Next, Submit, ReachDue, vars

\* A step of the agent's own forward.
LEMMA ForwardOwn ==
  ASSUME OneAgent, TypeInv, ClearedInv, ForwardInv, [Next]_vars, NEW f \in Agents, Forward(f)
  PROVE  ForwardInv'
  <1> USE DEF Goto, Begin, End, Finish, At, SetStatus
  <1>0. /\ pc \in [Procs -> Labels] /\ cur \in [Procs -> Actions \cup {None}]
        /\ arg \in [Procs -> Args] /\ f \in Procs
        /\ status \in [Actions -> Statuses \cup {"absent"}]
        /\ answered \subseteq Actions
        /\ pc[f] \notin Resting => cur[f] \in Actions
    BY DEF TypeInv, ControlOK, DataOK, RowsOK, ForwardOK, Fits, Procs
  <1>1. \A g \in Agents : g = f
    BY DEF OneAgent
  <1>2. verdicts' = verdicts /\ overridden' = overridden /\ {faults, faults'} \subseteq Nat /\ faults <= faults'
    <2>1. verdicts' = verdicts /\ overridden' = overridden
      BY DEF Forward, ReadForward, CheckVerdict, MarkForwarded, Relay, RecordForwarded, Revert,
             RecordFailure, agentFrame
    <2>. QED  BY <2>1, HistoryGrows
  <1>3. Marked(f) /\ Cleared(f) /\ \A a \in answered \ overridden : Settled(a)
    BY <1>0 DEF ForwardInv, ClearedInv
  <1>a. \A a \in Actions : FirstVerdict(a)' = FirstVerdict(a)
    BY <1>2 DEF FirstVerdict
  <1>4. ASSUME NEW a \in Actions, ReadForward(f, a)
        PROVE  ForwardInv'
    <2>1. pc'[f] = "check" /\ cur'[f] = a /\ arg'[f] = status[a]
      BY <1>0, <1>4 DEF ReadForward
    <2>2. status' = status /\ answered' = answered
      BY <1>4 DEF ReadForward, target
    <2>3. Marked(f)'
      BY <2>1 DEF Marked
    <2>4. \A b \in answered \ overridden : Settled(b)'
      BY <1>0, <1>1, <1>2, <1>3, <1>a, <2>1, <2>2 DEF Settled
    <2>. QED  BY <1>1, <1>2, <2>2, <2>3, <2>4 DEF ForwardInv
  <1>5. CASE CheckVerdict(f)
    <2>1. status' = status /\ answered' = answered
      BY <1>5 DEF CheckVerdict, target
    <2>2. \/ pc'[f] = "idle"
          \/ pc'[f] = "mark" /\ cur'[f] = cur[f] /\ Refusal(f) = "none" /\ pc[f] = "check"
      BY <1>0, <1>5 DEF CheckVerdict
    <2>3. Marked(f)'
      BY <2>2 DEF Marked
    <2>4. Refusal(f) = "none" => arg[f] # "forwarded"
      BY DEF Refusal
    <2>5. \A b \in answered \ overridden : Settled(b)'
      BY <1>0, <1>1, <1>2, <1>3, <1>a, <2>1, <2>2, <2>4 DEF Settled
    <2>. QED  BY <1>1, <1>2, <2>1, <2>3, <2>5 DEF ForwardInv
  <1>6. CASE MarkForwarded(f)
    <2>1. /\ pc[f] = "mark" /\ cur[f] \in Actions /\ answered' = answered
          /\ \/ pc'[f] = "send" /\ cur'[f] = cur[f] /\ status' = [status EXCEPT ![cur[f]] = "forwarded"]
             \/ pc'[f] = "idle" /\ status' = status
      BY <1>0, <1>6 DEF MarkForwarded, target, Resting
    <2>2. Marked(f)'
      BY <1>0, <2>1 DEF Marked
    <2>3. cur[f] \notin answered \ overridden
      BY <1>3, <2>1 DEF Settled
    <2>4. \A b \in answered \ overridden : Settled(b)'
      BY <1>0, <1>1, <1>3, <1>a, <2>1, <2>3 DEF Settled
    <2>. QED  BY <1>1, <1>2, <2>1, <2>2, <2>4 DEF ForwardInv
  <1>7. CASE Relay(f)
    <2>1. /\ pc[f] = "send" /\ cur[f] \in Actions /\ status' = status /\ cur'[f] = cur[f]
          /\ \/ pc'[f] = "sent_audit" /\ answered' = answered \cup {cur[f]}
             \/ pc'[f] \in {"send", "revert"} /\ answered' = answered
      BY <1>0, <1>7 DEF Relay, Resting
    <2>2. FirstVerdict(cur[f]) = "approved" /\ (status[cur[f]] = "forwarded" \/ cur[f] \in overridden)
      BY <1>3, <2>1 DEF Cleared, Marked
    <2>3. Marked(f)'
      BY <1>2, <1>a, <2>1, <2>2 DEF Marked
    <2>4. cur[f] \notin answered \ overridden
      BY <1>3, <2>1 DEF Settled
    <2>5. ASSUME NEW b \in answered' \ overridden PROVE Settled(b)'
      <3>1. CASE b = cur[f]
        BY <1>1, <1>a, <2>1, <2>2, <2>4, <2>5, <3>1 DEF Settled
      <3>2. CASE b # cur[f]
        BY <1>0, <1>1, <1>3, <1>a, <2>1, <2>5, <3>2 DEF Settled
      <3>. QED  BY <3>1, <3>2
    <2>. QED  BY <1>1, <1>2, <2>3, <2>5 DEF ForwardInv
  <1>8. CASE Revert(f)
    <2>1. /\ pc[f] = "revert" /\ cur[f] \in Actions /\ cur'[f] = cur[f] /\ pc'[f] = "failed_audit"
          /\ answered' = answered
          /\ status' = [status EXCEPT ![cur[f]] = "forward_failed"] \/ (status' = status /\ faults' > 0)
      BY <1>0, <1>2, <1>8 DEF Revert, target, Resting, Fault
    <2>2. FirstVerdict(cur[f]) = "approved"
      BY <1>3, <2>1 DEF Cleared
    <2>3. Marked(f)'
      BY <1>0, <1>2, <1>a, <2>1, <2>2 DEF Marked
    <2>4. cur[f] \notin answered \ overridden
      BY <1>3, <2>1 DEF Settled
    <2>5. \A b \in answered \ overridden : Settled(b)'
      BY <1>0, <1>1, <1>3, <1>a, <2>1, <2>4 DEF Settled
    <2>. QED  BY <1>1, <1>2, <2>1, <2>3, <2>5 DEF ForwardInv
  <1>9. CASE RecordForwarded(f) \/ RecordFailure(f)
    <2>1. pc'[f] = "idle" /\ status' = status /\ answered' = answered
      BY <1>0, <1>9 DEF RecordForwarded, RecordFailure, target
    <2>2. Marked(f)'
      BY <2>1 DEF Marked
    <2>3. \A b \in answered \ overridden : Settled(b)'
      BY <1>0, <1>1, <1>3, <1>a, <2>1 DEF Settled
    <2>. QED  BY <1>1, <1>2, <2>1, <2>2, <2>3 DEF ForwardInv
  <1>. QED  BY <1>4, <1>5, <1>6, <1>7, <1>8, <1>9 DEF Forward

\* The steps of the others keep what the agent can rely on.
LEMMA ForwardOthers ==
  ASSUME TypeInv, ClearedInv, AgreesInv, ForwardInv, [Next]_vars, \A f \in Agents : ~Forward(f)
  PROVE  ForwardInv'
  <1>1. overridden \subseteq overridden' /\ {faults, faults'} \subseteq Nat /\ faults <= faults'
    BY HistoryGrows
  <1>2. answered' = answered
    BY ForwardsAlone
  <1>3. ASSUME NEW f \in Agents PROVE Marked(f)'
    <2>1. CASE pc'[f] = "idle"
      BY <2>1 DEF Marked
    <2>2. CASE pc'[f] = pc[f] /\ cur'[f] = cur[f] /\ pc[f] \in {"send", "sent_audit", "failed_audit"}
      <3>1. cur[f] \in Actions /\ FirstVerdict(cur[f]) = "approved" /\ Marked(f)
        BY <2>2 DEF TypeInv, ControlOK, Fits, Resting, Procs, ForwardInv, Marked, ClearedInv, Cleared
      <3>a. PICK a \in Actions : a = cur[f]
        BY <3>1
      <3>b. cur'[f] = a /\ FirstVerdict(a) = "approved" /\ Marked(f) /\ pc'[f] = pc[f]
        BY <2>2, <3>1, <3>a
      <3>c. FirstVerdict(a)' = "approved"
        BY <3>b, FirstStands DEF FirstVerdict
      <3>2. CASE a \in overridden'
        BY <2>2, <3>2, <3>b, <3>c DEF Marked
      <3>3. CASE a \notin overridden'
        <4>1. status'[a] = status[a] /\ a \notin overridden
          BY <1>1, <3>3, <3>b, StatusHeld
        <4>2. (faults > 0) => (faults' > 0)
          BY <1>1
        <4>. QED  BY <2>2, <3>a, <3>b, <3>c, <4>1, <4>2 DEF Marked
      <3>. QED  BY <3>2, <3>3
    <2>3. CASE pc'[f] = pc[f] /\ cur'[f] = cur[f] /\ pc[f] \notin {"send", "sent_audit", "failed_audit"}
      BY <2>3 DEF Marked
    <2>. QED  BY <2>1, <2>2, <2>3, ForwardsAlone
  <1>4. ASSUME NEW a \in answered' \ overridden' PROVE Settled(a)'
    <2>1. a \in Actions \ overridden' /\ Settled(a)
      BY <1>1, <1>2, <1>4 DEF ForwardInv, TypeInv, DataOK, ForwardOK
    <2>2. status'[a] = status[a] /\ FirstVerdict(a)' = "approved"
      BY <2>1, StatusHeld DEF Settled
    <2>3. \A f \in Agents : cur'[f] = a =>
             pc'[f] \in {"idle", "sent_audit"} \/ (pc'[f] = "check" /\ arg'[f] = "forwarded")
      BY <2>1, ForwardsAlone DEF Settled
    <2>. QED  BY <2>1, <2>2, <2>3 DEF Settled
  <1>. QED  BY <1>3, <1>4 DEF ForwardInv

\* Every step keeps it.
LEMMA ForwardNext ==
  ASSUME OneAgent
  PROVE  TypeInv /\ ClearedInv /\ AgreesInv /\ ForwardInv /\ [Next]_vars => ForwardInv'
  BY ForwardOwn, ForwardOthers

\* It holds always, with the invariants it rests on.
LEMMA ForwardInvariant ==
  ASSUME OneProcessor, OneAgent
  PROVE  Spec => [](TypeInv /\ ClearedInv /\ AgreesInv /\ ForwardInv)
  <1>1. Init => ForwardInv
    BY DEF Init, ForwardInv, Marked, Procs
  <1>2. TypeInv /\ ClearedInv /\ AgreesInv /\ ForwardInv /\ [Next]_vars => ForwardInv'
    BY ForwardNext
  <1>. QED  BY <1>1, <1>2, AgreesInvariant, TypeInvariant, ClearedInvariant, PTL DEF Spec

\* An agent told that its forward failed can try again: the status says so,
\* unless an admin has stepped in or a statement failed (the revert of
\* forward_action, whose error is dropped).
THEOREM FailedForwardsOpen ==
  ASSUME OneProcessor, OneAgent
  PROVE  Spec => FailedForwardIsOpen
  <1>1. ASSUME TypeInv, ClearedInv, ForwardInv, Next, NEW f \in Agents,
               reply'[f] = "failed", reply[f] # "failed"
        PROVE  status[cur[f]] = "forward_failed" \/ cur[f] \in overridden \/ faults > 0
    <2>1. ~(\A g \in Agents : ~Forward(g))
      BY <1>1, ForwardsAlone
    <2>2. Forward(f)
      BY <2>1 DEF OneAgent
    <2>3. RecordFailure(f)
      <3>1. reply \in [Agents -> Replies]
        BY <1>1 DEF TypeInv, DataOK, ForwardOK
      <3>2. At(f, "check") => Refusal(f) # "failed"
        <4>1. At(f, "check") => cur[f] \in Actions
          BY <1>1 DEF At, TypeInv, ControlOK, Fits, Resting, Procs
        <4>2. At(f, "check") /\ verdicts[cur[f]] # <<>> => verdicts[cur[f]][1] \in Decisions
          BY <1>1, <4>1 DEF TypeInv, DataOK, RowsOK
        <4>. QED  BY <4>2 DEF Refusal, Decisions
      <3>. QED  BY <1>1, <2>2, <3>1, <3>2 DEF Forward, ReadForward, CheckVerdict, MarkForwarded, Relay,
                RecordForwarded, Revert, Finish
    <2>. QED  BY <1>1, <2>3 DEF RecordFailure, At, ForwardInv, Marked
  <1>2. TypeInv /\ ClearedInv /\ ForwardInv /\ [Next]_vars =>
           [\A f \in Agents : reply'[f] = "failed" /\ reply[f] # "failed" =>
              \/ status[cur[f]] = "forward_failed"
              \/ cur[f] \in overridden
              \/ faults > 0]_vars
    BY <1>1
  <1>. QED  BY <1>2, ForwardInvariant, PTL DEF Spec, FailedForwardIsOpen

\* What has been answered is not sent again, to an agent that makes one request
\* at a time (the 'already forwarded' answer of forward_action).
THEOREM AnswersFinal ==
  ASSUME OneProcessor, OneAgent
  PROVE  Spec => AnsweredIsFinal
  <1>1. ASSUME TypeInv, ClearedInv, ForwardInv, Next, NEW a \in answered \ overridden
        PROVE  relays'[a] = relays[a]
    <2>1. CASE \A f \in Agents : ~Forward(f)
      BY <1>1, <2>1, ForwardsAlone
    <2>2. ASSUME NEW f \in Agents, Forward(f)
          PROVE  relays'[a] = relays[a]
      <3>1. CASE Relay(f)
        <4>1. cur[f] # a
          BY <1>1, <3>1 DEF Relay, At, ForwardInv, Settled
        <4>2. relays \in [Actions -> Nat] /\ a \in Actions
          BY <1>1 DEF TypeInv, DataOK, ForwardOK
        <4>. QED  BY <3>1, <4>1, <4>2 DEF Relay
      <3>2. CASE ~Relay(f)
        BY <2>2, <3>2 DEF Forward, ReadForward, CheckVerdict, MarkForwarded, RecordForwarded, Revert,
           RecordFailure, target
      <3>. QED  BY <3>1, <3>2
    <2>. QED  BY <2>1, <2>2
  <1>2. TypeInv /\ ClearedInv /\ ForwardInv /\ [Next]_vars =>
           [Cardinality(Agents) = 1 => \A a \in answered \ overridden : relays'[a] = relays[a]]_vars
    BY <1>1
  <1>. QED  BY <1>2, ForwardInvariant, PTL DEF Spec, AnsweredIsFinal

=============================================================================
