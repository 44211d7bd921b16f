----------------------------- MODULE AuditChain -----------------------------
(***************************************************************************)
(* The tamper-evident audit log: audit_log rows linked by hashes, the      *)
(* handlers that append to it, and the start of the program, which chains  *)
(* legacy rows, verifies the chain and compares its head with a checkpoint *)
(* file before it serves.                                                  *)
(*                                                                         *)
(* The log is the committed table in rowid order.  A process that has a    *)
(* transaction open reads its own copy of it (view), taken at the first    *)
(* statement; the database admits one writer at a time (lock), refuses a   *)
(* writer whose copy is no longer the committed table, and rolls back on   *)
(* any error.  With a rollback journal a commit also waits for every open  *)
(* reader; with a write-ahead log (Wal) it does not.                       *)
(*                                                                         *)
(* A hash is the sequence of texts it covers: sha256 is taken to tell any  *)
(* two of them apart.  The text of a row does not tell two rows apart: its *)
(* fields are joined with '|', which they may contain, and a NULL          *)
(* action_id is written as an empty one (Joined).                          *)
(***************************************************************************)
EXTENDS Naturals, Sequences, FiniteSets

CONSTANTS
    Replicas,      \* running copies of the program on one database
    Writers,       \* handlers and processor tasks that append
    Home,          \* the replica each writer runs in
    Events,        \* contents of a row: action, event type and details
    Recorded,      \* those the program records
    Joined,        \* the text hashed for the contents and the timestamp of a row
    LegacyStamps,  \* timestamp formats of rows older than the hash columns
    Null,          \* no hash, no process
    Wal,           \* whether the database is in write-ahead mode
    Strict,        \* whether DEKO_AUDIT_STRICT is true
    MaxLegacy,     \* bound: legacy rows
    MaxRows,       \* bound: rows
    MaxFaults,     \* bound: statements that fail
    MaxCrashes,    \* bound: replicas that stop
    MaxEdits,      \* bound: rows changed or removed behind the program's back
    MaxCuts        \* bound: restores of an older copy of the table

\* created_at as insert_chained_tx writes it, and as older writers did.
Stamps == {"sqlite", "rfc3339"}

Contents == Events \X Stamps

Texts == {Joined[c] : c \in Contents}

Hashes == Seq(Texts)

Procs == Replicas \cup Writers

ASSUME ConstantsAssumption ==
    /\ Replicas \cap Writers = {}
    /\ Home \in [Writers -> Replicas]
    /\ Recorded \subseteq Events
    /\ LegacyStamps \subseteq Stamps
    /\ Null \notin Hashes /\ Null \notin Procs
    /\ Wal \in BOOLEAN /\ Strict \in BOOLEAN
    /\ {MaxLegacy, MaxRows, MaxFaults, MaxCrashes, MaxEdits, MaxCuts} \subseteq Nat

VARIABLES
    log,         \* audit_log in rowid order
    journal,     \* the contents ever committed, in order (history)
    checkpoint,  \* audit-head-checkpoint.txt, Null before it exists
    lock,        \* the process whose transaction has written
    view,        \* the table as a process's transaction sees it
    pc,          \* where each process is
    event,       \* what a writer is about to record
    todo,        \* unchained rows a starting replica has listed
    seen,        \* the chain head a starting replica has verified
    alarm,       \* whether a replica's last start saw the head moved
    faults, crashes, edits, cuts

database == <<log, journal>>
starting == <<todo, seen, alarm>>
bounds   == <<faults, crashes, edits, cuts>>
vars     == <<database, checkpoint, lock, view, pc, event, starting, bounds>>

Genesis == <<>>

\* Mutant: a hash that does not cover the link to the row before.
HashUnlinked(prev, e, stamp) == <<Joined[<<e, stamp>>]>>

\* compute_entry_hash.  What it joins begins with a previous hash, which is of
\* one length, so that only the contents of a row run into one another.
Hash(prev, e, stamp) == Append(prev, Joined[<<e, stamp>>])

Row(prev, e, stamp) ==
    [body |-> e, stamp |-> stamp, prev |-> prev, entry |-> Hash(prev, e, stamp)]

Unchained(t) == {i \in DOMAIN t : t[i].entry = Null}

\* SELECT entry_hash ... WHERE entry_hash IS NOT NULL ORDER BY rowid DESC LIMIT 1
LastHash(t) ==
    IF DOMAIN t \ Unchained(t) = {} THEN Genesis
    ELSE t[CHOOSE i \in DOMAIN t \ Unchained(t) :
              \A j \in DOMAIN t \ Unchained(t) : j <= i].entry

ExpectedPrev(t, i) == IF i = 1 THEN Genesis ELSE t[i - 1].entry

\* What verify_chain demands of a row: both hashes there, the link to the row
\* before, and the hash of the contents as they are stored.
Sound(t, i) ==
    /\ t[i].entry # Null /\ t[i].prev # Null
    /\ t[i].prev = ExpectedPrev(t, i)
    /\ t[i].entry = Hash(t[i].prev, t[i].body, t[i].stamp)

\* verify_chain: valid when it meets no unsound row.
Valid(t) == \A i \in DOMAIN t : Sound(t, i)

ChainHead(t) == IF t = <<>> THEN Genesis ELSE t[Len(t)].entry

\* normalize_legacy_timestamp.
Normalize(stamp) == "sqlite"

Content(t) == [i \in DOMAIN t |-> <<t[i].body, t[i].stamp>>]

LegacyRow(e, stamp) == [body |-> e, stamp |-> stamp, prev |-> Null, entry |-> Null]

Init ==
    /\ \E n \in 0..MaxLegacy, e \in Recorded :
         \E stamp \in [1..n -> LegacyStamps] :
            log = [i \in 1..n |-> LegacyRow(e, stamp[i])]
    /\ journal = Content(log)
    /\ checkpoint = Null
    /\ lock = Null
    /\ view = [p \in Procs |-> <<>>]
    /\ pc = [p \in Procs |-> IF p \in Replicas THEN "down" ELSE "idle"]
    /\ event \in [Writers -> Recorded]
    /\ todo = [r \in Replicas |-> {}]
    /\ seen = [r \in Replicas |-> Genesis]
    /\ alarm = [r \in Replicas |-> FALSE]
    /\ faults = 0 /\ crashes = 0 /\ edits = 0 /\ cuts = 0

-----------------------------------------------------------------------------
(* SQLite transactions.                                                    *)

At(p, label) == pc[p] = label

Goto(p, label) == pc' = [pc EXCEPT ![p] = label]

Works == UNCHANGED bounds

Fault == /\ faults < MaxFaults
         /\ faults' = faults + 1
         /\ UNCHANGED <<crashes, edits, cuts>>

Committing == {"commit", "fill_commit"}

\* A process between the first statement of its transaction and its end.
Open(p) == pc[p] \in {"insert", "append", "fill"} \cup Committing

\* With a rollback journal a process about to commit keeps new readers out and
\* waits for those already reading.
MayRead == Wal \/ \A q \in Procs : pc[q] \notin Committing

Readers(p) == {q \in Procs \ {p} : Open(q)}

MayCommit(p) == Wal \/ Readers(p) = {}

\* The first statement, if it reads: the process sees the table as it is now.
Snapshot(p) == view' = [view EXCEPT ![p] = log] /\ UNCHANGED lock

\* A statement that writes takes the lock, unless another process has it or
\* the table has changed since this one has read it.
MayWrite(p) == lock = p \/ (lock = Null /\ view[p] = log)

\* What a writer changes: its own version once it has written.
Table(p) == IF lock = p THEN view[p] ELSE log

Write(p, t) == lock' = p /\ view' = [view EXCEPT ![p] = t]

\* The end of a transaction, committed or rolled back.
Close(p) ==
    /\ lock' = IF lock = p THEN Null ELSE lock
    /\ view' = [view EXCEPT ![p] = <<>>]

\* The commit replaces the table; rows it adds are history from now on.
Publish(p) ==
    /\ log' = view[p]
    /\ journal' = journal \o SubSeq(Content(view[p]), Len(log) + 1, Len(view[p]))

-----------------------------------------------------------------------------
(* Handlers and processors append.                                         *)

\* record: the transaction opens with the SELECT of the last hash.
BeginRecord(w, e) ==
    /\ At(w, "idle") /\ At(Home[w], "running")
    /\ Len(journal) < MaxRows
    /\ MayRead
    /\ Snapshot(w)
    /\ event' = [event EXCEPT ![w] = e]
    /\ Goto(w, "insert")
    /\ UNCHANGED <<database, checkpoint, starting, bounds>>

\* save_verdict and the form override: the transaction opens with a write to
\* another table, so it has the lock when it reads the last hash.
BeginChanged(w, e) ==
    /\ At(w, "idle") /\ At(Home[w], "running")
    /\ Len(journal) < MaxRows
    /\ MayRead
    /\ lock = Null
    /\ Write(w, log)
    /\ event' = [event EXCEPT ![w] = e]
    /\ Goto(w, "append")
    /\ UNCHANGED <<database, checkpoint, starting, bounds>>

\* Mutant: a writer that waits for its turn, however long.
InsertRowWaiting(w) ==
    /\ pc[w] \in {"insert", "append"}
    /\ MayWrite(w)
    /\ Write(w, Append(Table(w), Row(LastHash(view[w]), event[w], "sqlite")))
    /\ Goto(w, "commit")
    /\ UNCHANGED <<database, checkpoint, event, starting, bounds>>

\* insert_chained_tx: the INSERT, chained to the last hash the transaction has
\* read; refused, it takes the transaction with it.
InsertRow(w) ==
    /\ pc[w] \in {"insert", "append"}
    /\ \/ /\ Works
          /\ MayWrite(w)
          /\ Write(w, Append(Table(w), Row(LastHash(view[w]), event[w], "sqlite")))
          /\ Goto(w, "commit")
       \/ /\ (Works /\ ~MayWrite(w)) \/ Fault
          /\ Close(w)
          /\ Goto(w, "idle")
    /\ UNCHANGED <<database, checkpoint, event, starting>>

CommitRow(w) ==
    /\ At(w, "commit")
    /\ \/ Works /\ MayCommit(w) /\ Publish(w)
       \/ Fault /\ UNCHANGED database
    /\ Close(w)
    /\ Goto(w, "idle")
    /\ UNCHANGED <<checkpoint, event, starting>>

Begin(w) == \E e \in Recorded : BeginRecord(w, e) \/ BeginChanged(w, e)

Finish(w) == InsertRow(w) \/ CommitRow(w)

-----------------------------------------------------------------------------
(* A replica starts: backfill_unchained, verify_chain, the checkpoint.     *)

\* The unchained rows are listed before the transaction that chains them.
Launch(r) ==
    /\ At(r, "down")
    /\ todo' = [todo EXCEPT ![r] = Unchained(log)]
    /\ Goto(r, IF Unchained(log) = {} THEN "verify" ELSE "open")
    /\ UNCHANGED <<database, checkpoint, lock, view, event, seen, alarm, bounds>>

\* current_head_tx for the first row opens the transaction.
OpenBackfill(r) ==
    /\ At(r, "open")
    /\ MayRead
    /\ Snapshot(r)
    /\ Goto(r, "fill")
    /\ UNCHANGED <<database, checkpoint, event, starting, bounds>>

\* Any error in the backfill ends the start; the transaction is rolled back.
AbandonStart(r) ==
    /\ Close(r)
    /\ todo' = [todo EXCEPT ![r] = {}]
    /\ Goto(r, "down")

\* Mutant: no trigger protects a row that has been chained meanwhile.
FillAnyRow(r) ==
    /\ At(r, "fill")
    /\ \E i \in todo[r] :
          LET prev == LastHash(view[r])
              old  == view[r][i] IN
          /\ \A j \in todo[r] : i <= j
          /\ \/ /\ Works
                /\ MayWrite(r)
                /\ Write(r, [Table(r) EXCEPT
                               ![i].prev = prev,
                               ![i].entry = Hash(prev, old.body, Normalize(old.stamp))])
                /\ todo' = [todo EXCEPT ![r] = @ \ {i}]
                /\ Goto(r, IF todo[r] = {i} THEN "fill_commit" ELSE "fill")
             \/ /\ (Works /\ ~MayWrite(r)) \/ Fault
                /\ AbandonStart(r)
    /\ UNCHANGED <<database, checkpoint, event, seen, alarm>>

\* Mutant: such a row is chained again to the one before it, which seals what
\* it says by now.
SealAnyRow(r) ==
    /\ At(r, "fill")
    /\ \E i \in todo[r] :
          LET prev == IF i = 1 THEN Genesis ELSE view[r][i - 1].entry
              old  == view[r][i] IN
          /\ \A j \in todo[r] : i <= j
          /\ \/ /\ Works
                /\ MayWrite(r)
                /\ Write(r, [Table(r) EXCEPT
                               ![i].prev = prev,
                               ![i].entry = Hash(prev, old.body, old.stamp)])
                /\ todo' = [todo EXCEPT ![r] = @ \ {i}]
                /\ Goto(r, IF todo[r] = {i} THEN "fill_commit" ELSE "fill")
             \/ /\ (Works /\ ~MayWrite(r)) \/ Fault
                /\ AbandonStart(r)
    /\ UNCHANGED <<database, checkpoint, event, seen, alarm>>

\* One row of the loop: chain it to the last hash the transaction sees.  The
\* trigger audit_log_guard_update refuses a row chained meanwhile.
FillRow(r) ==
    /\ At(r, "fill")
    /\ \E i \in todo[r] :
          LET prev == LastHash(view[r])
              old  == view[r][i] IN
          /\ \A j \in todo[r] : i <= j
          /\ \/ /\ Works
                /\ MayWrite(r)
                /\ old.entry = Null
                /\ Write(r, [Table(r) EXCEPT
                               ![i].prev = prev,
                               ![i].entry = Hash(prev, old.body, Normalize(old.stamp))])
                /\ todo' = [todo EXCEPT ![r] = @ \ {i}]
                /\ Goto(r, IF todo[r] = {i} THEN "fill_commit" ELSE "fill")
             \/ /\ (Works /\ (~MayWrite(r) \/ old.entry # Null)) \/ Fault
                /\ AbandonStart(r)
    /\ UNCHANGED <<database, checkpoint, event, seen, alarm>>

CommitBackfill(r) ==
    /\ At(r, "fill_commit")
    /\ Close(r)
    /\ \/ Works /\ MayCommit(r) /\ Publish(r) /\ Goto(r, "verify")
       \/ Fault /\ UNCHANGED database /\ Goto(r, "down")
    /\ UNCHANGED <<checkpoint, event, starting>>

\* A broken chain refuses to start.
Verify(r) ==
    /\ At(r, "verify")
    /\ \/ /\ Valid(log)
          /\ seen' = [seen EXCEPT ![r] = ChainHead(log)]
          /\ Goto(r, "compare")
       \/ ~Valid(log) /\ Goto(r, "down") /\ UNCHANGED seen
    /\ UNCHANGED <<database, checkpoint, lock, view, event, todo, alarm, bounds>>

\* Mutant: an empty log has nothing to compare.
MovedUnlessEmpty(r) == checkpoint # Null /\ seen[r] # Genesis /\ checkpoint # seen[r]

\* The head is not where the last start left it.
Moved(r) == checkpoint # Null /\ checkpoint # seen[r]

\* Mutant: a head that has moved ends the start, whatever the mode.
CompareStrictly(r) ==
    /\ At(r, "compare")
    /\ alarm' = [alarm EXCEPT ![r] = Moved(r)]
    /\ Goto(r, IF Moved(r) THEN "down" ELSE "write")
    /\ UNCHANGED <<database, checkpoint, lock, view, event, todo, seen, bounds>>

Compare(r) ==
    /\ At(r, "compare")
    /\ alarm' = [alarm EXCEPT ![r] = Moved(r)]
    /\ Goto(r, IF Moved(r) /\ Strict THEN "down" ELSE "write")
    /\ UNCHANGED <<database, checkpoint, lock, view, event, todo, seen, bounds>>

\* The file is replaced by a rename; failing to write it is only reported.
WriteCheckpoint(r) ==
    /\ At(r, "write")
    /\ \/ Works /\ checkpoint' = seen[r]
       \/ Fault /\ UNCHANGED checkpoint
    /\ Goto(r, "running")
    /\ UNCHANGED <<database, lock, view, event, starting>>

Start(r) ==
    \/ Launch(r) \/ OpenBackfill(r) \/ FillRow(r) \/ CommitBackfill(r)
    \/ Verify(r) \/ Compare(r) \/ WriteCheckpoint(r)

-----------------------------------------------------------------------------
(* What happens to them.                                                   *)

\* A replica stops with its handlers; their transactions are rolled back.
Crash(r) ==
    LET gone == {r} \cup {w \in Writers : Home[w] = r} IN
    /\ pc[r] # "down"
    /\ crashes < MaxCrashes
    /\ crashes' = crashes + 1
    /\ pc' = [p \in Procs |-> IF p = r THEN "down"
                              ELSE IF p \in gone THEN "idle" ELSE pc[p]]
    /\ view' = [p \in Procs |-> IF p \in gone THEN <<>> ELSE view[p]]
    /\ lock' = IF lock \in gone THEN Null ELSE lock
    /\ todo' = [todo EXCEPT ![r] = {}]
    /\ UNCHANGED <<database, checkpoint, event, seen, alarm, faults, edits, cuts>>

\* Someone with the triggers dropped changes a chained row's contents ...
Edit ==
    /\ edits < MaxEdits
    /\ edits' = edits + 1
    /\ \A p \in Procs : ~Open(p)
    /\ \E i \in DOMAIN log \ Unchained(log), e \in Events, stamp \in Stamps :
          log' = [log EXCEPT ![i].body = e, ![i].stamp = stamp]
    /\ UNCHANGED <<journal, checkpoint, lock, view, pc, event, starting, faults, crashes, cuts>>

Away == \A r \in Replicas : At(r, "down")

\* ... or, with the program stopped, removes one of the chained rows but the last.
Remove ==
    /\ edits < MaxEdits
    /\ edits' = edits + 1
    /\ Away
    /\ Unchained(log) = {}
    /\ \E k \in DOMAIN log \ {Len(log)} :
          log' = SubSeq(log, 1, k - 1) \o SubSeq(log, k + 1, Len(log))
    /\ UNCHANGED <<journal, checkpoint, lock, view, pc, event, starting, faults, crashes, cuts>>

\* The newest rows are lost: an older copy of the database is put back.
Cut ==
    /\ cuts < MaxCuts
    /\ cuts' = cuts + 1
    /\ Away
    /\ Unchained(log) = {}
    /\ \E k \in DOMAIN log : log' = SubSeq(log, 1, k - 1)
    /\ UNCHANGED <<journal, checkpoint, lock, view, pc, event, starting, faults, crashes, edits>>

Next ==
    \/ \E w \in Writers : Begin(w) \/ Finish(w)
    \/ \E r \in Replicas : Start(r) \/ Crash(r)
    \/ Edit \/ Remove \/ Cut

Spec == Init /\ [][Next]_vars

\* A stopped replica is started again (restart: always), and the runtime polls
\* what has begun; handlers begin when they like.
FairSpec ==
    /\ Spec
    /\ \A r \in Replicas : WF_vars(Start(r))
    /\ \A w \in Writers : WF_vars(Finish(w))

-----------------------------------------------------------------------------
(* Properties.                                                             *)

Rows == [body : Events, stamp : Stamps, prev : Hashes \cup {Null}, entry : Hashes \cup {Null}]

Labels == {"idle", "insert", "append", "commit", "down", "open", "fill", "fill_commit",
           "verify", "compare", "write", "running"}

\* Every variable has its type.
TypeOK ==
    /\ log \in Seq(Rows)
    /\ journal \in Seq(Contents)
    /\ checkpoint \in Hashes \cup {Null}
    /\ lock \in Procs \cup {Null}
    /\ view \in [Procs -> Seq(Rows)]
    /\ pc \in [Procs -> Labels]
    /\ event \in [Writers -> Events]
    /\ todo \in [Replicas -> SUBSET Nat]
    /\ seen \in [Replicas -> Hashes]
    /\ alarm \in [Replicas -> BOOLEAN]
    /\ faults \in Nat /\ crashes \in Nat /\ edits \in Nat /\ cuts \in Nat

\* The chain the program writes never forks or breaks: whatever transactions
\* interleave, fail or are cut short by a crash, and however many replicas
\* backfill at once, every row that carries hashes is sound where it stands.
ChainUnbroken ==
    edits = 0 => \A i \in DOMAIN log \ Unchained(log) : Sound(log, i)

\* The log is append-only for the program: a step of its own removes no row,
\* changes no content and no hash that is set (migration 019, F002).
AppendOnly ==
    [][edits' = edits /\ cuts' = cuts =>
          \A i \in DOMAIN log :
              /\ i \in DOMAIN log'
              /\ log'[i].body = log[i].body /\ log'[i].stamp = log[i].stamp
              /\ log[i].entry # Null => log'[i] = log[i]]_vars

\* What the contents are hashed as.
Spelled(contents) == [i \in DOMAIN contents |-> Joined[contents[i]]]

\* Tampering shows as far as the hash can tell: when verify_chain finds the
\* chain valid, the rows spell what was recorded, text by text and in its order
\* (an edit that only moves text between the fields of a row, or empties a NULL
\* action_id, spells the same); only the newest rows can have gone without a
\* trace, which is what the checkpoint is for.
EditsAreFound == cuts = 0 /\ Valid(log) => Spelled(Content(log)) = Spelled(journal)

Compares(r) == At(r, "compare") /\ pc'[r] # pc[r] /\ crashes' = crashes

\* A start notices that the head it left behind is no longer in the log.
LossIsNoticed ==
    [][\A r \in Replicas :
          Compares(r) /\ checkpoint \notin {Null, Genesis} \cup {log[i].entry : i \in DOMAIN log}
              => alarm'[r]]_vars

\* No transaction waits for ever on another one's lock.
TransactionsEnd == \A p \in Procs : Open(p) ~> ~Open(p)

\* As long as nobody edits the log behind the program, every replica comes up,
\* again and again, though two of them backfill the same rows and one of them
\* is refused.
ComesUp == [](edits = 0) => \A r \in Replicas : []<>At(r, "running")

=============================================================================
