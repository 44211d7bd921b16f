-------------------------- MODULE AuditChainProofs --------------------------
(***************************************************************************)
(* Proofs about AuditChain, for any number of replicas, handlers and rows: *)
(* every variable keeps its type, the chain never breaks, a start notices  *)
(* lost rows, and a valid chain says what was recorded.                    *)
(*                                                                         *)
(* The inductive invariant says, of the table and of every transaction's   *)
(* copy, that the rows with hashes are its first ones (Ordered) and, as    *)
(* long as nobody has edited it, sound; that nothing is unchained once a   *)
(* replica has passed its backfill or a handler appends; and that what a   *)
(* backfill has listed covers what it finds unchained.                     *)
(***************************************************************************)
EXTENDS AuditChain, SequenceTheorems, WellFoundedInduction, TLAPS

-----------------------------------------------------------------------------
(* Tables.                                                                 *)

\* The first n rows of a table, and no other, carry hashes.
Chained(t, n) ==
    /\ n \in 0..Len(t)
    /\ \A i \in DOMAIN t : t[i].entry # Null <=> i <= n

Ordered(t) == t \in Seq(Rows) /\ \E n \in Nat : Chained(t, n)

\* A hash is a hash, and not the absence of one.
LEMMA HashType ==
  ASSUME NEW prev \in Hashes, NEW e \in Events, NEW stamp \in Stamps
  PROVE  Hash(prev, e, stamp) \in Hashes /\ Hash(prev, e, stamp) # Null
  <1>1. Joined[<<e, stamp>>] \in Texts
    BY DEF Texts, Contents
  <1>2. Hash(prev, e, stamp) \in Hashes
    BY <1>1, AppendProperties DEF Hash, Hashes
  <1>3. QED
    BY <1>2, ConstantsAssumption

\* A row an append makes is a row.
LEMMA RowType ==
  ASSUME NEW prev \in Hashes, NEW e \in Events, NEW stamp \in Stamps
  PROVE  Row(prev, e, stamp) \in Rows
  BY HashType DEF Row, Rows

\* The last hash is that of the last chained row, or the genesis hash.
LEMMA LastHashIs ==
  ASSUME NEW t \in Seq(Rows), NEW n \in Nat, Chained(t, n)
  PROVE  /\ LastHash(t) = IF n = 0 THEN Genesis ELSE t[n].entry
         /\ LastHash(t) \in Hashes
  <1> DEFINE C == DOMAIN t \ Unchained(t)
  <1>0. DOMAIN t = 1..Len(t) /\ Len(t) \in Nat
    BY LenProperties
  <1>1. C = 1..n
    BY <1>0 DEF Chained, Unchained
  <1>2. CASE n = 0
    <2>1. LastHash(t) = Genesis
      BY <1>1, <1>2 DEF LastHash
    <2>2. QED
      BY <1>2, <2>1, EmptySeq DEF Genesis, Hashes
  <1>3. CASE n # 0
    <2>1. n = CHOOSE i \in C : \A j \in C : j <= i
      BY <1>1, <1>3
    <2>2. LastHash(t) = t[n].entry
      <3>1. C # {}
        BY <1>1, <1>3
      <3>2. QED
        BY <2>1, <3>1 DEF LastHash
    <2>3. t[n] \in Rows /\ t[n].entry # Null
      BY <1>0, <1>3, ElementOfSeq DEF Chained
    <2>4. QED
      BY <1>3, <2>2, <2>3 DEF Rows
  <1>4. QED
    BY <1>2, <1>3

\* The last hash of an ordered table is a hash.
LEMMA LastHashType ==
  ASSUME NEW t, Ordered(t)
  PROVE  LastHash(t) \in Hashes
  BY LastHashIs DEF Ordered

\* A table without unchained rows is chained to its end.
LEMMA AllChained ==
  ASSUME NEW t \in Seq(Rows)
  PROVE  Unchained(t) = {} <=> Chained(t, Len(t))
  BY LenProperties DEF Unchained, Chained

\* Appending a row to a fully chained table.
LEMMA AppendOrdered ==
  ASSUME NEW t \in Seq(Rows), NEW row \in Rows, Unchained(t) = {}, row.entry # Null
  PROVE  Ordered(Append(t, row)) /\ Unchained(Append(t, row)) = {}
  <1> DEFINE u == Append(t, row)
  <1>1. /\ u \in Seq(Rows) /\ Len(u) = Len(t) + 1 /\ u[Len(t) + 1] = row
        /\ \A i \in 1..Len(t) : u[i] = t[i]
    BY AppendProperties
  <1>2. DOMAIN u = 1..Len(u) /\ DOMAIN t = 1..Len(t) /\ Len(t) \in Nat
    BY <1>1, LenProperties
  <1>3. Unchained(u) = {}
    BY <1>1, <1>2 DEF Unchained
  <1> HIDE DEF u
  <1>4. Chained(u, Len(u)) /\ Len(u) \in Nat
    BY <1>1, <1>2, <1>3, AllChained
  <1>5. QED
    BY <1>1, <1>3, <1>4 DEF Ordered, u

\* What a backfill makes of row i: the first one without hashes.
Filled(t, i) ==
    [t EXCEPT ![i].prev = LastHash(t),
              ![i].entry = Hash(LastHash(t), t[i].body, Normalize(t[i].stamp))]

\* The row a backfill fills, and all the others as they were.
LEMMA FilledRows ==
  ASSUME NEW t, Ordered(t), NEW i \in DOMAIN t
  PROVE  /\ Filled(t, i) \in Seq(Rows)
         /\ Len(Filled(t, i)) = Len(t) /\ DOMAIN Filled(t, i) = DOMAIN t
         /\ \A j \in DOMAIN t \ {i} : Filled(t, i)[j] = t[j]
         /\ Filled(t, i)[i].prev = LastHash(t)
         /\ Filled(t, i)[i].entry = Hash(LastHash(t), t[i].body, Normalize(t[i].stamp))
         /\ Filled(t, i)[i].body = t[i].body /\ Filled(t, i)[i].stamp = t[i].stamp
         /\ Filled(t, i)[i].entry # Null
  <1> DEFINE h == Hash(LastHash(t), t[i].body, Normalize(t[i].stamp))
             row == [[t[i] EXCEPT !.prev = LastHash(t)] EXCEPT !.entry = h]
  <1>0. t \in Seq(Rows) /\ DOMAIN t = 1..Len(t)
    BY LenProperties DEF Ordered
  <1>1. t[i] \in Rows
    BY <1>0, ElementOfSeq
  <1>2. LastHash(t) \in Hashes
    BY LastHashType
  <1>3. h \in Hashes /\ h # Null
    BY <1>1, <1>2, HashType DEF Rows, Normalize, Stamps
  <1>4. /\ row \in Rows /\ row.prev = LastHash(t) /\ row.entry = h
        /\ row.body = t[i].body /\ row.stamp = t[i].stamp
    <2> HIDE DEF h
    <2>1. QED
      BY <1>1, <1>2, <1>3 DEF Rows
  <1>5. Filled(t, i) = [t EXCEPT ![i] = row]
    BY <1>0 DEF Filled
  <1>6. /\ [t EXCEPT ![i] = row] \in Seq(Rows)
        /\ Len([t EXCEPT ![i] = row]) = Len(t)
        /\ \A j \in 1..Len(t) : [t EXCEPT ![i] = row][j] = IF j = i THEN row ELSE t[j]
    <2> HIDE DEF row
    <2>1. QED
      BY <1>0, <1>4, ExceptSeq
  <1>7. DOMAIN [t EXCEPT ![i] = row] = DOMAIN t
    OBVIOUS
  <1> HIDE DEF row, h
  <1>8. QED
    BY <1>0, <1>3, <1>4, <1>5, <1>6, <1>7 DEF h

\* The first row a backfill has listed is the first one without hashes.
LEMMA NextToFill ==
  ASSUME NEW t \in Seq(Rows), NEW n \in Nat, Chained(t, n),
         NEW T \in SUBSET Nat, Unchained(t) \subseteq T,
         NEW i \in T, \A j \in T : i <= j, i \in DOMAIN t, t[i].entry = Null
  PROVE  i = n + 1
  <1>0. DOMAIN t = 1..Len(t) /\ Len(t) \in Nat
    BY LenProperties
  <1>1. n < i
    BY DEF Chained
  <1>2. n + 1 \in DOMAIN t
    BY <1>0, <1>1 DEF Chained
  <1>3. n + 1 \in Unchained(t)
    BY <1>2 DEF Chained, Unchained
  <1>4. QED
    BY <1>1, <1>3

\* Filling the first listed row chains one row more.
LEMMA FillOrdered ==
  ASSUME NEW t, Ordered(t), NEW T \in SUBSET Nat, Unchained(t) \subseteq T,
         NEW i \in T, \A j \in T : i <= j, t[i].entry = Null
  PROVE  Ordered(Filled(t, i)) /\ Unchained(Filled(t, i)) = Unchained(t) \ {i}
  <1>0. t \in Seq(Rows) /\ DOMAIN t = 1..Len(t) /\ Len(t) \in Nat
    BY LenProperties DEF Ordered
  <1>1. CASE i \in DOMAIN t
    <2>1. PICK n \in Nat : Chained(t, n)
      BY DEF Ordered
    <2>2. i = n + 1
      BY <1>0, <1>1, <2>1, NextToFill
    <2>3. Chained(Filled(t, i), n + 1)
      <3> DEFINE u == Filled(t, i)
      <3>1. /\ DOMAIN u = DOMAIN t /\ Len(u) = Len(t) /\ u[i].entry # Null
            /\ \A j \in DOMAIN t \ {i} : u[j] = t[j]
        BY <1>1, FilledRows
      <3> HIDE DEF u
      <3>2. \A j \in DOMAIN t : u[j].entry # Null <=> j <= n + 1
        <4>1. CASE n + 1 \in DOMAIN t
          BY <1>0, <2>1, <2>2, <3>1 DEF Chained
        <4>2. QED
          BY <1>1, <2>2, <4>1
      <3>3. n + 1 \in 0..Len(u)
        BY <1>0, <1>1, <2>2, <3>1
      <3>4. QED
        BY <3>1, <3>2, <3>3 DEF Chained, u
    <2>4. Unchained(Filled(t, i)) = Unchained(t) \ {i}
      BY <1>1, FilledRows DEF Unchained
    <2>5. QED
      BY <1>1, <2>3, <2>4, FilledRows DEF Ordered
  <1>2. CASE i \notin DOMAIN t
    <2>1. Filled(t, i) = t
      BY <1>0, <1>2 DEF Filled
    <2>2. QED
      BY <1>2, <2>1 DEF Unchained
  <1>3. QED
    BY <1>1, <1>2

\* Tables made by cutting rows out of a fully chained one.
LEMMA ShorterOrdered ==
  ASSUME NEW t \in Seq(Rows), Unchained(t) = {}, NEW k \in DOMAIN t,
         NEW u, \/ u = SubSeq(t, 1, k - 1)
                \/ u = SubSeq(t, 1, k - 1) \o SubSeq(t, k + 1, Len(t))
  PROVE  Ordered(u) /\ Unchained(u) = {}
  <1> DEFINE S == {row \in Rows : row.entry # Null}
             a == SubSeq(t, 1, k - 1)
             b == SubSeq(t, k + 1, Len(t))
  <1>0. DOMAIN t = 1..Len(t) /\ Len(t) \in Nat /\ k \in 1..Len(t)
    BY LenProperties
  <1>1. \A i \in 1..Len(t) : t[i] \in S
    BY <1>0, ElementOfSeq DEF Unchained
  <1>2. a \in Seq(S) /\ b \in Seq(S)
    <2>1. a \in Seq(S)
      BY <1>0, <1>1, SubSeqProperties
    <2>2. b \in Seq(S)
      BY <1>0, <1>1, SubSeqProperties
    <2>3. QED
      BY <2>1, <2>2
  <1>3. a \o b \in Seq(S)
    BY <1>2, ConcatProperties
  <1>4. u \in Seq(S)
    BY <1>2, <1>3
  <1>5. u \in Seq(Rows)
    BY <1>4, SeqMonotonic
  <1>6. \A i \in DOMAIN u : u[i].entry # Null
    BY <1>4, LenProperties, ElementOfSeq
  <1>7. Unchained(u) = {}
    BY <1>6 DEF Unchained
  <1>8. Chained(u, Len(u)) /\ Len(u) \in Nat
    BY <1>5, <1>7, AllChained, LenProperties
  <1>9. QED
    BY <1>5, <1>7, <1>8 DEF Ordered

\* The contents of a table are a sequence of what was recorded.
LEMMA ContentType ==
  ASSUME NEW t \in Seq(Rows)
  PROVE  Content(t) \in Seq(Events \X Stamps) /\ Len(Content(t)) = Len(t)
  <1>1. DOMAIN t = 1..Len(t) /\ Len(t) \in Nat /\ \A i \in 1..Len(t) : t[i] \in Rows
    BY LenProperties, ElementOfSeq
  <1>2. \A i \in 1..Len(t) : <<t[i].body, t[i].stamp>> \in Events \X Stamps
    BY <1>1 DEF Rows
  <1>3. Content(t) \in [1..Len(t) -> Events \X Stamps]
    BY <1>1, <1>2 DEF Content
  <1>4. QED
    BY <1>1, <1>3

-----------------------------------------------------------------------------
(* Types and the order of the rows.                                        *)

Past == {"verify", "compare", "write", "running"}

Appending == {"insert", "append", "commit"}

NumbersOK == faults \in Nat /\ crashes \in Nat /\ edits \in Nat /\ cuts \in Nat

StartOK ==
    /\ checkpoint \in Hashes \cup {Null}
    /\ seen \in [Replicas -> Hashes]
    /\ alarm \in [Replicas -> BOOLEAN]
    /\ todo \in [Replicas -> SUBSET Nat]

ProcsOK ==
    /\ lock \in Procs \cup {Null}
    /\ pc \in [Procs -> Labels]
    /\ event \in [Writers -> Events]

TablesOK ==
    /\ Ordered(log)
    /\ journal \in Seq(Events \X Stamps)
    /\ view \in [Procs -> Seq(Rows)]
    /\ \A p \in Procs : Ordered(view[p])

TypeInv == NumbersOK /\ StartOK /\ ProcsOK /\ TablesOK

\* Nothing is unchained where the program relies on it.
BackfilledOK == \A r \in Replicas : pc[r] \in Past => Unchained(log) = {}

AppendingOK ==
    \A w \in Writers : pc[w] \in Appending =>
        Unchained(view[w]) = {} /\ pc[Home[w]] = "running"

\* A backfill covers what it finds unchained.
FillingOK ==
    \A r \in Replicas :
        /\ pc[r] = "open" => Unchained(log) \subseteq todo[r]
        /\ pc[r] = "fill" => Unchained(view[r]) \subseteq todo[r]
        /\ pc[r] = "fill_commit" => Unchained(view[r]) = {}

OrderInv == TypeInv /\ BackfilledOK /\ AppendingOK /\ FillingOK

\* The empty table, the copy of a process without a transaction.
LEMMA EmptyOrdered == Ordered(<<>>) /\ <<>> \in Seq(Rows) /\ Unchained(<<>>) = {}
  <1>1. <<>> \in Seq(Rows) /\ DOMAIN <<>> = {} /\ Len(<<>>) = 0
    BY EmptySeq, LenProperties
  <1>2. Chained(<<>>, 0)
    BY <1>1 DEF Chained
  <1>3. QED
    BY <1>1, <1>2 DEF Ordered, Unchained

\* Legacy rows are unchained, and nobody has begun.
LEMMA OrderInit == Init => OrderInv
  <1> SUFFICES ASSUME Init PROVE OrderInv
    OBVIOUS
  <1>1. log \in Seq(Rows) /\ Chained(log, 0)
    <2>1. PICK n \in 0..MaxLegacy, e \in Recorded :
             \E stamp \in [1..n -> LegacyStamps] :
                log = [i \in 1..n |-> LegacyRow(e, stamp[i])]
      BY DEF Init
    <2>2. PICK stamp \in [1..n -> LegacyStamps] :
             log = [i \in 1..n |-> LegacyRow(e, stamp[i])]
      BY <2>1
    <2>3. n \in Nat /\ \A i \in 1..n : stamp[i] \in Stamps
      BY ConstantsAssumption
    <2>4. \A i \in 1..n : LegacyRow(e, stamp[i]) \in Rows
      BY <2>3, ConstantsAssumption DEF LegacyRow, Rows
    <2>5. log \in [1..n -> Rows]
      BY <2>2, <2>4
    <2>6. log \in Seq(Rows) /\ Len(log) = n /\ DOMAIN log = 1..n
      BY <2>3, <2>5
    <2>7. \A i \in DOMAIN log : log[i].entry = Null
      BY <2>2, <2>6 DEF LegacyRow
    <2>8. QED
      BY <2>3, <2>6, <2>7 DEF Chained
  <1>2. Ordered(log)
    BY <1>1 DEF Ordered
  <1>3. TablesOK
    BY <1>1, <1>2, ContentType, EmptyOrdered DEF Init, TablesOK
  <1>4. NumbersOK /\ StartOK /\ ProcsOK
    BY EmptySeq, ConstantsAssumption DEF Init, NumbersOK, StartOK, ProcsOK, Genesis, Hashes, Procs, Labels
  <1>5. BackfilledOK /\ AppendingOK /\ FillingOK
    BY ConstantsAssumption DEF Init, BackfilledOK, AppendingOK, FillingOK, Procs, Past, Appending
  <1>6. QED
    BY <1>3, <1>4, <1>5 DEF OrderInv, TypeInv

\* A commit puts an ordered table in place and extends the history.
LEMMA PublishOrdered ==
  ASSUME TablesOK, NEW p \in Procs, Publish(p)
  PROVE  Ordered(log') /\ log' = view[p] /\ journal' \in Seq(Events \X Stamps)
  <1> DEFINE c == Content(view[p])
             m == Len(log) + 1
             n == Len(view[p])
  <1>1. view[p] \in Seq(Rows) /\ Ordered(view[p]) /\ log \in Seq(Rows)
    BY DEF TablesOK, Ordered
  <1>2. c \in Seq(Events \X Stamps) /\ Len(c) = n /\ m \in Nat \ {0} /\ n \in Nat
    BY <1>1, ContentType, LenProperties
  <1>3. SubSeq(c, m, n) \in Seq(Events \X Stamps)
    <2> HIDE DEF c, m, n
    <2>1. \A i \in m..n : c[i] \in Events \X Stamps
      BY <1>2, ElementOfSeq
    <2>2. QED
      BY <1>2, <2>1, SubSeqProperties
  <1>4. journal' = journal \o SubSeq(c, m, n) /\ log' = view[p]
    BY DEF Publish
  <1>5. QED
    <2> HIDE DEF c, m, n
    <2>1. QED
      BY <1>1, <1>3, <1>4, ConcatProperties DEF TablesOK

\* A transaction that may write works on the copy it has read.
LEMMA TableIsView ==
  ASSUME NEW p \in Procs, MayWrite(p)
  PROVE  Table(p) = view[p]
  BY ConstantsAssumption DEF MayWrite, Table

\* A handler runs in a replica that has passed its backfill.
LEMMA OrderBeginRecord ==
  ASSUME OrderInv, NEW w \in Writers, NEW e \in Events, BeginRecord(w, e) \/ BeginChanged(w, e)
  PROVE  OrderInv'
  <1>1. /\ w \in Procs /\ Home[w] \in Replicas /\ Replicas \cap Writers = {}
        /\ pc[Home[w]] = "running" /\ pc[w] = "idle"
        /\ view' = [view EXCEPT ![w] = log] /\ lock' \in {lock, w}
        /\ event' = [event EXCEPT ![w] = e]
        /\ \E l \in {"insert", "append"} : pc' = [pc EXCEPT ![w] = l]
        /\ UNCHANGED <<log, journal, checkpoint, todo, seen, alarm, faults, crashes, edits, cuts>>
    BY ConstantsAssumption
    DEF BeginRecord, BeginChanged, At, Snapshot, Write, Goto, database, starting, bounds, Procs
  <1>2. Unchained(log) = {}
    BY <1>1 DEF OrderInv, BackfilledOK, Past
  <1>3. NumbersOK' /\ StartOK'
    BY <1>1 DEF OrderInv, TypeInv, NumbersOK, StartOK
  <1>4. ProcsOK'
    BY <1>1 DEF OrderInv, TypeInv, ProcsOK, Labels
  <1>5. TablesOK'
    BY <1>1 DEF OrderInv, TypeInv, TablesOK, Ordered
  <1>6. \A q \in Procs \ {w} : pc'[q] = pc[q] /\ view'[q] = view[q]
    BY <1>1 DEF OrderInv, TypeInv, ProcsOK, TablesOK
  <1>7. view'[w] = log
    BY <1>1 DEF OrderInv, TypeInv, TablesOK
  <1>8. \A r \in Replicas : r \in Procs \ {w}
    BY <1>1 DEF Procs
  <1>9. BackfilledOK' /\ FillingOK'
    BY <1>1, <1>2, <1>6, <1>8 DEF OrderInv, BackfilledOK, FillingOK, Unchained
  <1>10. AppendingOK'
    <2> SUFFICES ASSUME NEW v \in Writers, pc'[v] \in Appending
                 PROVE  Unchained(view'[v]) = {} /\ pc'[Home[v]] = "running"
      BY DEF AppendingOK, Unchained
    <2>1. Home[v] \in Replicas /\ v \in Procs
      BY ConstantsAssumption DEF Procs
    <2>2. CASE v = w
      BY <1>1, <1>2, <1>6, <1>7, <1>8, <2>1, <2>2
    <2>3. CASE v # w
      BY <1>6, <1>8, <2>1, <2>3 DEF OrderInv, AppendingOK
    <2>4. QED
      BY <2>2, <2>3
  <1>11. QED
    BY <1>3, <1>4, <1>5, <1>9, <1>10 DEF OrderInv, TypeInv

\* A handler appends to a copy it has found fully chained.
LEMMA OrderInsertRow ==
  ASSUME OrderInv, NEW w \in Writers, InsertRow(w)
  PROVE  OrderInv'
  <1> DEFINE row == Row(LastHash(view[w]), event[w], "sqlite")
  <1>1. /\ w \in Procs /\ Replicas \cap Writers = {}
        /\ pc[w] \in Appending
        /\ UNCHANGED <<log, journal, checkpoint, todo, seen, alarm, event>>
    BY ConstantsAssumption DEF InsertRow, Appending, database, starting, Procs
  <1>2. \/ /\ pc' = [pc EXCEPT ![w] = "commit"] /\ lock' = w
           /\ view' = [view EXCEPT ![w] = Append(view[w], row)]
        \/ /\ pc' = [pc EXCEPT ![w] = "idle"] /\ lock' \in {lock, Null}
           /\ view' = [view EXCEPT ![w] = <<>>]
    BY <1>1, TableIsView DEF InsertRow, Write, Goto, Close
  <1>3. NumbersOK'
    BY DEF OrderInv, TypeInv, NumbersOK, InsertRow, Works, Fault, bounds
  <1>4. Unchained(view[w]) = {} /\ Ordered(view[w]) /\ view[w] \in Seq(Rows)
    BY <1>1 DEF OrderInv, TypeInv, TablesOK, AppendingOK, Ordered
  <1>5. row \in Rows /\ row.entry # Null
    <2>1. LastHash(view[w]) \in Hashes /\ event[w] \in Events /\ "sqlite" \in Stamps
      BY <1>4, LastHashType DEF OrderInv, TypeInv, ProcsOK, Stamps
    <2>2. QED
      BY <2>1, RowType, HashType DEF Row
  <1>6. Ordered(Append(view[w], row)) /\ Unchained(Append(view[w], row)) = {}
    <2> HIDE DEF row
    <2>1. QED
      BY <1>4, <1>5, AppendOrdered
  <1> HIDE DEF row
  <1>7. Ordered(view'[w]) /\ Unchained(view'[w]) = {} /\ pc'[w] \in {"commit", "idle"}
    BY <1>1, <1>2, <1>6, EmptyOrdered DEF OrderInv, TypeInv, TablesOK, ProcsOK
  <1>8. \A q \in Procs \ {w} : pc'[q] = pc[q] /\ view'[q] = view[q]
    BY <1>2 DEF OrderInv, TypeInv, ProcsOK, TablesOK
  <1>9. StartOK' /\ ProcsOK'
    BY <1>1, <1>2 DEF OrderInv, TypeInv, StartOK, ProcsOK, Labels
  <1>10. TablesOK'
    BY <1>1, <1>2, <1>6, <1>7, <1>8, EmptyOrdered DEF OrderInv, TypeInv, TablesOK, Ordered
  <1>11. \A r \in Replicas : r \in Procs \ {w}
    BY <1>1 DEF Procs
  <1>12. BackfilledOK' /\ FillingOK'
    BY <1>1, <1>8, <1>11 DEF OrderInv, BackfilledOK, FillingOK, Unchained
  <1>13. AppendingOK'
    <2> SUFFICES ASSUME NEW v \in Writers, pc'[v] \in Appending
                 PROVE  Unchained(view'[v]) = {} /\ pc'[Home[v]] = "running"
      BY DEF AppendingOK, Unchained
    <2>1. Home[v] \in Replicas /\ v \in Procs
      BY ConstantsAssumption DEF Procs
    <2>2. QED
      BY <1>1, <1>7, <1>8, <1>11, <2>1 DEF OrderInv, AppendingOK
  <1>14. QED
    BY <1>3, <1>9, <1>10, <1>12, <1>13 DEF OrderInv, TypeInv

\* A commit of a fully chained copy leaves nothing unchained.
LEMMA OrderCommit ==
  ASSUME OrderInv, NEW p \in Procs, Publish(p) \/ UNCHANGED database, Close(p),
         Publish(p) => Unchained(view[p]) = {},
         NEW l \in Labels, Goto(p, l), pc[p] \in Committing,
         l \in IF p \in Writers THEN {"idle"} ELSE {"down", "verify"},
         l = "verify" => Publish(p),
         NumbersOK', UNCHANGED <<checkpoint, event, todo, seen, alarm>>
  PROVE  OrderInv'
  <1>1. /\ view' = [view EXCEPT ![p] = <<>>] /\ lock' \in {lock, Null}
        /\ pc' = [pc EXCEPT ![p] = l] /\ Replicas \cap Writers = {}
    BY ConstantsAssumption DEF Close, Goto
  <1>2. /\ Ordered(log') /\ journal' \in Seq(Events \X Stamps)
        /\ Unchained(log') \subseteq Unchained(log)
        /\ Publish(p) => Unchained(log') = {}
    BY PublishOrdered DEF OrderInv, TypeInv, TablesOK, database, Unchained
  <1>3. /\ \A q \in Procs \ {p} : pc'[q] = pc[q] /\ view'[q] = view[q]
        /\ pc'[p] = l /\ view'[p] = <<>>
    BY <1>1 DEF OrderInv, TypeInv, ProcsOK, TablesOK
  <1>4. StartOK' /\ ProcsOK'
    BY <1>1 DEF OrderInv, TypeInv, StartOK, ProcsOK
  <1>5. TablesOK'
    BY <1>1, <1>2, <1>3, EmptyOrdered DEF OrderInv, TypeInv, TablesOK
  <1>6. BackfilledOK'
    <2> SUFFICES ASSUME NEW r \in Replicas, pc'[r] \in Past PROVE Unchained(log') = {}
      BY DEF BackfilledOK, Unchained
    <2>1. CASE r = p
      BY <1>1, <1>2, <1>3, <2>1 DEF Past
    <2>2. CASE r # p
      BY <1>2, <1>3, <2>2 DEF OrderInv, BackfilledOK, Procs
    <2>3. QED
      BY <2>1, <2>2
  <1>7. AppendingOK'
    <2> SUFFICES ASSUME NEW v \in Writers, pc'[v] \in Appending
                 PROVE  Unchained(view'[v]) = {} /\ pc'[Home[v]] = "running"
      BY DEF AppendingOK, Unchained
    <2>1. Home[v] \in Procs /\ v \in Procs
      BY ConstantsAssumption DEF Procs
    <2>2. v # p
      BY <1>1, <1>3 DEF Appending
    <2>3. pc[Home[v]] = "running" /\ Unchained(view[v]) = {}
      BY <1>3, <2>1, <2>2 DEF OrderInv, AppendingOK
    <2>4. Home[v] # p
      BY <2>3 DEF Committing
    <2>5. QED
      BY <1>3, <2>1, <2>2, <2>3, <2>4
  <1>8. FillingOK'
    <2> SUFFICES ASSUME NEW r \in Replicas
                 PROVE  /\ pc'[r] = "open" => Unchained(log') \subseteq todo'[r]
                        /\ pc'[r] = "fill" => Unchained(view'[r]) \subseteq todo'[r]
                        /\ pc'[r] = "fill_commit" => Unchained(view'[r]) = {}
      BY DEF FillingOK, Unchained
    <2>1. CASE r = p
      BY <1>1, <1>3, <2>1
    <2>2. CASE r # p
      BY <1>2, <1>3, <2>2 DEF OrderInv, FillingOK, Procs
    <2>3. QED
      BY <2>1, <2>2
  <1>9. QED
    BY <1>4, <1>5, <1>6, <1>7, <1>8 DEF OrderInv, TypeInv

\* What a handler commits is fully chained.
LEMMA OrderCommitRow ==
  ASSUME OrderInv, NEW w \in Writers, CommitRow(w)
  PROVE  OrderInv'
  <1>1. w \in Procs /\ pc[w] \in Committing /\ pc[w] \in Appending /\ "idle" \in Labels
    BY DEF CommitRow, At, Committing, Appending, Procs, Labels
  <1>2. Unchained(view[w]) = {}
    BY <1>1 DEF OrderInv, AppendingOK
  <1>3. NumbersOK'
    BY DEF OrderInv, TypeInv, NumbersOK, CommitRow, Works, Fault, bounds
  <1>4. QED
    BY <1>1, <1>2, <1>3, OrderCommit DEF CommitRow, starting

\* What a backfill commits is fully chained.
LEMMA OrderCommitBackfill ==
  ASSUME OrderInv, NEW r \in Replicas, CommitBackfill(r)
  PROVE  OrderInv'
  <1>1. /\ r \in Procs /\ r \notin Writers
        /\ pc[r] = "fill_commit" /\ pc[r] \in Committing /\ {"down", "verify"} \subseteq Labels
    BY ConstantsAssumption DEF CommitBackfill, At, Committing, Procs, Labels
  <1>2. Unchained(view[r]) = {}
    BY <1>1 DEF OrderInv, FillingOK
  <1>3. NumbersOK'
    BY DEF OrderInv, TypeInv, NumbersOK, CommitBackfill, Works, Fault, bounds
  <1>4. UNCHANGED <<checkpoint, event, todo, seen, alarm>> /\ Close(r)
    BY DEF CommitBackfill, starting
  <1>5. CASE Publish(r) /\ Goto(r, "verify")
    BY <1>1, <1>2, <1>3, <1>4, <1>5, OrderCommit
  <1>6. CASE UNCHANGED database /\ Goto(r, "down")
    BY <1>1, <1>2, <1>3, <1>4, <1>6, OrderCommit
  <1>7. QED
    BY <1>5, <1>6 DEF CommitBackfill

\* One step of a start that moves only the starting replica, and takes the
\* lock or a copy of the table at most.
LEMMA OrderStart ==
  ASSUME OrderInv, NEW r \in Replicas, NEW l \in Labels, pc[r] # "running",
         Goto(r, l), NumbersOK', StartOK', lock' \in {lock, Null, r},
         \A q \in Replicas \ {r} : todo'[q] = todo[q],
         NEW t, Ordered(t), view' = [view EXCEPT ![r] = t] \/ (UNCHANGED view /\ t = view[r]),
         UNCHANGED <<log, journal, event>>,
         l \in Past => Unchained(log) = {},
         l = "open" => Unchained(log) \subseteq todo'[r],
         l = "fill" => Unchained(t) \subseteq todo'[r],
         l = "fill_commit" => Unchained(t) = {}
  PROVE  OrderInv'
  <1>1. r \in Procs /\ Replicas \cap Writers = {} /\ pc' = [pc EXCEPT ![r] = l]
    BY ConstantsAssumption DEF Procs, Goto
  <1>2. /\ \A q \in Procs \ {r} : pc'[q] = pc[q] /\ view'[q] = view[q]
        /\ pc'[r] = l /\ view'[r] = t
    BY <1>1 DEF OrderInv, TypeInv, ProcsOK, TablesOK
  <1>3. ProcsOK'
    BY <1>1 DEF OrderInv, TypeInv, ProcsOK
  <1>4. TablesOK'
    BY <1>1, <1>2 DEF OrderInv, TypeInv, TablesOK, Ordered
  <1>5. BackfilledOK'
    BY <1>1, <1>2 DEF OrderInv, BackfilledOK, Unchained, Procs
  <1>6. AppendingOK'
    <2> SUFFICES ASSUME NEW v \in Writers, pc'[v] \in Appending
                 PROVE  Unchained(view'[v]) = {} /\ pc'[Home[v]] = "running"
      BY DEF AppendingOK, Unchained
    <2>1. Home[v] \in Procs /\ v \in Procs \ {r}
      BY <1>1, ConstantsAssumption DEF Procs
    <2>2. QED
      BY <1>2, <2>1 DEF OrderInv, AppendingOK
  <1>7. FillingOK'
    <2> SUFFICES ASSUME NEW q \in Replicas
                 PROVE  /\ pc'[q] = "open" => Unchained(log') \subseteq todo'[q]
                        /\ pc'[q] = "fill" => Unchained(view'[q]) \subseteq todo'[q]
                        /\ pc'[q] = "fill_commit" => Unchained(view'[q]) = {}
      BY DEF FillingOK, Unchained
    <2>1. CASE q = r
      BY <1>2, <2>1
    <2>2. CASE q # r
      BY <1>2, <2>2 DEF OrderInv, FillingOK, Procs
    <2>3. QED
      BY <2>1, <2>2
  <1>8. QED
    BY <1>3, <1>4, <1>5, <1>6, <1>7 DEF OrderInv, TypeInv

\* The list of a start is what is unchained.
LEMMA OrderLaunch ==
  ASSUME OrderInv, NEW r \in Replicas, Launch(r)
  PROVE  OrderInv'
  <1> DEFINE l == IF Unchained(log) = {} THEN "verify" ELSE "open"
  <1>1. /\ l \in Labels /\ Goto(r, l) /\ pc[r] # "running" /\ r \in Procs
        /\ todo' = [todo EXCEPT ![r] = Unchained(log)]
        /\ UNCHANGED <<log, journal, checkpoint, lock, view, event, seen, alarm>>
        /\ UNCHANGED <<faults, crashes, edits, cuts>>
    BY DEF Launch, At, Labels, database, bounds, Procs
  <1>2. Unchained(log) \in SUBSET Nat
    BY LenProperties DEF OrderInv, TypeInv, TablesOK, Ordered, Unchained
  <1>3. /\ StartOK' /\ NumbersOK' /\ todo'[r] = Unchained(log)
        /\ \A q \in Replicas \ {r} : todo'[q] = todo[q]
    BY <1>1, <1>2 DEF OrderInv, TypeInv, StartOK, NumbersOK
  <1>4. Ordered(view[r])
    BY <1>1 DEF OrderInv, TypeInv, TablesOK
  <1>5. /\ l \in Past => Unchained(log) = {}
        /\ l = "open" => Unchained(log) \subseteq todo'[r]
        /\ l # "fill" /\ l # "fill_commit"
    BY <1>3 DEF Past
  <1> HIDE DEF l
  <1>6. QED
    BY <1>1, <1>3, <1>4, <1>5, OrderStart

\* The copy a backfill takes has nothing unchained outside its list.
LEMMA OrderOpenBackfill ==
  ASSUME OrderInv, NEW r \in Replicas, OpenBackfill(r)
  PROVE  OrderInv'
  <1>1. /\ "fill" \in Labels /\ Goto(r, "fill") /\ pc[r] = "open"
        /\ view' = [view EXCEPT ![r] = log]
        /\ UNCHANGED <<log, journal, checkpoint, lock, event, todo, seen, alarm>>
        /\ UNCHANGED <<faults, crashes, edits, cuts>>
    BY DEF OpenBackfill, At, Snapshot, Labels, database, starting, bounds
  <1>2. StartOK' /\ NumbersOK' /\ Ordered(log)
    BY <1>1 DEF OrderInv, TypeInv, StartOK, NumbersOK, TablesOK
  <1>3. Unchained(log) \subseteq todo'[r]
    BY <1>1 DEF OrderInv, FillingOK
  <1>4. QED
    BY <1>1, <1>2, <1>3, OrderStart DEF Past

\* A backfill chains the first row of its list, or gives up.
LEMMA OrderFillRow ==
  ASSUME OrderInv, NEW r \in Replicas, FillRow(r)
  PROVE  OrderInv'
  <1>1. PICK i \in todo[r] :
          /\ \A j \in todo[r] : i <= j
          /\ \/ /\ MayWrite(r)
                /\ view[r][i].entry = Null
                /\ Write(r, [Table(r) EXCEPT
                     ![i].prev = LastHash(view[r]),
                     ![i].entry = Hash(LastHash(view[r]), view[r][i].body,
                                       Normalize(view[r][i].stamp))])
                /\ todo' = [todo EXCEPT ![r] = @ \ {i}]
                /\ Goto(r, IF todo[r] = {i} THEN "fill_commit" ELSE "fill")
             \/ AbandonStart(r)
    BY DEF FillRow
  <1>2. /\ pc[r] = "fill" /\ r \in Procs
        /\ UNCHANGED <<log, journal, checkpoint, event, seen, alarm>>
    BY DEF FillRow, At, database, Procs
  <1>3. NumbersOK'
    BY DEF OrderInv, TypeInv, NumbersOK, FillRow, Works, Fault, bounds
  <1>4. Ordered(view[r]) /\ todo[r] \in SUBSET Nat /\ Unchained(view[r]) \subseteq todo[r]
    BY <1>2 DEF OrderInv, TypeInv, TablesOK, StartOK, FillingOK
  <1>5. CASE AbandonStart(r)
    <2>1. /\ Goto(r, "down") /\ "down" \in Labels /\ todo' = [todo EXCEPT ![r] = {}]
          /\ view' = [view EXCEPT ![r] = <<>>] /\ lock' \in {lock, Null, r}
      BY <1>5 DEF AbandonStart, Close, Labels
    <2>2. StartOK' /\ \A q \in Replicas \ {r} : todo'[q] = todo[q]
      BY <1>2, <2>1 DEF OrderInv, TypeInv, StartOK
    <2>3. QED
      BY <1>2, <1>3, <2>1, <2>2, OrderStart, EmptyOrdered DEF Past
  <1>6. CASE ~AbandonStart(r)
    <2> DEFINE l == IF todo[r] = {i} THEN "fill_commit" ELSE "fill"
    <2>1. /\ Goto(r, l) /\ todo' = [todo EXCEPT ![r] = @ \ {i}] /\ lock' \in {lock, Null, r}
          /\ view' = [view EXCEPT ![r] = Filled(view[r], i)] /\ view[r][i].entry = Null
      BY <1>1, <1>6, TableIsView, <1>2 DEF Write, Filled
    <2>2. /\ StartOK' /\ todo'[r] = todo[r] \ {i}
          /\ \A q \in Replicas \ {r} : todo'[q] = todo[q]
      BY <1>2, <2>1 DEF OrderInv, TypeInv, StartOK
    <2>3. Ordered(Filled(view[r], i)) /\ Unchained(Filled(view[r], i)) = Unchained(view[r]) \ {i}
      BY <1>1, <1>4, <2>1, FillOrdered
    <2>4. /\ l \in Labels /\ l \notin Past /\ l # "open"
          /\ l = "fill" => Unchained(Filled(view[r], i)) \subseteq todo'[r]
          /\ l = "fill_commit" => Unchained(Filled(view[r], i)) = {}
      BY <1>4, <2>2, <2>3 DEF Labels, Past
    <2> HIDE DEF l
    <2>5. QED
      BY <1>2, <1>3, <2>1, <2>2, <2>3, <2>4, OrderStart
  <1>7. QED
    BY <1>5, <1>6

\* A valid chain is chained throughout and its head is a hash.
LEMMA ValidChained ==
  ASSUME NEW t \in Seq(Rows), Valid(t)
  PROVE  Unchained(t) = {} /\ ChainHead(t) \in Hashes
  <1>1. Unchained(t) = {}
    BY DEF Valid, Sound, Unchained
  <1>2. CASE t = <<>>
    <2>1. ChainHead(t) = <<>>
      BY <1>2 DEF ChainHead, Genesis
    <2>2. QED
      BY <1>1, <2>1, EmptySeq DEF Hashes
  <1>3. CASE t # <<>>
    <2>1. Len(t) \in DOMAIN t
      BY <1>3, EmptySeq, LenProperties
    <2>2. t[Len(t)] \in Rows /\ t[Len(t)].entry # Null
      BY <1>1, <2>1, LenProperties, ElementOfSeq DEF Unchained
    <2>3. t[Len(t)].entry \in Hashes
      BY <2>2 DEF Rows
    <2>4. ChainHead(t) = t[Len(t)].entry
      BY <1>3 DEF ChainHead
    <2>5. QED
      BY <1>1, <2>3, <2>4
  <1>4. QED
    BY <1>1, <1>2, <1>3

\* After the backfill a start writes no table.
LEMMA OrderServe ==
  ASSUME OrderInv, NEW r \in Replicas, Verify(r) \/ Compare(r) \/ WriteCheckpoint(r)
  PROVE  OrderInv'
  <1>1. log \in Seq(Rows) /\ Ordered(view[r]) /\ r \in Procs
    BY DEF OrderInv, TypeInv, TablesOK, Ordered, Procs
  <1>2. /\ pc[r] \in {"verify", "compare", "write"}
        /\ UNCHANGED <<log, journal, lock, view, event, todo>>
    BY DEF Verify, Compare, WriteCheckpoint, At, database, starting
  <1>3. NumbersOK'
    BY DEF OrderInv, TypeInv, NumbersOK, Verify, Compare, WriteCheckpoint, Works, Fault, bounds
  <1>4. StartOK'
    <2>1. CASE Verify(r)
      BY <1>1, <2>1, ValidChained DEF OrderInv, TypeInv, StartOK, Verify, database
    <2>2. CASE Compare(r)
      BY <2>2 DEF OrderInv, TypeInv, StartOK, Compare, Moved
    <2>3. CASE WriteCheckpoint(r)
      BY <2>3 DEF OrderInv, TypeInv, StartOK, WriteCheckpoint, starting
    <2>4. QED
      BY <2>1, <2>2, <2>3
  <1>5. Unchained(log) = {}
    BY <1>2 DEF OrderInv, BackfilledOK, Past
  <1>6. PICK l \in {"down", "compare", "write", "running"} : Goto(r, l)
    BY DEF Verify, Compare, WriteCheckpoint
  <1>7. l \in Labels
    BY DEF Labels
  <1>8. QED
    BY <1>1, <1>2, <1>3, <1>4, <1>5, <1>6, <1>7, OrderStart

\* A crash drops copies and lists.
LEMMA OrderCrash ==
  ASSUME OrderInv, NEW r \in Replicas, Crash(r)
  PROVE  OrderInv'
  <1> DEFINE gone == {r} \cup {w \in Writers : Home[w] = r}
  <1>1. /\ UNCHANGED <<log, journal, checkpoint, event, seen, alarm>>
        /\ todo' = [todo EXCEPT ![r] = {}] /\ lock' \in {lock, Null}
        /\ Replicas \cap Writers = {}
    BY ConstantsAssumption DEF Crash, database
  <1>2. \A p \in Procs : /\ pc'[p] = IF p = r THEN "down" ELSE IF p \in gone THEN "idle" ELSE pc[p]
                         /\ view'[p] = IF p \in gone THEN <<>> ELSE view[p]
    BY DEF Crash
  <1>3. /\ DOMAIN pc' = Procs /\ DOMAIN view' = Procs
        /\ pc' = [p \in Procs |-> pc'[p]] /\ view' = [p \in Procs |-> view'[p]]
    BY DEF Crash
  <1>4. NumbersOK'
    BY DEF OrderInv, TypeInv, NumbersOK, Crash
  <1>5. StartOK'
    BY <1>1 DEF OrderInv, TypeInv, StartOK
  <1> HIDE DEF gone
  <1>6. ProcsOK'
    <2>1. \A p \in Procs : pc'[p] \in Labels
      BY <1>2 DEF OrderInv, TypeInv, ProcsOK, Labels
    <2>2. QED
      BY <1>1, <1>3, <2>1 DEF OrderInv, TypeInv, ProcsOK
  <1>7. TablesOK'
    <2>1. \A p \in Procs : view'[p] \in Seq(Rows) /\ Ordered(view'[p])
      BY <1>2, EmptyOrdered DEF OrderInv, TypeInv, TablesOK
    <2>2. QED
      BY <1>1, <1>3, <2>1 DEF OrderInv, TypeInv, TablesOK
  <1>8. \A q \in Replicas : q \in Procs /\ (q \in gone <=> q = r)
    BY <1>1 DEF Procs, gone
  <1>9. \A v \in Writers : v \in Procs /\ v # r /\ Home[v] \in Replicas /\ (v \in gone <=> Home[v] = r)
    BY <1>1, ConstantsAssumption DEF Procs, gone
  <1>10. BackfilledOK'
    BY <1>1, <1>2, <1>8 DEF OrderInv, BackfilledOK, Past, Unchained
  <1>11. AppendingOK'
    BY <1>2, <1>8, <1>9 DEF OrderInv, AppendingOK, Appending, Unchained
  <1>12. FillingOK'
    <2> SUFFICES ASSUME NEW q \in Replicas
                 PROVE  /\ pc'[q] = "open" => Unchained(log') \subseteq todo'[q]
                        /\ pc'[q] = "fill" => Unchained(view'[q]) \subseteq todo'[q]
                        /\ pc'[q] = "fill_commit" => Unchained(view'[q]) = {}
      BY DEF FillingOK, Unchained
    <2>1. QED
      BY <1>1, <1>2, <1>8 DEF OrderInv, FillingOK
  <1>13. QED
    BY <1>4, <1>5, <1>6, <1>7, <1>10, <1>11, <1>12 DEF OrderInv, TypeInv

\* Whatever is done to the table from outside while nobody uses it.
LEMMA OrderOutside ==
  ASSUME OrderInv, Ordered(log'), Unchained(log') \subseteq Unchained(log), NumbersOK',
         UNCHANGED <<journal, checkpoint, lock, view, pc, event, todo, seen, alarm>>
  PROVE  OrderInv'
  <1>1. TypeInv'
    BY DEF OrderInv, TypeInv, StartOK, ProcsOK, TablesOK, Ordered
  <1>2. BackfilledOK' /\ AppendingOK' /\ FillingOK'
    BY DEF OrderInv, BackfilledOK, AppendingOK, FillingOK, Unchained
  <1>3. QED
    BY <1>1, <1>2 DEF OrderInv

\* What an edit makes of row i.
Edited(t, i, e, stamp) == [t EXCEPT ![i].body = e, ![i].stamp = stamp]

\* Changing contents leaves the hashes where they are.
LEMMA EditedRows ==
  ASSUME NEW t, Ordered(t), NEW i \in DOMAIN t, NEW e \in Events, NEW stamp \in Stamps
  PROVE  Ordered(Edited(t, i, e, stamp)) /\ Unchained(Edited(t, i, e, stamp)) = Unchained(t)
  <1> DEFINE row == [[t[i] EXCEPT !.body = e] EXCEPT !.stamp = stamp]
             u == [t EXCEPT ![i] = row]
  <1>1. t \in Seq(Rows) /\ DOMAIN t = 1..Len(t) /\ t[i] \in Rows
    BY LenProperties, ElementOfSeq DEF Ordered
  <1>2. row \in Rows /\ row.entry = t[i].entry
    BY <1>1 DEF Rows
  <1> HIDE DEF row
  <1>3. /\ u \in Seq(Rows) /\ Len(u) = Len(t) /\ DOMAIN u = DOMAIN t
        /\ \A j \in DOMAIN t : u[j].entry = t[j].entry
    BY <1>1, <1>2, ExceptSeq
  <1>4. Edited(t, i, e, stamp) = u
    BY <1>1 DEF row, Edited
  <1> HIDE DEF u
  <1>5. Ordered(u) /\ Unchained(u) = Unchained(t)
    BY <1>3 DEF Ordered, Chained, Unchained
  <1>6. QED
    BY <1>4, <1>5

\* Edits, removals and restores come when nothing is unchained or open.
LEMMA OrderDamage ==
  ASSUME OrderInv, Edit \/ Remove \/ Cut
  PROVE  OrderInv'
  <1>1. /\ NumbersOK'
        /\ UNCHANGED <<journal, checkpoint, lock, view, pc, event, todo, seen, alarm>>
    <2>1. UNCHANGED <<journal, checkpoint, lock, view, pc, event, todo, seen, alarm>>
      BY DEF Edit, Remove, Cut, starting
    <2>2. /\ edits' \in {edits, edits + 1} /\ cuts' \in {cuts, cuts + 1}
          /\ UNCHANGED <<faults, crashes>>
      BY DEF Edit, Remove, Cut
    <2>3. QED
      BY <2>1, <2>2 DEF OrderInv, TypeInv, NumbersOK
  <1>2. Ordered(log)
    BY DEF OrderInv, TypeInv, TablesOK
  <1>3. Ordered(log') /\ Unchained(log') \subseteq Unchained(log)
    <2>1. CASE Edit
      <3>1. PICK i \in DOMAIN log, e \in Events, stamp \in Stamps :
              log' = Edited(log, i, e, stamp)
        BY <2>1 DEF Edit, Edited
      <3>2. Ordered(log') /\ Unchained(log') = Unchained(log)
        BY <1>2, <3>1, EditedRows
      <3>3. QED
        BY <3>2
    <2>2. CASE Remove
      <3>1. PICK k \in DOMAIN log : log' = SubSeq(log, 1, k - 1) \o SubSeq(log, k + 1, Len(log))
        BY <2>2 DEF Remove
      <3>2. QED
        BY <1>2, <2>2, <3>1, ShorterOrdered DEF Remove, Ordered
    <2>3. CASE Cut
      <3>1. PICK k \in DOMAIN log : log' = SubSeq(log, 1, k - 1)
        BY <2>3 DEF Cut
      <3>2. QED
        BY <1>2, <2>3, <3>1, ShorterOrdered DEF Cut, Ordered
    <2>4. QED
      BY <2>1, <2>2, <2>3
  <1>4. QED
    BY <1>1, <1>3, OrderOutside

\* Every step keeps the order.
LEMMA OrderNext == OrderInv /\ [Next]_vars => OrderInv'
  <1> SUFFICES ASSUME OrderInv, [Next]_vars PROVE OrderInv'
    OBVIOUS
  <1>1. ASSUME NEW w \in Writers, Begin(w) PROVE OrderInv'
    BY <1>1, OrderBeginRecord, ConstantsAssumption DEF Begin
  <1>2. ASSUME NEW w \in Writers, Finish(w) PROVE OrderInv'
    BY <1>2, OrderInsertRow, OrderCommitRow DEF Finish
  <1>3. ASSUME NEW r \in Replicas, Start(r) PROVE OrderInv'
    BY <1>3, OrderLaunch, OrderOpenBackfill, OrderFillRow, OrderCommitBackfill, OrderServe DEF Start
  <1>4. ASSUME NEW r \in Replicas, Crash(r) PROVE OrderInv'
    BY <1>4, OrderCrash
  <1>5. CASE Edit \/ Remove \/ Cut
    BY <1>5, OrderDamage
  <1>6. CASE UNCHANGED vars
    <2>1. NumbersOK' /\ log' = log
          /\ UNCHANGED <<journal, checkpoint, lock, view, pc, event, todo, seen, alarm>>
      BY <1>6 DEF vars, database, starting, bounds, OrderInv, TypeInv, NumbersOK
    <2>2. Ordered(log') /\ Unchained(log') \subseteq Unchained(log)
      BY <2>1 DEF OrderInv, TypeInv, TablesOK
    <2>3. QED
      BY <2>1, <2>2, OrderOutside
  <1>7. QED
    BY <1>1, <1>2, <1>3, <1>4, <1>5, <1>6 DEF Next

\* Every variable keeps its type, in particular the chain head a start has
\* verified is a hash and what it compares is never a row without one.
THEOREM TypeCorrect == Spec => []TypeOK
  <1>1. OrderInv => TypeOK
    BY DEF OrderInv, TypeInv, NumbersOK, StartOK, ProcsOK, TablesOK, Ordered, TypeOK, Contents
  <1>2. QED
    BY <1>1, OrderInit, OrderNext, PTL DEF Spec

-----------------------------------------------------------------------------
(* The chain.                                                              *)

\* Rows stamped the way the program stamps them, the chained ones sound.
SoundTable(t) ==
    \A i \in DOMAIN t : t[i].stamp = "sqlite" /\ (t[i].entry # Null => Sound(t, i))

SoundInv == edits = 0 => SoundTable(log) /\ \A p \in Procs : SoundTable(view[p])

\* An appended row is sound where it stands.
LEMMA SoundAppend ==
  ASSUME NEW t \in Seq(Rows), Unchained(t) = {}, SoundTable(t), NEW e \in Events
  PROVE  SoundTable(Append(t, Row(LastHash(t), e, "sqlite")))
  <1> DEFINE row == Row(LastHash(t), e, "sqlite")
             u == Append(t, row)
             n == Len(t)
  <1>1. n \in Nat /\ DOMAIN t = 1..n /\ Chained(t, n)
    BY AllChained, LenProperties
  <1>2. LastHash(t) \in Hashes /\ LastHash(t) = IF n = 0 THEN Genesis ELSE t[n].entry
    BY <1>1, LastHashIs
  <1>3. /\ row \in Rows /\ row.prev = LastHash(t) /\ row.stamp = "sqlite" /\ row.prev # Null
        /\ row.entry = Hash(row.prev, row.body, row.stamp) /\ row.entry # Null
    <2>1. "sqlite" \in Stamps
      BY DEF Stamps
    <2>2. Hash(LastHash(t), e, "sqlite") # Null /\ row \in Rows
      BY <1>2, <2>1, HashType, RowType
    <2>3. LastHash(t) # Null
      BY <1>2, ConstantsAssumption
    <2>4. QED
      BY <2>2, <2>3 DEF Row
  <1> HIDE DEF row
  <1>4. /\ DOMAIN u = 1..(n + 1) /\ u[n + 1] = row
        /\ \A i \in 1..n : u[i] = t[i]
    BY <1>1, <1>3, AppendProperties, LenProperties
  <1> HIDE DEF u, n
  <1>5. ASSUME NEW i \in 1..n PROVE u[i].stamp = "sqlite" /\ Sound(u, i)
    <2>1. t[i].stamp = "sqlite" /\ Sound(t, i)
      BY <1>1, <1>5 DEF SoundTable, Chained
    <2>2. u[i] = t[i] /\ (i # 1 => u[i - 1] = t[i - 1])
      BY <1>1, <1>4, <1>5
    <2>3. QED
      BY <2>1, <2>2 DEF Sound, ExpectedPrev
  <1>6. Sound(u, n + 1)
    <2>1. row.prev = ExpectedPrev(u, n + 1)
      BY <1>1, <1>2, <1>3, <1>4 DEF ExpectedPrev
    <2>2. QED
      BY <1>3, <1>4, <2>1 DEF Sound
  <1>7. \A i \in DOMAIN u : u[i].stamp = "sqlite" /\ (u[i].entry # Null => Sound(u, i))
    <2>1. \A i \in 1..(n + 1) : i \in 1..n \/ i = n + 1
      BY <1>1
    <2>2. QED
      BY <1>3, <1>4, <1>5, <1>6, <2>1
  <1>8. QED
    BY <1>7 DEF SoundTable, u, row

\* So is a filled one, if its timestamp needed no normalizing.
LEMMA SoundFill ==
  ASSUME NEW t, Ordered(t), SoundTable(t), NEW T \in SUBSET Nat, Unchained(t) \subseteq T,
         NEW i \in T, \A j \in T : i <= j, t[i].entry = Null
  PROVE  SoundTable(Filled(t, i))
  <1>0. t \in Seq(Rows) /\ DOMAIN t = 1..Len(t) /\ Len(t) \in Nat
    BY LenProperties DEF Ordered
  <1>1. CASE i \notin DOMAIN t
    <2>1. Filled(t, i) = t
      BY <1>0, <1>1 DEF Filled
    <2>2. QED
      BY <2>1
  <1>2. CASE i \in DOMAIN t
    <2> DEFINE u == Filled(t, i)
    <2>1. PICK n \in Nat : Chained(t, n)
      BY DEF Ordered
    <2>2. i = n + 1
      BY <1>0, <1>2, <2>1, NextToFill
    <2>3. /\ DOMAIN u = DOMAIN t
          /\ \A j \in DOMAIN t \ {i} : u[j] = t[j]
          /\ u[i].prev = LastHash(t)
          /\ u[i].entry = Hash(LastHash(t), t[i].body, "sqlite")
          /\ u[i].body = t[i].body /\ u[i].stamp = t[i].stamp
          /\ u[i].entry # Null
      BY <1>2, FilledRows DEF Normalize
    <2>4. LastHash(t) = (IF n = 0 THEN Genesis ELSE t[n].entry) /\ LastHash(t) \in Hashes
      BY <1>0, <2>1, LastHashIs
    <2>5. t[i].stamp = "sqlite"
      BY <1>2 DEF SoundTable
    <2> HIDE DEF u
    <2>6. Sound(u, i)
      <3>1. u[i].prev # Null
        BY <2>3, <2>4, ConstantsAssumption
      <3>2. u[i].prev = ExpectedPrev(u, i)
        <4>1. n # 0 => u[n] = t[n]
          BY <1>0, <1>2, <2>2, <2>3
        <4>2. QED
          BY <2>2, <2>3, <2>4, <4>1 DEF ExpectedPrev
      <3>3. QED
        BY <2>3, <2>5, <3>1, <3>2 DEF Sound
    <2>7. ASSUME NEW j \in DOMAIN t \ {i} PROVE u[j].stamp = "sqlite" /\ (u[j].entry # Null => Sound(u, j))
      <3>1. u[j] = t[j] /\ t[j].stamp = "sqlite"
        BY <2>3, <2>7 DEF SoundTable
      <3>2. ASSUME u[j].entry # Null PROVE Sound(u, j)
        <4>1. Sound(t, j) /\ j <= n
          BY <2>1, <3>1, <3>2 DEF SoundTable, Chained
        <4>2. j # 1 => u[j - 1] = t[j - 1]
          BY <1>0, <2>2, <2>3, <4>1
        <4>3. QED
          BY <3>1, <4>1, <4>2 DEF Sound, ExpectedPrev
      <3>3. QED
        BY <3>1, <3>2
    <2>8. \A j \in DOMAIN u : u[j].stamp = "sqlite" /\ (u[j].entry # Null => Sound(u, j))
      BY <2>3, <2>5, <2>6, <2>7
    <2>9. QED
      BY <2>8 DEF SoundTable, u
  <1>3. QED
    BY <1>1, <1>2

\* A table cut short stays sound.
LEMMA SoundPrefix ==
  ASSUME NEW t \in Seq(Rows), SoundTable(t), NEW k \in DOMAIN t
  PROVE  SoundTable(SubSeq(t, 1, k - 1))
  <1> DEFINE u == SubSeq(t, 1, k - 1)
  <1>1. k \in 1..Len(t) /\ Len(t) \in Nat /\ DOMAIN t = 1..Len(t)
    BY LenProperties
  <1>2. DOMAIN u = 1..(k - 1) /\ \A i \in 1..(k - 1) : u[i] = t[i]
    BY <1>1
  <1> HIDE DEF u
  <1>3. ASSUME NEW i \in DOMAIN u PROVE u[i].stamp = "sqlite" /\ (u[i].entry # Null => Sound(u, i))
    <2>1. u[i] = t[i] /\ i \in DOMAIN t /\ (i # 1 => u[i - 1] = t[i - 1])
      BY <1>1, <1>2, <1>3
    <2>2. QED
      BY <2>1 DEF SoundTable, Sound, ExpectedPrev
  <1>4. QED
    BY <1>3 DEF SoundTable, u

\* The empty table is sound.
LEMMA SoundEmpty == SoundTable(<<>>)
  BY EmptySeq, LenProperties DEF SoundTable

\* Legacy rows carry no hashes to be unsound.
LEMMA SoundInit ==
  ASSUME LegacyStamps \subseteq {"sqlite"}, Init
  PROVE  SoundInv
  <1>1. PICK n \in 0..MaxLegacy, e \in Recorded :
           \E stamp \in [1..n -> LegacyStamps] : log = [i \in 1..n |-> LegacyRow(e, stamp[i])]
    BY DEF Init
  <1>2. PICK stamp \in [1..n -> LegacyStamps] : log = [i \in 1..n |-> LegacyRow(e, stamp[i])]
    BY <1>1
  <1>3. \A i \in DOMAIN log : log[i].stamp = "sqlite" /\ log[i].entry = Null
    BY <1>2 DEF LegacyRow
  <1>4. SoundTable(log)
    BY <1>3 DEF SoundTable
  <1>5. QED
    BY <1>4, SoundEmpty DEF Init, SoundInv

\* A step that copies the table, publishes or drops a copy, or adds a sound row.
LEMMA SoundNext ==
  ASSUME OrderInv, SoundInv, [Next]_vars
  PROVE  SoundInv'
  <1> SUFFICES ASSUME edits' = 0
               PROVE  SoundTable(log') /\ \A p \in Procs : SoundTable(view'[p])
    BY DEF SoundInv, SoundTable, Sound, ExpectedPrev
  <1>0. /\ view \in [Procs -> Seq(Rows)] /\ log \in Seq(Rows) /\ Ordered(log)
        /\ \A p \in Procs : view[p] \in Seq(Rows) /\ Ordered(view[p])
        /\ edits \in Nat
    BY DEF OrderInv, TypeInv, TablesOK, NumbersOK, Ordered
  <1>1. ASSUME edits = 0, UNCHANGED log, NEW p \in Procs, NEW t, SoundTable(t),
               view' = [view EXCEPT ![p] = t]
        PROVE  SoundTable(log') /\ \A q \in Procs : SoundTable(view'[q])
    <2>1. \A q \in Procs : view'[q] = IF q = p THEN t ELSE view[q]
      BY <1>0, <1>1
    <2>2. QED
      BY <1>1, <2>1 DEF SoundInv
  <1>2. ASSUME edits = 0, NEW p \in Procs, Publish(p) \/ UNCHANGED database, Close(p)
        PROVE  SoundTable(log') /\ \A q \in Procs : SoundTable(view'[q])
    <2>1. log' \in {log, view[p]} /\ view' = [view EXCEPT ![p] = <<>>]
      BY <1>2 DEF Publish, database, Close
    <2>2. \A q \in Procs : view'[q] = IF q = p THEN <<>> ELSE view[q]
      BY <1>0, <2>1
    <2>3. QED
      BY <1>2, <2>1, <2>2, SoundEmpty DEF SoundInv
  <1>3. ASSUME NEW w \in Writers, NEW e \in Events, BeginRecord(w, e) \/ BeginChanged(w, e)
        PROVE  SoundTable(log') /\ \A p \in Procs : SoundTable(view'[p])
    <2>1. edits = 0 /\ UNCHANGED log /\ view' = [view EXCEPT ![w] = log] /\ w \in Procs
      BY <1>3 DEF BeginRecord, BeginChanged, Snapshot, Write, database, bounds, Procs
    <2>2. SoundTable(log)
      BY <2>1 DEF SoundInv
    <2>3. QED
      BY <1>1, <2>1, <2>2
  <1>4. ASSUME NEW w \in Writers, InsertRow(w)
        PROVE  SoundTable(log') /\ \A p \in Procs : SoundTable(view'[p])
    <2> DEFINE t == Append(view[w], Row(LastHash(view[w]), event[w], "sqlite"))
    <2>1. edits = 0 /\ UNCHANGED log /\ w \in Procs /\ pc[w] \in Appending
      BY <1>4 DEF InsertRow, Works, Fault, database, bounds, Procs, Appending
    <2>2. view' = [view EXCEPT ![w] = t] \/ view' = [view EXCEPT ![w] = <<>>]
      BY <1>4, <2>1, TableIsView DEF InsertRow, Write, Close
    <2>3. Unchained(view[w]) = {} /\ event[w] \in Events /\ SoundTable(view[w])
      BY <2>1 DEF OrderInv, AppendingOK, TypeInv, ProcsOK, SoundInv
    <2>4. SoundTable(t)
      BY <1>0, <2>1, <2>3, SoundAppend
    <2> HIDE DEF t
    <2>5. QED
      BY <1>1, <2>1, <2>2, <2>4, SoundEmpty
  <1>5. ASSUME NEW w \in Writers, CommitRow(w)
        PROVE  SoundTable(log') /\ \A p \in Procs : SoundTable(view'[p])
    <2>1. edits = 0 /\ w \in Procs /\ Close(w) /\ (Publish(w) \/ UNCHANGED database)
      BY <1>5 DEF CommitRow, Works, Fault, bounds, Procs
    <2>2. QED
      BY <1>2, <2>1
  <1>6. ASSUME NEW r \in Replicas, OpenBackfill(r)
        PROVE  SoundTable(log') /\ \A p \in Procs : SoundTable(view'[p])
    <2>1. edits = 0 /\ UNCHANGED log /\ view' = [view EXCEPT ![r] = log] /\ r \in Procs
      BY <1>6 DEF OpenBackfill, Snapshot, database, bounds, Procs
    <2>2. SoundTable(log)
      BY <2>1 DEF SoundInv
    <2>3. QED
      BY <1>1, <2>1, <2>2
  <1>7. ASSUME NEW r \in Replicas, FillRow(r)
        PROVE  SoundTable(log') /\ \A p \in Procs : SoundTable(view'[p])
    <2>1. edits = 0 /\ UNCHANGED log /\ pc[r] = "fill" /\ r \in Procs
      BY <1>7 DEF FillRow, At, Works, Fault, AbandonStart, database, bounds, Procs
    <2>2. PICK i \in todo[r] :
          /\ \A j \in todo[r] : i <= j
          /\ \/ /\ MayWrite(r)
                /\ view[r][i].entry = Null
                /\ Write(r, [Table(r) EXCEPT
                     ![i].prev = LastHash(view[r]),
                     ![i].entry = Hash(LastHash(view[r]), view[r][i].body,
                                       Normalize(view[r][i].stamp))])
             \/ AbandonStart(r)
      BY <1>7 DEF FillRow
    <2>3. CASE AbandonStart(r)
      <3>1. view' = [view EXCEPT ![r] = <<>>]
        BY <2>3 DEF AbandonStart, Close
      <3>2. QED
        BY <1>1, <2>1, <3>1, SoundEmpty
    <2>4. CASE ~AbandonStart(r)
      <3>1. view' = [view EXCEPT ![r] = Filled(view[r], i)] /\ view[r][i].entry = Null
        BY <2>1, <2>2, <2>4, TableIsView DEF Write, Filled
      <3>2. /\ SoundTable(view[r]) /\ todo[r] \in SUBSET Nat
            /\ Unchained(view[r]) \subseteq todo[r]
        BY <2>1 DEF SoundInv, OrderInv, TypeInv, StartOK, FillingOK
      <3>3. SoundTable(Filled(view[r], i))
        BY <1>0, <2>1, <2>2, <3>1, <3>2, SoundFill
      <3>4. QED
        BY <1>1, <2>1, <3>1, <3>3
    <2>5. QED
      BY <2>3, <2>4
  <1>8. ASSUME NEW r \in Replicas, CommitBackfill(r)
        PROVE  SoundTable(log') /\ \A p \in Procs : SoundTable(view'[p])
    <2>1. edits = 0 /\ r \in Procs /\ Close(r) /\ (Publish(r) \/ UNCHANGED database)
      BY <1>8 DEF CommitBackfill, Works, Fault, bounds, Procs
    <2>2. QED
      BY <1>2, <2>1
  <1>9. ASSUME NEW r \in Replicas, Launch(r) \/ Verify(r) \/ Compare(r) \/ WriteCheckpoint(r)
        PROVE  SoundTable(log') /\ \A p \in Procs : SoundTable(view'[p])
    <2>1. edits = 0 /\ UNCHANGED <<log, view>>
      BY <1>9 DEF Launch, Verify, Compare, WriteCheckpoint, Works, Fault, database, bounds
    <2>2. QED
      BY <2>1 DEF SoundInv
  <1>10. ASSUME NEW r \in Replicas, Crash(r)
         PROVE  SoundTable(log') /\ \A p \in Procs : SoundTable(view'[p])
    <2>1. edits = 0 /\ UNCHANGED log /\ \A p \in Procs : view'[p] \in {view[p], <<>>}
      BY <1>10 DEF Crash, database
    <2>2. QED
      BY <2>1, SoundEmpty DEF SoundInv
  <1>11. CASE Edit \/ Remove
    <2>1. edits' = edits + 1
      BY <1>11 DEF Edit, Remove
    <2>2. QED
      BY <1>0, <2>1
  <1>12. CASE Cut
    <2>1. edits = 0 /\ UNCHANGED view /\ SoundTable(log)
      BY <1>12 DEF Cut, SoundInv
    <2>2. PICK k \in DOMAIN log : log' = SubSeq(log, 1, k - 1)
      BY <1>12 DEF Cut
    <2>3. SoundTable(log')
      BY <1>0, <2>1, <2>2, SoundPrefix
    <2>4. QED
      BY <2>1, <2>3 DEF SoundInv
  <1>13. CASE UNCHANGED vars
    BY <1>13 DEF vars, database, bounds, SoundInv
  <1>14. QED
    BY <1>3, <1>4, <1>5, <1>6, <1>7, <1>8, <1>9, <1>10, <1>11, <1>12, <1>13,
       ConstantsAssumption
    DEF Next, Begin, Finish, Start

\* The chain never forks or breaks, whatever the transactions of any number of
\* handlers and starting replicas do to each other, if the rows older than the
\* hashes bear the timestamps the program itself writes: each append is linked
\* to the last row of the very table it is added to, each backfill fills the
\* first row without hashes, and nothing else touches a chained row.
THEOREM ChainSound ==
  ASSUME LegacyStamps \subseteq {"sqlite"}
  PROVE  Spec => []ChainUnbroken
  <1>1. Init => OrderInv /\ SoundInv
    BY OrderInit, SoundInit
  <1>2. OrderInv /\ SoundInv /\ [Next]_vars => (OrderInv /\ SoundInv)'
    BY OrderNext, SoundNext
  <1>3. OrderInv /\ SoundInv => ChainUnbroken
    BY DEF SoundInv, SoundTable, ChainUnbroken, Unchained
  <1>4. QED
    BY <1>1, <1>2, <1>3, PTL DEF Spec

-----------------------------------------------------------------------------
(* The log is append-only.  Only the process that has written can commit,  *)
(* and what it has written extends the committed table, which nobody else  *)
(* can replace meanwhile.                                                  *)

Extends(u, t) ==
    \A i \in DOMAIN t :
        /\ i \in DOMAIN u
        /\ u[i].body = t[i].body /\ u[i].stamp = t[i].stamp
        /\ t[i].entry # Null => u[i] = t[i]

Writing(p) == IF p \in Writers THEN pc[p] \in Appending ELSE pc[p] \in {"fill", "fill_commit"}

LockInv ==
    /\ \A p \in Procs : pc[p] \in Committing => lock = p
    /\ lock # Null => Writing(lock) /\ Extends(view[lock], log)

\* A row more, or one that gets its hashes, extends a table.
LEMMA AppendExtends ==
  ASSUME NEW t, NEW u \in Seq(Rows), Extends(u, t), NEW row \in Rows
  PROVE  Extends(Append(u, row), t)
  <1>1. /\ DOMAIN u = 1 .. Len(u) /\ Len(u) \in Nat
        /\ DOMAIN Append(u, row) = 1 .. Len(u) + 1
        /\ \A i \in 1 .. Len(u) : Append(u, row)[i] = u[i]
    BY AppendProperties, LenProperties
  <1>. QED  BY <1>1 DEF Extends

LEMMA FillExtends ==
  ASSUME NEW t, NEW u, Ordered(u), Extends(u, t), NEW i, u[i].entry = Null
  PROVE  Extends(Filled(u, i), t)
  <1>1. CASE i \in DOMAIN u
    BY <1>1, FilledRows DEF Extends
  <1>2. CASE i \notin DOMAIN u
    <2>1. DOMAIN u = 1 .. Len(u) /\ u \in Seq(Rows)
      BY LenProperties DEF Ordered
    <2>2. Filled(u, i) = u
      BY <1>2, <2>1 DEF Filled
    <2>. QED  BY <2>2
  <1>. QED  BY <1>1, <1>2

\* Who may write has a version that extends the log.
LEMMA MayWriteExtends ==
  ASSUME OrderInv, LockInv, NEW p \in Procs, MayWrite(p)
  PROVE  Extends(view[p], log)
  <1>1. Extends(log, log)
    BY DEF Extends
  <1>. QED  BY <1>1, ConstantsAssumption DEF MayWrite, LockInv, Procs

\* A process that ends its transaction, or writes in it.
LEMMA LockClose ==
  ASSUME OrderInv, LockInv, NEW p \in Procs, Close(p),
         (Publish(p) /\ lock = p) \/ UNCHANGED log,
         NEW l \in Labels \ Committing, pc' = [pc EXCEPT ![p] = l]
  PROVE  LockInv' /\ Extends(log', log)
  <1>1. /\ pc \in [Procs -> Labels] /\ view \in [Procs -> Seq(Rows)]
        /\ lock \in Procs \cup {Null} /\ Null \notin Procs
    BY ConstantsAssumption DEF OrderInv, TypeInv, ProcsOK, TablesOK, Procs
  <1>2. /\ \A q \in Procs \ {p} : pc'[q] = pc[q] /\ view'[q] = view[q]
        /\ pc'[p] = l /\ lock' = IF lock = p THEN Null ELSE lock
    BY <1>1 DEF Close
  <1>3. Extends(log', log)
    BY <1>1 DEF Publish, LockInv, Extends
  <1>4. lock' # Null => log' = log /\ lock' = lock /\ lock \in Procs \ {p}
    BY <1>1, <1>2 DEF Publish
  <1>. QED  BY <1>1, <1>2, <1>3, <1>4 DEF LockInv, Writing

LEMMA LockWrite ==
  ASSUME OrderInv, LockInv, NEW p \in Procs, lock = p \/ lock = Null,
         NEW t, Extends(t, log), Write(p, t), UNCHANGED log,
         NEW l \in Labels, pc' = [pc EXCEPT ![p] = l],
         IF p \in Writers THEN l \in Appending ELSE l \in {"fill", "fill_commit"}
  PROVE  LockInv' /\ Extends(log', log)
  <1>1. /\ pc \in [Procs -> Labels] /\ view \in [Procs -> Seq(Rows)] /\ Null \notin Procs
    BY ConstantsAssumption DEF OrderInv, TypeInv, ProcsOK, TablesOK, Procs
  <1>2. /\ \A q \in Procs \ {p} : pc'[q] = pc[q]
        /\ pc'[p] = l /\ lock' = p /\ view'[p] = t
    BY <1>1 DEF Write
  <1>3. \A q \in Procs \ {p} : pc'[q] \notin Committing
    BY <1>1, <1>2 DEF LockInv
  <1>4. Extends(view'[p], log') /\ Extends(log', log)
    BY <1>2 DEF Extends
  <1>. QED  BY <1>2, <1>3, <1>4 DEF LockInv, Writing

\* A process that does not hold the lock moves without it.
LEMMA LockOther ==
  ASSUME OrderInv, LockInv, NEW p \in Procs, lock # p, UNCHANGED <<log, lock>>,
         NEW l \in Labels \ Committing, pc' = [pc EXCEPT ![p] = l],
         \A q \in Procs \ {p} : view'[q] = view[q]
  PROVE  LockInv' /\ Extends(log', log)
  <1>1. pc \in [Procs -> Labels] /\ lock \in Procs \cup {Null}
    BY DEF OrderInv, TypeInv, ProcsOK
  <1>2. (\A q \in Procs \ {p} : pc'[q] = pc[q]) /\ pc'[p] = l
    BY <1>1
  <1>3. Extends(log', log)
    BY DEF Extends
  <1>. QED  BY <1>1, <1>2, <1>3 DEF LockInv, Writing

LEMMA LockNext ==
  ASSUME OrderInv, LockInv, [Next]_vars
  PROVE  LockInv' /\ (edits' = edits /\ cuts' = cuts => Extends(log', log))
  <1>0. /\ view \in [Procs -> Seq(Rows)] /\ pc \in [Procs -> Labels] /\ event \in [Writers -> Events]
        /\ lock \in Procs \cup {Null} /\ Null \notin Procs /\ Replicas \cap Writers = {}
        /\ Procs = Replicas \cup Writers
        /\ edits \in Nat /\ cuts \in Nat
    BY ConstantsAssumption DEF OrderInv, TypeInv, TablesOK, NumbersOK, ProcsOK, Procs
  <1>1. ASSUME NEW w \in Writers, NEW e \in Events, BeginRecord(w, e)
        PROVE  LockInv' /\ Extends(log', log)
    <2>1. /\ pc[w] = "idle" /\ pc' = [pc EXCEPT ![w] = "insert"] /\ UNCHANGED <<log, lock>>
          /\ view' = [view EXCEPT ![w] = log] /\ "insert" \in Labels \ Committing
      BY <1>1 DEF BeginRecord, Snapshot, At, Goto, database, Labels, Committing
    <2>2. lock # w
      BY <1>0, <2>1 DEF LockInv, Writing, Appending
    <2>. QED  BY <1>0, <2>1, <2>2, LockOther
  <1>2. ASSUME NEW w \in Writers, NEW e \in Events, BeginChanged(w, e)
        PROVE  LockInv' /\ Extends(log', log)
    <2>1. /\ lock = Null /\ Write(w, log) /\ pc' = [pc EXCEPT ![w] = "append"] /\ UNCHANGED log
          /\ "append" \in Labels \cap Appending
      BY <1>2 DEF BeginChanged, Goto, database, Labels, Appending
    <2>2. Extends(log, log)
      BY DEF Extends
    <2>. QED  BY <1>0, <2>1, <2>2, LockWrite
  <1>3. ASSUME NEW w \in Writers, InsertRow(w)
        PROVE  LockInv' /\ Extends(log', log)
    <2> DEFINE t == Append(view[w], Row(LastHash(view[w]), event[w], "sqlite"))
    <2>1. UNCHANGED log /\ w \in Procs /\ pc[w] \in Appending
      BY <1>0, <1>3 DEF InsertRow, database, Appending
    <2>2. \/ MayWrite(w) /\ Write(w, t) /\ pc' = [pc EXCEPT ![w] = "commit"]
          \/ Close(w) /\ pc' = [pc EXCEPT ![w] = "idle"]
      BY <1>3, <2>1, TableIsView DEF InsertRow, Goto
    <2>3. CASE MayWrite(w) /\ Write(w, t) /\ pc' = [pc EXCEPT ![w] = "commit"]
      <3>1. Extends(view[w], log)
        BY <2>1, <2>3, MayWriteExtends
      <3>2. LastHash(view[w]) \in Hashes
        BY <2>1, LastHashType DEF OrderInv, TypeInv, TablesOK
      <3>3. Row(LastHash(view[w]), event[w], "sqlite") \in Rows
        BY <1>0, <3>2, RowType DEF Stamps
      <3>4. Extends(t, log)
        BY <1>0, <2>1, <3>1, <3>3, AppendExtends
      <3>5. lock = w \/ lock = Null
        BY <2>3 DEF MayWrite
      <3>6. "commit" \in Labels \cap Appending
        BY DEF Labels, Appending
      <3> HIDE DEF t
      <3>. QED  BY <2>1, <2>3, <3>4, <3>5, <3>6, LockWrite
    <2>4. CASE Close(w) /\ pc' = [pc EXCEPT ![w] = "idle"]
      <3>1. "idle" \in Labels \ Committing
        BY DEF Labels, Committing
      <3>. QED  BY <2>1, <2>4, <3>1, LockClose
    <2>. QED  BY <2>2, <2>3, <2>4
  <1>4. ASSUME NEW w \in Writers, CommitRow(w)
        PROVE  LockInv' /\ Extends(log', log)
    <2>1. /\ pc[w] = "commit" /\ Close(w) /\ (Publish(w) \/ UNCHANGED log)
          /\ pc' = [pc EXCEPT ![w] = "idle"] /\ w \in Procs
      BY <1>0, <1>4 DEF CommitRow, At, Goto, database
    <2>2. lock = w /\ "idle" \in Labels \ Committing
      BY <2>1 DEF LockInv, Committing, Labels
    <2>. QED  BY <2>1, <2>2, LockClose
  <1>5. ASSUME NEW r \in Replicas, Launch(r) \/ OpenBackfill(r) \/ Verify(r) \/ Compare(r) \/ WriteCheckpoint(r)
        PROVE  LockInv' /\ Extends(log', log)
    <2>1. pc[r] \in {"down", "open", "verify", "compare", "write"} /\ r \in Procs /\ r \notin Writers
      BY <1>0, <1>5 DEF Launch, OpenBackfill, Verify, Compare, WriteCheckpoint, At
    <2>2. lock # r
      BY <1>0, <2>1 DEF LockInv, Writing
    <2>3. UNCHANGED <<log, lock>> /\ \A q \in Procs \ {r} : view'[q] = view[q]
      BY <1>0, <1>5 DEF Launch, OpenBackfill, Verify, Compare, WriteCheckpoint, Snapshot, database
    <2>4. PICK l \in Labels \ Committing : pc' = [pc EXCEPT ![r] = l]
      BY <1>5 DEF Launch, OpenBackfill, Verify, Compare, WriteCheckpoint, Goto, Labels, Committing
    <2>. QED  BY <2>1, <2>2, <2>3, <2>4, LockOther
  <1>6. ASSUME NEW r \in Replicas, FillRow(r)
        PROVE  LockInv' /\ Extends(log', log)
    <2>1. UNCHANGED log /\ pc[r] = "fill" /\ r \in Procs /\ r \notin Writers
      BY <1>0, <1>6 DEF FillRow, At, database
    <2>2. PICK i \in todo[r] :
             \/ /\ MayWrite(r)
                /\ view[r][i].entry = Null
                /\ Write(r, [Table(r) EXCEPT
                     ![i].prev = LastHash(view[r]),
                     ![i].entry = Hash(LastHash(view[r]), view[r][i].body,
                                       Normalize(view[r][i].stamp))])
                /\ Goto(r, IF todo[r] = {i} THEN "fill_commit" ELSE "fill")
             \/ AbandonStart(r)
      BY <1>6 DEF FillRow
    <2>3. CASE AbandonStart(r)
      <3>1. Close(r) /\ pc' = [pc EXCEPT ![r] = "down"] /\ "down" \in Labels \ Committing
        BY <2>3 DEF AbandonStart, Goto, Labels, Committing
      <3>. QED  BY <2>1, <3>1, LockClose
    <2>4. CASE ~AbandonStart(r)
      <3>1. MayWrite(r) /\ Write(r, Filled(view[r], i)) /\ view[r][i].entry = Null
        BY <2>1, <2>2, <2>4, TableIsView DEF Filled
      <3>2. Extends(Filled(view[r], i), log)
        BY <2>1, <3>1, MayWriteExtends, FillExtends DEF OrderInv, TypeInv, TablesOK
      <3>3. lock = r \/ lock = Null
        BY <3>1 DEF MayWrite
      <3>4. PICK l \in {"fill", "fill_commit"} : pc' = [pc EXCEPT ![r] = l]
        BY <2>2, <2>4 DEF Goto
      <3>5. l \in Labels
        BY <3>4 DEF Labels
      <3>. QED  BY <2>1, <3>1, <3>2, <3>3, <3>4, <3>5, LockWrite
    <2>. QED  BY <2>3, <2>4
  <1>7. ASSUME NEW r \in Replicas, CommitBackfill(r)
        PROVE  LockInv' /\ Extends(log', log)
    <2>1. /\ pc[r] = "fill_commit" /\ Close(r) /\ (Publish(r) \/ UNCHANGED log) /\ r \in Procs
      BY <1>0, <1>7 DEF CommitBackfill, At, database
    <2>2. PICK l \in {"verify", "down"} : pc' = [pc EXCEPT ![r] = l]
      BY <1>7 DEF CommitBackfill, Goto
    <2>3. lock = r /\ l \in Labels \ Committing
      BY <2>1 DEF LockInv, Committing, Labels
    <2>. QED  BY <2>1, <2>2, <2>3, LockClose
  <1>8. ASSUME NEW r \in Replicas, Crash(r)
        PROVE  LockInv' /\ Extends(log', log)
    <2> DEFINE gone == {r} \cup {w \in Writers : Home[w] = r}
    <2>1. /\ UNCHANGED log /\ gone \subseteq Procs
          /\ \A p \in gone : pc'[p] \in {"down", "idle"}
          /\ \A p \in Procs \ gone : pc'[p] = pc[p] /\ view'[p] = view[p]
          /\ lock' = IF lock \in gone THEN Null ELSE lock
      BY <1>0, <1>8 DEF Crash, database
    <2>2. Extends(log', log)
      BY <2>1 DEF Extends
    <2> HIDE DEF gone
    <2>3. \A p \in gone : pc'[p] \notin Committing
      BY <2>1 DEF Committing
    <2>. QED  BY <1>0, <2>1, <2>2, <2>3 DEF LockInv, Writing
  <1>9. CASE Edit \/ Remove \/ Cut
    <2>1. lock = Null
      <3>1. CASE Edit
        BY <1>0, <3>1 DEF Edit, LockInv, Writing, Open, Committing, Appending
      <3>2. CASE Remove \/ Cut
        <4>1. \A r \in Replicas : pc[r] = "down"
          BY <3>2 DEF Remove, Cut, Away, At
        <4>2. \A w \in Writers : pc[w] \notin Appending
          BY <4>1, ConstantsAssumption DEF OrderInv, AppendingOK
        <4>. QED  BY <1>0, <4>1, <4>2 DEF LockInv, Writing
      <3>. QED  BY <1>9, <3>1, <3>2
    <2>2. UNCHANGED <<lock, pc>> /\ (edits' = edits + 1 \/ cuts' = cuts + 1)
      BY <1>9 DEF Edit, Remove, Cut
    <2>. QED  BY <1>0, <2>1, <2>2 DEF LockInv
  <1>10. CASE UNCHANGED vars
    <2>1. UNCHANGED <<log, lock, pc, view>>
      BY <1>10 DEF vars, database
    <2>. QED  BY <2>1 DEF LockInv, Writing, Extends
  <1>. QED  BY <1>1, <1>2, <1>3, <1>4, <1>5, <1>6, <1>7, <1>8, <1>9, <1>10,
             ConstantsAssumption DEF Next, Begin, Finish, Start

\* The program removes no audit row and changes none, but to give one its
\* hashes once: for any number of replicas that append and backfill at once
\* (insert_chained_tx, backfill_unchained and the triggers of migration 019).
THEOREM LogAppendOnly == Spec => AppendOnly
  <1>1. Init => OrderInv /\ LockInv
    BY OrderInit DEF Init, LockInv, Committing
  <1>2. OrderInv /\ LockInv /\ [Next]_vars => (OrderInv /\ LockInv)'
    BY OrderNext, LockNext
  <1>3. OrderInv /\ LockInv /\ [Next]_vars =>
           [edits' = edits /\ cuts' = cuts =>
              \A i \in DOMAIN log :
                 /\ i \in DOMAIN log'
                 /\ log'[i].body = log[i].body /\ log'[i].stamp = log[i].stamp
                 /\ log[i].entry # Null => log'[i] = log[i]]_vars
    BY LockNext DEF Extends
  <1>. QED  BY <1>1, <1>2, <1>3, PTL DEF Spec, AppendOnly

-----------------------------------------------------------------------------
(* A start notices that the head it left behind is gone.                   *)

\* What a start compares is the hash of a row, or the genesis hash: between
\* its verification and the comparison rows are only added.
SeenInv == \A r \in Replicas : pc[r] = "compare" =>
    \/ seen[r] = Genesis
    \/ \E i \in DOMAIN log : log[i].entry # Null /\ log[i].entry = seen[r]

\* A hash there is stays as long as a replica is up.
LEMMA EntriesStay ==
  ASSUME OrderInv, LockInv, [Next]_vars, NEW i \in DOMAIN log, log[i].entry # Null, ~Remove, ~Cut
  PROVE  i \in DOMAIN log' /\ log'[i].entry = log[i].entry
  <1>1. CASE Edit
    <2>1. PICK k \in DOMAIN log, e \in Events, stamp \in Stamps : log' = Edited(log, k, e, stamp)
      BY <1>1 DEF Edit, Edited
    <2>2. Ordered(log) /\ DOMAIN log = 1 .. Len(log) /\ \A j \in DOMAIN log : log[j] \in Rows
      BY LenProperties, ElementOfSeq DEF OrderInv, TypeInv, TablesOK, Ordered
    <2>. QED  BY <2>1, <2>2 DEF Edited, Rows
  <1>2. CASE ~Edit
    <2>1. ASSUME NEW w \in Writers, Begin(w) \/ Finish(w)
          PROVE  edits' = edits /\ cuts' = cuts
      BY <2>1 DEF Begin, BeginRecord, BeginChanged, Finish, InsertRow, CommitRow, Works, Fault, bounds
    <2>2. ASSUME NEW r \in Replicas, Start(r) \/ Crash(r)
          PROVE  edits' = edits /\ cuts' = cuts
      BY <2>2 DEF Start, Launch, OpenBackfill, FillRow, CommitBackfill, Verify, Compare,
         WriteCheckpoint, Crash, Works, Fault, bounds
    <2>3. edits' = edits /\ cuts' = cuts
      BY <1>2, <2>1, <2>2 DEF Next, bounds, vars
    <2>. QED  BY <2>3, LockNext DEF Extends
  <1>. QED  BY <1>1, <1>2

\* Every step of a start keeps what it has compared in the log.
LEMMA SeenNext ==
  ASSUME OrderInv, LockInv, SeenInv, [Next]_vars
  PROVE  SeenInv'
  <1> SUFFICES ASSUME NEW r \in Replicas, pc'[r] = "compare"
               PROVE  \/ seen'[r] = Genesis
                      \/ \E i \in DOMAIN log' : log'[i].entry # Null /\ log'[i].entry = seen'[r]
    BY DEF SeenInv
  <1>0. /\ pc \in [Procs -> Labels] /\ seen \in [Replicas -> Hashes] /\ r \in Procs
        /\ log \in Seq(Rows) /\ Replicas \cap Writers = {}
    BY ConstantsAssumption DEF OrderInv, TypeInv, ProcsOK, StartOK, TablesOK, Ordered, Procs
  <1>1. CASE Verify(r)
    <2>1. Valid(log) /\ seen'[r] = ChainHead(log) /\ log' = log
      BY <1>0, <1>1 DEF Verify, Goto, database
    <2>2. CASE log = <<>>
      BY <2>1, <2>2 DEF ChainHead
    <2>3. CASE log # <<>>
      <3>1. Len(log) \in DOMAIN log
        BY <1>0, <2>3, EmptySeq, LenProperties
      <3>2. ChainHead(log) = log[Len(log)].entry /\ log[Len(log)].entry # Null
        BY <2>1, <2>3, <3>1 DEF ChainHead, Valid, Sound
      <3>. QED  BY <2>1, <3>1, <3>2
    <2>. QED  BY <2>2, <2>3
  <1>2. CASE ~Verify(r)
    <2>1. pc[r] = "compare" /\ seen'[r] = seen[r]
      <3> USE <1>0 DEF Goto, Procs
      <3>1. ASSUME NEW w \in Writers, Begin(w) \/ Finish(w) PROVE pc'[r] = pc[r] /\ seen'[r] = seen[r]
        BY <3>1 DEF Begin, BeginRecord, BeginChanged, Finish, InsertRow, CommitRow, starting
      <3>2. ASSUME NEW q \in Replicas, Start(q) PROVE pc[r] = "compare" /\ seen'[r] = seen[r]
        BY <1>2, <3>2 DEF Start, Launch, OpenBackfill, FillRow, AbandonStart, CommitBackfill, Verify,
           Compare, WriteCheckpoint, starting
      <3>3. ASSUME NEW q \in Replicas, Crash(q) PROVE pc'[r] = pc[r] /\ seen'[r] = seen[r]
        BY <3>3 DEF Crash
      <3>4. CASE Edit \/ Remove \/ Cut \/ UNCHANGED vars
        BY <3>4 DEF Edit, Remove, Cut, vars, starting
      <3>. QED  BY <3>1, <3>2, <3>3, <3>4 DEF Next
    <2>2. ~Remove /\ ~Cut
      BY <2>1 DEF Remove, Cut, Away, At
    <2>3. CASE seen[r] = Genesis
      BY <2>1, <2>3
    <2>4. CASE seen[r] # Genesis
      <3>1. PICK i \in DOMAIN log : log[i].entry # Null /\ log[i].entry = seen[r]
        BY <2>1, <2>4 DEF SeenInv
      <3>2. i \in DOMAIN log' /\ log'[i].entry = log[i].entry
        BY <2>2, <3>1, EntriesStay
      <3>. QED  BY <2>1, <3>1, <3>2
    <2>. QED  BY <2>3, <2>4
  <1>. QED  BY <1>1, <1>2

\* A start notices that the head it left in its checkpoint is no longer in the
\* log, whatever other replicas append and backfill meanwhile (verify_chain and
\* the comparison that follows it in main).
THEOREM LossesNoticed == Spec => LossIsNoticed
  <1>1. Init => OrderInv /\ LockInv /\ SeenInv
    BY OrderInit DEF Init, LockInv, Committing, SeenInv, Procs
  <1>2. OrderInv /\ LockInv /\ SeenInv /\ [Next]_vars => (OrderInv /\ LockInv /\ SeenInv)'
    BY OrderNext, LockNext, SeenNext
  <1>3. ASSUME OrderInv, SeenInv, Next, NEW r \in Replicas, Compares(r),
               checkpoint \notin {Null, Genesis} \cup {log[i].entry : i \in DOMAIN log}
        PROVE  alarm'[r]
    <2>0. /\ pc \in [Procs -> Labels] /\ r \in Procs /\ Replicas \cap Writers = {}
          /\ alarm \in [Replicas -> BOOLEAN] /\ crashes \in Nat
      BY <1>3, ConstantsAssumption DEF OrderInv, TypeInv, ProcsOK, StartOK, NumbersOK, Procs
    <2>1. Compare(r)
      <3> USE <1>3, <2>0 DEF Goto, Procs, Compares, At
      <3>1. ASSUME NEW w \in Writers, Begin(w) \/ Finish(w) PROVE FALSE
        BY <3>1 DEF Begin, BeginRecord, BeginChanged, Finish, InsertRow, CommitRow
      <3>2. ASSUME NEW q \in Replicas, Start(q) PROVE Compare(r)
        BY <3>2 DEF Start, Launch, OpenBackfill, FillRow, AbandonStart, CommitBackfill, Verify,
           Compare, WriteCheckpoint
      <3>3. ~Edit /\ ~Remove /\ ~Cut
        BY DEF Edit, Remove, Cut
      <3>4. ASSUME NEW q \in Replicas, Crash(q) PROVE FALSE
        <4>1. crashes' = crashes + 1 /\ crashes' = crashes
          BY <3>4 DEF Crash
        <4>. QED  BY <2>0, <4>1
      <3>. QED  BY <3>1, <3>2, <3>3, <3>4 DEF Next
    <2>2. checkpoint # Null /\ checkpoint # seen[r]
      BY <1>3 DEF SeenInv, Compares, At
    <2>. QED  BY <2>0, <2>1, <2>2 DEF Compare, Moved
  <1>4. OrderInv /\ SeenInv /\ [Next]_vars =>
           [\A r \in Replicas :
               Compares(r) /\ checkpoint \notin {Null, Genesis} \cup {log[i].entry : i \in DOMAIN log}
                 => alarm'[r]]_vars
    BY <1>3
  <1>. QED  BY <1>1, <1>2, <1>4, PTL DEF Spec, LossIsNoticed

-----------------------------------------------------------------------------
(* Tampering shows.  The last hash of the log is all that was recorded, up *)
(* to the rows that are still unchained (Spells): edits change contents,   *)
(* removals take rows, and neither touches the last hash.  In a valid      *)
(* chain the last hash is also what the rows say now.                      *)

\* The natural numbers have a least number principle, and so induction over a set.
LEMMA NatOrder ==
  \E R : IsWellFoundedOn(R, Nat) /\ \A y, z \in Nat : <<y, z>> \in R <=> y < z
  <1>1. \A y, z \in Nat : <<y, z>> \in OpToRel(<, Nat) <=> y < z
    BY DEF OpToRel
  <1>. QED  BY <1>1, NatLessThanWellFounded, Zenon

\* Induction over a set of natural numbers.
LEMMA SetInduction ==
  ASSUME NEW S, 0 \in S, \A n \in Nat : n \in S => n + 1 \in S
  PROVE  Nat \subseteq S
  <1> DEFINE T == Nat \ S
  <1>1. SUFFICES ASSUME T # {} PROVE FALSE
    OBVIOUS
  <1>2. PICK R : IsWellFoundedOn(R, Nat) /\ \A y, z \in Nat : <<y, z>> \in R <=> y < z
    BY NatOrder
  <1>3. PICK m \in T : \A y \in T : ~(<<y, m>> \in R)
    <2>1. IsWellFoundedOn(R, Nat) /\ T \subseteq Nat
      BY <1>2
    <2> HIDE DEF T
    <2>. QED  BY <1>1, <2>1, WFMin, Zenon
  <1>4. m \in Nat /\ m \notin S /\ \A y \in Nat \ S : ~(y < m)
    BY <1>2, <1>3
  <1>5. m # 0 /\ m - 1 \in Nat
    BY <1>4
  <1>. QED  BY <1>4, <1>5

\* J is what the last hash of t says, followed by the contents of its unchained
\* rows, all of it stamped the way the program stamps.
Spells(t, J) ==
    /\ \A i \in 1 .. Len(J) : J[i][2] = "sqlite"
    /\ \E n \in Nat :
          /\ Chained(t, n)
          /\ Len(J) = Len(LastHash(t)) + Len(t) - n
          /\ \A i \in 1 .. Len(LastHash(t)) : LastHash(t)[i] = Joined[J[i]]
          /\ \A i \in (n + 1) .. Len(t) :
                <<t[i].body, t[i].stamp>> = J[Len(LastHash(t)) + i - n]

\* Only one number of rows is chained.
LEMMA ChainedOnce ==
  ASSUME NEW t \in Seq(Rows), NEW n \in Nat, NEW m \in Nat, Chained(t, n), Chained(t, m)
  PROVE  n = m
  <1>1. DOMAIN t = 1 .. Len(t) /\ Len(t) \in Nat
    BY LenProperties
  <1>2. CASE n < m
    <2>1. m \in DOMAIN t
      BY <1>1, <1>2 DEF Chained
    <2>. QED  BY <1>2, <2>1 DEF Chained
  <1>3. CASE m < n
    <2>1. n \in DOMAIN t
      BY <1>1, <1>3 DEF Chained
    <2>. QED  BY <1>3, <2>1 DEF Chained
  <1>. QED  BY <1>2, <1>3 DEF Chained

\* A row appended behind the last hash is spelled by its own.
LEMMA SpellsAppend ==
  ASSUME NEW t \in Seq(Rows), NEW J \in Seq(Events \X Stamps), Unchained(t) = {}, Spells(t, J),
         NEW e \in Events
  PROVE  Spells(Append(t, Row(LastHash(t), e, "sqlite")), Append(J, <<e, "sqlite">>))
  <1> DEFINE row == Row(LastHash(t), e, "sqlite")
             u == Append(t, row)
             K == Append(J, <<e, "sqlite">>)
             h == LastHash(t)
  <1>1. Len(t) \in Nat /\ DOMAIN t = 1 .. Len(t) /\ Chained(t, Len(t))
    BY AllChained, LenProperties
  <1>2. h \in Hashes
    BY <1>1, LastHashIs
  <1>3. row \in Rows /\ row.entry = Append(h, Joined[<<e, "sqlite">>]) /\ row.entry # Null
    <2>1. "sqlite" \in Stamps
      BY DEF Stamps
    <2>. QED  BY <1>2, <2>1, HashType, RowType DEF Row, Hash
  <1> HIDE DEF row
  <1>4. u \in Seq(Rows) /\ Len(u) = Len(t) + 1 /\ u[Len(t) + 1] = row /\ Chained(u, Len(u))
    <2>1. u \in Seq(Rows) /\ Len(u) = Len(t) + 1 /\ u[Len(t) + 1] = row
      BY <1>1, <1>3, AppendProperties
    <2>2. Unchained(u) = {}
      BY <1>3, AppendOrdered
    <2> HIDE DEF u
    <2>. QED  BY <2>1, <2>2, AllChained
  <1> HIDE DEF u
  <1>5. LastHash(u) = Append(h, Joined[<<e, "sqlite">>])
    <2>1. Len(u) \in Nat /\ Len(u) # 0
      BY <1>1, <1>4
    <2>. QED  BY <1>3, <1>4, <2>1, LastHashIs
  <1>6. /\ Len(J) = Len(h) /\ \A i \in 1 .. Len(h) : h[i] = Joined[J[i]]
        /\ \A i \in 1 .. Len(J) : J[i][2] = "sqlite"
    <2>1. PICK n \in Nat : /\ Chained(t, n)
                           /\ Len(J) = Len(h) + Len(t) - n
                           /\ \A i \in 1 .. Len(h) : h[i] = Joined[J[i]]
      BY DEF Spells
    <2>2. n = Len(t)
      BY <1>1, <2>1, ChainedOnce
    <2>3. Len(h) \in Nat
      BY <1>2, LenProperties DEF Hashes
    <2>4. \A i \in 1 .. Len(J) : J[i][2] = "sqlite"
      BY DEF Spells
    <2>5. Len(J) = Len(h)
      BY <1>1, <2>1, <2>2, <2>3
    <2>. QED  BY <2>1, <2>4, <2>5
  <1>7. /\ Len(K) = Len(J) + 1 /\ K[Len(J) + 1] = <<e, "sqlite">> /\ \A i \in 1 .. Len(J) : K[i] = J[i]
        /\ Len(J) \in Nat
    <2>1. <<e, "sqlite">> \in Events \X Stamps
      BY DEF Stamps
    <2>. QED  BY <2>1, AppendProperties, LenProperties
  <1>8. /\ Len(LastHash(u)) = Len(h) + 1 /\ LastHash(u)[Len(h) + 1] = Joined[<<e, "sqlite">>]
        /\ \A i \in 1 .. Len(h) : LastHash(u)[i] = h[i]
    <2>1. Joined[<<e, "sqlite">>] \in Texts
      BY DEF Stamps, Texts, Contents
    <2>. QED  BY <1>2, <1>5, <2>1, AppendProperties DEF Hashes
  <1> HIDE DEF K, h
  <1>9. /\ Len(K) = Len(LastHash(u)) + Len(u) - Len(u)
        /\ \A i \in 1 .. Len(LastHash(u)) : LastHash(u)[i] = Joined[K[i]]
        /\ \A i \in 1 .. Len(K) : K[i][2] = "sqlite"
        /\ (Len(u) + 1) .. Len(u) = {} /\ Len(u) \in Nat
    <2>1. Len(u) \in Nat /\ (Len(u) + 1) .. Len(u) = {}
      BY <1>1, <1>4
    <2>2. Len(K) = Len(LastHash(u)) /\ Len(LastHash(u)) = Len(J) + 1
      BY <1>6, <1>7, <1>8
    <2>3. \A i \in 1 .. (Len(J) + 1) : i \in 1 .. Len(J) \/ i = Len(J) + 1
      BY <1>7
    <2>4. \A i \in 1 .. (Len(J) + 1) : LastHash(u)[i] = Joined[K[i]] /\ K[i][2] = "sqlite"
      BY <1>6, <1>7, <1>8, <2>3
    <2>5. Len(K) = Len(LastHash(u)) + Len(u) - Len(u)
      BY <1>7, <2>1, <2>2
    <2>. QED  BY <2>1, <2>2, <2>4, <2>5
  <1>10. Spells(u, K)
    BY <1>4, <1>9 DEF Spells
  <1>. QED  BY <1>10 DEF u, K, row

\* A backfill that fills the first unchained row spells one entry more.
LEMMA SpellsFill ==
  ASSUME NEW t, Ordered(t), NEW J \in Seq(Events \X Stamps), Spells(t, J),
         NEW T \in SUBSET Nat, Unchained(t) \subseteq T,
         NEW i \in T, \A j \in T : i <= j, i \in DOMAIN t, t[i].entry = Null
  PROVE  Spells(Filled(t, i), J)
  <1> DEFINE u == Filled(t, i)
             h == LastHash(t)
             x == Joined[<<t[i].body, "sqlite">>]
  <1>0. t \in Seq(Rows) /\ DOMAIN t = 1 .. Len(t) /\ Len(t) \in Nat /\ t[i] \in Rows
    BY LenProperties, ElementOfSeq DEF Ordered
  <1>1. PICK n \in Nat : /\ Chained(t, n)
                         /\ Len(J) = Len(h) + Len(t) - n
                         /\ \A k \in 1 .. Len(h) : h[k] = Joined[J[k]]
                         /\ \A k \in (n + 1) .. Len(t) :
                               <<t[k].body, t[k].stamp>> = J[Len(h) + k - n]
    BY DEF Spells
  <1>2. i = n + 1
    BY <1>0, <1>1, NextToFill
  <1>3. /\ u \in Seq(Rows) /\ Len(u) = Len(t) /\ DOMAIN u = DOMAIN t
        /\ \A j \in DOMAIN t \ {i} : u[j] = t[j]
        /\ u[i].entry = Append(h, x) /\ u[i].entry # Null
    BY FilledRows DEF Hash, Normalize
  <1>4. Chained(u, n + 1)
    <2> HIDE DEF u, h, x
    <2>1. n + 1 \in 0 .. Len(u)
      BY <1>0, <1>2, <1>3
    <2>2. \A j \in DOMAIN t : t[j].entry # Null <=> j <= n
      BY <1>1 DEF Chained
    <2>3. /\ DOMAIN u = 1 .. Len(t) /\ u[n + 1].entry # Null
          /\ \A j \in 1 .. Len(t) : j # n + 1 => u[j] = t[j]
      BY <1>0, <1>2, <1>3
    <2>4. \A j \in DOMAIN u : u[j].entry # Null <=> j <= n + 1
      BY <1>0, <2>2, <2>3
    <2>. QED  BY <2>1, <2>4 DEF Chained
  <1>5. LastHash(u) = Append(h, x)
    <2> HIDE DEF u, h, x
    <2>1. n + 1 \in Nat /\ n + 1 # 0
      OBVIOUS
    <2>. QED  BY <1>2, <1>3, <1>4, <2>1, LastHashIs
  <1>6. h \in Seq(Texts) /\ Len(h) \in Nat
    BY <1>0, <1>1, LastHashIs, LenProperties DEF Hashes
  <1>7. J[Len(h) + 1] = <<t[i].body, "sqlite">>
    <2>1. J[Len(h) + 1] = <<t[i].body, t[i].stamp>>
      <3>1. i \in (n + 1) .. Len(t) /\ Len(h) + i - n = Len(h) + 1
        BY <1>0, <1>2, <1>6
      <3>2. <<t[i].body, t[i].stamp>> = J[Len(h) + i - n]
        BY <1>1, <3>1
      <3>. QED  BY <3>1, <3>2
    <2>2. Len(h) + 1 \in 1 .. Len(J)
      BY <1>0, <1>1, <1>2, <1>6
    <2>3. J[Len(h) + 1][2] = "sqlite"
      BY <2>2 DEF Spells
    <2>. QED  BY <2>1, <2>3
  <1>8. /\ Len(LastHash(u)) = Len(h) + 1 /\ LastHash(u)[Len(h) + 1] = x
        /\ \A k \in 1 .. Len(h) : LastHash(u)[k] = h[k]
    <2>1. Joined[<<t[i].body, "sqlite">>] \in Texts
      BY <1>0 DEF Rows, Stamps, Texts, Contents
    <2>. QED  BY <1>5, <1>6, <2>1, AppendProperties
  <1>9. x = Joined[J[Len(h) + 1]]
    BY <1>7
  <1> HIDE DEF u, h, x
  <1>10. /\ Len(J) = Len(LastHash(u)) + Len(u) - (n + 1)
        /\ \A k \in 1 .. Len(LastHash(u)) : LastHash(u)[k] = Joined[J[k]]
    <2>1. Len(J) = Len(LastHash(u)) + Len(u) - (n + 1)
      BY <1>0, <1>1, <1>3, <1>6, <1>8
    <2>2. \A k \in 1 .. (Len(h) + 1) : k \in 1 .. Len(h) \/ k = Len(h) + 1
      BY <1>6
    <2>. QED  BY <1>1, <1>9, <1>8, <2>1, <2>2
  <1>11. ASSUME NEW k \in ((n + 1) + 1) .. Len(u)
         PROVE  <<u[k].body, u[k].stamp>> = J[Len(LastHash(u)) + k - (n + 1)]
    <2>1. u[k] = t[k] /\ k \in (n + 1) .. Len(t)
      BY <1>0, <1>2, <1>3
    <2>2. Len(LastHash(u)) + k - (n + 1) = Len(h) + k - n
      BY <1>6, <1>8, <2>1, <1>0
    <2>. QED  BY <1>1, <2>1, <2>2
  <1>12. Spells(u, J)
    <2>1. n + 1 \in Nat
      OBVIOUS
    <2>. QED  BY <1>4, <1>10, <1>11, <2>1 DEF Spells
  <1>. QED  BY <1>12 DEF u

\* An edit rewrites what a row says, and no hash.
LEMMA SpellsEdit ==
  ASSUME NEW t, Ordered(t), NEW J, Spells(t, J), NEW i \in DOMAIN t, t[i].entry # Null,
         NEW e \in Events, NEW stamp \in Stamps
  PROVE  Spells(Edited(t, i, e, stamp), J)
  <1> DEFINE u == Edited(t, i, e, stamp)
             h == LastHash(t)
  <1>0. t \in Seq(Rows) /\ DOMAIN t = 1 .. Len(t) /\ Len(t) \in Nat /\ t[i] \in Rows
    BY LenProperties, ElementOfSeq DEF Ordered
  <1>1. PICK n \in Nat : /\ Chained(t, n)
                         /\ Len(J) = Len(h) + Len(t) - n
                         /\ \A k \in 1 .. Len(h) : h[k] = Joined[J[k]]
                         /\ \A k \in (n + 1) .. Len(t) :
                               <<t[k].body, t[k].stamp>> = J[Len(h) + k - n]
    BY DEF Spells
  <1>2. u \in Seq(Rows)
    BY EditedRows DEF Ordered
  <1>3. /\ Len(u) = Len(t) /\ DOMAIN u = DOMAIN t
        /\ \A j \in DOMAIN t : u[j].entry = t[j].entry
        /\ \A j \in DOMAIN t \ {i} : u[j] = t[j]
    BY <1>0 DEF Edited, Rows
  <1> HIDE DEF u, h
  <1>4. Chained(u, n)
    BY <1>1, <1>3 DEF Chained
  <1>5. LastHash(u) = h
    <2>1. n # 0 => n \in DOMAIN t
      BY <1>0, <1>1 DEF Chained
    <2>2. LastHash(u) = IF n = 0 THEN Genesis ELSE u[n].entry
      BY <1>2, <1>4, LastHashIs
    <2>3. h = IF n = 0 THEN Genesis ELSE t[n].entry
      BY <1>0, <1>1, LastHashIs DEF h
    <2>. QED  BY <1>3, <2>1, <2>2, <2>3
  <1>6. i <= n
    BY <1>1 DEF Chained
  <1>7. \A k \in (n + 1) .. Len(u) : u[k] = t[k]
    BY <1>0, <1>3, <1>6
  <1>8. Spells(u, J)
    <2>1. \A k \in 1 .. Len(J) : J[k][2] = "sqlite"
      BY DEF Spells
    <2>2. Len(J) = Len(LastHash(u)) + Len(u) - n
      BY <1>1, <1>3, <1>5
    <2>3. \A k \in 1 .. Len(LastHash(u)) : LastHash(u)[k] = Joined[J[k]]
      BY <1>1, <1>5
    <2>4. \A k \in (n + 1) .. Len(u) :
             <<u[k].body, u[k].stamp>> = J[Len(LastHash(u)) + k - n]
      BY <1>1, <1>3, <1>5, <1>7
    <2>. QED  BY <1>4, <2>1, <2>2, <2>3, <2>4 DEF Spells
  <1>. QED  BY <1>8 DEF u

\* A removal leaves the last row, and with it the last hash.
LEMMA SpellsRemove ==
  ASSUME NEW t \in Seq(Rows), NEW J \in Seq(Events \X Stamps), Unchained(t) = {}, Spells(t, J),
         NEW k \in DOMAIN t \ {Len(t)}
  PROVE  Spells(SubSeq(t, 1, k - 1) \o SubSeq(t, k + 1, Len(t)), J)
  <1> DEFINE a == SubSeq(t, 1, k - 1)
             b == SubSeq(t, k + 1, Len(t))
             u == a \o b
             h == LastHash(t)
  <1>1. Len(t) \in Nat /\ DOMAIN t = 1 .. Len(t) /\ Chained(t, Len(t)) /\ k \in 1 .. (Len(t) - 1)
    BY AllChained, LenProperties
  <1>2. u \in Seq(Rows) /\ Unchained(u) = {}
    BY ShorterOrdered DEF Ordered
  <1>3. a \in Seq(Rows) /\ b \in Seq(Rows) /\ Len(a) = k - 1 /\ Len(b) = Len(t) - k /\ b[Len(b)] = t[Len(t)]
    <2>1. \A j \in 1 .. Len(t) : t[j] \in Rows
      BY <1>1, ElementOfSeq
    <2>2. a \in Seq(Rows) /\ Len(a) = k - 1
      BY <1>1, <2>1, SubSeqProperties
    <2>3. b \in Seq(Rows) /\ Len(b) = Len(t) - k /\ b[Len(t) - k] = t[Len(t)]
      <3>1. k + 1 \in 1 .. Len(t) + 1 /\ k + 1 <= Len(t)
        BY <1>1
      <3>2. /\ b \in Seq(Rows) /\ Len(b) = Len(t) - (k + 1) + 1
            /\ \A j \in 1 .. Len(t) - (k + 1) + 1 : b[j] = t[(k + 1) + j - 1]
        <4> DEFINE f == k + 1
                   l == Len(t)
        <4>1. f \in Int /\ l \in Int /\ f <= l /\ \A j \in f .. l : t[j] \in Rows
          BY <1>1, <2>1, <3>1
        <4> HIDE DEF f, l
        <4>2. /\ SubSeq(t, f, l) \in Seq(Rows)
              /\ Len(SubSeq(t, f, l)) = IF f <= l THEN l - f + 1 ELSE 0
              /\ \A j \in 1 .. l - f + 1 : SubSeq(t, f, l)[j] = t[f + j - 1]
          BY <4>1, SubSeqProperties
        <4>. QED  BY <4>1, <4>2 DEF f, l
      <3> HIDE DEF b
      <3>3. Len(t) - k \in 1 .. Len(t) - (k + 1) + 1 /\ (k + 1) + (Len(t) - k) - 1 = Len(t)
        BY <1>1
      <3>. QED  BY <1>1, <3>2, <3>3
    <2>. QED  BY <2>2, <2>3
  <1> HIDE DEF a, b
  <1>4. Len(u) = Len(t) - 1 /\ u[Len(u)] = t[Len(t)]
    <2>1. Len(u) = Len(a) + Len(b)
      BY <1>3, ConcatProperties
    <2>2. u[Len(a) + Len(b)] = b[Len(b)]
      <3>1. \A i \in 1 .. Len(a) + Len(b) : u[i] = IF i <= Len(a) THEN a[i] ELSE b[i - Len(a)]
        BY <1>3, ConcatProperties
      <3>2. Len(a) \in Nat /\ Len(b) \in Nat /\ Len(b) # 0
        BY <1>1, <1>3
      <3> HIDE DEF u
      <3>3. Len(a) + Len(b) \in 1 .. Len(a) + Len(b) /\ ~(Len(a) + Len(b) <= Len(a))
            /\ (Len(a) + Len(b)) - Len(a) = Len(b)
        BY <3>2
      <3>. QED  BY <3>1, <3>3
    <2> HIDE DEF u
    <2>. QED  BY <1>1, <1>3, <2>1, <2>2
  <1> HIDE DEF u
  <1>5. Chained(u, Len(u)) /\ Len(u) \in Nat /\ Len(u) # 0
    <2>1. Len(u) \in Nat /\ Len(u) # 0
      BY <1>1, <1>4
    <2>. QED  BY <1>2, <2>1, AllChained
  <1>6. LastHash(u) = h
    <2>1. LastHash(u) = u[Len(u)].entry
      BY <1>2, <1>5, LastHashIs
    <2>2. LastHash(t) = t[Len(t)].entry
      BY <1>1, LastHashIs
    <2>. QED  BY <1>4, <2>1, <2>2
  <1>7. PICK n \in Nat : /\ Chained(t, n)
                         /\ Len(J) = Len(h) + Len(t) - n
                         /\ \A j \in 1 .. Len(h) : h[j] = Joined[J[j]]
    BY DEF Spells
  <1>8. n = Len(t)
    BY <1>1, <1>7, ChainedOnce
  <1>9. Len(h) \in Nat
    BY <1>1, LastHashIs, LenProperties DEF Hashes
  <1> HIDE DEF h
  <1>10. Len(J) = Len(h) + Len(u) - Len(u) /\ (Len(u) + 1) .. Len(u) = {}
    BY <1>1, <1>5, <1>7, <1>8, <1>9
  <1>11. Spells(u, J)
    BY <1>5, <1>6, <1>7, <1>10 DEF Spells
  <1>. QED  BY <1>11 DEF u, a, b

\* Each hash of a valid chain is what the rows up to it say.
LEMMA ValidSpells ==
  ASSUME NEW t \in Seq(Rows), Valid(t)
  PROVE  \A n \in 1 .. Len(t) : /\ Len(t[n].entry) = n
                                /\ \A j \in 1 .. n : t[n].entry[j] = Joined[<<t[j].body, t[j].stamp>>]
  <1> DEFINE Good(n) == /\ Len(t[n].entry) = n
                        /\ \A j \in 1 .. n : t[n].entry[j] = Joined[<<t[j].body, t[j].stamp>>]
             S == {n \in Nat : n \in 1 .. Len(t) => Good(n)}
  <1>0. Len(t) \in Nat /\ DOMAIN t = 1 .. Len(t) /\ \A n \in 1 .. Len(t) : t[n] \in Rows
    BY LenProperties, ElementOfSeq
  <1>1. 0 \in S
    BY <1>0
  <1>2. ASSUME NEW n \in Nat, n \in S PROVE n + 1 \in S
    <2> SUFFICES ASSUME n + 1 \in 1 .. Len(t) PROVE Good(n + 1)
      OBVIOUS
    <2> DEFINE p == t[n + 1].prev
               c == Joined[<<t[n + 1].body, t[n + 1].stamp>>]
    <2>1. /\ p = ExpectedPrev(t, n + 1) /\ t[n + 1].entry = Append(p, c)
          /\ p \in Seq(Texts) /\ c \in Texts
      BY <1>0 DEF Valid, Sound, Hash, Rows, Hashes, Texts, Contents
    <2>2. Len(p) = n /\ \A j \in 1 .. n : p[j] = Joined[<<t[j].body, t[j].stamp>>]
      <3>1. CASE n = 0
        BY <2>1, <3>1 DEF ExpectedPrev, Genesis
      <3>2. CASE n # 0
        <4>1. n \in 1 .. Len(t) /\ p = t[n].entry
          BY <1>0, <2>1, <3>2 DEF ExpectedPrev
        <4>. QED  BY <1>2, <4>1
      <3>. QED  BY <3>1, <3>2
    <2>3. /\ Len(t[n + 1].entry) = n + 1 /\ t[n + 1].entry[n + 1] = c
          /\ \A j \in 1 .. n : t[n + 1].entry[j] = p[j]
      <3> HIDE DEF p, c
      <3>. QED  BY <2>1, <2>2, AppendProperties
    <2> HIDE DEF p
    <2>4. ASSUME NEW j \in 1 .. n + 1
          PROVE  t[n + 1].entry[j] = Joined[<<t[j].body, t[j].stamp>>]
      <3>1. CASE j = n + 1
        BY <2>3, <3>1
      <3>2. CASE j # n + 1
        <4>1. j \in 1 .. n
          BY <3>2
        <4>. QED  BY <2>2, <2>3, <4>1
      <3>. QED  BY <3>1, <3>2
    <2>. QED  BY <2>3, <2>4
  <1>3. Nat \subseteq S
    <2> HIDE DEF S
    <2>. QED  BY <1>1, <1>2, SetInduction
  <1>. QED  BY <1>0, <1>3

\* So a valid chain that spells J reads like J.
LEMMA ValidSays ==
  ASSUME NEW t \in Seq(Rows), NEW J \in Seq(Events \X Stamps), Valid(t), Spells(t, J)
  PROVE  Spelled(Content(t)) = Spelled(J)
  <1> DEFINE h == LastHash(t)
  <1>1. Len(t) \in Nat /\ Chained(t, Len(t))
    BY ValidChained, AllChained, LenProperties
  <1>2. PICK n \in Nat : /\ Chained(t, n)
                         /\ Len(J) = Len(h) + Len(t) - n
                         /\ \A j \in 1 .. Len(h) : h[j] = Joined[J[j]]
    BY DEF Spells
  <1>3. n = Len(t)
    BY <1>1, <1>2, ChainedOnce
  <1>4. Len(h) = Len(t) /\ \A j \in 1 .. Len(t) : h[j] = Joined[<<t[j].body, t[j].stamp>>]
    <2>1. CASE Len(t) = 0
      <3>1. h = Genesis
        BY <1>1, <2>1, LastHashIs
      <3>. QED  BY <2>1, <3>1 DEF Genesis
    <2>2. CASE Len(t) # 0
      <3>1. h = t[Len(t)].entry
        BY <1>1, <2>2, LastHashIs
      <3>. QED  BY <1>1, <2>2, <3>1, ValidSpells
    <2>. QED  BY <2>1, <2>2
  <1> HIDE DEF h
  <1>5. Len(J) = Len(t) /\ \A j \in 1 .. Len(t) : Joined[J[j]] = Joined[<<t[j].body, t[j].stamp>>]
    BY <1>1, <1>2, <1>3, <1>4
  <1>6. Content(t) \in Seq(Events \X Stamps) /\ Len(Content(t)) = Len(t)
    BY ContentType
  <1>7. \A j \in 1 .. Len(t) : Joined[Content(t)[j]] = Joined[J[j]]
    BY <1>5, LenProperties DEF Content
  <1>8. DOMAIN Content(t) = 1 .. Len(t) /\ DOMAIN J = 1 .. Len(t)
    BY <1>1, <1>5, <1>6, LenProperties
  <1>. QED  BY <1>7, <1>8 DEF Spelled

\* Whoever changes the table from outside meets no lock.
LEMMA Unlocked ==
  ASSUME OrderInv, LockInv, Edit \/ Remove \/ Cut
  PROVE  lock = Null /\ lock' = Null
  <1>0. lock \in Procs \cup {Null} /\ Procs = Replicas \cup Writers
    BY DEF OrderInv, TypeInv, ProcsOK, Procs
  <1>1. lock = Null
    <2>1. CASE Edit
      BY <1>0, <2>1 DEF Edit, LockInv, Writing, Open, Committing, Appending
    <2>2. CASE Remove \/ Cut
      <3>1. \A r \in Replicas : pc[r] = "down"
        BY <2>2 DEF Remove, Cut, Away, At
      <3>2. \A w \in Writers : pc[w] \notin Appending
        BY <3>1, ConstantsAssumption DEF OrderInv, AppendingOK
      <3>. QED  BY <1>0, <3>1, <3>2 DEF LockInv, Writing
    <2>. QED  BY <2>1, <2>2
  <1>. QED  BY <1>1 DEF Edit, Remove, Cut

\* The history as it will be when t is published over m rows.
Extended(J, t, m) == J \o SubSeq(Content(t), m + 1, Len(t))

\* A transaction that adds nothing extends the history by nothing.
LEMMA ExtendedSame ==
  ASSUME NEW J \in Seq(Events \X Stamps), NEW t \in Seq(Rows)
  PROVE  Extended(J, t, Len(t)) = J
  <1>1. Content(t) \in Seq(Events \X Stamps) /\ Len(Content(t)) = Len(t) /\ Len(t) \in Nat
    BY ContentType, LenProperties
  <1>2. SubSeq(Content(t), Len(t) + 1, Len(t)) = <<>>
    <2> DEFINE c == Content(t)
               n == Len(t)
    <2>1. c \in Seq(Events \X Stamps) /\ n \in Nat
      BY <1>1
    <2> HIDE DEF c, n
    <2>2. SubSeq(c, n + 1, n) = <<>>
      BY <2>1, SubSeqEmpty
    <2>. QED  BY <2>2 DEF c, n
  <1>. QED  BY <1>2, ConcatEmptySeq DEF Extended

\* The extended history is a history.
LEMMA ExtendedType ==
  ASSUME NEW J \in Seq(Events \X Stamps), NEW t \in Seq(Rows), NEW m \in Nat
  PROVE  Extended(J, t, m) \in Seq(Events \X Stamps)
  <1> DEFINE c == Content(t)
             n == Len(t)
  <1>1. c \in Seq(Events \X Stamps) /\ Len(c) = n /\ n \in Nat
    BY ContentType, LenProperties
  <1> HIDE DEF c, n
  <1>2. SubSeq(c, m + 1, n) \in Seq(Events \X Stamps)
    <2>1. \A i \in (m + 1) .. n : c[i] \in Events \X Stamps
      BY <1>1, ElementOfSeq
    <2>. QED  BY <1>1, <2>1, SubSeqProperties
  <1>. QED  BY <1>2, ConcatProperties DEF Extended, c, n

\* The rest of a sequence grows with the sequence.
LEMMA SubSeqAppend ==
  ASSUME NEW X, NEW c \in Seq(X), NEW x \in X, NEW m \in Nat, m <= Len(c)
  PROVE  SubSeq(Append(c, x), m + 1, Len(c) + 1) = Append(SubSeq(c, m + 1, Len(c)), x)
  <1> DEFINE n == Len(c)
             d == Append(c, x)
             r == SubSeq(c, m + 1, n)
             s == SubSeq(d, m + 1, n + 1)
  <1>1. /\ n \in Nat /\ m <= n /\ d \in Seq(X) /\ Len(d) = n + 1 /\ d[n + 1] = x
        /\ \A i \in 1 .. n : c[i] \in X /\ d[i] = c[i]
    BY AppendProperties, LenProperties, ElementOfSeq
  <1>2. (\A i \in 1 .. (n + 1) : d[i] \in X) /\ m + 1 \in Int /\ n + 1 \in Int /\ n \in Int
    BY <1>1
  <1> HIDE DEF n, d
  <1>3. /\ s \in Seq(X) /\ Len(s) = n - m + 1
        /\ \A i \in 1 .. (n - m + 1) : s[i] = d[m + i]
    <2>1. \A i \in (m + 1) .. (n + 1) : d[i] \in X
      BY <1>1, <1>2
    <2>2. /\ s \in Seq(X)
          /\ Len(s) = IF m + 1 <= n + 1 THEN n + 1 - (m + 1) + 1 ELSE 0
          /\ \A i \in 1 .. (n + 1 - (m + 1) + 1) : s[i] = d[m + 1 + i - 1]
      BY <1>2, <2>1, SubSeqProperties
    <2> HIDE DEF s
    <2>. QED  BY <1>1, <2>2
  <1>4. /\ r \in Seq(X) /\ Len(r) = n - m
        /\ \A i \in 1 .. (n - m) : r[i] = c[m + i]
    <2>1. \A i \in (m + 1) .. n : c[i] \in X
      BY <1>1
    <2>2. /\ r \in Seq(X)
          /\ Len(r) = IF m + 1 <= n THEN n - (m + 1) + 1 ELSE 0
          /\ \A i \in 1 .. (n - (m + 1) + 1) : r[i] = c[m + 1 + i - 1]
      BY <1>2, <2>1, SubSeqProperties
    <2> HIDE DEF r
    <2>. QED  BY <1>1, <2>2
  <1> HIDE DEF r, s
  <1>5. /\ Append(r, x) \in Seq(X) /\ Len(Append(r, x)) = n - m + 1
        /\ \A i \in 1 .. (n - m) : Append(r, x)[i] = r[i]
        /\ Append(r, x)[n - m + 1] = x
    BY <1>4, AppendProperties
  <1>6. ASSUME NEW i \in 1 .. (n - m + 1) PROVE s[i] = Append(r, x)[i]
    <2>1. CASE i = n - m + 1
      BY <1>1, <1>3, <1>5, <2>1
    <2>2. CASE i # n - m + 1
      <3>1. i \in 1 .. (n - m) /\ m + i \in 1 .. n
        BY <1>1, <2>2
      <3>. QED  BY <1>1, <1>3, <1>4, <1>5, <3>1
    <2>. QED  BY <2>1, <2>2
  <1>7. s = Append(r, x)
    BY <1>3, <1>5, <1>6, SeqEqual
  <1>. QED  BY <1>7 DEF n, d, r, s

\* A row appended to the copy is one entry more.
LEMMA ExtendedAppend ==
  ASSUME NEW J \in Seq(Events \X Stamps), NEW t \in Seq(Rows), NEW m \in 0 .. Len(t), NEW row \in Rows
  PROVE  Extended(J, Append(t, row), m) = Append(Extended(J, t, m), <<row.body, row.stamp>>)
  <1> DEFINE X == Events \X Stamps
             u == Append(t, row)
             c == Content(t)
             d == Content(u)
             x == <<row.body, row.stamp>>
             n == Len(t)
  <1>1. /\ u \in Seq(Rows) /\ Len(u) = n + 1 /\ u[n + 1] = row /\ \A i \in 1 .. n : u[i] = t[i]
        /\ n \in Nat /\ DOMAIN t = 1 .. n
    BY AppendProperties, LenProperties
  <1>2. c \in Seq(X) /\ Len(c) = n /\ x \in X
    BY ContentType DEF Rows
  <1>3. d = Append(c, x)
    <2> HIDE DEF u
    <2>1. d \in Seq(X) /\ Len(d) = n + 1 /\ DOMAIN u = 1 .. (n + 1)
      BY <1>1, ContentType, LenProperties
    <2>2. Append(c, x) \in Seq(X) /\ Len(Append(c, x)) = n + 1
      BY <1>2, AppendProperties
    <2>3. ASSUME NEW i \in 1 .. (n + 1) PROVE d[i] = Append(c, x)[i]
      <3>1. CASE i = n + 1
        BY <1>1, <1>2, <2>1, <3>1, AppendProperties DEF Content
      <3>2. CASE i # n + 1
        <4>1. i \in 1 .. n
          BY <1>1, <3>2
        <4>2. Append(c, x)[i] = c[i]
          BY <1>2, <4>1, AppendProperties
        <4>3. c[i] = <<t[i].body, t[i].stamp>> /\ d[i] = <<u[i].body, u[i].stamp>>
          BY <1>1, <2>1, <4>1 DEF Content
        <4>. QED  BY <1>1, <4>1, <4>2, <4>3
      <3>. QED  BY <3>1, <3>2
    <2> HIDE DEF c, d, x, n
    <2>. QED  BY <2>1, <2>2, <2>3, SeqEqual
  <1> HIDE DEF u, c, d, x
  <1>4. m \in Nat /\ m <= n
    BY <1>1
  <1>5. SubSeq(d, m + 1, n + 1) = Append(SubSeq(c, m + 1, n), x)
    BY <1>2, <1>3, <1>4, SubSeqAppend
  <1>6. SubSeq(c, m + 1, n) \in Seq(X)
    <2> HIDE DEF n, X
    <2>1. \A i \in (m + 1) .. n : c[i] \in X
      BY <1>1, <1>2, <1>4, ElementOfSeq
    <2>. QED  BY <1>1, <1>2, <1>4, <2>1, SubSeqProperties
  <1>7. J \o Append(SubSeq(c, m + 1, n), x) = Append(J \o SubSeq(c, m + 1, n), x)
    <2> DEFINE s == SubSeq(c, m + 1, n)
    <2> HIDE DEF s, X, n
    <2>1. J \in Seq(X) /\ s \in Seq(X)
      BY <1>6 DEF X, s
    <2>2. J \o Append(s, x) = Append(J \o s, x)
      BY <1>2, <2>1
    <2>. QED  BY <2>2 DEF s
  <1>8. Extended(J, u, m) = J \o SubSeq(d, m + 1, n + 1) /\ Extended(J, t, m) = J \o SubSeq(c, m + 1, n)
    BY <1>1 DEF Extended, d, c
  <1>. QED  BY <1>5, <1>7, <1>8 DEF u, x

\* A backfill adds no entry.
LEMMA ExtendedFill ==
  ASSUME NEW J, NEW t, Ordered(t), NEW m, NEW i \in DOMAIN t
  PROVE  Extended(J, Filled(t, i), m) = Extended(J, t, m)
  <1>1. Content(Filled(t, i)) = Content(t)
    BY FilledRows DEF Content
  <1>. QED  BY <1>1, FilledRows DEF Extended

\* The same of the row that append_audit_tx builds.
LEMMA ExtendedRow ==
  ASSUME NEW J \in Seq(Events \X Stamps), NEW t \in Seq(Rows), NEW m \in 0 .. Len(t),
         NEW h \in Hashes, NEW e \in Events, NEW stamp \in Stamps
  PROVE  Extended(J, Append(t, Row(h, e, stamp)), m) = Append(Extended(J, t, m), <<e, stamp>>)
  <1> DEFINE row == Row(h, e, stamp)
  <1>1. row \in Rows
    BY RowType
  <1>2. row.body = e /\ row.stamp = stamp
    BY DEF Row
  <1> HIDE DEF row
  <1>3. Extended(J, Append(t, row), m) = Append(Extended(J, t, m), <<row.body, row.stamp>>)
    BY <1>1, ExtendedAppend
  <1>. QED  BY <1>2, <1>3 DEF row

\* As long as nothing was cut off, the log spells the history, and what the
\* holder of the lock has written spells the history its commit will make.
SpellInv == cuts = 0 =>
    /\ Spells(log, journal)
    /\ lock # Null => Spells(view[lock], Extended(journal, view[lock], Len(log)))

\* Who may write starts from such a table.
LEMMA MayWriteSpells ==
  ASSUME OrderInv, LockInv, SpellInv, cuts = 0, NEW p \in Procs, MayWrite(p)
  PROVE  /\ Spells(view[p], Extended(journal, view[p], Len(log)))
         /\ Len(log) \in 0 .. Len(view[p])
         /\ view[p] \in Seq(Rows) /\ Ordered(view[p])
         /\ Extended(journal, view[p], Len(log)) \in Seq(Events \X Stamps)
  <1>1. /\ log \in Seq(Rows) /\ journal \in Seq(Events \X Stamps) /\ view[p] \in Seq(Rows)
        /\ Ordered(view[p]) /\ Null \notin Procs
    BY ConstantsAssumption DEF OrderInv, TypeInv, TablesOK, Ordered
  <1>2. Spells(view[p], Extended(journal, view[p], Len(log)))
    <2>1. CASE lock = p
      BY <1>1, <2>1 DEF SpellInv
    <2>2. CASE view[p] = log
      BY <1>1, <2>2, ExtendedSame DEF SpellInv
    <2>. QED  BY <2>1, <2>2 DEF MayWrite
  <1>3. Len(log) \in 0 .. Len(view[p])
    <2>1. Extends(view[p], log)
      BY MayWriteExtends
    <2>2. /\ DOMAIN log = 1 .. Len(log) /\ Len(log) \in Nat
          /\ DOMAIN view[p] = 1 .. Len(view[p]) /\ Len(view[p]) \in Nat
      BY <1>1, LenProperties
    <2>3. Len(log) # 0 => Len(log) \in DOMAIN log
      BY <2>2
    <2>. QED  BY <2>1, <2>2, <2>3 DEF Extends
  <1>4. Extended(journal, view[p], Len(log)) \in Seq(Events \X Stamps)
    BY <1>1, <1>3, ExtendedType, LenProperties
  <1>. QED  BY <1>1, <1>2, <1>3, <1>4

\* No step but a cut makes the last hash say something else than the history.
LEMMA SpellNext ==
  ASSUME OrderInv, LockInv, SpellInv, [Next]_vars
  PROVE  SpellInv'
  <1> SUFFICES ASSUME cuts' = 0
               PROVE  /\ Spells(log', journal')
                      /\ lock' # Null => Spells(view'[lock'], Extended(journal', view'[lock'], Len(log')))
    BY DEF SpellInv, Spells, Extended, Chained, LastHash, Unchained, Content
  <1> DEFINE Kept == /\ Spells(log', journal')
                     /\ lock' # Null => Spells(view'[lock'], Extended(journal', view'[lock'], Len(log')))
  <1>0. /\ view \in [Procs -> Seq(Rows)] /\ log \in Seq(Rows) /\ Ordered(log)
        /\ journal \in Seq(Events \X Stamps)
        /\ lock \in Procs \cup {Null} /\ Null \notin Procs /\ Replicas \cap Writers = {}
        /\ Procs = Replicas \cup Writers
        /\ cuts \in Nat /\ event \in [Writers -> Events]
    BY ConstantsAssumption DEF OrderInv, TypeInv, TablesOK, NumbersOK, ProcsOK, Procs, Ordered
  <1>1. ASSUME cuts = 0, UNCHANGED database, lock' = lock \/ lock' = Null,
               lock' # Null => view'[lock'] = view[lock']
        PROVE  Kept
    BY <1>1 DEF SpellInv, database
  <1>2. ASSUME cuts = 0, UNCHANGED database, NEW p \in Procs, NEW t, Write(p, t),
               Spells(t, Extended(journal, t, Len(log)))
        PROVE  Kept
    <2>1. lock' = p /\ view'[p] = t /\ log' = log /\ journal' = journal
      BY <1>0, <1>2 DEF Write, database
    <2>. QED  BY <1>2, <2>1 DEF SpellInv
  <1>3. ASSUME cuts = 0, NEW p \in Procs, Close(p), (Publish(p) /\ lock = p) \/ UNCHANGED database
        PROVE  Kept
    <2>1. CASE Publish(p) /\ lock = p
      <3>1. /\ log' = view[p] /\ journal' = Extended(journal, view[p], Len(log)) /\ lock' = Null
        BY <1>3, <2>1 DEF Publish, Close, Extended
      <3>. QED  BY <1>0, <1>3, <2>1, <3>1 DEF SpellInv
    <2>2. CASE UNCHANGED database
      BY <1>0, <1>1, <1>3, <2>2 DEF Close
    <2>. QED  BY <1>3, <2>1, <2>2
  <1>4. ASSUME NEW w \in Writers, NEW e \in Events, BeginRecord(w, e)
        PROVE  Kept
    <2>1. cuts = 0 /\ UNCHANGED database /\ view' = [view EXCEPT ![w] = log] /\ lock' = lock /\ pc[w] = "idle"
      BY <1>4 DEF BeginRecord, Snapshot, bounds, At
    <2>2. lock # w
      BY <1>0, <2>1 DEF LockInv, Writing, Appending
    <2>. QED  BY <1>0, <1>1, <2>1, <2>2
  <1>5. ASSUME NEW w \in Writers, NEW e \in Events, BeginChanged(w, e)
        PROVE  Kept
    <2>1. cuts = 0 /\ UNCHANGED database /\ Write(w, log)
      BY <1>5 DEF BeginChanged, bounds
    <2>2. Spells(log, Extended(journal, log, Len(log)))
      BY <1>0, <2>1, ExtendedSame DEF SpellInv
    <2>. QED  BY <1>0, <1>2, <2>1, <2>2
  <1>6. ASSUME NEW w \in Writers, InsertRow(w)
        PROVE  Kept
    <2> DEFINE row == Row(LastHash(view[w]), event[w], "sqlite")
               t == Append(view[w], row)
    <2>1. cuts = 0 /\ UNCHANGED database /\ w \in Procs /\ pc[w] \in Appending
      BY <1>0, <1>6 DEF InsertRow, Appending, Works, Fault, bounds
    <2>2. (MayWrite(w) /\ Write(w, t)) \/ Close(w)
      BY <1>6, <2>1, TableIsView DEF InsertRow
    <2>3. CASE MayWrite(w) /\ Write(w, t)
      <3>1. Unchained(view[w]) = {} /\ event[w] \in Events
        BY <1>0, <2>1 DEF OrderInv, AppendingOK
      <3>2. /\ Spells(view[w], Extended(journal, view[w], Len(log)))
            /\ Len(log) \in 0 .. Len(view[w]) /\ view[w] \in Seq(Rows) /\ Ordered(view[w])
            /\ Extended(journal, view[w], Len(log)) \in Seq(Events \X Stamps)
        BY <2>1, <2>3, MayWriteSpells
      <3>3. Spells(t, Append(Extended(journal, view[w], Len(log)), <<event[w], "sqlite">>))
        BY <3>1, <3>2, SpellsAppend
      <3>4. LastHash(view[w]) \in Hashes /\ "sqlite" \in Stamps
        BY <3>2, LastHashType DEF Stamps
      <3>5. Extended(journal, t, Len(log)) = Append(Extended(journal, view[w], Len(log)), <<event[w], "sqlite">>)
        <4>1. \A J \in Seq(Events \X Stamps), u \in Seq(Rows) : \A m \in 0 .. Len(u) :
              \A h \in Hashes, e \in Events, stamp \in Stamps :
                Extended(J, Append(u, Row(h, e, stamp)), m) = Append(Extended(J, u, m), <<e, stamp>>)
          BY ExtendedRow
        <4>2. /\ journal \in Seq(Events \X Stamps) /\ view[w] \in Seq(Rows) /\ Len(log) \in 0 .. Len(view[w])
              /\ LastHash(view[w]) \in Hashes /\ event[w] \in Events /\ "sqlite" \in Stamps
          BY <1>0, <3>1, <3>2, <3>4
        <4>. QED  BY <4>1, <4>2
      <3> HIDE DEF t
      <3>. QED  BY <1>2, <2>1, <2>3, <3>3, <3>5
    <2>4. CASE Close(w)
      BY <1>3, <2>1, <2>4
    <2>. QED  BY <2>2, <2>3, <2>4
  <1>7. ASSUME NEW w \in Writers, CommitRow(w)
        PROVE  Kept
    <2>1. cuts = 0 /\ pc[w] = "commit" /\ Close(w) /\ (Publish(w) \/ UNCHANGED database) /\ w \in Procs
      BY <1>0, <1>7 DEF CommitRow, At, Works, Fault, bounds
    <2>2. lock = w
      BY <2>1 DEF LockInv, Committing
    <2>. QED  BY <1>3, <2>1, <2>2
  <1>8. ASSUME NEW r \in Replicas, Launch(r) \/ OpenBackfill(r) \/ Verify(r) \/ Compare(r) \/ WriteCheckpoint(r)
        PROVE  Kept
    <2>1. /\ pc[r] \in {"down", "open", "verify", "compare", "write"} /\ r \in Procs /\ r \notin Writers
          /\ cuts = 0
      BY <1>0, <1>8 DEF Launch, OpenBackfill, Verify, Compare, WriteCheckpoint, At, Works, Fault, bounds
    <2>2. lock # r
      BY <1>0, <2>1 DEF LockInv, Writing
    <2>3. UNCHANGED database /\ lock' = lock /\ \A q \in Procs \ {r} : view'[q] = view[q]
      BY <1>0, <1>8 DEF Launch, OpenBackfill, Verify, Compare, WriteCheckpoint, Snapshot
    <2>. QED  BY <1>0, <1>1, <2>1, <2>2, <2>3
  <1>9. ASSUME NEW r \in Replicas, FillRow(r)
        PROVE  Kept
    <2>1. cuts = 0 /\ UNCHANGED database /\ pc[r] = "fill" /\ r \in Procs
      BY <1>0, <1>9 DEF FillRow, At, AbandonStart, Works, Fault, bounds
    <2>2. PICK i \in todo[r] :
             /\ \A j \in todo[r] : i <= j
             /\ \/ /\ MayWrite(r)
                   /\ view[r][i].entry = Null
                   /\ Write(r, [Table(r) EXCEPT
                        ![i].prev = LastHash(view[r]),
                        ![i].entry = Hash(LastHash(view[r]), view[r][i].body,
                                          Normalize(view[r][i].stamp))])
                \/ Close(r)
      BY <1>9 DEF FillRow, AbandonStart
    <2>3. CASE Close(r)
      BY <1>3, <2>1, <2>3
    <2>4. CASE ~Close(r)
      <3>1. MayWrite(r) /\ Write(r, Filled(view[r], i)) /\ view[r][i].entry = Null
        BY <2>1, <2>2, <2>4, TableIsView DEF Filled
      <3>2. /\ Spells(view[r], Extended(journal, view[r], Len(log)))
            /\ Ordered(view[r]) /\ Extended(journal, view[r], Len(log)) \in Seq(Events \X Stamps)
        BY <2>1, <3>1, MayWriteSpells
      <3>3. todo[r] \in SUBSET Nat /\ Unchained(view[r]) \subseteq todo[r]
        BY <2>1 DEF OrderInv, TypeInv, StartOK, FillingOK
      <3>4. Spells(Filled(view[r], i), Extended(journal, Filled(view[r], i), Len(log)))
        <4>1. CASE i \in DOMAIN view[r]
          <5>1. Spells(Filled(view[r], i), Extended(journal, view[r], Len(log)))
            BY <2>2, <3>1, <3>2, <3>3, <4>1, SpellsFill
          <5>2. Extended(journal, Filled(view[r], i), Len(log)) = Extended(journal, view[r], Len(log))
            BY <3>2, <4>1, ExtendedFill
          <5>. QED  BY <5>1, <5>2
        <4>2. CASE i \notin DOMAIN view[r]
          <5>1. DOMAIN view[r] = 1 .. Len(view[r]) /\ view[r] \in Seq(Rows)
            BY <3>2, LenProperties DEF Ordered
          <5>2. Filled(view[r], i) = view[r]
            BY <4>2, <5>1 DEF Filled
          <5>. QED  BY <3>2, <5>2
        <4>. QED  BY <4>1, <4>2
      <3>. QED  BY <1>2, <2>1, <3>1, <3>4
    <2>. QED  BY <2>3, <2>4
  <1>10. ASSUME NEW r \in Replicas, CommitBackfill(r)
         PROVE  Kept
    <2>1. cuts = 0 /\ pc[r] = "fill_commit" /\ Close(r) /\ (Publish(r) \/ UNCHANGED database) /\ r \in Procs
      BY <1>0, <1>10 DEF CommitBackfill, At, Works, Fault, bounds
    <2>2. lock = r
      BY <2>1 DEF LockInv, Committing
    <2>. QED  BY <1>3, <2>1, <2>2
  <1>11. ASSUME NEW r \in Replicas, Crash(r)
         PROVE  Kept
    <2> DEFINE gone == {r} \cup {w \in Writers : Home[w] = r}
    <2>1. /\ cuts = 0 /\ UNCHANGED database
          /\ \A p \in Procs \ gone : view'[p] = view[p]
          /\ lock' = IF lock \in gone THEN Null ELSE lock
      BY <1>0, <1>11 DEF Crash
    <2> HIDE DEF gone
    <2>. QED  BY <1>0, <1>1, <2>1
  <1>12. CASE Edit
    <2>1. PICK i \in DOMAIN log \ Unchained(log), e \in Events, stamp \in Stamps :
             log' = Edited(log, i, e, stamp)
      BY <1>12 DEF Edit, Edited
    <2>2. cuts = 0 /\ journal' = journal /\ lock' = Null
      BY <1>12, Unlocked DEF Edit
    <2>3. log[i].entry # Null /\ i \in DOMAIN log
      BY <2>1 DEF Unchained
    <2>4. Spells(log, journal)
      BY <2>2 DEF SpellInv
    <2>5. Spells(log', journal)
      BY <1>0, <2>1, <2>3, <2>4, SpellsEdit
    <2>. QED  BY <2>2, <2>5
  <1>13. CASE Remove
    <2>1. PICK k \in DOMAIN log \ {Len(log)} :
             log' = SubSeq(log, 1, k - 1) \o SubSeq(log, k + 1, Len(log))
      BY <1>13 DEF Remove
    <2>2. cuts = 0 /\ journal' = journal /\ lock' = Null /\ Unchained(log) = {}
      BY <1>13, Unlocked DEF Remove
    <2>3. Spells(log', journal)
      BY <1>0, <2>1, <2>2, SpellsRemove DEF SpellInv
    <2>. QED  BY <2>2, <2>3
  <1>14. CASE Cut
    BY <1>0, <1>14 DEF Cut
  <1>15. CASE UNCHANGED vars
    BY <1>1, <1>15 DEF vars, bounds
  <1>. QED  BY <1>4, <1>5, <1>6, <1>7, <1>8, <1>9, <1>10, <1>11, <1>12, <1>13, <1>14, <1>15,
             ConstantsAssumption DEF Next, Begin, Finish, Start

\* A legacy table has no hash, and its rows are the history.
LEMMA SpellInit ==
  ASSUME LegacyStamps \subseteq {"sqlite"}, Init
  PROVE  SpellInv
  <1>1. log \in Seq(Rows) /\ journal = Content(log) /\ lock = Null
    BY OrderInit DEF Init, OrderInv, TypeInv, TablesOK, Ordered
  <1>2. \A i \in DOMAIN log : log[i].entry = Null /\ log[i].stamp = "sqlite"
    <2>1. PICK n \in 0..MaxLegacy, e \in Recorded :
             \E stamp \in [1..n -> LegacyStamps] : log = [i \in 1..n |-> LegacyRow(e, stamp[i])]
      BY DEF Init
    <2>2. PICK stamp \in [1..n -> LegacyStamps] : log = [i \in 1..n |-> LegacyRow(e, stamp[i])]
      BY <2>1
    <2>. QED  BY <2>2 DEF LegacyRow
  <1>3. /\ DOMAIN log = 1 .. Len(log) /\ Len(log) \in Nat
        /\ Len(journal) = Len(log) /\ \A i \in 1 .. Len(log) : journal[i] = <<log[i].body, log[i].stamp>>
    BY <1>1, ContentType, LenProperties DEF Content
  <1>4. Chained(log, 0)
    BY <1>2, <1>3 DEF Chained
  <1>5. Len(LastHash(log)) = 0
    BY <1>1, <1>4, LastHashIs DEF Genesis
  <1>6. Spells(log, journal)
    <2>1. \A i \in 1 .. Len(journal) : journal[i][2] = "sqlite"
      BY <1>2, <1>3
    <2>2. Len(journal) = Len(LastHash(log)) + Len(log) - 0
      BY <1>3, <1>5
    <2>3. \A i \in (0 + 1) .. Len(log) : <<log[i].body, log[i].stamp>> = journal[Len(LastHash(log)) + i - 0]
      BY <1>3, <1>5
    <2>4. \A i \in 1 .. Len(LastHash(log)) : LastHash(log)[i] = Joined[journal[i]]
      BY <1>5
    <2>. QED  BY <1>4, <2>1, <2>2, <2>3, <2>4 DEF Spells
  <1>. QED  BY <1>1, <1>6 DEF SpellInv

\* Tampering shows as far as the hash can tell: a chain that verify_chain finds
\* valid spells what was recorded, text by text and in its order, whoever has
\* edited or removed rows before the last one, any number of times, while the
\* program ran or between its runs; for any Joined, so also for one that writes
\* two contents the same.
THEOREM TamperingShows ==
  ASSUME LegacyStamps \subseteq {"sqlite"}
  PROVE  Spec => []EditsAreFound
  <1>1. Init => OrderInv /\ LockInv /\ SpellInv
    BY OrderInit, SpellInit DEF Init, LockInv, Committing
  <1>2. OrderInv /\ LockInv /\ SpellInv /\ [Next]_vars => (OrderInv /\ LockInv /\ SpellInv)'
    BY OrderNext, LockNext, SpellNext
  <1>3. OrderInv /\ SpellInv => EditsAreFound
    BY ValidSays DEF OrderInv, TypeInv, TablesOK, Ordered, SpellInv, EditsAreFound
  <1>. QED  BY <1>1, <1>2, <1>3, PTL DEF Spec

=============================================================================
