---------------------------- MODULE DeliveryProofs ----------------------------
(***************************************************************************)
(* What is told is in the table, what is posted is posted to the end, and  *)
(* nothing is missed in silence: for any number of actions, sockets and    *)
(* watchers, any capacity and any limit.                                   *)
(***************************************************************************)
EXTENDS Delivery, SequenceTheorems, TLAPS

-----------------------------------------------------------------------------
(* What one call of the limiter keeps: for any number of sources, any      *)
(* limit and any window.                                                   *)

USE RateLimiterAssumption

EdgeTyped ==
    /\ now \in Nat
    /\ DOMAIN limiter \subseteq Sources
    /\ \A s \in DOMAIN limiter : limiter[s] \in [count : 0 .. MaxRequests, since : 0 .. now]
    /\ passed \in [Sources -> Seq(Nat)]
    /\ \A s \in Sources : \A i \in DOMAIN passed[s] : passed[s][i] <= now

\* The requests of a source come before the window, or in it; all but a limit's
\* worth of those before it come more than Window before it.
WindowOf(s, entry, p) ==
    /\ entry.count <= Len(p)
    /\ \A i \in DOMAIN p :
          /\ i <= Len(p) - entry.count => p[i] <= entry.since
          /\ i <= Len(p) - entry.count - MaxRequests => p[i] + Window < entry.since
          /\ i > Len(p) - entry.count => entry.since <= p[i]

SpacedOf(p, n) == \A i \in DOMAIN p : i + n \in DOMAIN p => p[i + n] - p[i] > Window

Edge ==
    /\ EdgeTyped
    /\ \A s \in Sources :
          IF s \in DOMAIN limiter THEN WindowOf(s, limiter[s], passed[s]) ELSE passed[s] = << >>
    /\ BurstBounded

LEMMA EdgeTypes == EdgeTyped => EdgeTypeOK
  <1>. SUFFICES ASSUME EdgeTyped, NEW s \in Sources PROVE passed[s] \in Seq(0 .. now)
    BY DEF EdgeTyped, EdgeTypeOK
  <1>1. passed[s] \in [1 .. Len(passed[s]) -> Nat] /\ Len(passed[s]) \in Nat
    BY LenProperties DEF EdgeTyped
  <1>2. passed[s] \in [1 .. Len(passed[s]) -> 0 .. now]
    BY <1>1 DEF EdgeTyped
  <1>. QED  BY <1>1, <1>2, SeqDef

LEMMA EdgeStarts ==
  ASSUME now' \in Nat, limiter' = << >>, passed' = [s \in Sources |-> << >>]
  PROVE  Edge'
  <1>1. DOMAIN limiter' = {}
    OBVIOUS
  <1>2. \A s \in Sources : passed'[s] = << >> /\ DOMAIN passed'[s] = {} /\ passed'[s] \in Seq(Nat)
    OBVIOUS
  <1>. QED  BY <1>1, <1>2 DEF Edge, EdgeTyped, BurstBounded, Spaced

LEMMA EdgeInits == EdgeInit => Edge
  <1>. SUFFICES ASSUME EdgeInit PROVE Edge
    OBVIOUS
  <1>1. DOMAIN limiter = {}
    BY DEF EdgeInit
  <1>2. \A s \in Sources : passed[s] = << >>
    BY DEF EdgeInit
  <1>3. \A s \in Sources : passed[s] \in Seq(Nat) /\ Len(passed[s]) = 0
    BY <1>2, EmptySeq
  <1>4. passed \in [Sources -> Seq(Nat)]
    BY <1>3 DEF EdgeInit
  <1>5. ASSUME NEW s \in Sources PROVE DOMAIN passed[s] = 1 .. 0
    BY <1>3, LenProperties
  <1>. QED  BY <1>1, <1>2, <1>4, <1>5 DEF Edge, EdgeInit, EdgeTyped, BurstBounded, Spaced

LEMMA EdgeTicks == Edge /\ Tick /\ UNCHANGED <<limiter, passed>> => Edge'
  <1>. SUFFICES ASSUME Edge, Tick, UNCHANGED <<limiter, passed>> PROVE Edge'
    OBVIOUS
  <1>1. now \in Nat /\ now' = now + 1
    BY DEF Tick, Edge, EdgeTyped
  <1>2. \A s \in Sources : \A i \in DOMAIN passed[s] : passed[s][i] \in Nat /\ passed[s][i] <= now
    BY DEF Edge, EdgeTyped
  <1>3. EdgeTyped'
    BY <1>1, <1>2 DEF Edge, EdgeTyped
  <1>. QED  BY <1>3 DEF Edge, BurstBounded, Spaced, WindowOf

LEMMA EdgeStays == Edge /\ UNCHANGED edge => Edge'
  BY DEF Edge, EdgeTyped, edge, BurstBounded, Spaced, WindowOf

LEMMA StoreDef ==
  ASSUME EdgeTyped, NEW s \in Sources, NEW entry \in [count : 0 .. MaxRequests, since : 0 .. now], Store(s, entry)
  PROVE  /\ DOMAIN limiter' = DOMAIN limiter \cup {s}
         /\ DOMAIN limiter' \subseteq Sources
         /\ limiter'[s] = entry
         /\ \A x \in DOMAIN limiter \ {s} : limiter'[x] = limiter[x]
         /\ \A x \in DOMAIN limiter' : limiter'[x] \in [count : 0 .. MaxRequests, since : 0 .. now]
  BY DEF Store, EdgeTyped

\* The entry a request is counted in, before it is.
LEMMA CurrentWindow ==
  ASSUME Edge, NEW s \in Sources
  PROVE  /\ Current(s) \in [count : 0 .. MaxRequests, since : 0 .. now]
         /\ WindowOf(s, Current(s), passed[s])
         /\ Current(s).count > 0 => /\ s \in DOMAIN limiter /\ Current(s) = limiter[s]
                                    /\ now - Current(s).since <= Window
  <1>1. now \in Nat /\ passed[s] \in Seq(Nat) /\ \A i \in DOMAIN passed[s] : passed[s][i] <= now
    BY DEF Edge, EdgeTyped
  <1>2. DOMAIN passed[s] = 1 .. Len(passed[s]) /\ Len(passed[s]) \in Nat
    BY <1>1, LenProperties
  <1>3. CASE s \in DOMAIN limiter /\ now - limiter[s].since <= Window
    BY <1>3 DEF Edge, EdgeTyped, Current
  <1>4. CASE s \in DOMAIN limiter /\ ~(now - limiter[s].since <= Window)
    <2>1. Current(s) = [count |-> 0, since |-> now]
      BY <1>4 DEF Current
    <2>2. limiter[s].count \in 0 .. MaxRequests /\ limiter[s].since \in 0 .. now
      BY <1>4 DEF Edge, EdgeTyped
    <2>3. limiter[s].since + Window < now
      BY <1>1, <1>4, <2>2
    <2>4. ASSUME NEW i \in DOMAIN passed[s], i <= Len(passed[s]) - MaxRequests
          PROVE  passed[s][i] + Window < now
      <3>1. i <= Len(passed[s]) - limiter[s].count
        BY <1>2, <2>2, <2>4
      <3>2. passed[s][i] <= limiter[s].since
        BY <1>4, <3>1 DEF Edge, WindowOf
      <3>3. passed[s][i] \in Nat
        BY <1>1, <1>2
      <3>. QED  BY <1>1, <2>2, <2>3, <3>2, <3>3
    <2>5. \A i \in DOMAIN passed[s] : i <= Len(passed[s])
      BY <1>2
    <2>. QED  BY <1>1, <1>2, <2>1, <2>4, <2>5 DEF WindowOf
  <1>5. CASE s \notin DOMAIN limiter
    <2>1. Current(s) = [count |-> 0, since |-> now] /\ passed[s] = << >>
      BY <1>5 DEF Current, Edge
    <2>. QED  BY <1>1, <2>1 DEF WindowOf
  <1>. QED  BY <1>3, <1>4, <1>5

LEMMA EdgeRefuses ==
  ASSUME Edge, NEW s \in Sources, Refuse(s), UNCHANGED now
  PROVE  Edge'
  <1>1. /\ Current(s) \in [count : 0 .. MaxRequests, since : 0 .. now]
        /\ WindowOf(s, Current(s), passed[s])
    BY CurrentWindow
  <1>2. /\ DOMAIN limiter' = DOMAIN limiter \cup {s}
        /\ DOMAIN limiter' \subseteq Sources
        /\ limiter'[s] = Current(s)
        /\ \A x \in DOMAIN limiter \ {s} : limiter'[x] = limiter[x]
        /\ \A x \in DOMAIN limiter' : limiter'[x] \in [count : 0 .. MaxRequests, since : 0 .. now]
    BY <1>1, StoreDef DEF Refuse, Edge
  <1>3. passed' = passed
    BY DEF Refuse
  <1>4. EdgeTyped'
    BY <1>2, <1>3 DEF Edge, EdgeTyped
  <1>5. ASSUME NEW x \in Sources
        PROVE  IF x \in DOMAIN limiter' THEN WindowOf(x, limiter'[x], passed'[x]) ELSE passed'[x] = << >>
    BY <1>1, <1>2, <1>3 DEF Edge, WindowOf
  <1>6. BurstBounded'
    BY <1>3 DEF Edge, BurstBounded, Spaced
  <1>. QED  BY <1>4, <1>5, <1>6 DEF Edge, WindowOf

\* One more request, at the end of the others.
LEMMA Passed ==
  ASSUME EdgeTyped, NEW s \in Sources, passed' = [passed EXCEPT ![s] = Append(@, now)]
  PROVE  /\ passed'[s] \in Seq(Nat)
         /\ Len(passed[s]) \in Nat /\ Len(passed'[s]) = Len(passed[s]) + 1
         /\ DOMAIN passed[s] = 1 .. Len(passed[s]) /\ DOMAIN passed'[s] = 1 .. Len(passed[s]) + 1
         /\ \A i \in DOMAIN passed[s] : passed'[s][i] = passed[s][i] /\ passed[s][i] \in Nat
         /\ passed'[s][Len(passed[s]) + 1] = now
         /\ \A x \in Sources \ {s} : passed'[x] = passed[x]
         /\ passed' \in [Sources -> Seq(Nat)]
  <1>1. passed[s] \in Seq(Nat) /\ now \in Nat
    BY DEF EdgeTyped
  <1>2. passed'[s] = Append(passed[s], now) /\ \A x \in Sources \ {s} : passed'[x] = passed[x]
    BY DEF EdgeTyped
  <1>3. passed'[s] \in Seq(Nat)
    BY <1>1, <1>2, AppendProperties
  <1>. QED  BY <1>1, <1>2, <1>3, AppendProperties, LenProperties DEF EdgeTyped

LEMMA EdgeAllows ==
  ASSUME Edge, NEW s \in Sources, Allow(s), UNCHANGED now
  PROVE  Edge'
  <1>. DEFINE p == passed[s]
              q == passed'[s]
              old == Current(s)
              entry == [old EXCEPT !.count = @ + 1]
  <1>1. /\ old \in [count : 0 .. MaxRequests, since : 0 .. now]
        /\ WindowOf(s, old, p)
    BY CurrentWindow
  <1>2. /\ entry.count = old.count + 1 /\ entry.since = old.since
        /\ entry \in [count : 0 .. MaxRequests, since : 0 .. now]
    <2>1. old.count \in 0 .. MaxRequests /\ old.since \in 0 .. now /\ old.count < MaxRequests
      BY <1>1 DEF Allow
    <2>2. entry = [count |-> old.count + 1, since |-> old.since]
      BY <1>1
    <2>. HIDE DEF old, entry
    <2>3. old.count + 1 \in 0 .. MaxRequests
      BY <2>1
    <2>. QED  BY <2>1, <2>2, <2>3
  <1>3. /\ DOMAIN limiter' = DOMAIN limiter \cup {s}
        /\ DOMAIN limiter' \subseteq Sources
        /\ limiter'[s] = entry
        /\ \A x \in DOMAIN limiter \ {s} : limiter'[x] = limiter[x]
        /\ \A x \in DOMAIN limiter' : limiter'[x] \in [count : 0 .. MaxRequests, since : 0 .. now]
    BY <1>2, StoreDef DEF Allow, Edge
  <1>4. /\ Len(p) \in Nat /\ Len(q) = Len(p) + 1
        /\ DOMAIN p = 1 .. Len(p) /\ DOMAIN q = 1 .. Len(p) + 1
        /\ \A i \in DOMAIN p : q[i] = p[i] /\ p[i] \in Nat
        /\ q[Len(p) + 1] = now
        /\ \A x \in Sources \ {s} : passed'[x] = passed[x]
        /\ passed' \in [Sources -> Seq(Nat)]
    BY Passed DEF Allow, Edge
  <1>5. now \in Nat /\ \A i \in DOMAIN p : p[i] <= now
    BY DEF Edge, EdgeTyped
  <1>6. \A i \in DOMAIN q : i \in DOMAIN p \/ i = Len(p) + 1
    BY <1>4
  <1>7. old.count \in Nat /\ old.since \in Nat /\ old.since <= now /\ old.count < MaxRequests
    BY <1>1, <1>5 DEF Allow
  <1>. HIDE DEF p, q, old, entry
  <1>8. \A i \in DOMAIN q : q[i] \in Nat /\ q[i] <= now
    BY <1>4, <1>5, <1>6
  <1>9. EdgeTyped'
    BY <1>3, <1>4, <1>8 DEF Edge, EdgeTyped, q
  <1>10. WindowOf(s, entry, q)
    <2>1. entry.count <= Len(q) /\ Len(q) - entry.count = Len(p) - old.count
      <3>1. old.count <= Len(p)
        BY <1>1 DEF WindowOf
      <3>2. entry.count = old.count + 1 /\ Len(q) = Len(p) + 1 /\ Len(p) \in Nat /\ old.count \in Nat
        BY <1>2, <1>4, <1>7
      <3>. QED  BY <3>1, <3>2
    <2>2. ASSUME NEW i \in DOMAIN p
          PROVE  /\ i <= Len(q) - entry.count => q[i] <= entry.since
                 /\ i <= Len(q) - entry.count - MaxRequests => q[i] + Window < entry.since
                 /\ i > Len(q) - entry.count => entry.since <= q[i]
      <3>1. /\ i <= Len(p) - old.count => p[i] <= old.since
            /\ i <= Len(p) - old.count - MaxRequests => p[i] + Window < old.since
            /\ i > Len(p) - old.count => old.since <= p[i]
        BY <1>1 DEF WindowOf
      <3>2. q[i] = p[i]
        BY <1>4
      <3>3. Len(q) - entry.count - MaxRequests = Len(p) - old.count - MaxRequests
        BY <2>1
      <3>. QED  BY <1>2, <2>1, <3>1, <3>2, <3>3
    <2>3. /\ ~(Len(p) + 1 <= Len(q) - entry.count)
          /\ ~(Len(p) + 1 <= Len(q) - entry.count - MaxRequests)
          /\ entry.since <= q[Len(p) + 1]
      BY <1>2, <1>4, <1>7, <2>1
    <2>. QED  BY <1>6, <2>1, <2>2, <2>3 DEF WindowOf
  <1>11. SpacedOf(q, 2 * MaxRequests)
    <2>. SUFFICES ASSUME NEW i \in DOMAIN q, i + 2 * MaxRequests \in DOMAIN q
                  PROVE  q[i + 2 * MaxRequests] - q[i] > Window
      BY DEF SpacedOf
    <2>1. i \in DOMAIN p
      BY <1>4
    <2>2. CASE i + 2 * MaxRequests \in DOMAIN p
      BY <1>4, <2>1, <2>2 DEF Edge, BurstBounded, Spaced, p
    <2>3. CASE i + 2 * MaxRequests = Len(p) + 1
      <3>1. i <= Len(p) - old.count - MaxRequests
        BY <1>4, <1>7, <2>1, <2>3
      <3>2. p[i] + Window < old.since
        BY <1>1, <2>1, <3>1 DEF WindowOf
      <3>. QED  BY <1>4, <1>5, <1>7, <2>1, <2>3, <3>2
    <2>. QED  BY <1>6, <2>2, <2>3
  <1>12. ASSUME NEW x \in Sources
         PROVE  /\ IF x \in DOMAIN limiter' THEN WindowOf(x, limiter'[x], passed'[x]) ELSE passed'[x] = << >>
                /\ SpacedOf(passed'[x], 2 * MaxRequests)
    <2>1. CASE x = s
      BY <1>3, <1>10, <1>11, <2>1 DEF q
    <2>2. CASE x # s
      BY <1>3, <1>4, <2>2 DEF Edge, BurstBounded, Spaced, SpacedOf
    <2>. QED  BY <2>1, <2>2
  <1>13. BurstBounded'
    BY <1>12 DEF BurstBounded, Spaced, SpacedOf
  <1>. QED  BY <1>9, <1>12, <1>13 DEF Edge, WindowOf

\* A refusal finds the limit used up within Window.
LEMMA RefusalEarned ==
  ASSUME Edge, NEW s \in Sources, Refuse(s)
  PROVE  /\ Len(passed[s]) >= MaxRequests
         /\ now - passed[s][Len(passed[s]) - MaxRequests + 1] <= Window
  <1>1. /\ Current(s) \in [count : 0 .. MaxRequests, since : 0 .. now]
        /\ WindowOf(s, Current(s), passed[s])
        /\ Current(s).count > 0 => now - Current(s).since <= Window
    BY CurrentWindow
  <1>2. Current(s).count = MaxRequests
    BY <1>1 DEF Refuse
  <1>3. now \in Nat /\ Current(s).since \in Nat /\ now - Current(s).since <= Window
    BY <1>1, <1>2 DEF Edge, EdgeTyped
  <1>4. /\ Len(passed[s]) \in Nat /\ DOMAIN passed[s] = 1 .. Len(passed[s])
        /\ \A i \in DOMAIN passed[s] : passed[s][i] \in Nat
    BY LenProperties DEF Edge, EdgeTyped
  <1>5. Len(passed[s]) >= MaxRequests
    BY <1>1, <1>2, <1>4 DEF WindowOf
  <1>. DEFINE i == Len(passed[s]) - MaxRequests + 1
  <1>6. i \in DOMAIN passed[s] /\ i > Len(passed[s]) - Current(s).count
    BY <1>2, <1>4, <1>5
  <1>7. Current(s).since <= passed[s][i] /\ passed[s][i] \in Nat
    BY <1>1, <1>4, <1>6 DEF WindowOf
  <1>. QED  BY <1>3, <1>5, <1>7

HIDE RateLimiterAssumption

-----------------------------------------------------------------------------
(* What a step keeps, of the processor, the watchers and the sockets.      *)

USE DeliveryAssumption

Entries == [action : Actions, decision : Decisions]

TablesTyped ==
    /\ pending \subseteq Actions
    /\ saved \in Seq(Entries)
    /\ sent \in Seq(Actions)
    /\ faults \in 0 .. MaxFaults /\ restarts \in 0 .. MaxRestarts
    /\ posted \in [Actions -> Nat]
    /\ heard \subseteq Actions /\ lost \subseteq Actions

Typed == TablesTyped /\ JobOK /\ WatchOK /\ SocketOK

LEMMA TypedIsTypeOK == Edge /\ Typed => TypeOK
  BY EdgeTypes DEF Edge, Typed, TypeOK, TablesTyped, Entries

\* A verdict that a webhook tells of.
Blocked(a) == \E i \in Verdicts(a) : saved[i].decision # "approved"

\* What has been told, or is to be, is in the table.
Told ==
    /\ AnnouncedIsSaved
    /\ job.at = "idle" <=> job.action = Nothing
    /\ job.at # "idle" => Verdicts(job.action) # {}
    /\ job.at \in {"lookup", "post", "answer"} => Blocked(job.action)

\* Where the processor is with the action it posts.
Retried ==
    /\ PostedUntilHeard
    /\ job.action \notin pending
    /\ \A a \in pending : posted[a] = 0
    /\ job.at = "lookup" => posted[job.action] = 0 /\ job.attempt = 0
    /\ job.at = "post" => posted[job.action] = job.attempt
    /\ job.at = "answer" => posted[job.action] = job.attempt + 1
    /\ job.at = "cast" => posted[job.action] \in {0, 3} \/ job.action \in heard

Inv == Edge /\ Typed /\ Told /\ Retried /\ NothingIsMissedUntold

LEMMA InitInv == Init => Inv
  <1>. SUFFICES ASSUME Init PROVE Inv
    OBVIOUS
  <1>1. /\ saved = << >> /\ sent = << >> /\ job = Idle
        /\ watch = [w \in Watchers |-> Off] /\ socket = [k \in Sockets |-> Closed]
    BY DEF Init
  <1>2. /\ Len(saved) = 0 /\ Len(sent) = 0 /\ saved \in Seq(Entries) /\ sent \in Seq(Actions)
        /\ << >> \in Seq(Actions)
    BY <1>1, EmptySeq
  <1>3. DOMAIN saved = 1 .. 0 /\ DOMAIN sent = 1 .. 0
    BY <1>2, LenProperties
  <1>4. TablesTyped
    BY <1>2 DEF Init, TablesTyped
  <1>5. JobOK /\ SocketOK
    BY <1>1 DEF JobOK, SocketOK, Idle, Closed, LastAttempt
  <1>6. WatchOK
    BY <1>1, <1>2 DEF WatchOK, Off
  <1>7. Told
    BY <1>1, <1>3 DEF Init, Told, AnnouncedIsSaved, Idle, Closed, Decisions
  <1>8. Retried
    BY <1>1 DEF Init, Retried, PostedUntilHeard, Idle
  <1>9. NothingIsMissedUntold
    BY <1>1 DEF NothingIsMissedUntold, Off
  <1>10. Edge
    BY EdgeInits DEF Init
  <1>. QED  BY <1>4, <1>5, <1>6, <1>7, <1>8, <1>9, <1>10 DEF Inv, Typed

-----------------------------------------------------------------------------
(* The processor.                                                          *)

LEMMA SavedTypes ==
  ASSUME Typed
  PROVE  /\ DOMAIN saved = 1 .. Len(saved) /\ Len(saved) \in Nat
         /\ \A i \in DOMAIN saved : saved[i] \in Entries
         /\ DOMAIN sent = 1 .. Len(sent) /\ Len(sent) \in Nat
         /\ \A i \in DOMAIN sent : sent[i] \in Actions
  BY LenProperties DEF Typed, TablesTyped

LEMMA SavedGrows ==
  ASSUME Typed, NEW v \in Entries, saved' = Append(saved, v)
  PROVE  /\ saved' \in Seq(Entries)
         /\ Len(saved') = Len(saved) + 1
         /\ DOMAIN saved' = 1 .. Len(saved) + 1
         /\ \A i \in DOMAIN saved : saved'[i] = saved[i]
         /\ saved'[Len(saved) + 1] = v
         /\ \A a : Verdicts(a) \subseteq Verdicts(a)'
         /\ \A a : Blocked(a) => Blocked(a)'
         /\ Len(saved) + 1 \in Verdicts(v.action)'
  <1>1. saved \in Seq(Entries)
    BY DEF Typed, TablesTyped
  <1>2. /\ saved' \in Seq(Entries) /\ Len(saved') = Len(saved) + 1
        /\ saved'[Len(saved) + 1] = v
        /\ \A i \in 1 .. Len(saved) : saved'[i] = saved[i]
    BY <1>1, AppendProperties
  <1>3. /\ DOMAIN saved' = 1 .. Len(saved) + 1 /\ DOMAIN saved = 1 .. Len(saved)
        /\ Len(saved) \in Nat
    BY <1>1, <1>2, LenProperties
  <1>4. \A a : Verdicts(a) \subseteq Verdicts(a)'
    BY <1>2, <1>3 DEF Verdicts
  <1>5. \A a : Blocked(a) => Blocked(a)'
    BY <1>2, <1>3, <1>4 DEF Blocked, Verdicts
  <1>. QED  BY <1>2, <1>3, <1>4, <1>5 DEF Verdicts

LEMMA SaveStep ==
  ASSUME Inv, Save
  PROVE  Inv'
  <1>1. PICK a \in pending, d \in Decisions :
           /\ \/ Works /\ saved' = Append(saved, [action |-> a, decision |-> d]) /\ Begin(a, d)
              \/ Fault /\ UNCHANGED <<saved, job>>
           /\ pending' = pending \ {a}
    BY DEF Save
  <1>2. job = Idle /\ UNCHANGED <<elsewhere, sent, posted, heard, lost>>
    BY DEF Save
  <1>3. a \in Actions /\ Typed
    BY DEF Inv, Typed, TablesTyped
  <1>4. Edge' /\ faults' \in 0 .. MaxFaults
    BY <1>1, <1>2, EdgeStays DEF Inv, elsewhere, Works, Fault, Typed, TablesTyped
  <1>5. CASE UNCHANGED <<saved, job>>
    <2>1. Typed'
      BY <1>1, <1>2, <1>4, <1>5 DEF Inv, Typed, TablesTyped, JobOK, WatchOK, SocketOK, elsewhere
    <2>2. Told'
      BY <1>2, <1>5 DEF Inv, Told, AnnouncedIsSaved, Blocked, Verdicts, elsewhere
    <2>3. Retried'
      BY <1>1, <1>2, <1>5 DEF Inv, Retried, PostedUntilHeard, elsewhere
    <2>4. NothingIsMissedUntold'
      BY <1>2, <1>5 DEF Inv, NothingIsMissedUntold, elsewhere
    <2>. QED  BY <1>4, <2>1, <2>2, <2>3, <2>4 DEF Inv
  <1>6. CASE saved' = Append(saved, [action |-> a, decision |-> d]) /\ Begin(a, d)
    <2>. DEFINE v == [action |-> a, decision |-> d]
    <2>1. v \in Entries /\ v.action = a /\ v.decision = d
      BY <1>3 DEF Entries
    <2>2. /\ saved' \in Seq(Entries)
          /\ Len(saved') = Len(saved) + 1
          /\ DOMAIN saved' = 1 .. Len(saved) + 1
          /\ \A i \in DOMAIN saved : saved'[i] = saved[i]
          /\ saved'[Len(saved) + 1] = v
          /\ \A b : Verdicts(b) \subseteq Verdicts(b)'
          /\ \A b : Blocked(b) => Blocked(b)'
          /\ Len(saved) + 1 \in Verdicts(a)'
      BY <1>3, <1>6, <2>1, SavedGrows
    <2>. HIDE DEF v
    <2>3. DOMAIN saved = 1 .. Len(saved) /\ Len(saved) \in Nat /\ \A i \in DOMAIN saved : saved[i] \in Entries
      BY <1>3, SavedTypes
    <2>4. /\ job'.at = (IF d = "approved" THEN "cast" ELSE "lookup") /\ job'.action = a /\ job'.attempt = 0
          /\ JobOK'
      BY <1>3, <1>6 DEF Begin, JobOK, LastAttempt
    <2>5. Typed'
      <3>1. TablesTyped'
        BY <1>1, <1>2, <1>4, <2>2 DEF Inv, Typed, TablesTyped, elsewhere
      <3>2. WatchOK' /\ SocketOK'
        BY <1>2, <1>3, <2>2, <2>3 DEF Typed, WatchOK, SocketOK, elsewhere
      <3>. QED  BY <2>4, <3>1, <3>2 DEF Typed
    <2>6. Told'
      <3>1. \A i \in DOMAIN sent : Verdicts(sent[i])' # {}
        BY <1>2, <2>2 DEF Inv, Told, AnnouncedIsSaved
      <3>2. \A b \in Actions : posted[b] > 0 => Blocked(b)'
        BY <2>2 DEF Inv, Told, AnnouncedIsSaved, Blocked
      <3>3. \A k \in Sockets : socket[k].told \in Decisions =>
               \E i \in Verdicts(socket[k].action)' : saved'[i].decision = socket[k].told
        <4>1. ASSUME NEW b, NEW i \in Verdicts(b) PROVE i \in Verdicts(b)' /\ saved'[i] = saved[i]
          BY <2>2 DEF Verdicts
        <4>. QED  BY <1>2, <4>1 DEF Inv, Told, AnnouncedIsSaved, elsewhere
      <3>4. AnnouncedIsSaved'
        BY <1>2, <3>1, <3>2, <3>3 DEF AnnouncedIsSaved, Blocked, elsewhere, Verdicts
      <3>5. job'.at = "lookup" => Blocked(a)'
        BY <2>1, <2>2, <2>4 DEF Blocked
      <3>6. Verdicts(a)' # {}
        BY <2>2
      <3>7. a # Nothing
        BY <1>3
      <3>. QED  BY <2>4, <3>4, <3>5, <3>6, <3>7 DEF Told, Blocked, Verdicts
    <2>7. Retried'
      BY <1>1, <1>2, <1>3, <2>4 DEF Inv, Retried, PostedUntilHeard, Idle
    <2>8. NothingIsMissedUntold'
      <3>. SUFFICES ASSUME NEW w \in Watchers, watch[w].on, watch[w].skipped = 0,
                           NEW i \in watch[w].since + 1 .. Len(saved) + 1
                    PROVE  \/ \E n \in DOMAIN watch[w].shown : watch[w].shown[n] = saved'[i].action
                           \/ \E n \in watch[w].next + 1 .. Len(sent) : sent[n] = saved'[i].action
                           \/ saved'[i].action \in {job'.action} \cup lost
        BY <1>2, <2>2 DEF NothingIsMissedUntold, elsewhere
      <3>1. watch[w].since \in Nat
        BY <1>3 DEF Typed, WatchOK
      <3>2. CASE i = Len(saved) + 1
        BY <2>1, <2>2, <2>4, <3>2
      <3>3. CASE i # Len(saved) + 1
        <4>1. i \in DOMAIN saved /\ i \in watch[w].since + 1 .. Len(saved)
          BY <2>3, <3>1, <3>3
        <4>2. saved'[i].action = saved[i].action /\ saved[i].action \in Actions
          BY <2>2, <2>3, <4>1 DEF Entries
        <4>3. job.action = Nothing
          BY <1>2 DEF Idle
        <4>. QED  BY <4>1, <4>2, <4>3 DEF Inv, NothingIsMissedUntold
      <3>. QED  BY <3>2, <3>3
    <2>. QED  BY <1>4, <2>5, <2>6, <2>7, <2>8 DEF Inv
  <1>. QED  BY <1>1, <1>5, <1>6

\* A step of the processor that saves and broadcasts nothing.
LEMMA JobStep ==
  ASSUME Inv, UNCHANGED <<elsewhere, pending, saved, sent>>, JobOK', faults' \in 0 .. MaxFaults,
         posted' \in [Actions -> Nat], heard' \subseteq Actions, lost' \subseteq Actions,
         Told', Retried', NothingIsMissedUntold'
  PROVE  Inv'
  <1>1. Edge'
    BY EdgeStays DEF Inv, elsewhere
  <1>2. Typed'
    BY DEF Inv, Typed, TablesTyped, WatchOK, SocketOK, elsewhere
  <1>. QED  BY <1>1, <1>2 DEF Inv

LEMMA LookUpUrlStep ==
  ASSUME Inv, LookUpUrl
  PROVE  Inv'
  <1>1. UNCHANGED <<elsewhere, pending, saved, sent, posted, heard>> /\ job.at = "lookup"
    BY DEF LookUpUrl
  <1>2. faults' \in 0 .. MaxFaults
    BY DEF LookUpUrl, Works, Fault, Inv, Typed, TablesTyped
  <1>3. job.action \in Actions /\ posted[job.action] = 0 /\ job.attempt = 0 /\ Blocked(job.action)
    BY <1>1 DEF Inv, Typed, JobOK, Told, Retried
  <1>4. ASSUME NEW next \in {"post", "cast"}, Goto(next), UNCHANGED lost
        PROVE  Inv'
    <2>1. job'.at = next /\ job'.action = job.action /\ job'.attempt = job.attempt /\ JobOK'
      BY <1>4 DEF Goto, Inv, Typed, JobOK
    <2>2. Told'
      BY <1>1, <1>3, <2>1 DEF Inv, Told, AnnouncedIsSaved, Blocked, Verdicts, elsewhere
    <2>3. Retried'
      BY <1>1, <1>3, <1>4, <2>1 DEF Inv, Retried, PostedUntilHeard
    <2>4. NothingIsMissedUntold'
      BY <1>1, <1>4, <2>1 DEF Inv, NothingIsMissedUntold, elsewhere
    <2>. QED  BY <1>1, <1>2, <1>4, <2>1, <2>2, <2>3, <2>4, JobStep DEF Inv, Typed, TablesTyped
  <1>5. CASE job' = Idle /\ lost' = lost \cup {job.action}
    <2>1. job'.at = "idle" /\ job'.action = Nothing /\ JobOK'
      BY <1>5 DEF Idle, JobOK, LastAttempt
    <2>2. Told'
      BY <1>1, <2>1 DEF Inv, Told, AnnouncedIsSaved, Blocked, Verdicts, elsewhere
    <2>3. Retried'
      BY <1>1, <1>5, <2>1 DEF Inv, Retried, PostedUntilHeard, Typed, TablesTyped
    <2>4. NothingIsMissedUntold'
      BY <1>1, <1>5 DEF Inv, NothingIsMissedUntold, elsewhere
    <2>. QED  BY <1>1, <1>2, <1>3, <1>5, <2>1, <2>2, <2>3, <2>4, JobStep DEF Inv, Typed, TablesTyped
  <1>. QED  BY <1>4, <1>5 DEF LookUpUrl

LEMMA PostStep ==
  ASSUME Inv, Post
  PROVE  Inv'
  <1>1. UNCHANGED <<elsewhere, faults, pending, saved, sent, heard, lost>> /\ job.at = "post"
    BY DEF Post
  <1>2. job.action \in Actions /\ posted[job.action] = job.attempt /\ Blocked(job.action)
    BY <1>1 DEF Inv, Typed, JobOK, Told, Retried
  <1>3. job'.at = "answer" /\ job'.action = job.action /\ job'.attempt = job.attempt /\ JobOK'
    BY DEF Post, Goto, Inv, Typed, JobOK
  <1>4. /\ posted' \in [Actions -> Nat]
        /\ posted'[job.action] = posted[job.action] + 1
        /\ \A a \in Actions \ {job.action} : posted'[a] = posted[a]
    BY <1>2 DEF Post, Inv, Typed, TablesTyped
  <1>5. Told'
    <2>1. \A a \in Actions : posted'[a] > 0 => Blocked(a)
      BY <1>2, <1>4 DEF Inv, Told, AnnouncedIsSaved, Blocked
    <2>. QED  BY <1>1, <1>2, <1>3, <2>1 DEF Inv, Told, AnnouncedIsSaved, Blocked, Verdicts, elsewhere
  <1>6. Retried'
    BY <1>1, <1>2, <1>3, <1>4 DEF Inv, Retried, PostedUntilHeard, Typed, TablesTyped
  <1>7. NothingIsMissedUntold'
    BY <1>1, <1>3 DEF Inv, NothingIsMissedUntold, elsewhere
  <1>. QED  BY <1>1, <1>3, <1>4, <1>5, <1>6, <1>7, JobStep DEF Inv, Typed, TablesTyped

LEMMA AnswerStep ==
  ASSUME Inv, Answer
  PROVE  Inv'
  <1>1. UNCHANGED <<elsewhere, faults, pending, saved, sent, posted, lost>> /\ job.at = "answer"
    BY DEF Answer
  <1>2. job.action \in Actions /\ posted[job.action] = job.attempt + 1 /\ Blocked(job.action)
    BY <1>1 DEF Inv, Typed, JobOK, Told, Retried
  <1>3. job.attempt \in 0 .. 2
    BY DEF Inv, Typed, JobOK, LastAttempt
  <1>4. heard \subseteq heard' /\ heard' \subseteq Actions
    BY <1>2 DEF Answer, Inv, Typed, TablesTyped
  <1>5. /\ job'.action = job.action /\ JobOK'
        /\ \/ job'.at = "cast" /\ (job.action \in heard' \/ job.attempt = 2)
           \/ job'.at = "post" /\ job'.attempt = job.attempt + 1
    <2>1. CASE heard' = heard \cup {job.action} /\ Goto("cast")
      BY <2>1 DEF Goto, Inv, Typed, JobOK
    <2>2. CASE ~Spent /\ job' = [job EXCEPT !.at = "post", !.attempt = @ + 1]
      <3>1. job.attempt + 1 \in 0 .. 2
        BY <1>3, <2>2 DEF Spent, LastAttempt
      <3>. QED  BY <2>2, <3>1 DEF Inv, Typed, JobOK, LastAttempt
    <2>3. CASE Spent /\ Goto("cast")
      BY <2>3 DEF Goto, Spent, LastAttempt, Inv, Typed, JobOK
    <2>. QED  BY <2>1, <2>2, <2>3 DEF Answer
  <1>6. Told'
    BY <1>1, <1>2, <1>5 DEF Inv, Told, AnnouncedIsSaved, Blocked, Verdicts, elsewhere
  <1>7. Retried'
    BY <1>1, <1>2, <1>3, <1>4, <1>5 DEF Inv, Retried, PostedUntilHeard
  <1>8. NothingIsMissedUntold'
    BY <1>1, <1>5 DEF Inv, NothingIsMissedUntold, elsewhere
  <1>. QED  BY <1>1, <1>4, <1>5, <1>6, <1>7, <1>8, JobStep DEF Inv, Typed, TablesTyped

LEMMA CastStep ==
  ASSUME Inv, Cast
  PROVE  Inv'
  <1>1. UNCHANGED <<elsewhere, faults, pending, saved, posted, heard, lost>> /\ job.at = "cast"
    BY DEF Cast
  <1>2. job.action \in Actions /\ Verdicts(job.action) # {}
    BY <1>1 DEF Inv, Typed, JobOK, Told
  <1>3. job'.at = "idle" /\ job'.action = Nothing /\ JobOK'
    BY DEF Cast, Idle, JobOK, LastAttempt
  <1>4. /\ sent' \in Seq(Actions) /\ Len(sent') = Len(sent) + 1
        /\ sent'[Len(sent) + 1] = job.action
        /\ \A n \in 1 .. Len(sent) : sent'[n] = sent[n]
        /\ DOMAIN sent' = 1 .. Len(sent) + 1 /\ DOMAIN sent = 1 .. Len(sent) /\ Len(sent) \in Nat
    BY <1>2, AppendProperties, LenProperties DEF Cast, Inv, Typed, TablesTyped
  <1>5. Edge'
    BY <1>1, EdgeStays DEF Inv, elsewhere
  <1>6. Typed'
    <2>1. TablesTyped' /\ SocketOK'
      BY <1>1, <1>4 DEF Inv, Typed, TablesTyped, SocketOK, elsewhere
    <2>2. WatchOK'
      BY <1>1, <1>4 DEF Inv, Typed, WatchOK, elsewhere
    <2>. QED  BY <1>3, <2>1, <2>2 DEF Typed
  <1>7. Told'
    <2>1. \A i \in DOMAIN sent' : Verdicts(sent'[i]) # {}
      BY <1>2, <1>4 DEF Inv, Told, AnnouncedIsSaved
    <2>. QED  BY <1>1, <1>3, <2>1 DEF Inv, Told, AnnouncedIsSaved, Verdicts, elsewhere
  <1>8. Retried'
    BY <1>1, <1>2, <1>3 DEF Inv, Retried, PostedUntilHeard, Typed, TablesTyped
  <1>9. NothingIsMissedUntold'
    <2>. SUFFICES ASSUME NEW w \in Watchers, watch[w].on, watch[w].skipped = 0,
                         NEW i \in watch[w].since + 1 .. Len(saved)
                  PROVE  \/ \E n \in DOMAIN watch[w].shown : watch[w].shown[n] = saved[i].action
                         \/ \E n \in watch[w].next + 1 .. Len(sent) + 1 : sent'[n] = saved[i].action
                         \/ saved[i].action \in {Nothing} \cup lost
      BY <1>1, <1>3, <1>4 DEF NothingIsMissedUntold, elsewhere
    <2>1. watch[w].next \in 0 .. Len(sent)
      BY DEF Inv, Typed, WatchOK
    <2>2. CASE saved[i].action = job.action
      <3>1. Len(sent) + 1 \in watch[w].next + 1 .. Len(sent) + 1
        BY <1>4, <2>1
      <3>. QED  BY <1>4, <2>2, <3>1
    <2>3. CASE \E n \in watch[w].next + 1 .. Len(sent) : sent[n] = saved[i].action
      <3>1. PICK n \in watch[w].next + 1 .. Len(sent) : sent[n] = saved[i].action
        BY <2>3
      <3>2. n \in 1 .. Len(sent) /\ n \in watch[w].next + 1 .. Len(sent) + 1
        BY <1>4, <2>1
      <3>. QED  BY <1>4, <3>1, <3>2
    <2>. QED  BY <2>2, <2>3 DEF Inv, NothingIsMissedUntold
  <1>. QED  BY <1>5, <1>6, <1>7, <1>8, <1>9 DEF Inv

-----------------------------------------------------------------------------
(* The administrators' sockets.                                            *)

Watching == [on : BOOLEAN, next : 0 .. Len(sent), since : 0 .. Len(saved),
             shown : Seq(Actions), skipped : Nat]

\* What NothingIsMissedUntold says of one watcher.
NoGap(r) ==
    r.on /\ r.skipped = 0
    => \A i \in r.since + 1 .. Len(saved) :
          \/ \E n \in DOMAIN r.shown : r.shown[n] = saved[i].action
          \/ \E n \in r.next + 1 .. Len(sent) : sent[n] = saved[i].action
          \/ saved[i].action \in {job.action} \cup lost

LEMMA WatchStep ==
  ASSUME Inv, UNCHANGED <<edge, processor, socket, faults, restarts>>,
         NEW w \in Watchers, NEW r \in Watching, watch' = [watch EXCEPT ![w] = r], NoGap(r)
  PROVE  Inv'
  <1>1. Edge'
    BY EdgeStays DEF Inv
  <1>2. watch'[w] = r /\ \A v \in Watchers \ {w} : watch'[v] = watch[v]
    BY DEF Inv, Typed, WatchOK
  <1>3. WatchOK'
    BY DEF Inv, Typed, WatchOK, Watching, processor
  <1>4. Typed'
    BY <1>3 DEF Inv, Typed, TablesTyped, JobOK, SocketOK, processor
  <1>5. Told' /\ Retried'
    BY DEF Inv, Told, Retried, AnnouncedIsSaved, PostedUntilHeard, Blocked, Verdicts, processor
  <1>6. \A v \in Watchers : NoGap(watch'[v])
    BY <1>2 DEF Inv, NothingIsMissedUntold, NoGap
  <1>7. NothingIsMissedUntold'
    BY <1>6 DEF NothingIsMissedUntold, NoGap, processor
  <1>. QED  BY <1>1, <1>4, <1>5, <1>7 DEF Inv

LEMMA SubscribeStep ==
  ASSUME Inv, NEW w \in Watchers, Subscribe(w) \/ Hang(w)
  PROVE  Inv'
  <1>1. UNCHANGED <<edge, processor, socket, faults, restarts>>
    BY DEF Subscribe, Hang
  <1>2. Len(sent) \in Nat /\ Len(saved) \in Nat /\ << >> \in Seq(Actions)
    BY SavedTypes, EmptySeq DEF Inv
  <1>3. CASE Subscribe(w)
    <2>. DEFINE r == [on |-> TRUE, next |-> Len(sent), since |-> Len(saved), shown |-> << >>, skipped |-> 0]
    <2>1. watch' = [watch EXCEPT ![w] = r]
      BY <1>3 DEF Subscribe
    <2>2. r \in Watching
      BY <1>2 DEF Watching
    <2>3. r.since = Len(saved)
      OBVIOUS
    <2>. HIDE DEF r
    <2>4. NoGap(r)
      BY <1>2, <2>3 DEF NoGap
    <2>. QED  BY <1>1, <2>1, <2>2, <2>4, WatchStep
  <1>4. CASE Hang(w)
    <2>1. watch' = [watch EXCEPT ![w] = Off]
      BY <1>4 DEF Hang
    <2>2. Off \in Watching
      BY <1>2 DEF Watching, Off
    <2>3. NoGap(Off)
      BY DEF Off, NoGap
    <2>. QED  BY <1>1, <2>1, <2>2, <2>3, WatchStep
  <1>. QED  BY <1>3, <1>4

LEMMA WatchTypes ==
  ASSUME Inv, NEW w \in Watchers
  PROVE  /\ watch[w] \in Watching /\ NoGap(watch[w])
         /\ watch[w].next \in 0 .. Len(sent) /\ watch[w].skipped \in Nat /\ watch[w].shown \in Seq(Actions)
         /\ Len(sent) \in Nat /\ DOMAIN sent = 1 .. Len(sent) /\ \A n \in DOMAIN sent : sent[n] \in Actions
  BY SavedTypes DEF Inv, Typed, WatchOK, Watching, NothingIsMissedUntold, NoGap

LEMMA CatchUpStep ==
  ASSUME Inv, NEW w \in Watchers, CatchUp(w)
  PROVE  Inv'
  <1>1. UNCHANGED <<edge, processor, socket, faults, restarts>>
    BY DEF CatchUp
  <1>2. /\ watch[w] \in Watching
        /\ watch[w].next \in 0 .. Len(sent) /\ watch[w].skipped \in Nat /\ watch[w].shown \in Seq(Actions)
        /\ Len(sent) \in Nat
    BY WatchTypes
  <1>3. Oldest \in 0 .. Len(sent)
    BY <1>2 DEF Oldest
  <1>4. PICK m, k : m = watch[w].next /\ k = watch[w].skipped + Oldest - m
    OBVIOUS
  <1>5. m < Oldest
    BY <1>4 DEF CatchUp
  <1>6. k \in Nat /\ k # 0
    <2>1. PICK j \in Nat : j = watch[w].skipped
      BY <1>2
    <2>2. m \in Nat /\ Oldest \in Nat
      BY <1>2, <1>3, <1>4
    <2>3. k = j + Oldest - m
      BY <1>4, <2>1
    <2>. QED  BY <1>5, <2>2, <2>3
  <1>7. PICK r : r = [watch[w] EXCEPT !.next = Oldest, !.shown = watch[w].shown, !.skipped = k]
    OBVIOUS
  <1>8. watch' = [watch EXCEPT ![w] = r]
    BY <1>2, <1>4, <1>7 DEF CatchUp, Inv, Typed, WatchOK, Watching
  <1>9. r \in Watching /\ r.skipped = k
    <2>1. PICK v \in Watching : v = watch[w]
      BY <1>2
    <2>2. PICK s \in Seq(Actions) : s = watch[w].shown
      BY <1>2
    <2>3. r = [v EXCEPT !.next = Oldest, !.shown = s, !.skipped = k]
      BY <1>7, <2>1, <2>2
    <2>. QED  BY <1>3, <1>6, <2>3 DEF Watching
  <1>10. NoGap(r)
    BY <1>6, <1>9 DEF NoGap
  <1>. QED  BY <1>1, <1>8, <1>9, <1>10, WatchStep

LEMMA ShowStep ==
  ASSUME Inv, NEW w \in Watchers, Show(w)
  PROVE  Inv'
  <1>1. UNCHANGED <<edge, processor, socket, faults, restarts>> /\ watch[w].next < Len(sent) /\ watch[w].on
    BY DEF Show
  <1>0. PICK m, s, k : m = watch[w].next /\ s = watch[w].shown /\ k = watch[w].skipped
    OBVIOUS
  <1>2. /\ watch[w] \in Watching /\ NoGap(watch[w])
        /\ m \in 0 .. Len(sent) /\ k \in Nat /\ s \in Seq(Actions)
        /\ Len(sent) \in Nat /\ DOMAIN sent = 1 .. Len(sent) /\ \A n \in DOMAIN sent : sent[n] \in Actions
    BY <1>0, WatchTypes
  <1>3. m + 1 \in DOMAIN sent /\ m + 1 \in 0 .. Len(sent) /\ sent[m + 1] \in Actions
    BY <1>0, <1>1, <1>2
  <1>t. PICK t : t = Append(s, sent[m + 1])
    OBVIOUS
  <1>4. /\ t \in Seq(Actions)
        /\ DOMAIN t = 1 .. Len(s) + 1 /\ DOMAIN s = 1 .. Len(s) /\ Len(s) \in Nat
        /\ t[Len(s) + 1] = sent[m + 1]
        /\ \A n \in 1 .. Len(s) : t[n] = s[n]
    BY <1>2, <1>3, <1>t, AppendProperties, LenProperties
  <1>r. PICK r : r = [watch[w] EXCEPT !.next = m + 1, !.shown = t, !.skipped = k]
    OBVIOUS
  <1>5. watch' = [watch EXCEPT ![w] = r]
    BY <1>0, <1>2, <1>t, <1>r DEF Show, Inv, Typed, WatchOK, Watching
  <1>6. /\ r \in Watching /\ r.on = watch[w].on /\ r.since = watch[w].since
        /\ r.next = m + 1 /\ r.shown = t /\ r.skipped = k
    <2>1. PICK v \in Watching : v = watch[w]
      BY <1>2
    <2>2. r = [v EXCEPT !.next = m + 1, !.shown = t, !.skipped = k]
      BY <1>r, <2>1
    <2>. QED  BY <1>2, <1>3, <1>4, <2>1, <2>2 DEF Watching
  <1>7. NoGap(r)
    <2>. SUFFICES ASSUME r.on, r.skipped = 0, NEW i \in r.since + 1 .. Len(saved)
                  PROVE  \/ \E n \in DOMAIN r.shown : r.shown[n] = saved[i].action
                         \/ \E n \in r.next + 1 .. Len(sent) : sent[n] = saved[i].action
                         \/ saved[i].action \in {job.action} \cup lost
      BY DEF NoGap
    <2>1. \/ \E n \in DOMAIN s : s[n] = saved[i].action
          \/ \E n \in m + 1 .. Len(sent) : sent[n] = saved[i].action
          \/ saved[i].action \in {job.action} \cup lost
      BY <1>0, <1>2, <1>6 DEF NoGap
    <2>2. CASE \E n \in DOMAIN s : s[n] = saved[i].action
      <3>1. PICK n \in DOMAIN s : s[n] = saved[i].action
        BY <2>2
      <3>2. n \in DOMAIN t /\ t[n] = s[n]
        BY <1>4
      <3>. QED  BY <1>6, <3>1, <3>2
    <2>3. CASE \E n \in m + 1 .. Len(sent) : sent[n] = saved[i].action
      <3>1. PICK n \in m + 1 .. Len(sent) : sent[n] = saved[i].action
        BY <2>3
      <3>2. CASE n = m + 1
        <4>1. Len(s) + 1 \in DOMAIN t /\ t[Len(s) + 1] = saved[i].action
          BY <1>4, <3>1, <3>2
        <4>. QED  BY <1>6, <4>1
      <3>3. CASE n # m + 1
        <4>1. n \in r.next + 1 .. Len(sent)
          BY <1>2, <1>6, <3>1, <3>3
        <4>. QED  BY <3>1, <4>1
      <3>. QED  BY <3>2, <3>3
    <2>. QED  BY <2>1, <2>2, <2>3
  <1>. QED  BY <1>1, <1>5, <1>6, <1>7, WatchStep

-----------------------------------------------------------------------------
(* The agents' sockets.                                                    *)

Conversing == [at : {"closed", "limited", "check", "poll", "ended"},
               action : Actions \cup {Nothing}, polls : 0 .. MaxPolls,
               told : Decisions \cup {"nothing", "pending", "timeout"}]

\* What AnnouncedIsSaved says of one socket.
TellsTrue(r) == r.told \in Decisions => \E i \in Verdicts(r.action) : saved[i].decision = r.told

LEMMA SocketStep ==
  ASSUME Inv, UNCHANGED <<processor, watch, restarts>>, faults' \in 0 .. MaxFaults, Edge',
         NEW k \in Sockets, NEW r \in Conversing, socket' = [socket EXCEPT ![k] = r], TellsTrue(r)
  PROVE  Inv'
  <1>1. socket'[k] = r /\ \A j \in Sockets \ {k} : socket'[j] = socket[j]
    BY DEF Inv, Typed, SocketOK
  <1>2. SocketOK'
    BY DEF Inv, Typed, SocketOK, Conversing
  <1>3. Typed'
    BY <1>2 DEF Inv, Typed, TablesTyped, JobOK, WatchOK, processor
  <1>4. \A j \in Sockets : TellsTrue(socket'[j])
    BY <1>1 DEF Inv, Told, AnnouncedIsSaved, TellsTrue
  <1>5. Told'
    BY <1>4 DEF Inv, Told, AnnouncedIsSaved, TellsTrue, Blocked, Verdicts, processor
  <1>6. Retried' /\ NothingIsMissedUntold'
    BY DEF Inv, Retried, PostedUntilHeard, NothingIsMissedUntold, processor
  <1>. QED  BY <1>3, <1>5, <1>6 DEF Inv

LEMMA SocketTypes ==
  ASSUME Inv, NEW k \in Sockets
  PROVE  socket[k] \in Conversing /\ TellsTrue(socket[k])
  BY DEF Inv, Typed, SocketOK, Conversing, Told, AnnouncedIsSaved, TellsTrue

LEMMA OpenStep ==
  ASSUME Inv, NEW k \in Sockets, Open(k)
  PROVE  Inv'
  <1>1. UNCHANGED <<now, processor, watch, faults, restarts>> /\ faults' \in 0 .. MaxFaults
    BY DEF Open, Inv, Typed, TablesTyped
  <1>2. SourceOf[k] \in Sources
    OBVIOUS
  <1>3. ASSUME NEW a \in Actions, Allow(SourceOf[k]), socket' = [socket EXCEPT ![k] = [Closed EXCEPT !.at = "check", !.action = a]]
        PROVE  Inv'
    <2>1. Edge'
      BY <1>1, <1>2, <1>3, EdgeAllows DEF Inv
    <2>. DEFINE r == [Closed EXCEPT !.at = "check", !.action = a]
    <2>2. r \in Conversing /\ r.told = "nothing"
      <3>0. Closed \in Conversing /\ Closed.told = "nothing"
        BY DEF Closed, Conversing
      <3>. HIDE DEF r
      <3>1. PICK c \in Conversing : c = Closed /\ c.told = "nothing"
        BY <3>0
      <3>2. r = [c EXCEPT !.at = "check", !.action = a]
        BY <3>1 DEF r
      <3>. QED  BY <3>1, <3>2 DEF Conversing
    <2>. HIDE DEF r
    <2>3. TellsTrue(r)
      BY <2>2 DEF TellsTrue, Decisions
    <2>. QED  BY <1>1, <1>3, <2>1, <2>2, <2>3, SocketStep DEF r
  <1>4. CASE Refuse(SourceOf[k]) /\ socket' = [socket EXCEPT ![k].at = "limited"]
    <2>1. Edge'
      BY <1>1, <1>2, <1>4, EdgeRefuses DEF Inv
    <2>2. PICK r : r = [socket[k] EXCEPT !.at = "limited"]
      OBVIOUS
    <2>3. r \in Conversing /\ r.told = socket[k].told /\ r.action = socket[k].action
      BY <2>2, SocketTypes DEF Conversing
    <2>4. socket' = [socket EXCEPT ![k] = r] /\ TellsTrue(r)
      BY <1>4, <2>2, <2>3, SocketTypes DEF TellsTrue
    <2>. QED  BY <1>1, <2>1, <2>3, <2>4, SocketStep
  <1>. QED  BY <1>3, <1>4 DEF Open

\* A socket that ends.
LEMMA FinishStep ==
  ASSUME Inv, UNCHANGED <<edge, processor, watch, restarts>>, faults' \in 0 .. MaxFaults,
         NEW k \in Sockets, NEW told \in Decisions \cup {"nothing", "timeout"}, Finish(k, told),
         told \in Decisions => \E i \in Verdicts(socket[k].action) : saved[i].decision = told
  PROVE  Inv'
  <1>1. PICK r : r = [socket[k] EXCEPT !.at = "ended", !.told = told]
    OBVIOUS
  <1>2. r \in Conversing /\ r.told = told /\ r.action = socket[k].action
    BY <1>1, SocketTypes DEF Conversing
  <1>3. socket' = [socket EXCEPT ![k] = r]
    BY <1>1 DEF Finish, Inv, Typed, SocketOK
  <1>4. TellsTrue(r)
    BY <1>2 DEF TellsTrue
  <1>5. Edge'
    BY EdgeStays DEF Inv
  <1>. QED  BY <1>2, <1>3, <1>4, <1>5, SocketStep

LEMMA CheckStep ==
  ASSUME Inv, NEW k \in Sockets, CheckOwner(k)
  PROVE  Inv'
  <1>1. UNCHANGED <<edge, processor, watch, restarts>> /\ faults' \in 0 .. MaxFaults
    BY DEF CheckOwner, Works, Fault, Inv, Typed, TablesTyped
  <1>2. CASE Finish(k, "nothing")
    BY <1>1, <1>2, FinishStep DEF Decisions
  <1>3. CASE socket' = [socket EXCEPT ![k].at = "poll"]
    <2>1. PICK r : r = [socket[k] EXCEPT !.at = "poll"]
      OBVIOUS
    <2>2. r \in Conversing /\ r.told = socket[k].told /\ r.action = socket[k].action
      BY <2>1, SocketTypes DEF Conversing
    <2>3. socket' = [socket EXCEPT ![k] = r] /\ TellsTrue(r)
      BY <1>3, <2>1, <2>2, SocketTypes DEF TellsTrue
    <2>4. Edge'
      BY <1>1, EdgeStays DEF Inv
    <2>. QED  BY <1>1, <2>2, <2>3, <2>4, SocketStep
  <1>. QED  BY <1>2, <1>3 DEF CheckOwner

LEMMA PollStep ==
  ASSUME Inv, NEW k \in Sockets, Poll(k)
  PROVE  Inv'
  <1>1. UNCHANGED <<edge, processor, watch, restarts>> /\ faults' \in 0 .. MaxFaults
    BY DEF Poll, Works, Fault, Inv, Typed, TablesTyped
  <1>2. CASE Finish(k, "nothing") \/ Finish(k, "timeout")
    BY <1>1, <1>2, FinishStep DEF Decisions
  <1>3. ASSUME NEW i \in Verdicts(socket[k].action), Finish(k, saved[i].decision)
        PROVE  Inv'
    <2>1. saved[i].decision \in Decisions
      BY SavedTypes DEF Inv, Verdicts, Entries
    <2>. QED  BY <1>1, <1>3, <2>1, FinishStep
  <1>4. CASE socket' = [socket EXCEPT ![k].polls = (@ + 1) % MaxPolls, ![k].told = "pending"]
    <2>1. PICK n : n = (socket[k].polls + 1) % MaxPolls
      OBVIOUS
    <2>2. n \in 0 .. MaxPolls
      <3>1. socket[k].polls \in Nat
        BY SocketTypes DEF Conversing
      <3>. QED  BY <2>1, <3>1
    <2>3. PICK r : r = [socket[k] EXCEPT !.polls = n, !.told = "pending"]
      OBVIOUS
    <2>4. r \in Conversing /\ r.told = "pending"
      BY <2>2, <2>3, SocketTypes DEF Conversing
    <2>5. socket' = [socket EXCEPT ![k] = r]
      BY <1>4, <2>1, <2>3 DEF Inv, Typed, SocketOK
    <2>6. TellsTrue(r)
      BY <2>4 DEF TellsTrue, Decisions
    <2>7. Edge'
      BY <1>1, EdgeStays DEF Inv
    <2>. QED  BY <1>1, <2>4, <2>5, <2>6, <2>7, SocketStep
  <1>. QED  BY <1>2, <1>3, <1>4 DEF Poll

LEMMA ReconnectStep ==
  ASSUME Inv, NEW k \in Sockets, Reconnect(k)
  PROVE  Inv'
  <1>1. Closed \in Conversing /\ TellsTrue(Closed)
    BY DEF Closed, Conversing, TellsTrue, Decisions
  <1>2. Edge' /\ faults' \in 0 .. MaxFaults
    BY EdgeStays DEF Reconnect, Inv, Typed, TablesTyped
  <1>. QED  BY <1>1, <1>2, SocketStep DEF Reconnect

-----------------------------------------------------------------------------
LEMMA RestartStep ==
  ASSUME Inv, Restart
  PROVE  Inv'
  <1>1. /\ job' = Idle /\ sent' = << >>
        /\ lost' = lost \cup ({job.action} \ {Nothing})
        /\ watch' = [w \in Watchers |-> Off] /\ socket' = [k \in Sockets |-> Closed]
        /\ UNCHANGED <<now, pending, saved, posted, heard, faults>>
    BY DEF Restart
  <1>2. /\ sent' \in Seq(Actions) /\ Len(sent') = 0 /\ << >> \in Seq(Actions)
        /\ Len(saved) \in Nat
    BY <1>1, EmptySeq, SavedTypes DEF Inv
  <1>3. DOMAIN sent' = 1 .. 0
    BY <1>2, LenProperties
  <1>4. TablesTyped'
    BY <1>1, <1>2 DEF Restart, Inv, Typed, TablesTyped, JobOK
  <1>5. JobOK' /\ SocketOK'
    BY <1>1 DEF JobOK, SocketOK, Idle, Closed, LastAttempt
  <1>6. WatchOK'
    BY <1>1, <1>2 DEF WatchOK, Off
  <1>7. Told'
    BY <1>1, <1>3 DEF Inv, Told, AnnouncedIsSaved, Blocked, Verdicts, Idle, Closed, Decisions
  <1>8. Retried'
    BY <1>1 DEF Inv, Typed, TablesTyped, JobOK, Retried, PostedUntilHeard, Idle
  <1>9. NothingIsMissedUntold'
    BY <1>1 DEF NothingIsMissedUntold, Off
  <1>10. Edge'
    BY EdgeStarts DEF Restart, Inv, Edge, EdgeTyped
  <1>. QED  BY <1>4, <1>5, <1>6, <1>7, <1>8, <1>9, <1>10 DEF Inv, Typed

LEMMA QuietStep ==
  ASSUME Inv, TimePasses \/ UNCHANGED vars
  PROVE  Inv'
  <1>1. Edge'
    BY EdgeTicks, EdgeStays DEF TimePasses, vars, Inv
  <1>2. UNCHANGED <<processor, watch, socket, faults, restarts>>
    BY DEF TimePasses, vars
  <1>3. Typed'
    BY <1>2 DEF Inv, Typed, TablesTyped, JobOK, WatchOK, SocketOK, processor
  <1>4. Told' /\ Retried' /\ NothingIsMissedUntold'
    BY <1>2 DEF Inv, Told, Retried, AnnouncedIsSaved, PostedUntilHeard, NothingIsMissedUntold,
                Blocked, Verdicts, processor
  <1>. QED  BY <1>1, <1>3, <1>4 DEF Inv

LEMMA NextInv == Inv /\ [Next]_vars => Inv'
  BY SaveStep, LookUpUrlStep, PostStep, AnswerStep, CastStep,
     SubscribeStep, CatchUpStep, ShowStep, OpenStep, CheckStep, PollStep, ReconnectStep,
     RestartStep, QuietStep DEF Next, Process, Converse

LEMMA AlwaysInv == Spec => []Inv
  BY InitInv, NextInv, PTL DEF Spec

-----------------------------------------------------------------------------
\* The limiter, the tables and the sockets keep their types (Delivery.tla: the
\* states save_verdict, send_verdict and the two kinds of sockets can be in).
THEOREM TypeCorrect == Spec => []TypeOK
  <1>1. Inv => TypeOK
    BY TypedIsTypeOK DEF Inv
  <1>. QED  BY <1>1, AlwaysInv, PTL

\* A receiver, an administrator or an agent hears only of what is in the table
\* (save_verdict posts and broadcasts after its commit).
THEOREM AnnouncementsSaved == Spec => []AnnouncedIsSaved
  <1>1. Inv => AnnouncedIsSaved
    BY DEF Inv, Told
  <1>. QED  BY <1>1, AlwaysInv, PTL

\* A watcher without a gap has seen every verdict, or has it before itself
\* (handle_admin_socket tells of what the channel skipped).
THEOREM NothingMissed == Spec => []NothingIsMissedUntold
  <1>1. Inv => NothingIsMissedUntold
    BY DEF Inv
  <1>. QED  BY <1>1, AlwaysInv, PTL

\* A verdict that is posted is posted until success, or three times
\* (send_verdict of services/webhook.rs).
THEOREM PostedToTheEnd == Spec => []PostedUntilHeard
  <1>1. Inv => PostedUntilHeard
    BY DEF Inv, Retried
  <1>. QED  BY <1>1, AlwaysInv, PTL

\* At most twice the limit passes within Window (RateLimiter::is_allowed of
\* services/metrics.rs).
THEOREM BurstsBounded == Spec => []BurstBounded
  <1>1. Inv => BurstBounded
    BY DEF Inv, Edge
  <1>. QED  BY <1>1, AlwaysInv, PTL

\* Only the limiter makes a socket limited.
LEMMA LimitedByLimiter ==
  ASSUME Inv, [Next]_vars, NEW k \in Sockets, socket'[k].at = "limited", socket[k].at # "limited"
  PROVE  Refuse(SourceOf[k])
  <1>1. socket'[k] # socket[k]
    OBVIOUS
  <1>2. PICK j \in Sockets : Open(j) \/ Converse(j) \/ Reconnect(j) \/ Restart
    BY <1>1 DEF Next, Process, Save, LookUpUrl, Post, Answer, Cast, elsewhere, Subscribe, CatchUp, Show, Hang,
                TimePasses, vars
  <1>3. ~Restart
    BY DEF Restart, Closed
  <1>4. \A told : Finish(j, told) => socket'[k] = socket[k] \/ socket'[k].at = "ended"
    BY DEF Finish, Inv, Typed, SocketOK
  <1>5. ~Converse(j)
    BY <1>1, <1>4 DEF Converse, CheckOwner, Poll, Inv, Typed, SocketOK
  <1>6. ~Reconnect(j)
    BY DEF Reconnect, Closed, Inv, Typed, SocketOK
  <1>7. Open(j) /\ j = k
    BY <1>1, <1>2, <1>3, <1>5, <1>6 DEF Open, Inv, Typed, SocketOK
  <1>. QED  BY <1>7 DEF Open, Closed, Inv, Typed, SocketOK

\* A connection is refused only while the limit is used up within Window
\* (RateLimiter::is_allowed).
THEOREM RefusalsEarned == Spec => RefusalsAreEarned
  <1>. DEFINE Earned ==
         \A k \in Sockets :
            socket'[k].at = "limited" /\ socket[k].at # "limited" =>
                LET s == SourceOf[k] IN
                /\ Len(passed[s]) >= MaxRequests
                /\ now - passed[s][Len(passed[s]) - MaxRequests + 1] <= Window
  <1>1. Inv /\ [Next]_vars => [Earned]_vars
    <2>. SUFFICES ASSUME Inv, [Next]_vars, NEW k \in Sockets, socket'[k].at = "limited", socket[k].at # "limited"
                  PROVE  /\ Len(passed[SourceOf[k]]) >= MaxRequests
                         /\ now - passed[SourceOf[k]][Len(passed[SourceOf[k]]) - MaxRequests + 1] <= Window
      OBVIOUS
    <2>1. Refuse(SourceOf[k]) /\ SourceOf[k] \in Sources
      BY LimitedByLimiter
    <2>. QED  BY <2>1, RefusalEarned DEF Inv
  <1>2. RefusalsAreEarned <=> [][Earned]_vars
    BY DEF RefusalsAreEarned
  <1>. HIDE DEF Earned
  <1>. QED  BY <1>1, <1>2, AlwaysInv, PTL DEF Spec
=============================================================================
