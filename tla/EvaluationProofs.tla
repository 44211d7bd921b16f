--------------------------- MODULE EvaluationProofs ---------------------------
(***************************************************************************)
(* Evaluation keeps its types, approvals are earned, and concurrency, rate *)
(* and budget limits hold: whatever the number of replicas, agents,        *)
(* actions, policies and providers.                                        *)
(***************************************************************************)
EXTENDS Evaluation, PoliciesProofs

-----------------------------------------------------------------------------
(* Sums over finite sets.  SumFunctionOnSet takes the elements in an order *)
(* of its own; none other makes a different sum.                           *)

\* What holds of a finite set if it holds of its proper parts, holds of it.
LEMMA PartsInduction ==
  ASSUME NEW S, IsFiniteSet(S), NEW P,
         \A T \in SUBSET S : (\A U \in SUBSET T : U # T => U \in P) => T \in P
  PROVE  \A T \in SUBSET S : T \in P
  <1>. DEFINE N == {n \in Nat : \A T \in SUBSET S : Cardinality(T) < n => T \in P}
  <1>1. \A T \in SUBSET S : Cardinality(T) \in Nat
    BY FS_Subset, FS_CardinalityType
  <1>2. 0 \in N
    BY <1>1
  <1>3. ASSUME NEW n \in Nat, n \in N PROVE n + 1 \in N
    <2>. SUFFICES ASSUME NEW T \in SUBSET S, Cardinality(T) < n + 1 PROVE T \in P
      BY <1>3
    <2>. SUFFICES ASSUME NEW U \in SUBSET T, U # T PROVE U \in P
      OBVIOUS
    <2>1. IsFiniteSet(T)
      BY FS_Subset
    <2>2. Cardinality(U) < Cardinality(T)
      BY <2>1, FS_Subset, FS_CardinalityType
    <2>3. Cardinality(U) < n
      BY <1>1, <2>2
    <2>. QED  BY <1>3, <2>3
  <1>4. Nat \subseteq N
    <2>. HIDE DEF N
    <2>. QED  BY <1>2, <1>3, SetInduction
  <1>. SUFFICES ASSUME NEW T \in SUBSET S PROVE T \in P
    OBVIOUS
  <1>5. Cardinality(T) \in Nat /\ Cardinality(T) + 1 \in Nat /\ Cardinality(T) < Cardinality(T) + 1
    BY <1>1
  <1>6. Cardinality(T) + 1 \in N
    BY <1>4, <1>5
  <1>. QED  BY <1>5, <1>6

some(s) == CHOOSE x \in s : TRUE

Sum(f, s, g) == IF s = {} THEN 0 ELSE f[some(s)] + g[s \ {some(s)}]

Sums(f, S, g) == g = [s \in SUBSET S |-> Sum(f, s, g)]

Solution(f, S) == CHOOSE g : Sums(f, S, g)

LEMMA SumIsSolution ==
  ASSUME NEW f, NEW S
  PROVE  SumFunctionOnSet(f, S) = Solution(f, S)[S]
  BY DEF SumFunctionOnSet, FoldFunctionOnSet, MapThenFoldSet, Solution, Sums, Sum, some

LEMMA SomeIs ==
  ASSUME NEW S, S # {}
  PROVE  some(S) \in S /\ S \ {some(S)} \in SUBSET S /\ S \ {some(S)} # S
  BY DEF some

LEMMA SumsExist ==
  ASSUME NEW f, NEW S, IsFiniteSet(S)
  PROVE  \E g : Sums(f, S, g)
  <1>. DEFINE Good(g, n) == \A s \in SUBSET S : Cardinality(s) < n => g[s] = Sum(f, s, g)
              N == {n \in Nat : \E g : Good(g, n)}
  <1>1. \A s \in SUBSET S : Cardinality(s) \in Nat
    BY FS_Subset, FS_CardinalityType
  <1>2. 0 \in N
    <2>1. Good(f, 0)
      BY <1>1
    <2>. QED  BY <2>1
  <1>3. ASSUME NEW n \in Nat, n \in N PROVE n + 1 \in N
    <2>1. PICK g : Good(g, n)
      BY <1>3
    <2>. DEFINE h == [s \in SUBSET S |-> Sum(f, s, g)]
    <2>2. \A s \in SUBSET S : Cardinality(s) < n => h[s] = g[s]
      BY <2>1
    <2>3. ASSUME NEW s \in SUBSET S, Cardinality(s) < n + 1 PROVE Sum(f, s, g) = Sum(f, s, h)
      <3>. DEFINE u == s \ {some(s)}
      <3>1. CASE s = {}
        BY <3>1 DEF Sum
      <3>2. CASE s # {}
        <4>1. u \in SUBSET S /\ u \in SUBSET s /\ u # s
          BY <3>2, SomeIs
        <4>2. IsFiniteSet(s)
          BY FS_Subset
        <4>3. Cardinality(u) < Cardinality(s)
          <5>. HIDE DEF u
          <5>. QED  BY <4>1, <4>2, FS_Subset, FS_CardinalityType
        <4>4. Cardinality(u) < n
          <5>. HIDE DEF u
          <5>. QED  BY <1>1, <2>3, <4>1, <4>3
        <4>5. h[u] = g[u]
          <5>. HIDE DEF u, h
          <5>. QED  BY <2>2, <4>1, <4>4
        <4>. HIDE DEF h
        <4>. QED  BY <3>2, <4>5 DEF Sum
      <3>. QED  BY <3>1, <3>2
    <2>4. Good(h, n + 1)
      BY <2>3
    <2>. HIDE DEF Good, h
    <2>. QED  BY <2>4
  <1>4. Nat \subseteq N
    <2>. HIDE DEF N
    <2>. QED  BY <1>2, <1>3, SetInduction
  <1>5. Cardinality(S) \in Nat /\ Cardinality(S) + 1 \in Nat
    BY <1>1
  <1>6. PICK g : Good(g, Cardinality(S) + 1)
    BY <1>4, <1>5
  <1>7. \A s \in SUBSET S : Cardinality(s) < Cardinality(S) + 1
    BY <1>1, FS_Subset
  <1>8. \A s \in SUBSET S : g[s] = Sum(f, s, g)
    BY <1>6, <1>7
  <1>. DEFINE h == [s \in SUBSET S |-> Sum(f, s, g)]
  <1>9. ASSUME NEW s \in SUBSET S PROVE Sum(f, s, g) = Sum(f, s, h)
    <2>1. CASE s # {}
      <3>1. s \ {some(s)} \in SUBSET S
        OBVIOUS
      <3>2. h[s \ {some(s)}] = g[s \ {some(s)}]
        BY <1>8, <3>1
      <3>. HIDE DEF h
      <3>. QED  BY <2>1, <3>2 DEF Sum
    <2>. QED  BY <2>1 DEF Sum
  <1>10. h = [s \in SUBSET S |-> Sum(f, s, h)]
    BY <1>9
  <1>. QED  BY <1>10 DEF Sums

LEMMA SumsAgree ==
  ASSUME NEW S, IsFiniteSet(S), NEW T \in SUBSET S, NEW f, NEW e, \A x \in T : f[x] = e[x],
         NEW g, Sums(f, S, g), NEW h, Sums(e, T, h)
  PROVE  \A s \in SUBSET T : g[s] = h[s]
  <1>. DEFINE P == {s \in SUBSET T : g[s] = h[s]}
  <1>1. IsFiniteSet(T)
    BY FS_Subset
  <1>2. ASSUME NEW s \in SUBSET T, \A u \in SUBSET s : u # s => u \in P
        PROVE  s \in P
    <2>1. g[s] = Sum(f, s, g) /\ h[s] = Sum(e, s, h)
      BY DEF Sums
    <2>2. CASE s = {}
      BY <2>1, <2>2 DEF Sum
    <2>3. CASE s # {}
      <3>1. some(s) \in T /\ s \ {some(s)} \in P
        BY <1>2, <2>3, SomeIs
      <3>. QED  BY <2>1, <2>3, <3>1 DEF Sum
    <2>. QED  BY <2>2, <2>3
  <1>3. \A s \in SUBSET T : s \in P
    <2>. HIDE DEF P
    <2>. QED  BY <1>1, <1>2, PartsInduction
  <1>. QED  BY <1>3

LEMMA SolutionSums ==
  ASSUME NEW f, NEW S, IsFiniteSet(S)
  PROVE  Sums(f, S, Solution(f, S))
  BY SumsExist DEF Solution

LEMMA SumAgrees ==
  ASSUME NEW S, IsFiniteSet(S), NEW f, NEW e, \A x \in S : f[x] = e[x]
  PROVE  SumFunctionOnSet(f, S) = SumFunctionOnSet(e, S)
  <1>1. Sums(f, S, Solution(f, S)) /\ Sums(e, S, Solution(e, S))
    BY SolutionSums
  <1>2. \A s \in SUBSET S : Solution(f, S)[s] = Solution(e, S)[s]
    BY <1>1, SumsAgree
  <1>. QED  BY <1>2, SumIsSolution

LEMMA SumSplits ==
  ASSUME NEW f, NEW S, IsFiniteSet(S)
  PROVE  /\ S = {} => SumFunctionOnSet(f, S) = 0
         /\ S # {} => SumFunctionOnSet(f, S) = f[some(S)] + SumFunctionOnSet(f, S \ {some(S)})
  <1>. DEFINE g == Solution(f, S)
  <1>1. Sums(f, S, g)
    BY SolutionSums
  <1>2. SumFunctionOnSet(f, S) = g[S]
    BY SumIsSolution
  <1>. HIDE DEF g
  <1>3. g[S] = Sum(f, S, g)
    BY <1>1 DEF Sums
  <1>4. CASE S = {}
    BY <1>2, <1>3, <1>4 DEF Sum
  <1>5. CASE S # {}
    <2>. DEFINE U == S \ {some(S)}
                h == Solution(f, U)
    <2>1. IsFiniteSet(U) /\ U \in SUBSET S
      BY FS_Subset
    <2>2. Sums(f, U, h)
      BY <2>1, SolutionSums
    <2>3. SumFunctionOnSet(f, U) = h[U]
      BY SumIsSolution
    <2>4. g[U] = h[U]
      <3>. HIDE DEF U, h
      <3>. QED  BY <1>1, <2>1, <2>2, SumsAgree
    <2>. QED  BY <1>2, <1>3, <1>5, <2>3, <2>4 DEF Sum
  <1>. QED  BY <1>4, <1>5

LEMMA SumType ==
  ASSUME NEW S, IsFiniteSet(S), NEW f, \A x \in S : f[x] \in Int
  PROVE  \A T \in SUBSET S : SumFunctionOnSet(f, T) \in Int
  <1>. DEFINE P == {T \in SUBSET S : SumFunctionOnSet(f, T) \in Int}
  <1>1. ASSUME NEW T \in SUBSET S, \A u \in SUBSET T : u # T => u \in P
        PROVE  T \in P
    <2>0. IsFiniteSet(T)
      BY FS_Subset
    <2>1. CASE T = {}
      <3>1. SumFunctionOnSet(f, T) = 0
        BY <2>0, <2>1, SumSplits
      <3>. QED  BY <3>1
    <2>2. CASE T # {}
      <3>1. some(T) \in S /\ T \ {some(T)} \in P
        BY <1>1, <2>2, SomeIs
      <3>. QED  BY <2>0, <2>2, <3>1, SumSplits
    <2>. QED  BY <2>1, <2>2
  <1>2. \A T \in SUBSET S : T \in P
    <2>. HIDE DEF P
    <2>. QED  BY <1>1, PartsInduction
  <1>. QED  BY <1>2

\* The order in which the elements are summed does not matter.
LEMMA SumWithout ==
  ASSUME NEW S, IsFiniteSet(S), NEW f, \A x \in S : f[x] \in Int
  PROVE  \A T \in SUBSET S : \A x \in T :
            SumFunctionOnSet(f, T) = f[x] + SumFunctionOnSet(f, T \ {x})
  <1>. DEFINE P == {T \in SUBSET S : \A x \in T :
                      SumFunctionOnSet(f, T) = f[x] + SumFunctionOnSet(f, T \ {x})}
  <1>1. ASSUME NEW T \in SUBSET S, \A u \in SUBSET T : u # T => u \in P
        PROVE  T \in P
    <2>0. \A U \in SUBSET S : IsFiniteSet(U) /\ SumFunctionOnSet(f, U) \in Int
      BY FS_Subset, SumType
    <2>. SUFFICES ASSUME NEW x \in T, x # some(T)
                  PROVE  SumFunctionOnSet(f, T) = f[x] + SumFunctionOnSet(f, T \ {x})
      BY <2>0, SumSplits
    <2>. DEFINE y == some(T)
                U == T \ {x, y}
    <2>1. y \in T /\ f[x] \in Int /\ f[y] \in Int
      BY SomeIs
    <2>2. U = (T \ {x}) \ {y} /\ U = (T \ {y}) \ {x} /\ U \in SUBSET S
      OBVIOUS
    <2>3. T \ {y} \in P /\ T \ {x} \in P /\ x \in T \ {y} /\ y \in T \ {x}
      BY <1>1, <2>1
    <2>. HIDE DEF U
    <2>4. SumFunctionOnSet(f, T \ {y}) = f[x] + SumFunctionOnSet(f, U)
      BY <2>2, <2>3
    <2>5. SumFunctionOnSet(f, T \ {x}) = f[y] + SumFunctionOnSet(f, U)
      BY <2>2, <2>3
    <2>6. SumFunctionOnSet(f, T) = f[y] + SumFunctionOnSet(f, T \ {y})
      BY <2>0, SumSplits
    <2>7. SumFunctionOnSet(f, U) \in Int
      BY <2>0, <2>2
    <2>. HIDE DEF y
    <2>. QED  BY <2>1, <2>4, <2>5, <2>6, <2>7
  <1>2. \A T \in SUBSET S : T \in P
    <2>. HIDE DEF P
    <2>. QED  BY <1>1, PartsInduction
  <1>. QED  BY <1>2

\* A part of what is not negative is no more than the whole.
LEMMA SumMonotone ==
  ASSUME NEW S, IsFiniteSet(S), NEW f, \A x \in S : f[x] \in Nat, NEW T \in SUBSET S
  PROVE  /\ SumFunctionOnSet(f, T) \in Int /\ SumFunctionOnSet(f, S) \in Int
         /\ SumFunctionOnSet(f, T) <= SumFunctionOnSet(f, S)
  <1>. DEFINE P == {U \in SUBSET S : T \subseteq U =>
                      SumFunctionOnSet(f, T) <= SumFunctionOnSet(f, U)}
  <1>0. \A U \in SUBSET S : SumFunctionOnSet(f, U) \in Int
    BY SumType
  <1>1. ASSUME NEW U \in SUBSET S, \A u \in SUBSET U : u # U => u \in P
        PROVE  U \in P
    <2>. SUFFICES ASSUME T \subseteq U, T # U
                  PROVE  SumFunctionOnSet(f, T) <= SumFunctionOnSet(f, U)
      BY <1>0
    <2>1. PICK x \in U : x \notin T
      OBVIOUS
    <2>2. U \ {x} \in P /\ T \subseteq U \ {x}
      BY <1>1, <2>1
    <2>3. SumFunctionOnSet(f, T) <= SumFunctionOnSet(f, U \ {x})
      BY <2>2
    <2>4. SumFunctionOnSet(f, U) = f[x] + SumFunctionOnSet(f, U \ {x})
      BY SumWithout
    <2>5. f[x] \in Nat /\ SumFunctionOnSet(f, U \ {x}) \in Int /\ SumFunctionOnSet(f, T) \in Int
      BY <1>0
    <2>. QED  BY <2>3, <2>4, <2>5
  <1>2. \A U \in SUBSET S : U \in P
    <2>. HIDE DEF P
    <2>. QED  BY <1>1, PartsInduction
  <1>. QED  BY <1>0, <1>2

-----------------------------------------------------------------------------
USE EvaluationAssumption, PoliciesAssumption

-----------------------------------------------------------------------------
(* Types: the table first, then the actions and the workers.               *)

Statuses == {"absent", "pending", "processing", "approved", "denied", "escalated"}
Places == {"idle", "claim", "list", "count", "ask", "save"}

RowsOK ==
    /\ now \in 0..MaxTime
    /\ status \in [Actions -> Statuses]
    /\ created \in [Actions -> 0..MaxTime]
    /\ input \in [Actions -> Inputs \cup {Null}]
    /\ verdicts \in [Actions -> SUBSET Decisions]
    /\ claims \in [Actions -> Nat]

WorkOK ==
    /\ pc \in [Workers -> Places]
    /\ cur \in [Workers -> Actions \cup {None}]
    /\ todo \in [Workers -> SUBSET (Ids \X Nat \X Rules)]
    /\ hop \in [Workers -> 0..Len(Attempts) + 1]
    /\ tries \in [Workers -> Nat]
    /\ decision \in [Workers -> Decisions \cup {Null}]

Consistent(w) ==
    /\ pc[w] = "idle" <=> cur[w] = None
    /\ pc[w] = "save" <=> decision[w] # Null
    /\ pc[w] # "count" => todo[w] = {}

LEMMA TypeParts == TypeOK <=> PoliciesTypeOK /\ RowsOK /\ WorkOK /\ \A w \in Workers : Consistent(w)
  BY DEF TypeOK, RowsOK, WorkOK, Consistent, Statuses, Places

\* Nothing but an edit and a fault touches the table.
LEMMA TableKept ==
  ASSUME PoliciesTypeOK, UNCHANGED table, faults' = faults \/ Fault
  PROVE  PoliciesTypeOK'
  BY DEF PoliciesTypeOK, table, Fault, At

LEMMA CallerRulesType ==
  ASSUME PoliciesTypeOK
  PROVE  CallerRules \subseteq Ids \X Nat \X Rules
  <1>. SUFFICES ASSUME NEW i \in DOMAIN policies, NEW n \in DOMAIN RulesOf(policies[i])
                PROVE  <<i, n, RulesOf(policies[i])[n]>> \in Ids \X Nat \X Rules
    BY DEF CallerRules, InForce, Restrict
  <1>1. RulesOf(policies[i]) \in Seq(Rules)
    BY RulesOfPolicy
  <1>2. n \in Nat /\ RulesOf(policies[i])[n] \in Rules
    <2> DEFINE s == RulesOf(policies[i])
    <2>. s \in Seq(Rules) /\ n \in DOMAIN s
      BY <1>1
    <2> HIDE DEF s
    <2>1. DOMAIN s = 1..Len(s) /\ Len(s) \in Nat /\ n \in 1..Len(s)
      BY LenProperties
    <2>2. s[n] \in Rules
      BY <2>1, ElementOfSeq
    <2>. QED  BY <2>1, <2>2 DEF s
  <1>3. i \in Ids
    BY DEF PoliciesTypeOK, Ids
  <1>. QED  BY <1>2, <1>3

LEMMA InitTypes == Init => TypeOK
  <1>. SUFFICES ASSUME Init PROVE TypeOK
    OBVIOUS
  <1>1. PoliciesTypeOK
    BY TableInit DEF Init
  <1>2. RowsOK
    BY DEF Init, RowsOK, Statuses
  <1>3. WorkOK
    BY DEF Init, WorkOK, Places
  <1>4. ASSUME NEW w \in Workers PROVE Consistent(w)
    BY DEF Init, Consistent, Decisions
  <1>. QED  BY <1>1, <1>2, <1>3, <1>4, TypeParts

Typed == PoliciesTypeOK /\ RowsOK /\ WorkOK /\ \A w \in Workers : Consistent(w)

LEMMA EditTypes == Typed /\ EditPolicies => Typed'
  <1>. SUFFICES ASSUME Typed, EditPolicies PROVE Typed'
    OBVIOUS
  <1>1. /\ policies' \in Seq(Rows) /\ Len(policies') <= MaxPolicies
        /\ \A i \in DOMAIN policies' : policies'[i].id = i
        /\ DOMAIN policies \subseteq DOMAIN policies'
    <2>0. policies \in Seq(Rows)
      BY DEF Typed, PoliciesTypeOK
    <2>1. CASE \E i \in DOMAIN policies, columns \in Columns \ {NoColumns} :
                  policies' = [policies EXCEPT ![i] = Updated(@, columns)]
      <3>. PICK i \in DOMAIN policies, columns \in Columns \ {NoColumns} :
              policies' = [policies EXCEPT ![i] = Updated(@, columns)]
        BY <2>1
      <3>1. policies[i] \in Rows
        BY <2>0
      <3>2. Updated(policies[i], columns) \in Rows
        BY <3>1 DEF Updated, Rows, Columns
      <3>3. policies' \in Seq(Rows) /\ Len(policies') = Len(policies)
        BY <2>0, <3>2, ExceptSeq
      <3>4. Updated(policies[i], columns).id = policies[i].id
        BY <3>1 DEF Updated, Rows
      <3>. QED  BY <2>0, <3>3, <3>4 DEF Typed, PoliciesTypeOK
    <2>2. CASE \E rules \in RuleSets :
                  /\ Len(policies) < MaxPolicies
                  /\ policies' = Append(policies, NewRow(Len(policies) + 1, rules))
      <3>. PICK rules \in RuleSets :
              /\ Len(policies) < MaxPolicies
              /\ policies' = Append(policies, NewRow(Len(policies) + 1, rules))
        BY <2>2
      <3>. DEFINE row == NewRow(Len(policies) + 1, rules)
      <3>0. MaxPolicies \in Nat /\ Len(policies) \in Nat
        BY <2>0
      <3>1. row \in Rows /\ row.id = Len(policies) + 1
        BY <3>0 DEF NewRow, Rows, Ids
      <3>2. /\ policies' \in Seq(Rows) /\ Len(policies') = Len(policies) + 1
            /\ \A i \in 1..Len(policies) : policies'[i] = policies[i]
            /\ policies'[Len(policies) + 1] = row
        BY <2>0, <3>1, AppendProperties
      <3>. HIDE DEF row
      <3>3. Len(policies') \in 0..MaxPolicies
        BY <2>2, <3>0, <3>2
      <3>4. \A i \in DOMAIN policies' : policies'[i].id = i
        <4>1. DOMAIN policies' = 1..Len(policies') /\ DOMAIN policies = 1..Len(policies)
          BY <2>0, <3>2, LenProperties
        <4>2. \A i \in DOMAIN policies : policies[i].id = i
          BY DEF Typed, PoliciesTypeOK
        <4>3. \A i \in DOMAIN policies' : i \in DOMAIN policies \/ i = Len(policies) + 1
          BY <3>0, <3>2, <4>1
        <4>. QED  BY <3>1, <3>2, <4>1, <4>2, <4>3
      <3>5. DOMAIN policies \subseteq DOMAIN policies'
        BY <2>0, <3>0, <3>2, LenProperties
      <3>. QED  BY <3>0, <3>2, <3>3, <3>4, <3>5
    <2>3. CASE \E i \in DOMAIN policies : policies' = [policies EXCEPT ![i] = Turned(@)]
      <3>. PICK i \in DOMAIN policies : policies' = [policies EXCEPT ![i] = Turned(@)]
        BY <2>3
      <3>. QED  BY TableTurned DEF Typed
    <2>4. \/ \E i \in DOMAIN policies, columns \in Columns \ {NoColumns} :
                policies' = [policies EXCEPT ![i] = Updated(@, columns)]
          \/ \E i \in DOMAIN policies : policies' = [policies EXCEPT ![i] = Turned(@)]
          \/ \E rules \in RuleSets :
                /\ Len(policies) < MaxPolicies
                /\ policies' = Append(policies, NewRow(Len(policies) + 1, rules))
      BY Zenon DEF EditPolicies
    <2>. QED  BY <2>1, <2>2, <2>3, <2>4, Zenon
  <1>2. edits' \in 0..MaxEdits
    <2>1. MaxEdits \in Nat
      OBVIOUS
    <2>2. edits \in 0..MaxEdits
      BY DEF Typed, PoliciesTypeOK
    <2>3. edits < MaxEdits /\ edits' = edits + 1
      BY DEF EditPolicies
    <2>. QED  BY <2>1, <2>2, <2>3
  <1>3. PoliciesTypeOK'
    BY <1>1, <1>2 DEF EditPolicies, Typed, PoliciesTypeOK, At
  <1>4. RowsOK' /\ WorkOK' /\ \A w \in Workers : Consistent(w)'
    BY DEF EditPolicies, Typed, RowsOK, WorkOK, Consistent, rows, work
  <1>. QED  BY <1>3, <1>4 DEF Typed

LEMMA OutsideTypes ==
  ASSUME Typed, Tick \/ \E a \in Actions : Submit(a)
  PROVE  Typed'
  <1>1. PoliciesTypeOK'
    BY TableKept DEF Typed, Tick, Submit
  <1>2. RowsOK'
    <2>1. CASE Tick
      <3>1. now' \in 0..MaxTime
        BY <2>1 DEF Tick, Typed, RowsOK
      <3>. QED  BY <2>1, <3>1 DEF Tick, Typed, RowsOK, rows
    <2>2. ASSUME NEW a \in Actions, Submit(a) PROVE RowsOK'
      BY <2>2 DEF Typed, Submit, RowsOK, Statuses
    <2>. QED  BY <2>1, <2>2
  <1>3. WorkOK' /\ \A w \in Workers : Consistent(w)'
    BY DEF Typed, Tick, Submit, WorkOK, Consistent, work
  <1>. QED  BY <1>1, <1>2, <1>3 DEF Typed

LEMMA DecideTypes ==
  ASSUME WorkOK, \A v \in Workers : Consistent(v), NEW w \in Workers, NEW d \in Decisions,
         NEW from \in {"list", "count", "ask"}, Decide(w, from, d), UNCHANGED cur
  PROVE  WorkOK' /\ \A v \in Workers : Consistent(v)'
  <1>1. Len(Attempts) \in Nat
    OBVIOUS
  <1>2. WorkOK'
    BY <1>1 DEF Decide, Step, WorkOK, Places
  <1>3. ASSUME NEW v \in Workers PROVE Consistent(v)'
    BY DEF Decide, Step, WorkOK, Consistent
  <1>. QED  BY <1>2, <1>3

LEMMA RestTypes ==
  ASSUME WorkOK, \A v \in Workers : Consistent(v), NEW w \in Workers, Rest(w),
         pc[w] = "count" => todo[w] = {}
  PROVE  WorkOK' /\ \A v \in Workers : Consistent(v)'
  <1>1. WorkOK'
    BY DEF Rest, Step, WorkOK, Places
  <1>2. ASSUME NEW v \in Workers PROVE Consistent(v)'
    BY DEF Rest, Step, WorkOK, Consistent
  <1>. QED  BY <1>1, <1>2

LEMMA WorkerTypes ==
  ASSUME Typed, NEW w \in Workers, Evaluate(w)
  PROVE  Typed'
  <1>. USE DEF Typed, rows
  <1>1. PoliciesTypeOK'
    <2>1. UNCHANGED table /\ (faults' = faults \/ Fault)
      BY DEF Evaluate, ReadAction, Claim, ListPolicies, CheckRule, Scan, Answer,
             CallFails, FailClosed, SaveVerdict, Fail, table
    <2>. QED  BY <2>1, TableKept
  <1>2. pc[w] # "idle" => cur[w] \in Actions
    BY DEF WorkOK, Consistent
  <1>3. CASE ReadAction(w)
    <2>1. RowsOK'
      BY <1>3 DEF ReadAction, RowsOK
    <2>. PICK a \in Actions : cur' = [cur EXCEPT ![w] = a]
      BY <1>3 DEF ReadAction
    <2>2. /\ pc[w] = "idle" /\ pc' = [pc EXCEPT ![w] = "claim"]
          /\ UNCHANGED <<todo, hop, tries, decision>>
      BY <1>3 DEF ReadAction, Step
    <2>3. WorkOK'
      BY <2>2 DEF WorkOK, Places
    <2>4. \A v \in Workers : Consistent(v)'
      BY <2>2 DEF WorkOK, Consistent, Places
    <2>. QED  BY <1>1, <2>1, <2>3, <2>4
  <1>4. CASE Claim(w)
    <2>1. RowsOK'
      BY <1>2, <1>4 DEF Claim, Step, RowsOK, Statuses
    <2>2. WorkOK' /\ \A v \in Workers : Consistent(v)'
      BY <1>4 DEF Claim, Step, WorkOK, Consistent, Places
    <2>. QED  BY <1>1, <2>1, <2>2
  <1>5. CASE ListPolicies(w)
    <2>0. RowsOK' /\ UNCHANGED cur
      BY <1>5 DEF ListPolicies, RowsOK
    <2>1. CASE Decide(w, "list", "denied")
      BY <1>1, <2>0, <2>1, DecideTypes DEF Decisions
    <2>2. CASE /\ Step(w, "list", "count")
               /\ todo' = [todo EXCEPT ![w] = CallerRules]
               /\ UNCHANGED <<hop, tries, decision>>
      <3>1. WorkOK'
        BY <2>0, <2>2, CallerRulesType DEF Step, WorkOK, Places
      <3>2. ASSUME NEW v \in Workers PROVE Consistent(v)'
        BY <2>0, <2>2 DEF Step, WorkOK, Consistent
      <3>. QED  BY <1>1, <2>0, <3>1, <3>2
    <2>. QED  BY <1>5, <2>1, <2>2 DEF ListPolicies
  <1>6. CASE CheckRule(w)
    <2>0. RowsOK' /\ UNCHANGED cur
      BY <1>6 DEF CheckRule, RowsOK
    <2>1. CASE Decide(w, "count", "denied")
      BY <1>1, <2>0, <2>1, DecideTypes DEF Decisions
    <2>2. CASE /\ pc[w] = "count"
               /\ todo' = [todo EXCEPT ![w] = @ \ {First(todo[w])}]
               /\ UNCHANGED <<pc, hop, tries, decision>>
      <3>1. WorkOK'
        BY <2>0, <2>2 DEF WorkOK
      <3>2. ASSUME NEW v \in Workers PROVE Consistent(v)'
        BY <2>0, <2>2 DEF WorkOK, Consistent
      <3>. QED  BY <1>1, <2>0, <3>1, <3>2
    <2>. QED  BY <1>6, <2>1, <2>2 DEF CheckRule
  <1>7. CASE Scan(w)
    <2>0. RowsOK' /\ UNCHANGED cur
      BY <1>7 DEF Scan, RowsOK
    <2>1. CASE Decide(w, "count", "denied")
      BY <1>1, <2>0, <2>1, DecideTypes DEF Decisions
    <2>2. CASE /\ Step(w, "count", "ask") /\ todo[w] = {}
               /\ hop' = [hop EXCEPT ![w] = 1]
               /\ tries' = [tries EXCEPT ![w] = 0]
               /\ UNCHANGED <<todo, decision>>
      <3>0. Len(Attempts) \in Nat
        OBVIOUS
      <3>1. WorkOK'
        BY <2>0, <2>2, <3>0 DEF Step, WorkOK, Places
      <3>2. ASSUME NEW v \in Workers PROVE Consistent(v)'
        BY <2>0, <2>2 DEF Step, WorkOK, Consistent
      <3>. QED  BY <1>1, <2>0, <3>1, <3>2
    <2>. QED  BY <1>7, <2>1, <2>2 DEF Scan
  <1>8. CASE Answer(w)
    <2>1. PICK d \in Decisions : Decide(w, "ask", d)
      BY <1>8 DEF Answer
    <2>2. RowsOK' /\ UNCHANGED cur
      BY <1>8 DEF Answer, RowsOK
    <2>. QED  BY <1>1, <2>1, <2>2, DecideTypes
  <1>9. CASE CallFails(w)
    <2>0. RowsOK' /\ UNCHANGED <<pc, cur, todo, decision>>
      BY <1>9 DEF CallFails, RowsOK
    <2>1. hop' \in [Workers -> 0..Len(Attempts) + 1] /\ tries' \in [Workers -> Nat]
      <3>0. Len(Attempts) \in Nat
        OBVIOUS
      <3>1. hop \in [Workers -> 0..Len(Attempts) + 1] /\ tries \in [Workers -> Nat]
        BY DEF WorkOK
      <3>2. CASE UNCHANGED hop /\ tries' = [tries EXCEPT ![w] = @ + 1]
        BY <3>1, <3>2
      <3>3. CASE hop[w] <= Len(Attempts) /\ NextProvider(w)
        <4>1. hop[w] + 1 \in 0..Len(Attempts) + 1
          BY <3>0, <3>1, <3>3
        <4>. QED  BY <3>1, <3>3, <4>1 DEF NextProvider
      <3>. QED  BY <1>9, <3>2, <3>3 DEF CallFails
    <2>2. WorkOK' /\ \A v \in Workers : Consistent(v)'
      BY <2>0, <2>1 DEF WorkOK, Consistent
    <2>. QED  BY <1>1, <2>0, <2>2
  <1>10. CASE FailClosed(w)
    <2>1. RowsOK' /\ UNCHANGED cur /\ Decide(w, "ask", "denied")
      BY <1>10 DEF FailClosed, RowsOK
    <2>. QED  BY <1>1, <2>1, DecideTypes DEF Decisions
  <1>11. CASE SaveVerdict(w)
    <2>1. cur[w] \in Actions /\ decision[w] \in Decisions
      BY <1>2, <1>11 DEF SaveVerdict, WorkOK, Consistent
    <2>2. StatusOf[decision[w]] \in Statuses
      BY <2>1 DEF StatusOf, Decisions, Statuses
    <2>3. RowsOK'
      BY <1>11, <2>1, <2>2 DEF SaveVerdict, RowsOK
    <2>4. Rest(w) /\ pc[w] = "save"
      BY <1>11 DEF SaveVerdict
    <2>5. WorkOK' /\ \A v \in Workers : Consistent(v)'
      BY <2>4, RestTypes
    <2>. QED  BY <1>1, <2>3, <2>5
  <1>12. CASE Fail(w)
    <2>1. RowsOK'
      BY <1>2, <1>12 DEF Fail, RowsOK, Statuses
    <2>2. Rest(w) /\ (pc[w] = "count" => todo[w] = {})
      BY <1>12 DEF Fail
    <2>3. WorkOK' /\ \A v \in Workers : Consistent(v)'
      BY <2>2, RestTypes
    <2>. QED  BY <1>1, <2>1, <2>3
  <1>. QED  BY <1>3, <1>4, <1>5, <1>6, <1>7, <1>8, <1>9, <1>10, <1>11, <1>12 DEF Evaluate

LEMMA StutterTypes == Typed /\ UNCHANGED vars => Typed'
  BY TableKept DEF Typed, RowsOK, WorkOK, Consistent, vars, rows, work

\* Every variable keeps its type, a worker has an action exactly while it is
\* at work on one, and a decision exactly when it is about to save it.
THEOREM TypeCorrect == Spec => []TypeOK
  <1>1. Init => TypeOK
    BY InitTypes
  <1>2. TypeOK /\ [Next]_vars => TypeOK'
    <2>1. TypeOK <=> Typed
      BY TypeParts DEF Typed
    <2>2. TypeOK' <=> Typed'
      BY <2>1, PTL
    <2>. QED  BY <2>1, <2>2, EditTypes, OutsideTypes, WorkerTypes, StutterTypes DEF Next
  <1>. QED  BY <1>1, <1>2, PTL DEF Spec

-----------------------------------------------------------------------------
(* The concurrency limit.  A worker is past a rule when it has checked it  *)
(* and not yet decided.  An action is processing from before its worker    *)
(* counts until it is decided: so whoever counts last counts all that are  *)
(* past the rule, and itself.                                              *)

PastRule(w, rule) ==
    \/ pc[w] = "ask"
    \/ pc[w] = "count" /\ \A t \in todo[w] : t[3] # rule

Past(rule, agent) ==
    {a \in Of(agent) : status[a] = "processing" /\ \E w \in Workers : cur[w] = a /\ PastRule(w, rule)}

Limits == OfType(StandingRules, "concurrency_limit")
RateLimits == OfType(StandingRules, "rate_limit")
Budgets == OfType(StandingRules, "budget_limit")

Below(actions, rule) ==
    actions = {} \/ Cardinality(actions) < Field(rule, "max_simultaneous", 1)

ClaimedFirst ==
    \A w \in Workers : pc[w] \in {"list", "count", "ask", "save"} => claims[cur[w]] >= 1

LimitKept ==
    Undisturbed /\ ~DryRun => \A rule \in Limits, agent \in Agents : Below(Past(rule, agent), rule)

LEMMA LimitsAreRules == PoliciesTypeOK => Limits \cup RateLimits \cup Budgets \subseteq Rules
  <1>. SUFFICES ASSUME PoliciesTypeOK, NEW i \in DOMAIN policies,
                       NEW n \in DOMAIN RulesOf(policies[i])
                PROVE  RulesOf(policies[i])[n] \in Rules
    BY DEF Limits, RateLimits, Budgets, OfType, StandingRules, Standing, InForce, Restrict
  <1>. QED  BY RulesOfPolicy

\* Part of a set below a limit is below it.
LEMMA BelowIsMonotone ==
  ASSUME NEW rule \in Rules, NEW S \in SUBSET Actions, NEW T \in SUBSET S, Below(S, rule)
  PROVE  Below(T, rule)
  <1>1. IsFiniteSet(S)
    BY FS_Subset
  <1>2. /\ Cardinality(T) <= Cardinality(S) /\ Cardinality(T) \in Nat /\ Cardinality(S) \in Nat
        /\ S = {} => T = {}
    BY <1>1, FS_Subset, FS_CardinalityType
  <1>3. Field(rule, "max_simultaneous", 1) \in Int
    OBVIOUS
  <1>. QED  BY <1>2, <1>3 DEF Below

LEMMA ClaimedFirstKept ==
  ASSUME Typed, ClaimedFirst, [Next]_vars
  PROVE  ClaimedFirst'
  <1>. USE DEF ClaimedFirst
  <1>1. CASE UNCHANGED work /\ UNCHANGED claims
    BY <1>1 DEF work
  <1>2. ASSUME NEW w \in Workers, Evaluate(w) PROVE ClaimedFirst'
    <2>0. /\ pc \in [Workers -> Places] /\ cur \in [Workers -> Actions \cup {None}]
          /\ claims \in [Actions -> Nat] /\ Consistent(w)
      BY DEF Typed, WorkOK, RowsOK
    <2>1. CASE ReadAction(w)
      BY <2>0, <2>1 DEF ReadAction, Step, rows
    <2>2. CASE Claim(w)
      <3>1. cur[w] \in Actions
        BY <2>0, <2>2 DEF Claim, Step, Consistent
      <3>. QED  BY <2>0, <2>2, <3>1 DEF Claim, Step
    <2>3. CASE ListPolicies(w) \/ CheckRule(w) \/ Scan(w) \/ Answer(w) \/ CallFails(w) \/ FailClosed(w)
      BY <2>0, <2>3 DEF ListPolicies, CheckRule, Scan, Answer, CallFails, FailClosed, Decide, Step, rows
    <2>4. CASE SaveVerdict(w) \/ Fail(w)
      BY <2>0, <2>4 DEF SaveVerdict, Fail, Rest, Step
    <2>. QED  BY <1>2, <2>1, <2>2, <2>3, <2>4 DEF Evaluate
  <1>. QED  BY <1>1, <1>2 DEF Next, vars, rows, Submit, Tick, EditPolicies

Untouched == {i \in DOMAIN policies : policies[i].active /\ policies[i].due /\ ~policies[i].touched}

\* The policies that stand after a step stood before it, as they are.
LEMMA StandingStood ==
  ASSUME Typed, [Next]_vars
  PROVE  \A i \in Standing' : i \in Standing /\ policies'[i] = policies[i]
  <1>0. /\ Standing = Untouched /\ Standing' = Untouched'
    BY DEF Standing, InForce, Restrict, Untouched
  <1>1. CASE UNCHANGED policies
    BY <1>0, <1>1 DEF Untouched
  <1>2. CASE EditPolicies
    <2>0. policies \in Seq(Rows)
      BY DEF Typed, PoliciesTypeOK
    <2>1. CASE \E i \in DOMAIN policies, columns \in Columns \ {NoColumns} :
                  policies' = [policies EXCEPT ![i] = Updated(@, columns)]
      <3>. PICK i \in DOMAIN policies, columns \in Columns \ {NoColumns} :
              policies' = [policies EXCEPT ![i] = Updated(@, columns)]
        BY <2>1
      <3>1. policies[i] \in Rows
        BY <2>0
      <3>2. Updated(policies[i], columns).touched
        BY <3>1 DEF Updated, Rows
      <3>. QED  BY <1>0, <2>0, <3>2 DEF Untouched
    <2>2. CASE \E rules \in RuleSets :
                  /\ Len(policies) < MaxPolicies
                  /\ policies' = Append(policies, NewRow(Len(policies) + 1, rules))
      <3>. PICK rules \in RuleSets :
              policies' = Append(policies, NewRow(Len(policies) + 1, rules))
        BY <2>2
      <3>1. NewRow(Len(policies) + 1, rules).touched
        BY DEF NewRow
      <3>. QED  BY <1>0, <2>0, <3>1 DEF Untouched
    <2>3. CASE \E i \in DOMAIN policies : policies' = [policies EXCEPT ![i] = Turned(@)]
      <3>. PICK i \in DOMAIN policies : policies' = [policies EXCEPT ![i] = Turned(@)]
        BY <2>3
      <3>1. policies[i] \in Rows
        BY <2>0
      <3>2. Turned(policies[i]).touched
        BY <3>1 DEF Turned, Rows
      <3>. QED  BY <1>0, <2>0, <3>2 DEF Untouched
    <2>. QED  BY <1>2, <2>1, <2>2, <2>3 DEF EditPolicies
  <1>3. UNCHANGED policies \/ EditPolicies
    <2>1. ASSUME NEW w \in Workers, Evaluate(w) PROVE UNCHANGED policies
      BY <2>1 DEF Evaluate, ReadAction, Claim, ListPolicies, CheckRule, Scan, Answer,
                  CallFails, FailClosed, SaveVerdict, Fail, table
    <2>. QED  BY <2>1 DEF Next, vars, table, Submit, Tick
  <1>. QED  BY <1>1, <1>2, <1>3

LEMMA StandingShrinks ==
  ASSUME Typed, [Next]_vars
  PROVE  /\ Limits' \subseteq Limits /\ RateLimits' \subseteq RateLimits
         /\ Budgets' \subseteq Budgets
  <1>1. StandingRules' \subseteq StandingRules
    BY StandingStood DEF StandingRules, RulesOf
  <1>. QED  BY <1>1 DEF Limits, RateLimits, Budgets, OfType

\* A standing limit is among the rules a worker has to check.
LEMMA StandingListed ==
  ASSUME NEW rule \in Limits \cup RateLimits \cup Budgets
  PROVE  \E t \in CallerRules : t[3] = rule
  <1>0. rule \in StandingRules
    BY DEF Limits, RateLimits, Budgets, OfType
  <1>1. PICK i \in Standing :
           \E n \in DOMAIN RulesOf(policies[i]) : rule = RulesOf(policies[i])[n]
    BY <1>0 DEF StandingRules
  <1>. PICK n \in DOMAIN RulesOf(policies[i]) : rule = RulesOf(policies[i])[n]
    BY <1>1
  <1>2. Field(rule, "type", Null) \in CallerRuleTypes
    BY DEF Limits, RateLimits, Budgets, OfType, CallerRuleTypes
  <1>3. <<i, n, rule>> \in CallerRules
    BY <1>2 DEF Standing, CallerRules, InForce, Restrict
  <1>. QED  BY <1>3

LEMMA UndisturbedBefore ==
  ASSUME Typed, [Next]_vars, Undisturbed'
  PROVE  Undisturbed /\ faults' = faults
  <1>1. faults' = faults \/ Fault
    BY DEF Next, vars, Submit, Tick, EditPolicies, Evaluate, ReadAction, Claim, ListPolicies,
           CheckRule, Scan, Answer, CallFails, FailClosed, SaveVerdict, Fail
  <1>2. faults = 0 /\ faults' = faults
    BY <1>1 DEF Typed, PoliciesTypeOK, Fault, Undisturbed
  <1>3. \A a \in Actions : claims'[a] >= claims[a]
    <2>1. ASSUME NEW w \in Workers, Evaluate(w)
          PROVE  claims' = claims \/ claims' = [claims EXCEPT ![cur[w]] = @ + 1]
      BY <2>1 DEF Evaluate, ReadAction, Claim, ListPolicies, CheckRule, Scan, Answer,
                  CallFails, FailClosed, SaveVerdict, Fail, rows
    <2>2. claims \in [Actions -> Nat]
      BY DEF Typed, RowsOK
    <2>3. claims' = claims \/ \E w \in Workers : Evaluate(w)
      BY DEF Next, vars, rows, Submit, Tick, EditPolicies
    <2>4. ASSUME NEW a \in Actions, NEW b, claims' = [claims EXCEPT ![b] = @ + 1]
          PROVE  claims'[a] >= claims[a]
      BY <2>2, <2>4
    <2>5. CASE claims' = claims
      BY <2>2, <2>5
    <2>. QED  BY <2>1, <2>3, <2>4, <2>5
  <1>4. claims \in [Actions -> Nat] /\ claims' \in [Actions -> Nat]
    BY EditTypes, OutsideTypes, WorkerTypes, StutterTypes DEF Next, Typed, RowsOK
  <1>. QED  BY <1>2, <1>3, <1>4 DEF Undisturbed

\* Nothing but the check of a rule brings an action past it.
LEMMA PastShrinks ==
  ASSUME Typed, ClaimedFirst, [Next]_vars, Undisturbed', NEW rule \in Limits, NEW agent,
         ~ \E w \in Workers : CheckRule(w)
  PROVE  Past(rule, agent)' \subseteq Past(rule, agent)
  <1>0. /\ pc \in [Workers -> Places] /\ cur \in [Workers -> Actions \cup {None}]
        /\ status \in [Actions -> Statuses] /\ claims \in [Actions -> Nat]
        /\ \A w \in Workers : Consistent(w)
    BY DEF Typed, WorkOK, RowsOK
  <1>. SUFFICES ASSUME NEW a \in Actions, NEW v \in Workers, AgentOf[a] = agent,
                       status'[a] = "processing", cur'[v] = a, PastRule(v, rule)'
                PROVE  status[a] = "processing" /\ cur[v] = a /\ PastRule(v, rule)
    BY <1>0 DEF Past, Of
  <1>1. CASE UNCHANGED work /\ (UNCHANGED status \/ \E b \in Actions : Submit(b))
    BY <1>0, <1>1 DEF work, PastRule, Submit
  <1>2. ASSUME NEW w \in Workers, Evaluate(w)
        PROVE  status[a] = "processing" /\ cur[v] = a /\ PastRule(v, rule)
    <2>1. CASE ReadAction(w)
      BY <1>0, <2>1 DEF ReadAction, Step, PastRule, rows
    <2>2. CASE Claim(w)
      <3>1. v # w /\ cur[v] = a /\ PastRule(v, rule)
        BY <1>0, <2>2 DEF Claim, Step, PastRule
      <3>2. claims[a] >= 1
        BY <1>0, <3>1 DEF ClaimedFirst, PastRule
      <3>3. cur[w] # a
        <4>1. cur[w] = a => claims'[a] = claims[a] + 1
          BY <1>0, <2>2 DEF Claim
        <4>2. claims'[a] <= 1
          BY DEF Undisturbed
        <4>. QED  BY <1>0, <3>2, <4>1, <4>2
      <3>. QED  BY <1>0, <2>2, <3>1, <3>3 DEF Claim
    <2>3. CASE ListPolicies(w)
      <3>1. UNCHANGED <<policies, status, cur>>
        BY <2>3 DEF ListPolicies, table, rows
      <3>2. v # w
        <4>1. CASE Decide(w, "list", "denied")
          BY <1>0, <4>1 DEF Decide, Step, PastRule
        <4>2. CASE Step(w, "list", "count") /\ todo' = [todo EXCEPT ![w] = CallerRules]
          <5>3. \E t \in CallerRules : t[3] = rule
            BY StandingListed
          <5>4. todo'[w] = CallerRules /\ pc'[w] = "count"
            BY <1>0, <4>2 DEF Step, Typed, WorkOK
          <5>. QED  BY <5>3, <5>4 DEF PastRule
        <4>. QED  BY <2>3, <4>1, <4>2 DEF ListPolicies
      <3>3. pc'[v] = pc[v] /\ todo'[v] = todo[v]
        BY <1>0, <2>3, <3>2 DEF ListPolicies, Decide, Step, Typed, WorkOK
      <3>. QED  BY <3>1, <3>3 DEF PastRule
    <2>4. CASE Scan(w)
      <3>1. UNCHANGED <<status, cur>>
        BY <2>4 DEF Scan, rows
      <3>2. v = w => pc[v] = "count" /\ todo[v] = {}
        BY <2>4 DEF Scan
      <3>3. v # w => pc'[v] = pc[v] /\ todo'[v] = todo[v]
        BY <1>0, <2>4 DEF Scan, Decide, Step, Typed, WorkOK
      <3>. QED  BY <3>1, <3>2, <3>3 DEF PastRule
    <2>5. CASE Answer(w) \/ CallFails(w) \/ FailClosed(w)
      <3>1. UNCHANGED <<status, cur>>
        BY <2>5 DEF Answer, CallFails, FailClosed, rows
      <3>2. v = w => pc[v] = "ask"
        BY <2>5 DEF Answer, CallFails, FailClosed, Decide, Step
      <3>3. v # w => pc'[v] = pc[v] /\ todo'[v] = todo[v]
        BY <1>0, <2>5 DEF Answer, CallFails, FailClosed, Decide, Step, Typed, WorkOK
      <3>. QED  BY <3>1, <3>2, <3>3 DEF PastRule
    <2>6. CASE SaveVerdict(w)
      <3>1. v # w /\ cur'[v] = cur[v] /\ pc'[v] = pc[v] /\ todo'[v] = todo[v]
        BY <1>0, <2>6 DEF SaveVerdict, Rest, Step, PastRule
      <3>2. cur[w] \in Actions /\ decision[w] \in Decisions
        BY <1>0, <2>6 DEF SaveVerdict, Consistent, Typed, WorkOK
      <3>3. StatusOf[decision[w]] # "processing"
        BY <3>2 DEF StatusOf, Decisions
      <3>4. status[a] = "processing"
        BY <1>0, <2>6, <3>2, <3>3 DEF SaveVerdict
      <3>. QED  BY <3>1, <3>4 DEF PastRule
    <2>7. ~Fail(w)
      BY UndisturbedBefore DEF Fail, Fault, Typed, PoliciesTypeOK
    <2>. QED  BY <1>2, <2>1, <2>2, <2>3, <2>4, <2>5, <2>6, <2>7 DEF Evaluate
  <1>. QED  BY <1>1, <1>2 DEF Next, vars, rows, Tick, EditPolicies, Submit

\* Who passes a limit has counted all that are past it.
LEMMA CheckRuleKeepsLimit ==
  ASSUME Typed, ClaimedFirst, [Next]_vars, Undisturbed', ~DryRun, NEW rule \in Limits, NEW agent,
         NEW w \in Workers, CheckRule(w), Below(Past(rule, agent), rule)
  PROVE  Below(Past(rule, agent)', rule)
  <1>0. /\ pc \in [Workers -> Places] /\ cur \in [Workers -> Actions \cup {None}]
        /\ UNCHANGED <<status, cur>> /\ rule \in Rules
        /\ pc[w] = "count" /\ cur[w] \in Actions
    BY LimitsAreRules DEF Typed, WorkOK, CheckRule, rows, Consistent
  <1>. DEFINE first == First(todo[w])
  <1>1. CASE Decide(w, "count", "denied")
    <2>1. Past(rule, agent)' \subseteq Past(rule, agent)
      BY <1>0, <1>1 DEF Past, Of, PastRule, Decide, Step, Typed, WorkOK
    <2>. QED  BY <1>0, <2>1, BelowIsMonotone DEF Past, Of
  <1>2. CASE /\ FALSE \in Denies(first[3], cur[w])
             /\ todo' = [todo EXCEPT ![w] = @ \ {first}]
             /\ UNCHANGED pc
    <2>1. \A v \in Workers : v # w => (PastRule(v, rule)' <=> PastRule(v, rule))
      BY <1>0, <1>2 DEF PastRule, Typed, WorkOK
    <2>2. CASE first[3] # rule \/ AgentOf[cur[w]] # agent
      <3>1. first[3] # rule => (PastRule(w, rule)' <=> PastRule(w, rule))
        BY <1>0, <1>2 DEF PastRule, Typed, WorkOK
      <3>2. Past(rule, agent)' \subseteq Past(rule, agent)
        BY <1>0, <2>1, <2>2, <3>1 DEF Past, Of
      <3>. QED  BY <1>0, <3>2, BelowIsMonotone DEF Past, Of
    <2>3. CASE first[3] = rule /\ AgentOf[cur[w]] = agent
      <3>1. "type" \in DOMAIN rule /\ rule.type = "concurrency_limit"
        BY DEF Limits, OfType, Field, Has, CallerRuleTypes
      <3>2. ~Exceeded(rule, cur[w])
        BY <1>2, <2>3, <3>1 DEF Denies
      <3>3. ~(Cardinality(CountedByConcurrency(agent)) >= Field(rule, "max_simultaneous", 1))
        BY <2>3, <3>1, <3>2 DEF Exceeded
      <3>4. Below(CountedByConcurrency(agent), rule)
        <4>1. IsFiniteSet(CountedByConcurrency(agent))
          BY FS_Subset DEF CountedByConcurrency, Of
        <4>2. Cardinality(CountedByConcurrency(agent)) \in Nat
          BY <4>1, FS_CardinalityType
        <4>3. Field(rule, "max_simultaneous", 1) \in Int
          BY <1>0
        <4>. QED  BY <3>3, <4>2, <4>3 DEF Below
      <3>5. Past(rule, agent)' \subseteq CountedByConcurrency(agent)
        BY <1>0 DEF Past, Of, CountedByConcurrency
      <3>. QED  BY <1>0, <3>4, <3>5, BelowIsMonotone DEF CountedByConcurrency, Of
    <2>. QED  BY <2>2, <2>3
  <1>3. faults' = faults /\ faults \in Nat
    BY UndisturbedBefore DEF Typed, PoliciesTypeOK
  <1>4. ~Fault
    BY <1>3 DEF Fault
  <1>. QED  BY <1>1, <1>2, <1>4 DEF CheckRule

\* However the replicas' queries interleave, fewer of an agent's actions are
\* past a concurrency limit that stands than the limit says, in every state
\* without a failed statement or a double claim before it.
THEOREM ConcurrencyKept == Spec => []ConcurrencyHolds
  <1>. DEFINE IInv == Typed /\ ClaimedFirst /\ LimitKept
  <1>1. Init => IInv
    <2>. SUFFICES ASSUME Init PROVE IInv
      OBVIOUS
    <2>1. Typed
      BY InitTypes, TypeParts DEF Typed
    <2>2. ClaimedFirst
      BY DEF Init, ClaimedFirst
    <2>3. \A rule, agent : Past(rule, agent) = {}
      BY DEF Init, Past, PastRule
    <2>. QED  BY <2>1, <2>2, <2>3 DEF LimitKept, Below
  <1>2. IInv /\ [Next]_vars => IInv'
    <2>. SUFFICES ASSUME IInv, [Next]_vars PROVE IInv'
      OBVIOUS
    <2>1. Typed'
      BY EditTypes, OutsideTypes, WorkerTypes, StutterTypes DEF Next
    <2>2. ClaimedFirst'
      BY ClaimedFirstKept
    <2>3. LimitKept'
      <3>. SUFFICES ASSUME Undisturbed', ~DryRun, NEW rule \in Limits', NEW agent \in Agents
                    PROVE  Below(Past(rule, agent)', rule)
        BY DEF LimitKept, Below, Agents
      <3>1. rule \in Limits /\ rule \in Rules
        BY StandingShrinks, LimitsAreRules DEF Typed
      <3>2. Below(Past(rule, agent), rule)
        BY <3>1, UndisturbedBefore DEF LimitKept
      <3>3. CASE \E w \in Workers : CheckRule(w)
        BY <3>1, <3>2, <3>3, CheckRuleKeepsLimit
      <3>4. CASE ~ \E w \in Workers : CheckRule(w)
        <4>1. Past(rule, agent)' \subseteq Past(rule, agent)
          BY <3>1, <3>4, PastShrinks
        <4>. QED  BY <3>1, <3>2, <4>1, BelowIsMonotone DEF Past, Of
      <3>. QED  BY <3>3, <3>4
    <2>. QED  BY <2>1, <2>2, <2>3
  <1>3. IInv => ConcurrencyHolds
    <2>. SUFFICES ASSUME IInv, Undisturbed, ~DryRun, NEW rule \in Limits, NEW agent \in Agents
                  PROVE  Below(Passed(agent), rule)
      BY DEF ConcurrencyHolds, Limits, Below
    <2>1. rule \in Rules /\ Below(Past(rule, agent), rule)
      BY LimitsAreRules DEF LimitKept, Typed
    <2>2. Passed(agent) \subseteq Past(rule, agent)
      BY DEF Passed, Past, PastRule
    <2>. QED  BY <2>1, <2>2, BelowIsMonotone DEF Past, Of
  <1>. QED  BY <1>1, <1>2, <1>3, PTL DEF Spec

-----------------------------------------------------------------------------
(* The rate limit.  An action that is approved, or will be, is past the    *)
(* rule; it has been claimed and so is counted by whoever checks the rule  *)
(* later, and the cutoff only moves on.  Two claims of one action do no    *)
(* harm here.                                                              *)

Approving(a, rule) ==
    \/ "approved" \in verdicts[a]
    \/ \E w \in Workers :
          /\ cur[w] = a
          /\ PastRule(w, rule) \/ (pc[w] = "save" /\ decision[w] = "approved")

Recent(a, rule) == LaterText(created[a], now - Field(rule, "window_secs", 60))

Rated(rule, agent) == {a \in Of(agent) : Recent(a, rule) /\ Approving(a, rule)}

BelowCount(actions, rule) ==
    actions = {} \/ Cardinality(actions) < Field(rule, "max_count", 10)

\* What has been claimed is neither absent nor pending any more.
ClaimsShow == \A a \in Actions :
    /\ claims[a] >= 1 => status[a] \notin {"absent", "pending"}
    /\ verdicts[a] # {} => claims[a] >= 1

RateKept ==
    faults = 0 /\ ~DryRun => \A rule \in RateLimits, agent \in Agents : BelowCount(Rated(rule, agent), rule)

LEMMA DayMonotone ==
  ASSUME NEW s \in Int, NEW t \in Int, s <= t
  PROVE  Day(s) <= Day(t) /\ Day(s) \in Int /\ Day(t) \in Int
  <1>1. DayLength \in Nat \ {0}
    BY EvaluationAssumption
  <1>. HIDE EvaluationAssumption, PoliciesAssumption
  <1>. QED  BY <1>1 DEF Day

\* What is recent was recent before.
LEMMA RecentBefore ==
  ASSUME NEW c \in Nat, NEW s \in Nat, NEW t \in Nat, NEW n \in Int, s <= t,
         LaterText(c, t - n)
  PROVE  LaterText(c, s - n)
  <1>0. s - n \in Int /\ t - n \in Int /\ s - n <= t - n
    OBVIOUS
  <1>1. Day(s - n) <= Day(t - n) /\ Day(s - n) \in Int /\ Day(t - n) \in Int
    BY <1>0, DayMonotone
  <1>2. Day(c) \in Int
    BY DayMonotone
  <1>. QED  BY <1>1, <1>2 DEF LaterText

LEMMA BelowCountIsMonotone ==
  ASSUME NEW rule \in Rules, NEW S \in SUBSET Actions, NEW T \in SUBSET S, BelowCount(S, rule)
  PROVE  BelowCount(T, rule)
  <1>1. IsFiniteSet(S)
    BY FS_Subset
  <1>2. /\ Cardinality(T) <= Cardinality(S) /\ Cardinality(T) \in Nat /\ Cardinality(S) \in Nat
        /\ S = {} => T = {}
    BY <1>1, FS_Subset, FS_CardinalityType
  <1>3. Field(rule, "max_count", 10) \in Int
    OBVIOUS
  <1>. QED  BY <1>2, <1>3 DEF BelowCount

LEMMA ClaimsShowKept ==
  ASSUME Typed, ClaimedFirst, ClaimsShow, [Next]_vars
  PROVE  ClaimsShow'
  <1>0. /\ cur \in [Workers -> Actions \cup {None}] /\ status \in [Actions -> Statuses]
        /\ claims \in [Actions -> Nat] /\ verdicts \in [Actions -> SUBSET Decisions]
        /\ \A w \in Workers : Consistent(w)
    BY DEF Typed, WorkOK, RowsOK
  <1>1. CASE UNCHANGED <<status, claims, verdicts>>
    BY <1>1 DEF ClaimsShow
  <1>2. ASSUME NEW a \in Actions, Submit(a) PROVE ClaimsShow'
    BY <1>0, <1>2 DEF Submit, ClaimsShow
  <1>3. ASSUME NEW w \in Workers, Claim(w) PROVE ClaimsShow'
    <2>1. cur[w] \in Actions
      BY <1>0, <1>3 DEF Claim, Step, Consistent
    <2>. QED  BY <1>0, <1>3, <2>1 DEF Claim, ClaimsShow
  <1>4. ASSUME NEW w \in Workers, SaveVerdict(w) PROVE ClaimsShow'
    <2>1. cur[w] \in Actions /\ decision[w] \in Decisions /\ claims[cur[w]] >= 1
      BY <1>0, <1>4 DEF SaveVerdict, Consistent, ClaimedFirst, Typed, WorkOK
    <2>2. StatusOf[decision[w]] \notin {"absent", "pending"}
      BY <2>1 DEF StatusOf, Decisions
    <2>. QED  BY <1>0, <1>4, <2>1, <2>2 DEF SaveVerdict, ClaimsShow
  <1>5. ASSUME NEW w \in Workers, Fail(w) PROVE ClaimsShow'
    BY <1>0, <1>5 DEF Fail, ClaimsShow
  <1>. QED  BY <1>1, <1>2, <1>3, <1>4, <1>5
            DEF Next, vars, rows, Tick, EditPolicies, Evaluate, ReadAction, ListPolicies,
                CheckRule, Scan, Answer, CallFails, FailClosed

\* Who is past the rule has been claimed.
LEMMA ApprovingClaimed ==
  ASSUME Typed, ClaimedFirst, ClaimsShow, NEW rule, NEW a \in Actions, Approving(a, rule)
  PROVE  claims[a] >= 1 /\ status[a] \notin {"absent", "pending"}
  <1>1. claims[a] >= 1
    BY DEF Approving, ClaimedFirst, ClaimsShow, PastRule
  <1>. QED  BY <1>1 DEF ClaimsShow

\* Nothing but the check of a rule brings an action past it.
LEMMA ApprovingBefore ==
  ASSUME Typed, ClaimedFirst, [Next]_vars, faults' = 0, NEW rule \in RateLimits \cup Budgets,
         ~ \E w \in Workers : CheckRule(w), NEW a \in Actions, Approving(a, rule)'
  PROVE  Approving(a, rule)
  <1>0. /\ pc \in [Workers -> Places] /\ cur \in [Workers -> Actions \cup {None}]
        /\ todo \in [Workers -> SUBSET (Ids \X Nat \X Rules)]
        /\ decision \in [Workers -> Decisions \cup {Null}]
        /\ verdicts \in [Actions -> SUBSET Decisions]
        /\ \A w \in Workers : Consistent(w)
    BY DEF Typed, WorkOK, RowsOK
  <1>1. CASE UNCHANGED work /\ UNCHANGED verdicts
    BY <1>1 DEF work, Approving, PastRule
  <1>2. ASSUME NEW w \in Workers, Evaluate(w) PROVE Approving(a, rule)
    <2>1. CASE SaveVerdict(w)
      <3>1. cur[w] \in Actions /\ pc[w] = "save" /\ pc'[w] = "idle"
        BY <1>0, <2>1 DEF SaveVerdict, Rest, Step, Consistent
      <3>2. \A v \in Workers \ {w} : /\ cur'[v] = cur[v] /\ pc'[v] = pc[v] /\ todo'[v] = todo[v]
                                     /\ decision'[v] = decision[v]
        BY <1>0, <2>1 DEF SaveVerdict, Rest, Step
      <3>3. CASE "approved" \in verdicts'[a]
        <4>1. \/ "approved" \in verdicts[a]
              \/ a = cur[w] /\ decision[w] = "approved"
          BY <1>0, <2>1, <3>1, <3>3 DEF SaveVerdict
        <4>. QED  BY <3>1, <4>1 DEF Approving
      <3>4. CASE \E v \in Workers :
                    /\ cur'[v] = a
                    /\ PastRule(v, rule)' \/ (pc'[v] = "save" /\ decision'[v] = "approved")
        <4>. PICK v \in Workers :
                    /\ cur'[v] = a
                    /\ PastRule(v, rule)' \/ (pc'[v] = "save" /\ decision'[v] = "approved")
          BY <3>4
        <4>1. v # w
          BY <3>1 DEF PastRule
        <4>. QED  BY <3>2, <4>1 DEF Approving, PastRule
      <3>. QED  BY <3>3, <3>4 DEF Approving
    <2>2. ~Fail(w)
      BY DEF Fail, Fault, Typed, PoliciesTypeOK
    <2>3. CASE ~SaveVerdict(w)
      <3>0. UNCHANGED verdicts /\ \A v \in Workers \ {w} :
               /\ cur'[v] = cur[v] /\ pc'[v] = pc[v] /\ todo'[v] = todo[v]
               /\ decision'[v] = decision[v]
        BY <1>0, <1>2, <2>2, <2>3
        DEF Evaluate, ReadAction, Claim, ListPolicies, CheckRule, Scan, Answer, CallFails,
            FailClosed, Decide, Step, rows
      <3>. SUFFICES ASSUME cur'[w] = a,
                           PastRule(w, rule)' \/ (pc'[w] = "save" /\ decision'[w] = "approved")
                    PROVE  cur[w] = a /\ PastRule(w, rule)
        BY <3>0 DEF Approving, PastRule
      <3>1. ~ReadAction(w) /\ ~Claim(w)
        BY <1>0 DEF ReadAction, Claim, Step, PastRule
      <3>2. ~ListPolicies(w)
        <4>. SUFFICES ASSUME ListPolicies(w) PROVE FALSE
          OBVIOUS
        <4>1. CASE Decide(w, "list", "denied")
          BY <1>0, <4>1 DEF Decide, Step, PastRule
        <4>2. CASE Step(w, "list", "count") /\ todo' = [todo EXCEPT ![w] = CallerRules]
          <5>3. \E t \in CallerRules : t[3] = rule
            BY StandingListed
          <5>4. todo'[w] = CallerRules /\ pc'[w] = "count"
            BY <1>0, <4>2 DEF Step
          <5>. QED  BY <5>3, <5>4 DEF PastRule
        <4>. QED  BY <4>1, <4>2 DEF ListPolicies
      <3>3. CASE Scan(w)
        BY <1>0, <3>3 DEF Scan, Decide, Step, PastRule
      <3>4. CASE Answer(w) \/ CallFails(w) \/ FailClosed(w)
        BY <1>0, <3>4 DEF Answer, CallFails, FailClosed, Decide, Step, PastRule
      <3>. QED  BY <1>2, <2>2, <2>3, <3>1, <3>2, <3>3, <3>4 DEF Evaluate
    <2>. QED  BY <2>1, <2>3
  <1>. QED  BY <1>1, <1>2 DEF Next, vars, rows, Tick, EditPolicies, Submit

LEMMA RatedShrinks ==
  ASSUME Typed, ClaimedFirst, ClaimsShow, [Next]_vars, faults' = 0, NEW rule \in RateLimits, NEW agent,
         ~ \E w \in Workers : CheckRule(w)
  PROVE  Rated(rule, agent)' \subseteq Rated(rule, agent)
  <1>. SUFFICES ASSUME NEW a \in Actions, AgentOf[a] = agent, Recent(a, rule)', Approving(a, rule)'
                PROVE  a \in Rated(rule, agent)
    BY DEF Rated, Of
  <1>1. Approving(a, rule)
    BY ApprovingBefore
  <1>2. claims[a] >= 1 /\ status[a] \notin {"absent", "pending"}
    BY <1>1, ApprovingClaimed
  <1>3. /\ created \in [Actions -> 0..MaxTime] /\ now \in 0..MaxTime
        /\ rule \in Rules /\ MaxTime \in Nat
    BY LimitsAreRules DEF Typed, RowsOK
  <1>4. created'[a] = created[a]
    <2>1. ASSUME NEW b \in Actions, Submit(b) PROVE created'[a] = created[a]
      BY <1>2, <1>3, <2>1 DEF Submit
    <2>. QED  BY <2>1 DEF Next, vars, rows, Tick, EditPolicies, Evaluate, ReadAction, Claim,
                          ListPolicies, CheckRule, Scan, Answer, CallFails, FailClosed,
                          SaveVerdict, Fail
  <1>5. now' \in Nat /\ now \in Nat /\ now <= now'
    <2>1. now' = now \/ Tick
      BY DEF Next, vars, rows, EditPolicies, Submit, Evaluate, ReadAction, Claim,
             ListPolicies, CheckRule, Scan, Answer, CallFails, FailClosed, SaveVerdict, Fail
    <2>2. now \in Nat
      BY <1>3
    <2>. QED  BY <2>1, <2>2 DEF Tick
  <1>6. Field(rule, "window_secs", 60) \in Int
    BY <1>3
  <1>7. LaterText(created[a], now' - Field(rule, "window_secs", 60))
    BY <1>4 DEF Recent
  <1>8. created[a] \in Nat
    BY <1>3
  <1>9. Recent(a, rule)
    BY <1>5, <1>6, <1>7, <1>8, RecentBefore DEF Recent
  <1>. QED  BY <1>1, <1>2, <1>9 DEF Rated, Of

\* Who passes the rule has counted all that are past it, and itself.
LEMMA CheckRuleKeepsRate ==
  ASSUME Typed, ClaimedFirst, ClaimsShow, faults = 0, faults' = 0, ~DryRun,
         NEW rule \in RateLimits, NEW agent, NEW w \in Workers, CheckRule(w),
         BelowCount(Rated(rule, agent), rule)
  PROVE  BelowCount(Rated(rule, agent)', rule)
  <1>0. /\ pc \in [Workers -> Places] /\ cur \in [Workers -> Actions \cup {None}]
        /\ todo \in [Workers -> SUBSET (Ids \X Nat \X Rules)]
        /\ decision \in [Workers -> Decisions \cup {Null}]
        /\ UNCHANGED <<status, cur, verdicts, created, now>> /\ rule \in Rules
        /\ pc[w] = "count" /\ cur[w] \in Actions
    BY LimitsAreRules DEF Typed, WorkOK, CheckRule, rows, Consistent
  <1>. DEFINE first == First(todo[w])
  <1>1. CASE Decide(w, "count", "denied")
    <2>1. \A a \in Actions : Approving(a, rule)' => Approving(a, rule)
      BY <1>0, <1>1 DEF Approving, PastRule, Decide, Step
    <2>2. Rated(rule, agent)' \subseteq Rated(rule, agent)
      BY <1>0, <2>1 DEF Rated, Of, Recent
    <2>. QED  BY <1>0, <2>2, BelowCountIsMonotone DEF Rated, Of
  <1>2. CASE /\ FALSE \in Denies(first[3], cur[w])
             /\ todo' = [todo EXCEPT ![w] = @ \ {first}]
             /\ UNCHANGED <<pc, decision>>
    <2>1. \A v \in Workers : v # w => (PastRule(v, rule)' <=> PastRule(v, rule))
      BY <1>0, <1>2 DEF PastRule
    <2>2. CASE first[3] # rule \/ AgentOf[cur[w]] # agent
      <3>1. first[3] # rule => (PastRule(w, rule)' <=> PastRule(w, rule))
        BY <1>0, <1>2 DEF PastRule
      <3>2. \A a \in Actions : AgentOf[a] = agent /\ Approving(a, rule)' => Approving(a, rule)
        BY <1>0, <1>2, <2>1, <2>2, <3>1 DEF Approving
      <3>3. Rated(rule, agent)' \subseteq Rated(rule, agent)
        BY <1>0, <3>2 DEF Rated, Of, Recent
      <3>. QED  BY <1>0, <3>3, BelowCountIsMonotone DEF Rated, Of
    <2>3. CASE first[3] = rule /\ AgentOf[cur[w]] = agent
      <3>1. "type" \in DOMAIN rule /\ rule.type = "rate_limit"
        BY DEF RateLimits, OfType, Field, Has, CallerRuleTypes
      <3>2. ~Exceeded(rule, cur[w])
        BY <1>2, <2>3, <3>1 DEF Denies
      <3>3. ~(Cardinality(CountedByRate(rule, agent)) >= Field(rule, "max_count", 10))
        BY <2>3, <3>1, <3>2 DEF Exceeded
      <3>4. BelowCount(CountedByRate(rule, agent), rule)
        <4>1. IsFiniteSet(CountedByRate(rule, agent))
          BY FS_Subset DEF CountedByRate, Of
        <4>2. Cardinality(CountedByRate(rule, agent)) \in Nat
          BY <4>1, FS_CardinalityType
        <4>3. Field(rule, "max_count", 10) \in Int
          BY <1>0
        <4>. QED  BY <3>3, <4>2, <4>3 DEF BelowCount
      <3>5. \A a \in Actions : Approving(a, rule)' => status[a] \notin {"absent", "pending"}
        <4>. SUFFICES ASSUME NEW a \in Actions, Approving(a, rule)'
                      PROVE  claims[a] >= 1
          BY DEF ClaimsShow
        <4>1. \/ verdicts[a] # {}
              \/ \E v \in Workers : cur[v] = a /\ pc[v] \in {"count", "ask", "save"}
          BY <1>0, <1>2 DEF Approving, PastRule
        <4>. QED  BY <4>1 DEF ClaimsShow, ClaimedFirst
      <3>6. Rated(rule, agent)' \subseteq CountedByRate(rule, agent)
        BY <1>0, <3>5 DEF Rated, Of, Recent, CountedByRate
      <3>. QED  BY <1>0, <3>4, <3>6, BelowCountIsMonotone DEF CountedByRate, Of
    <2>. QED  BY <2>2, <2>3
  <1>3. ~Fault
    BY DEF Fault
  <1>. QED  BY <1>1, <1>2, <1>3 DEF CheckRule

\* However the replicas' queries interleave, an agent's approved actions of the
\* days after the cutoff's stay below a rate limit that stands, in every state
\* without a failed statement before it.
THEOREM RateKeptByDay == Spec => []RateHoldsByDay
  <1>. DEFINE IInv == Typed /\ ClaimedFirst /\ ClaimsShow /\ RateKept
  <1>1. Init => IInv
    <2>. SUFFICES ASSUME Init PROVE IInv
      OBVIOUS
    <2>1. Typed
      BY InitTypes, TypeParts DEF Typed
    <2>2. ClaimedFirst /\ ClaimsShow
      BY DEF Init, ClaimedFirst, ClaimsShow
    <2>3. \A rule, agent : Rated(rule, agent) = {}
      BY DEF Init, Rated, Of
    <2>. QED  BY <2>1, <2>2, <2>3 DEF RateKept, BelowCount
  <1>2. IInv /\ [Next]_vars => IInv'
    <2>. SUFFICES ASSUME IInv, [Next]_vars PROVE IInv'
      OBVIOUS
    <2>1. Typed'
      BY EditTypes, OutsideTypes, WorkerTypes, StutterTypes DEF Next
    <2>2. ClaimedFirst' /\ ClaimsShow'
      BY ClaimedFirstKept, ClaimsShowKept
    <2>3. RateKept'
      <3>. SUFFICES ASSUME faults' = 0, ~DryRun, NEW rule \in RateLimits', NEW agent \in Agents
                    PROVE  BelowCount(Rated(rule, agent)', rule)
        BY DEF RateKept, BelowCount, Agents
      <3>0. faults = 0
        <4>1. faults' = faults \/ Fault
          BY DEF Next, vars, Submit, Tick, EditPolicies, Evaluate, ReadAction, Claim, ListPolicies,
                 CheckRule, Scan, Answer, CallFails, FailClosed, SaveVerdict, Fail
        <4>. QED  BY <4>1 DEF Typed, PoliciesTypeOK, Fault
      <3>1. rule \in RateLimits /\ rule \in Rules
        BY StandingShrinks, LimitsAreRules DEF Typed
      <3>2. BelowCount(Rated(rule, agent), rule)
        BY <3>0, <3>1 DEF RateKept
      <3>3. CASE \E w \in Workers : CheckRule(w)
        BY <3>0, <3>1, <3>2, <3>3, CheckRuleKeepsRate
      <3>4. CASE ~ \E w \in Workers : CheckRule(w)
        <4>1. Rated(rule, agent)' \subseteq Rated(rule, agent)
          BY <3>1, <3>4, RatedShrinks
        <4>. QED  BY <3>1, <3>2, <4>1, BelowCountIsMonotone DEF Rated, Of
      <3>. QED  BY <3>3, <3>4
    <2>. QED  BY <2>1, <2>2, <2>3
  <1>3. IInv => RateHoldsByDay
    <2>. SUFFICES ASSUME IInv, Undisturbed, ~DryRun, NEW rule \in RateLimits, NEW agent \in Agents
                  PROVE  BelowCount({a \in Approved(agent) : Recent(a, rule)}, rule)
      BY DEF RateHoldsByDay, RateLimits, BelowCount, Recent
    <2>1. rule \in Rules /\ BelowCount(Rated(rule, agent), rule)
      BY LimitsAreRules DEF RateKept, Typed, Undisturbed
    <2>2. {a \in Approved(agent) : Recent(a, rule)} \subseteq Rated(rule, agent)
      BY DEF Approved, Rated, Approving
    <2>. QED  BY <2>1, <2>2, BelowCountIsMonotone DEF Rated, Of
  <1>. QED  BY <1>1, <1>2, <1>3, PTL DEF Spec

-----------------------------------------------------------------------------
(* What an approval has come through.  A worker that has listed the        *)
(* policies found none in force to deny its action, those that still stand *)
(* among them; one that asks has scanned it; one that is about to save     *)
(* anything but a denial has been answered by a provider.  What an action  *)
(* says does not change once it is submitted.                              *)

Unopposed(a) == ~DryRun => \A i \in Standing : ~Condemns(policies[i], input[a])

Clean(a) == input[a] \notin Injected

Granting(w) == pc[w] = "save" /\ decision[w] # "denied"

ScreenedBy(w, a) ==
    /\ pc[w] \in {"count", "ask"} \/ Granting(w) => Unopposed(a)
    /\ pc[w] = "ask" \/ Granting(w) => Clean(a)
    /\ pc[w] = "ask" => hop[w] >= 1
    /\ Granting(w) => Len(Attempts) > 0

Screened == \A w \in Workers, a \in Actions : cur[w] = a => ScreenedBy(w, a)

Earned ==
    \A a \in Actions : "approved" \in verdicts[a] => Unopposed(a) /\ Clean(a) /\ Len(Attempts) > 0

\* The policies a worker lists hold those that stand.
LEMMA ListedUnopposed ==
  ASSUME PoliciesTypeOK, NEW a, ~EvaluateSync(InForce, input[a], DryRun).immediate_deny
  PROVE  Unopposed(a)
  <1>. SUFFICES ASSUME ~DryRun, NEW i \in Standing PROVE ~Condemns(policies[i], input[a])
    BY DEF Unopposed
  <1>1. DryRun = FALSE
    OBVIOUS
  <1>2. ~Uncounted(input[a]).immediate_deny
    BY <1>1 DEF Uncounted
  <1>3. Denying(input[a]) = {}
    BY <1>2, UncountedIs
  <1>4. i \in DOMAIN policies /\ i \in DOMAIN InForce /\ InForce[i] = policies[i]
    BY InForceIs DEF Standing
  <1>5. Denials(policies[i], input[a]) = {}
    BY <1>3, <1>4 DEF Denying
  <1>. QED  BY <1>4, <1>5, DenialsAreCondemning

\* What an action says stays, and no policy comes to stand.
LEMMA ScreeningKept ==
  ASSUME Typed, [Next]_vars, NEW a \in Actions, status[a] # "absent"
  PROVE  /\ input'[a] = input[a]
         /\ Unopposed(a) => Unopposed(a)'
         /\ Clean(a) => Clean(a)'
  <1>0. input \in [Actions -> Inputs \cup {Null}]
    BY DEF Typed, RowsOK
  <1>1. input'[a] = input[a]
    <2>1. ASSUME NEW b \in Actions, Submit(b) PROVE input'[a] = input[a]
      BY <1>0, <2>1 DEF Submit
    <2>. QED  BY <2>1 DEF Next, vars, rows, Tick, EditPolicies, Evaluate, ReadAction, Claim,
                          ListPolicies, CheckRule, Scan, Answer, CallFails, FailClosed,
                          SaveVerdict, Fail
  <1>2. Unopposed(a) => Unopposed(a)'
    BY <1>1, StandingStood DEF Unopposed
  <1>. QED  BY <1>1, <1>2 DEF Clean

LEMMA ScreenedKept ==
  ASSUME Typed, ClaimedFirst, ClaimsShow, Screened, [Next]_vars
  PROVE  Screened'
  <1>0. /\ pc \in [Workers -> Places] /\ cur \in [Workers -> Actions \cup {None}]
        /\ hop \in [Workers -> 0..Len(Attempts) + 1] /\ Len(Attempts) \in Nat
        /\ decision \in [Workers -> Decisions \cup {Null}]
        /\ \A w \in Workers : Consistent(w)
    BY DEF Typed, WorkOK
  <1>1. \A w \in Workers, a \in Actions :
           cur[w] = a /\ pc[w] \in {"list", "count", "ask", "save"} =>
             (Unopposed(a) => Unopposed(a)') /\ (Clean(a) => Clean(a)')
    BY ScreeningKept DEF ClaimedFirst, ClaimsShow
  <1>2. ASSUME NEW w \in Workers, NEW a \in Actions, cur[w] = a,
               pc'[w] = pc[w], hop'[w] = hop[w], decision'[w] = decision[w]
        PROVE  ScreenedBy(w, a)'
    BY <1>1, <1>2 DEF Screened, ScreenedBy, Granting
  <1>3. CASE UNCHANGED work
    BY <1>2, <1>3 DEF Screened, work
  <1>4. ASSUME NEW w \in Workers, Evaluate(w) PROVE Screened'
    <2>1. ASSUME NEW v \in Workers, v # w, NEW a \in Actions, cur'[v] = a
          PROVE  ScreenedBy(v, a)'
      <3>1. cur'[v] = cur[v] /\ pc'[v] = pc[v] /\ hop'[v] = hop[v] /\ decision'[v] = decision[v]
        BY <1>0, <1>4, <2>1
        DEF Evaluate, ReadAction, Claim, ListPolicies, CheckRule, Scan, Answer, CallFails,
            FailClosed, NextProvider, SaveVerdict, Fail, Decide, Rest, Step
      <3>. QED  BY <1>2, <2>1, <3>1
    <2>2. ASSUME NEW a \in Actions, cur'[w] = a PROVE ScreenedBy(w, a)'
      <3>1. CASE ReadAction(w) \/ Claim(w)
        BY <1>0, <3>1 DEF ReadAction, Claim, Step, ScreenedBy, Granting
      <3>2. CASE SaveVerdict(w) \/ Fail(w)
        BY <1>0, <3>2 DEF SaveVerdict, Fail, Rest, Step, ScreenedBy, Granting
      <3>3. ASSUME NEW from, Decide(w, from, "denied") PROVE ScreenedBy(w, a)'
        BY <1>0, <3>3 DEF Decide, Step, ScreenedBy, Granting
      <3>4. CASE ListPolicies(w)
        <4>1. cur[w] = a
          BY <2>2, <3>4 DEF ListPolicies
        <4>2. CASE /\ ~EvaluateSync(InForce, input[cur[w]], DryRun).immediate_deny
                   /\ Step(w, "list", "count")
          <5>1. Unopposed(a)
            BY <4>1, <4>2, ListedUnopposed DEF Typed
          <5>2. Unopposed(a)'
            BY <1>1, <4>1, <4>2, <5>1 DEF Step
          <5>. QED  BY <1>0, <4>2, <5>2 DEF Step, ScreenedBy, Granting
        <4>. QED  BY <3>3, <3>4, <4>2 DEF ListPolicies
      <3>5. CASE CheckRule(w)
        <4>1. cur[w] = a
          BY <2>2, <3>5 DEF CheckRule
        <4>2. CASE UNCHANGED <<pc, hop, decision>>
          BY <1>2, <4>1, <4>2
        <4>. QED  BY <3>3, <3>5, <4>2 DEF CheckRule
      <3>6. CASE Scan(w)
        <4>1. cur[w] = a /\ pc[w] = "count" /\ Unopposed(a)
          BY <2>2, <3>6 DEF Scan, Screened, ScreenedBy
        <4>2. CASE /\ input[cur[w]] \notin Injected
                   /\ Step(w, "count", "ask")
                   /\ hop' = [hop EXCEPT ![w] = 1]
          <5>1. Unopposed(a)' /\ Clean(a)'
            BY <1>1, <4>1, <4>2 DEF Clean
          <5>. QED  BY <1>0, <4>2, <5>1 DEF Step, ScreenedBy, Granting
        <4>. QED  BY <3>3, <3>6, <4>2 DEF Scan
      <3>7. CASE Answer(w)
        <4>1. cur[w] = a /\ pc[w] = "ask" /\ hop[w] <= Len(Attempts)
          BY <2>2, <3>7 DEF Answer, Decide, Step
        <4>2. ScreenedBy(w, a)
          BY <4>1 DEF Screened
        <4>3. Unopposed(a)' /\ Clean(a)' /\ Len(Attempts) > 0
          BY <1>0, <1>1, <4>1, <4>2 DEF ScreenedBy
        <4>4. pc'[w] = "save"
          BY <1>0, <3>7 DEF Answer, Decide, Step
        <4>. QED  BY <4>3, <4>4 DEF ScreenedBy
      <3>8. CASE CallFails(w)
        <4>1. cur[w] = a /\ pc[w] = "ask" /\ pc'[w] = "ask"
          BY <2>2, <3>8 DEF CallFails
        <4>2. ScreenedBy(w, a)
          BY <4>1 DEF Screened
        <4>3. Unopposed(a)' /\ Clean(a)' /\ hop[w] >= 1
          BY <1>1, <4>1, <4>2 DEF ScreenedBy
        <4>4. hop'[w] >= 1
          BY <1>0, <3>8, <4>3 DEF CallFails, NextProvider
        <4>. QED  BY <4>1, <4>3, <4>4 DEF ScreenedBy, Granting
      <3>9. CASE FailClosed(w)
        BY <3>3, <3>9 DEF FailClosed
      <3>. QED  BY <1>4, <3>1, <3>2, <3>4, <3>5, <3>6, <3>7, <3>8, <3>9 DEF Evaluate
    <2>. QED  BY <2>1, <2>2 DEF Screened
  <1>. QED  BY <1>3, <1>4 DEF Next, vars, Submit, Tick, EditPolicies

LEMMA EarnedKept ==
  ASSUME Typed, ClaimedFirst, ClaimsShow, Screened, Earned, [Next]_vars
  PROVE  Earned'
  <1>0. /\ cur \in [Workers -> Actions \cup {None}] /\ verdicts \in [Actions -> SUBSET Decisions]
        /\ \A w \in Workers : Consistent(w)
    BY DEF Typed, WorkOK, RowsOK
  <1>. SUFFICES ASSUME NEW a \in Actions, "approved" \in verdicts'[a]
                PROVE  Unopposed(a)' /\ Clean(a)' /\ Len(Attempts) > 0
    BY DEF Earned
  <1>1. CASE "approved" \in verdicts[a]
    <2>1. status[a] # "absent"
      BY <1>1 DEF ClaimsShow
    <2>2. Unopposed(a) /\ Clean(a) /\ Len(Attempts) > 0
      BY <1>1 DEF Earned
    <2>. QED  BY <2>1, <2>2, ScreeningKept
  <1>2. ASSUME NEW w \in Workers, SaveVerdict(w), "approved" \notin verdicts[a]
        PROVE  Unopposed(a)' /\ Clean(a)' /\ Len(Attempts) > 0
    <2>1. pc[w] = "save" /\ cur[w] = a /\ decision[w] = "approved"
      BY <1>0, <1>2 DEF SaveVerdict, Consistent
    <2>2. ScreenedBy(w, a) /\ Granting(w)
      BY <2>1 DEF Screened, Granting
    <2>3. status[a] # "absent"
      BY <2>1 DEF ClaimedFirst, ClaimsShow
    <2>. QED  BY <2>2, <2>3, ScreeningKept DEF ScreenedBy
  <1>3. CASE UNCHANGED verdicts
    BY <1>1, <1>3
  <1>. QED  BY <1>1, <1>2, <1>3
            DEF Next, vars, rows, Tick, Submit, EditPolicies, Evaluate, ReadAction, Claim,
                ListPolicies, CheckRule, Scan, Answer, CallFails, FailClosed, Fail

\* What is approved has come through everything: no policy that has stood all
\* the while denies it, it bears no critical injection, and the chain it was
\* approved by is not empty, whatever admins, replicas and failures do between.
THEOREM ApprovalsAreEarned == Spec => []ApprovalIsEarned
  <1>. DEFINE IInv == Typed /\ ClaimedFirst /\ ClaimsShow /\ Screened /\ Earned
  <1>1. Init => IInv
    <2>. SUFFICES ASSUME Init PROVE IInv
      OBVIOUS
    <2>1. Typed
      BY InitTypes, TypeParts DEF Typed
    <2>2. ClaimedFirst /\ ClaimsShow /\ Earned
      BY DEF Init, ClaimedFirst, ClaimsShow, Earned
    <2>3. Screened
      BY DEF Init, Screened
    <2>. QED  BY <2>1, <2>2, <2>3
  <1>2. IInv /\ [Next]_vars => IInv'
    <2>. SUFFICES ASSUME IInv, [Next]_vars PROVE IInv'
      OBVIOUS
    <2>1. Typed'
      BY EditTypes, OutsideTypes, WorkerTypes, StutterTypes DEF Next
    <2>. QED  BY <2>1, ClaimedFirstKept, ClaimsShowKept, ScreenedKept, EarnedKept
  <1>3. IInv => ApprovalIsEarned
    BY DEF Earned, ApprovalIsEarned, Unopposed, Clean
  <1>. QED  BY <1>1, <1>2, <1>3, PTL DEF Spec

-----------------------------------------------------------------------------
(* The budget.  An action that is approved, or will be, is past the rule,  *)
(* and, as long as nobody claims it twice, not denied: so whoever checks   *)
(* the rule later adds what it spends to the sum.                          *)

AtWork(w) == pc[w] \in {"list", "count", "ask", "save"}

SoleClaim ==
  Undisturbed =>
    \A a \in Actions :
      /\ \A v, w \in Workers : cur[v] = a /\ cur[w] = a /\ AtWork(v) /\ AtWork(w) => v = w
      /\ \A w \in Workers : cur[w] = a /\ AtWork(w) => status[a] = "processing" /\ verdicts[a] = {}
      /\ "approved" \in verdicts[a] => status[a] = "approved"

\* What a worker has read, and whatever else is there, has been submitted.
Submitted ==
    /\ \A a \in Actions : status[a] # "absent" => input[a] \in Inputs
    /\ \A w \in Workers : pc[w] # "idle" => status[cur[w]] # "absent"

NoneNegative == \A a \in Actions : status[a] # "absent" => Amount(a) >= 0

Spent(rule, agent) == {a \in Of(agent) : Approving(a, rule)}

BelowBudget(actions, rule) ==
    \/ \A a \in actions : ~Bears(a)
    \/ Total(actions) < Field(rule, "max_budget", 10000)

BudgetKept ==
    Undisturbed /\ ~DryRun /\ NoneNegative =>
      \A rule \in Budgets, agent \in Agents : BelowBudget(Spent(rule, agent), rule)

LEMMA AmountType ==
  ASSUME Submitted, NEW a \in Actions, status[a] # "absent"
  PROVE  Amount(a) \in Int
  <1>1. input[a] \in Inputs
    BY DEF Submitted
  <1>. QED  BY <1>1, AmountsAssumption DEF Amount, Bears

LEMMA TotalType ==
  ASSUME Submitted, NEW S \in SUBSET Actions, \A a \in S : status[a] # "absent"
  PROVE  Total(S) \in Int
  <1>. DEFINE f == [a \in S |-> Amount(a)]
  <1>1. IsFiniteSet(S) /\ \A a \in S : f[a] \in Int
    BY FS_Subset, AmountType
  <1>2. Total(S) = SumFunctionOnSet(f, S)
    BY DEF Total
  <1>. HIDE DEF f
  <1>3. \A T \in SUBSET S : SumFunctionOnSet(f, T) \in Int
    BY <1>1, SumType
  <1>. QED  BY <1>2, <1>3

\* Part of what spends less than a budget does so too.
LEMMA BelowBudgetIsMonotone ==
  ASSUME Submitted, NoneNegative, NEW rule \in Rules,
         NEW S \in SUBSET Actions, \A a \in S : status[a] # "absent",
         NEW T \in SUBSET S, BelowBudget(S, rule)
  PROVE  BelowBudget(T, rule)
  <1>. DEFINE f == [a \in S |-> Amount(a)]
              g == [a \in T |-> Amount(a)]
  <1>1. IsFiniteSet(S) /\ IsFiniteSet(T)
    BY FS_Subset
  <1>2. \A a \in S : f[a] \in Nat
    <2>. SUFFICES ASSUME NEW a \in S PROVE Amount(a) \in Nat
      OBVIOUS
    <2>. QED  BY AmountType DEF NoneNegative
  <1>3. \A a \in T : g[a] = f[a]
    OBVIOUS
  <1>4. Total(S) = SumFunctionOnSet(f, S) /\ Total(T) = SumFunctionOnSet(g, T)
    BY DEF Total
  <1>. HIDE DEF f, g
  <1>5. SumFunctionOnSet(g, T) = SumFunctionOnSet(f, T)
    BY <1>1, <1>3, SumAgrees
  <1>6. /\ SumFunctionOnSet(f, T) \in Int /\ SumFunctionOnSet(f, S) \in Int
        /\ SumFunctionOnSet(f, T) <= SumFunctionOnSet(f, S)
    BY <1>1, <1>2, SumMonotone
  <1>7. Field(rule, "max_budget", 10000) \in Int
    BY AmountsAssumption
  <1>. QED  BY <1>4, <1>5, <1>6, <1>7 DEF BelowBudget

\* What has been submitted stays so, and says what it said.
LEMMA SubmittedStays ==
  ASSUME Typed, [Next]_vars, NEW a \in Actions, status[a] # "absent"
  PROVE  /\ status'[a] # "absent" /\ input'[a] = input[a]
         /\ Amount(a)' = Amount(a) /\ Bears(a)' = Bears(a)
  <1>0. status \in [Actions -> Statuses]
    BY DEF Typed, RowsOK
  <1>1. input'[a] = input[a]
    BY ScreeningKept
  <1>2. ASSUME NEW w \in Workers, SaveVerdict(w) PROVE status'[a] # "absent"
    <2>1. decision[w] \in Decisions
      BY <1>2 DEF SaveVerdict, Typed, Consistent, WorkOK
    <2>2. StatusOf[decision[w]] # "absent"
      BY <2>1 DEF StatusOf, Decisions
    <2>. QED  BY <1>0, <1>2, <2>2 DEF SaveVerdict
  <1>3. ASSUME NEW w \in Workers, Claim(w) \/ Fail(w) PROVE status'[a] # "absent"
    BY <1>0, <1>3 DEF Claim, Fail
  <1>4. ASSUME NEW b \in Actions, Submit(b) PROVE status'[a] # "absent"
    BY <1>0, <1>4 DEF Submit
  <1>5. status'[a] # "absent"
    BY <1>2, <1>3, <1>4
    DEF Next, vars, rows, Tick, EditPolicies, Evaluate, ReadAction, ListPolicies, CheckRule,
        Scan, Answer, CallFails, FailClosed
  <1>. QED  BY <1>1, <1>5 DEF Amount, Bears

LEMMA SubmittedKept ==
  ASSUME Typed, Submitted, [Next]_vars
  PROVE  Submitted'
  <1>0. /\ status \in [Actions -> Statuses] /\ input \in [Actions -> Inputs \cup {Null}]
        /\ pc \in [Workers -> Places] /\ cur \in [Workers -> Actions \cup {None}]
        /\ \A w \in Workers : Consistent(w)
    BY DEF Typed, RowsOK, WorkOK
  <1>1. ASSUME NEW a \in Actions, status'[a] # "absent" PROVE input'[a] \in Inputs
    <2>1. CASE status[a] # "absent"
      BY <2>1, SubmittedStays DEF Submitted
    <2>2. ASSUME NEW b \in Actions, Submit(b), status[a] = "absent" PROVE input'[a] \in Inputs
      BY <1>0, <1>1, <2>2 DEF Submit
    <2>3. ASSUME NEW w \in Workers, Claim(w) \/ SaveVerdict(w) \/ Fail(w), status[a] = "absent"
          PROVE  FALSE
      <3>1. pc[w] # "idle" /\ cur[w] # a
        BY <1>0, <2>3 DEF Claim, SaveVerdict, Fail, Step, Submitted
      <3>. QED  BY <1>0, <1>1, <2>3, <3>1 DEF Claim, SaveVerdict, Fail
    <2>. QED  BY <1>1, <2>1, <2>2, <2>3
              DEF Next, vars, rows, Tick, EditPolicies, Evaluate, ReadAction, ListPolicies,
                  CheckRule, Scan, Answer, CallFails, FailClosed
  <1>2. ASSUME NEW w \in Workers, pc'[w] # "idle" PROVE status'[cur'[w]] # "absent"
    <2>1. CASE cur'[w] = cur[w] /\ pc[w] # "idle"
      <3>1. cur[w] \in Actions /\ status[cur[w]] # "absent"
        BY <1>0, <2>1 DEF Consistent, Submitted
      <3>. QED  BY <2>1, <3>1, SubmittedStays
    <2>2. CASE UNCHANGED work
      BY <1>2, <2>1, <2>2 DEF work
    <2>3. ASSUME NEW v \in Workers, v # w, Evaluate(v) PROVE cur'[w] = cur[w] /\ pc[w] # "idle"
      BY <1>0, <1>2, <2>3
      DEF Evaluate, ReadAction, Claim, ListPolicies, CheckRule, Scan, Answer, CallFails,
          FailClosed, SaveVerdict, Fail, Decide, Rest, Step
    <2>4. ASSUME Evaluate(w) PROVE status'[cur'[w]] # "absent"
      <3>1. CASE ReadAction(w)
        BY <1>0, <3>1 DEF ReadAction, rows
      <3>2. ~SaveVerdict(w) /\ ~Fail(w)
        BY <1>0, <1>2 DEF SaveVerdict, Fail, Rest, Step
      <3>3. CASE ~ReadAction(w)
        <4>1. cur'[w] = cur[w] /\ pc[w] # "idle"
          BY <2>4, <3>2, <3>3
          DEF Evaluate, Claim, ListPolicies, CheckRule, Scan, Answer, CallFails, FailClosed,
              Decide, Step
        <4>. QED  BY <2>1, <4>1
      <3>. QED  BY <3>1, <3>3
    <2>. QED  BY <2>1, <2>2, <2>3, <2>4 DEF Next, vars, Submit, Tick, EditPolicies
  <1>. QED  BY <1>1, <1>2 DEF Submitted

\* A worker at work on what is claimed once is alone with it.
LEMMA SoleClaimKept ==
  ASSUME Typed, ClaimedFirst, ClaimsShow, SoleClaim, [Next]_vars
  PROVE  SoleClaim'
  <1>. SUFFICES ASSUME Undisturbed', NEW a \in Actions
                PROVE  /\ \A v, w \in Workers : cur'[v] = a /\ cur'[w] = a
                                               /\ AtWork(v)' /\ AtWork(w)' => v = w
                       /\ \A w \in Workers : cur'[w] = a /\ AtWork(w)' =>
                            status'[a] = "processing" /\ verdicts'[a] = {}
                       /\ "approved" \in verdicts'[a] => status'[a] = "approved"
    BY DEF SoleClaim
  <1>0. /\ pc \in [Workers -> Places] /\ cur \in [Workers -> Actions \cup {None}]
        /\ status \in [Actions -> Statuses] /\ claims \in [Actions -> Nat]
        /\ verdicts \in [Actions -> SUBSET Decisions]
        /\ decision \in [Workers -> Decisions \cup {Null}]
        /\ \A w \in Workers : Consistent(w)
    BY DEF Typed, RowsOK, WorkOK
  <1>1. Undisturbed /\ faults' = faults
    BY UndisturbedBefore
  <1>2. /\ \A v, w \in Workers : cur[v] = a /\ cur[w] = a /\ AtWork(v) /\ AtWork(w) => v = w
        /\ \A w \in Workers : cur[w] = a /\ AtWork(w) => status[a] = "processing" /\ verdicts[a] = {}
        /\ "approved" \in verdicts[a] => status[a] = "approved"
    BY <1>1 DEF SoleClaim
  <1>3. CASE /\ UNCHANGED <<status, verdicts>>
             /\ \A w \in Workers : AtWork(w)' => AtWork(w) /\ cur'[w] = cur[w]
    BY <1>2, <1>3
  <1>4. ASSUME NEW b \in Actions, Submit(b)
        PROVE  /\ \A w \in Workers : AtWork(w)' => AtWork(w) /\ cur'[w] = cur[w]
               /\ UNCHANGED verdicts /\ (b = a => status[a] = "absent")
               /\ b # a => status'[a] = status[a]
    BY <1>0, <1>4 DEF Submit, work, AtWork
  <1>5. ASSUME NEW w \in Workers, Claim(w)
        PROVE  /\ \A v \in Workers : AtWork(v)' => (AtWork(v) \/ v = w) /\ cur'[v] = cur[v]
               /\ UNCHANGED verdicts
               /\ cur[w] = a => /\ status'[a] = "processing" /\ verdicts[a] = {}
                                /\ \A v \in Workers : cur[v] = a => ~AtWork(v)
               /\ cur[w] # a => status'[a] = status[a]
    <2>1. cur[w] \in Actions
      BY <1>0, <1>5 DEF Claim, Step, Consistent
    <2>2. \A v \in Workers : AtWork(v)' => (AtWork(v) \/ v = w) /\ cur'[v] = cur[v]
      BY <1>0, <1>5 DEF Claim, Step, AtWork
    <2>3. UNCHANGED verdicts /\ (cur[w] # a => status'[a] = status[a])
      BY <1>0, <1>5 DEF Claim
    <2>4. ASSUME cur[w] = a
          PROVE  /\ status'[a] = "processing" /\ verdicts[a] = {}
                 /\ \A v \in Workers : cur[v] = a => ~AtWork(v)
      <3>1. claims'[a] = claims[a] + 1 /\ claims'[a] <= 1
        BY <1>0, <1>5, <2>4 DEF Claim, Undisturbed
      <3>2. ~(claims[a] >= 1)
        BY <1>0, <3>1
      <3>3. status'[a] = "processing"
        BY <1>0, <1>5, <2>4 DEF Claim
      <3>. QED  BY <3>2, <3>3 DEF ClaimedFirst, ClaimsShow, AtWork
    <2>. QED  BY <2>2, <2>3, <2>4
  <1>6. ASSUME NEW w \in Workers, SaveVerdict(w)
        PROVE  /\ \A v \in Workers : AtWork(v)' => AtWork(v) /\ cur'[v] = cur[v] /\ v # w
               /\ AtWork(w)
               /\ cur[w] = a => /\ verdicts'[a] = verdicts[a] \cup {decision[w]}
                                /\ status'[a] = StatusOf[decision[w]]
               /\ cur[w] # a => (status'[a] = status[a] /\ verdicts'[a] = verdicts[a])
    <2>1. cur[w] \in Actions
      BY <1>0, <1>6 DEF SaveVerdict, Consistent
    <2>2. /\ \A v \in Workers : AtWork(v)' => AtWork(v) /\ cur'[v] = cur[v] /\ v # w
          /\ AtWork(w)
      BY <1>0, <1>6 DEF SaveVerdict, Rest, Step, AtWork
    <2>. QED  BY <1>0, <1>6, <2>1, <2>2 DEF SaveVerdict
  <1>7. ASSUME NEW w \in Workers, SaveVerdict(w), cur[w] = a
        PROVE  "approved" \in verdicts'[a] => status'[a] = "approved"
    <2>1. verdicts[a] = {}
      BY <1>2, <1>6, <1>7
    <2>. QED  BY <1>6, <1>7, <2>1 DEF StatusOf
  <1>8. \A w \in Workers : ~Fail(w)
    BY <1>1 DEF Fail, Fault, Typed, PoliciesTypeOK
  <1>9. CASE \E b \in Actions : Submit(b)
    <2>1. PICK b \in Actions : Submit(b)
      BY <1>9
    <2>. QED  BY <1>2, <1>4, <2>1
  <1>10. CASE \E w \in Workers : Claim(w)
    BY <1>2, <1>5, <1>10
  <1>11. CASE \E w \in Workers : SaveVerdict(w)
    <2>1. PICK w \in Workers : SaveVerdict(w)
      BY <1>11
    <2>2. /\ \A v \in Workers : AtWork(v)' => AtWork(v) /\ cur'[v] = cur[v] /\ v # w
          /\ AtWork(w)
      BY <1>6, <2>1
    <2>3. CASE cur[w] = a
      <3>1. \A v \in Workers : cur'[v] = a => ~AtWork(v)'
        BY <1>2, <2>2, <2>3
      <3>. QED  BY <1>7, <2>1, <2>3, <3>1
    <2>4. CASE cur[w] # a
      <3>1. status'[a] = status[a] /\ verdicts'[a] = verdicts[a]
        BY <1>6, <2>1, <2>4
      <3>. QED  BY <1>2, <2>2, <3>1
    <2>. QED  BY <2>3, <2>4
  <1>12. ASSUME NEW w \in Workers, Evaluate(w), ~Claim(w), ~SaveVerdict(w)
         PROVE  /\ UNCHANGED <<status, verdicts>>
                /\ \A v \in Workers : AtWork(v)' => AtWork(v) /\ cur'[v] = cur[v]
    BY <1>0, <1>8, <1>12
    DEF Evaluate, ReadAction, ListPolicies, CheckRule, Scan, Answer, CallFails, FailClosed,
        Decide, Step, AtWork, rows
  <1>13. CASE Tick \/ EditPolicies \/ UNCHANGED vars
    BY <1>3, <1>13 DEF Tick, EditPolicies, vars, rows, work, AtWork
  <1>. QED  BY <1>3, <1>9, <1>10, <1>11, <1>12, <1>13 DEF Next

\* Who is past the rule has not been denied.
LEMMA ApprovingNotDenied ==
  ASSUME Typed, ClaimedFirst, ClaimsShow, SoleClaim, Undisturbed,
         NEW rule, NEW a \in Actions, Approving(a, rule)
  PROVE  status[a] \notin {"absent", "denied"}
  BY DEF Approving, PastRule, SoleClaim, AtWork

\* What is past a rule before a step and after it spends no more for the step.
LEMMA BudgetCarried ==
  ASSUME Typed, ClaimedFirst, ClaimsShow, Submitted, NoneNegative, [Next]_vars,
         NEW rule \in Rules, NEW S \in SUBSET Actions, \A a \in S : status[a] # "absent",
         NEW T \in SUBSET S, BelowBudget(S, rule)
  PROVE  BelowBudget(T, rule)'
  <1>1. BelowBudget(T, rule)
    BY BelowBudgetIsMonotone
  <1>2. \A a \in T : Amount(a)' = Amount(a) /\ Bears(a)' = Bears(a)
    BY SubmittedStays
  <1>3. Total(T)' = Total(T)
    BY <1>2 DEF Total
  <1>. QED  BY <1>1, <1>2, <1>3 DEF BelowBudget

LEMMA NoneNegativeBefore ==
  ASSUME Typed, [Next]_vars, NoneNegative'
  PROVE  NoneNegative
  <1>. SUFFICES ASSUME NEW a \in Actions, status[a] # "absent" PROVE Amount(a) >= 0
    BY DEF NoneNegative
  <1>1. status'[a] # "absent" /\ Amount(a)' = Amount(a)
    BY SubmittedStays
  <1>. QED  BY <1>1 DEF NoneNegative

\* Who passes the budget has added up all that are past it, and itself.
LEMMA CheckRuleCounts ==
  ASSUME Typed, ClaimedFirst, ClaimsShow, SoleClaim, Submitted, Undisturbed, faults' = faults,
         ~DryRun, NEW rule \in Budgets, NEW agent, NEW w \in Workers, CheckRule(w)
  PROVE  \/ Spent(rule, agent)' \subseteq Spent(rule, agent)
         \/ /\ Spent(rule, agent)' \subseteq CountedByBudget(agent)
            /\ BelowBudget(CountedByBudget(agent), rule)
  <1>0. /\ pc \in [Workers -> Places] /\ cur \in [Workers -> Actions \cup {None}]
        /\ todo \in [Workers -> SUBSET (Ids \X Nat \X Rules)]
        /\ decision \in [Workers -> Decisions \cup {Null}]
        /\ UNCHANGED <<status, cur, verdicts>> /\ rule \in Rules
        /\ pc[w] = "count" /\ cur[w] \in Actions
    BY LimitsAreRules DEF Typed, WorkOK, CheckRule, rows, Consistent
  <1>. DEFINE first == First(todo[w])
  <1>1. CASE Decide(w, "count", "denied")
    <2>1. \A a \in Actions : Approving(a, rule)' => Approving(a, rule)
      BY <1>0, <1>1 DEF Approving, PastRule, Decide, Step
    <2>. QED  BY <1>0, <2>1 DEF Spent, Of
  <1>2. CASE /\ FALSE \in Denies(first[3], cur[w])
             /\ todo' = [todo EXCEPT ![w] = @ \ {first}]
             /\ UNCHANGED <<pc, decision>>
    <2>1. \A v \in Workers : v # w => (PastRule(v, rule)' <=> PastRule(v, rule))
      BY <1>0, <1>2 DEF PastRule
    <2>2. CASE first[3] # rule \/ AgentOf[cur[w]] # agent
      <3>1. first[3] # rule => (PastRule(w, rule)' <=> PastRule(w, rule))
        BY <1>0, <1>2 DEF PastRule
      <3>2. \A a \in Actions : AgentOf[a] = agent /\ Approving(a, rule)' => Approving(a, rule)
        BY <1>0, <1>2, <2>1, <2>2, <3>1 DEF Approving
      <3>. QED  BY <1>0, <3>2 DEF Spent, Of
    <2>3. CASE first[3] = rule /\ AgentOf[cur[w]] = agent
      <3>1. "type" \in DOMAIN rule /\ rule.type = "budget_limit"
        BY DEF Budgets, OfType, Field, Has, CallerRuleTypes
      <3>2. ~Exceeded(rule, cur[w]) \/ \A b \in CountedByBudget(agent) : ~Bears(b)
        BY <1>2, <2>3, <3>1 DEF Denies
      <3>3. BelowBudget(CountedByBudget(agent), rule)
        <4>. SUFFICES ASSUME ~Exceeded(rule, cur[w])
                      PROVE  Total(CountedByBudget(agent)) < Field(rule, "max_budget", 10000)
          BY <3>2 DEF BelowBudget
        <4>1. ~(Total(CountedByBudget(agent)) >= Field(rule, "max_budget", 10000))
          BY <2>3, <3>1 DEF Exceeded
        <4>2. Total(CountedByBudget(agent)) \in Int
          BY TotalType DEF CountedByBudget, Of
        <4>3. Field(rule, "max_budget", 10000) \in Int
          BY <1>0, AmountsAssumption
        <4>. QED  BY <4>1, <4>2, <4>3
      <3>4. \A a \in Actions : Approving(a, rule)' => status[a] \notin {"absent", "denied"}
        <4>. SUFFICES ASSUME NEW a \in Actions, Approving(a, rule)'
                      PROVE  status[a] \in {"processing", "approved"}
          OBVIOUS
        <4>1. \/ "approved" \in verdicts[a]
              \/ \E v \in Workers : cur[v] = a /\ AtWork(v)
          BY <1>0, <1>2 DEF Approving, PastRule, AtWork
        <4>. QED  BY <4>1 DEF SoleClaim
      <3>5. Spent(rule, agent)' \subseteq CountedByBudget(agent)
        BY <1>0, <3>4 DEF Spent, Of, CountedByBudget
      <3>. QED  BY <3>3, <3>5
    <2>. QED  BY <2>2, <2>3
  <1>3. ~Fault
    BY DEF Fault, Typed, PoliciesTypeOK
  <1>. QED  BY <1>1, <1>2, <1>3 DEF CheckRule

\* However the replicas' queries interleave, what an agent's approved actions
\* spend stays below a budget that stands, in every state without a failed
\* statement, a double claim or a negative amount before it.
THEOREM BudgetKeeps == Spec => []BudgetHolds
  <1>. DEFINE Basis == Typed /\ ClaimedFirst /\ ClaimsShow /\ SoleClaim /\ Submitted
              IInv == Basis /\ BudgetKept
  <1>1. Init => IInv
    <2>. SUFFICES ASSUME Init PROVE IInv
      OBVIOUS
    <2>1. Typed
      BY InitTypes, TypeParts DEF Typed
    <2>2. ClaimedFirst /\ ClaimsShow /\ SoleClaim /\ Submitted
      BY DEF Init, ClaimedFirst, ClaimsShow, SoleClaim, Submitted, AtWork
    <2>3. \A rule, agent : Spent(rule, agent) = {}
      BY DEF Init, Spent, Of
    <2>. QED  BY <2>1, <2>2, <2>3 DEF BudgetKept, BelowBudget
  <1>2. IInv /\ [Next]_vars => IInv'
    <2>. SUFFICES ASSUME IInv, [Next]_vars PROVE IInv'
      OBVIOUS
    <2>1. Typed'
      BY EditTypes, OutsideTypes, WorkerTypes, StutterTypes DEF Next
    <2>2. ClaimedFirst' /\ ClaimsShow' /\ SoleClaim' /\ Submitted'
      BY ClaimedFirstKept, ClaimsShowKept, SoleClaimKept, SubmittedKept
    <2>3. BudgetKept'
      <3>. SUFFICES ASSUME Undisturbed', ~DryRun, NoneNegative',
                           NEW rule \in Budgets', NEW agent \in Agents
                    PROVE  BelowBudget(Spent(rule, agent), rule)'
        BY DEF BudgetKept, Agents
      <3>1. rule \in Budgets /\ rule \in Rules
        BY StandingShrinks, LimitsAreRules DEF Typed
      <3>2. Undisturbed /\ faults' = faults /\ faults = 0 /\ NoneNegative
        BY UndisturbedBefore, NoneNegativeBefore DEF Undisturbed
      <3>3. BelowBudget(Spent(rule, agent), rule)
        BY <3>1, <3>2 DEF BudgetKept
      <3>4. PICK T : T = Spent(rule, agent)'
        OBVIOUS
      <3>5. \/ T \subseteq Spent(rule, agent)
            \/ T \subseteq CountedByBudget(agent) /\ BelowBudget(CountedByBudget(agent), rule)
        <4>1. CASE \E w \in Workers : CheckRule(w)
          BY <3>1, <3>2, <3>4, <4>1, CheckRuleCounts
        <4>2. CASE ~ \E w \in Workers : CheckRule(w)
          <5>. SUFFICES ASSUME NEW a \in Actions, AgentOf[a] = agent, Approving(a, rule)'
                        PROVE  a \in Spent(rule, agent)
            BY <3>4 DEF Spent, Of
          <5>1. Approving(a, rule)
            BY <3>1, <3>2, <4>2, ApprovingBefore
          <5>2. status[a] # "absent"
            BY <5>1, ApprovingClaimed
          <5>. QED  BY <5>1, <5>2 DEF Spent, Of
        <4>. QED  BY <4>1, <4>2
      <3>6. BelowBudget(T, rule)'
        <4>1. \A a \in Spent(rule, agent) \cup CountedByBudget(agent) :
                 a \in Actions /\ status[a] # "absent"
          BY DEF Spent, CountedByBudget, Of
        <4>2. CASE T \subseteq Spent(rule, agent)
          BY <3>1, <3>2, <3>3, <4>1, <4>2, BudgetCarried
        <4>3. CASE T \subseteq CountedByBudget(agent) /\ BelowBudget(CountedByBudget(agent), rule)
          BY <3>1, <3>2, <4>1, <4>3, BudgetCarried
        <4>. QED  BY <3>5, <4>2, <4>3
      <3>. QED  BY <3>4, <3>6 DEF BelowBudget, Total
    <2>. QED  BY <2>1, <2>2, <2>3
  <1>3. IInv => BudgetHolds
    <2>. SUFFICES ASSUME IInv, Undisturbed, ~DryRun, NoneNegative,
                         NEW rule \in Budgets, NEW agent \in Agents
                  PROVE  BelowBudget(Approved(agent), rule)
      BY DEF BudgetHolds, Budgets, BelowBudget, NoneNegative
    <2>1. rule \in Rules /\ BelowBudget(Spent(rule, agent), rule)
      BY LimitsAreRules DEF BudgetKept, Typed
    <2>2. Approved(agent) \subseteq Spent(rule, agent)
      BY DEF Approved, Spent, Approving
    <2>3. \A a \in Spent(rule, agent) : a \in Actions /\ status[a] # "absent"
      BY DEF Spent, Of
    <2>. QED  BY <2>1, <2>2, <2>3, BelowBudgetIsMonotone
  <1>. QED  BY <1>1, <1>2, <1>3, PTL DEF Spec
=============================================================================
