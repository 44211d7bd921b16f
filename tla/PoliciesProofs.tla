---------------------------- MODULE PoliciesProofs ----------------------------
(***************************************************************************)
(* Which rule decides: neither order nor priority, for any table of        *)
(* policies, any rules and any actions.                                    *)
(***************************************************************************)
EXTENDS Policies, FiniteSetTheorems, SequenceTheorems, WellFoundedInduction, TLAPS

-----------------------------------------------------------------------------
(* Numbers.                                                                *)

\* The natural numbers have a least number principle.
LEMMA NatOrder ==
  \E R : IsWellFoundedOn(R, Nat) /\ \A y, z \in Nat : <<y, z>> \in R <=> y < z
  <1>1. \A y, z \in Nat : <<y, z>> \in OpToRel(<, Nat) <=> y < z
    BY DEF OpToRel
  <1>. QED  BY <1>1, NatLessThanWellFounded, Zenon

LEMMA MinIs ==
  ASSUME NEW S \in SUBSET Nat, S # {}
  PROVE  Min(S) \in S /\ \A y \in S : Min(S) <= y
  <1>1. PICK R : IsWellFoundedOn(R, Nat) /\ \A y, z \in Nat : <<y, z>> \in R <=> y < z
    BY NatOrder
  <1>2. PICK m \in S : \A y \in S : ~(<<y, m>> \in R)
    <2>1. IsWellFoundedOn(R, Nat) /\ S \subseteq Nat /\ S # {}
      BY <1>1
    <2>. QED  BY <2>1, WFMin, Zenon
  <1>3. m \in Nat /\ \A y \in S : y \in Nat
    OBVIOUS
  <1>4. \A y \in S : ~(y < m)
    BY <1>1, <1>2, <1>3
  <1>5. \A y \in S : m <= y
    BY <1>3, <1>4
  <1>. QED  BY <1>5 DEF Min

\* Induction over a set of natural numbers.
LEMMA SetInduction ==
  ASSUME NEW S, 0 \in S, \A n \in Nat : n \in S => n + 1 \in S
  PROVE  Nat \subseteq S
  <1> DEFINE T == Nat \ S
  <1>1. SUFFICES ASSUME T # {} PROVE FALSE
    OBVIOUS
  <1>2. Min(T) \in T /\ \A y \in T : Min(T) <= y
    <2>1. T \in SUBSET Nat
      OBVIOUS
    <2> HIDE DEF T
    <2>. QED  BY <1>1, <2>1, MinIs
  <1>3. PICK m \in Nat : m \notin S /\ \A y \in Nat : y \notin S => m <= y
    BY <1>2
  <1>4. m # 0 /\ m - 1 \in Nat
    BY <1>3
  <1>5. m - 1 \in S
    BY <1>3, <1>4
  <1>. QED  BY <1>3, <1>4, <1>5

-----------------------------------------------------------------------------
(* The order of the rules.                                                 *)

Before(rules, i, j) ==
    LET Priority(k) == Field(rules[k], "priority", 0)
    IN  Priority(i) < Priority(j) \/ (Priority(i) = Priority(j) /\ i <= j)

Place(rules, j) == Cardinality({i \in DOMAIN rules : Before(rules, i, j)})

LEMMA SortedAt ==
  ASSUME NEW rules, NEW n \in DOMAIN rules
  PROVE  /\ DOMAIN SortRules(rules) = DOMAIN rules
         /\ SortRules(rules)[n] = rules[CHOOSE j \in DOMAIN rules : Place(rules, j) = n]
  BY DEF SortRules, Place, Before

LEMMA BeforeIsOrder ==
  ASSUME NEW rules \in Seq(Rules)
  PROVE  /\ \A i \in DOMAIN rules : Before(rules, i, i)
         /\ \A i, j \in DOMAIN rules : Before(rules, i, j) \/ Before(rules, j, i)
         /\ \A i, j \in DOMAIN rules : Before(rules, i, j) /\ Before(rules, j, i) => i = j
         /\ \A i, j, k \in DOMAIN rules :
               Before(rules, i, j) /\ Before(rules, j, k) => Before(rules, i, k)
  <1>1. \A i \in DOMAIN rules : i \in Nat /\ rules[i] \in Rules
    BY LenProperties, ElementOfSeq
  <1>2. \A i \in DOMAIN rules : Field(rules[i], "priority", 0) \in Int
    BY <1>1, RulesAssumption
  <1>. QED  BY <1>1, <1>2 DEF Before

\* Each rule has a place of its own.
LEMMA PlaceIsBijective ==
  ASSUME NEW rules \in Seq(Rules)
  PROVE  /\ \A j \in DOMAIN rules : Place(rules, j) \in DOMAIN rules
         /\ \A i, j \in DOMAIN rules : Place(rules, i) < Place(rules, j) => Before(rules, i, j)
         /\ \A i, j \in DOMAIN rules : Place(rules, i) = Place(rules, j) => i = j
         /\ \A n \in DOMAIN rules : \E j \in DOMAIN rules : Place(rules, j) = n
  <1> DEFINE D == DOMAIN rules
             upTo(j) == {i \in D : Before(rules, i, j)}
  <1>1. D = 1 .. Len(rules) /\ Len(rules) \in Nat
    BY LenProperties
  <1>2. IsFiniteSet(D) /\ Cardinality(D) = Len(rules)
    BY <1>1, FS_Interval
  <1> HIDE DEF D
  <1>3. ASSUME NEW j \in D
        PROVE  /\ IsFiniteSet(upTo(j)) /\ Place(rules, j) = Cardinality(upTo(j))
               /\ Place(rules, j) \in D
    <2>1. upTo(j) \in SUBSET D
      OBVIOUS
    <2>2. IsFiniteSet(upTo(j)) /\ Cardinality(upTo(j)) <= Len(rules)
      BY <1>2, <2>1, FS_Subset
    <2>3. Cardinality(upTo(j)) \in Nat
      BY <2>2, FS_CardinalityType
    <2>4. Cardinality(upTo(j)) # 0
      <3>1. j \in upTo(j)
        BY BeforeIsOrder DEF D
      <3>. QED  BY <2>2, <3>1, FS_EmptySet
    <2>5. Place(rules, j) = Cardinality(upTo(j))
      BY DEF Place, D
    <2>. QED  BY <1>1, <2>2, <2>3, <2>4, <2>5
  <1>4. ASSUME NEW i \in D, NEW j \in D, Before(rules, i, j)
        PROVE  /\ Place(rules, i) <= Place(rules, j)
               /\ Place(rules, i) = Place(rules, j) => i = j
    <2>1. upTo(i) \in SUBSET upTo(j)
      BY <1>4, BeforeIsOrder DEF D
    <2>2. /\ Cardinality(upTo(i)) <= Cardinality(upTo(j))
          /\ Cardinality(upTo(j)) = Cardinality(upTo(i)) => upTo(j) = upTo(i)
      BY <1>3, <2>1, FS_Subset
    <2>3. j \in upTo(j)
      BY BeforeIsOrder DEF D
    <2>4. upTo(j) = upTo(i) => Before(rules, j, i)
      BY <2>3
    <2>. QED  BY <1>3, <1>4, <2>2, <2>4, BeforeIsOrder DEF D
  <1>5. \A i, j \in D : Place(rules, i) = Place(rules, j) => i = j
    BY <1>4, BeforeIsOrder DEF D
  <1>6. ASSUME NEW i \in D, NEW j \in D, Place(rules, i) < Place(rules, j)
        PROVE  Before(rules, i, j)
    <2>0. Place(rules, i) \in D /\ Place(rules, j) \in D
      BY <1>3
    <2>1. Place(rules, i) \in Nat /\ Place(rules, j) \in Nat
      BY <1>1, <2>0
    <2>2. Before(rules, j, i) => Place(rules, j) <= Place(rules, i)
      BY <1>4
    <2>. QED  BY <1>6, <2>1, <2>2, BeforeIsOrder DEF D
  <1>7. \A n \in D : \E j \in D : Place(rules, j) = n
    <2> DEFINE f == [j \in D |-> Place(rules, j)]
    <2>1. f \in Injection(D, D)
      BY <1>3, <1>5 DEF Injection, IsInjective
    <2>2. f \in Surjection(D, D)
      <3> HIDE DEF f
      <3>. QED  BY <1>2, <2>1, FS_Injection
    <2>. QED  BY <2>2 DEF Surjection
  <1>. QED  BY <1>3, <1>5, <1>6, <1>7 DEF D

\* SortRules is a stable sort by priority: p says which rule comes where.
SortsBy(rules, sorted, p) ==
    /\ DOMAIN sorted = DOMAIN rules
    /\ p \in [DOMAIN rules -> DOMAIN rules]
    /\ \A n \in DOMAIN rules : sorted[n] = rules[p[n]]
    /\ \A j \in DOMAIN rules : \E n \in DOMAIN rules : p[n] = j
    /\ \A m, n \in DOMAIN rules : m < n => p[m] # p[n] /\ Before(rules, p[m], p[n])

LEMMA SortRulesSorts ==
  ASSUME NEW rules \in Seq(Rules)
  PROVE  \E p : SortsBy(rules, SortRules(rules), p)
  <1> DEFINE D == DOMAIN rules
             p == [n \in D |-> CHOOSE j \in D : Place(rules, j) = n]
  <1>1. D = 1 .. Len(rules) /\ Len(rules) \in Nat
    BY LenProperties
  <1>2. ASSUME NEW n \in D PROVE p[n] \in D /\ Place(rules, p[n]) = n
    BY PlaceIsBijective
  <1>3. \A n \in D : SortRules(rules)[n] = rules[p[n]]
    BY SortedAt
  <1>4. DOMAIN SortRules(rules) = D
    BY DEF SortRules
  <1>5. p \in [D -> D]
    BY <1>2
  <1> HIDE DEF p
  <1>6. ASSUME NEW j \in D PROVE \E n \in D : p[n] = j
    <2>1. Place(rules, j) \in D
      BY PlaceIsBijective
    <2>2. p[Place(rules, j)] = j
      BY <1>2, <2>1, PlaceIsBijective
    <2>. QED  BY <2>1, <2>2
  <1>7. ASSUME NEW m \in D, NEW n \in D, m < n PROVE p[m] # p[n] /\ Before(rules, p[m], p[n])
    <2>1. /\ p[m] \in D /\ p[n] \in D
          /\ Place(rules, p[m]) < Place(rules, p[n])
      BY <1>2, <1>7
    <2>2. Before(rules, p[m], p[n])
      BY <2>1, PlaceIsBijective
    <2>3. m # n
      BY <1>1, <1>7
    <2>4. p[m] # p[n]
      BY <1>2, <2>3
    <2>. QED  BY <2>2, <2>4
  <1>. QED  BY <1>3, <1>4, <1>5, <1>6, <1>7 DEF SortsBy

-----------------------------------------------------------------------------
(* The policies in force.                                                  *)

LEMMA RulesOfPolicy ==
  ASSUME PoliciesTypeOK, NEW i \in DOMAIN policies
  PROVE  RulesOf(policies[i]) \in Seq(Rules)
  <1>1. policies[i] \in Rows
    BY DEF PoliciesTypeOK
  <1>2. policies[i].rules \in RuleSets
    BY <1>1 DEF Rows
  <1>3. policies[i].rules = Null \/ policies[i].rules \in Seq(Rules)
    BY <1>2, PoliciesAssumption
  <1>4. <<>> \in Seq(Rules)
    OBVIOUS
  <1>. QED  BY <1>3, <1>4 DEF RulesOf

LEMMA InForceIs ==
  ASSUME PoliciesTypeOK
  PROVE  /\ DOMAIN InForce \subseteq DOMAIN policies /\ DOMAIN InForce \subseteq Nat
         /\ \A i \in DOMAIN InForce : InForce[i] = policies[i]
         /\ DOMAIN InForce \subseteq DOMAIN Active
         /\ \A i \in DOMAIN Active : i \in DOMAIN policies /\ Active[i] = policies[i]
  <1>1. DOMAIN policies \subseteq Nat
    BY LenProperties DEF PoliciesTypeOK
  <1>. QED  BY <1>1 DEF InForce, Active, Restrict

\* Some rule denies, in whatever order they come.
LEMMA SortedDenies ==
  ASSUME NEW rules \in Seq(Rules), NEW input
  PROVE  (\E n \in DOMAIN rules : EvaluateRule(SortRules(rules)[n], input).immediate_deny)
           <=> \E n \in DOMAIN rules : EvaluateRule(rules[n], input).immediate_deny
  <1>1. PICK p : SortsBy(rules, SortRules(rules), p)
    BY SortRulesSorts
  <1>. QED  BY <1>1 DEF SortsBy

\* The rules of a policy that end an evaluation.
Denials(policy, input) ==
    {n \in DOMAIN RulesOf(policy) :
       EvaluateRule(SortRules(RulesOf(policy))[n], input).immediate_deny}

Denying(input) == {i \in DOMAIN InForce : Denials(InForce[i], input) # {}}

LEMMA UncountedIs ==
  ASSUME NEW input
  PROVE  LET first == Min(Denying(input)) IN
         /\ Uncounted(input).immediate_deny <=> Denying(input) # {}
         /\ Denying(input) # {} =>
              /\ Uncounted(input).matched_policy_id = InForce[first].id
              /\ Uncounted(input).risk_level =
                   EvaluateRule(SortRules(RulesOf(InForce[first]))[Min(Denials(InForce[first], input))],
                                input).risk_level
  BY DEF Uncounted, EvaluateSync, Denying, Denials

LEMMA DenialsAreCondemning ==
  ASSUME PoliciesTypeOK, NEW input, NEW i \in DOMAIN policies
  PROVE  Denials(policies[i], input) # {} <=> Condemns(policies[i], input)
  BY RulesOfPolicy, SortedDenies DEF Denials, Condemns

\* The order in which rules and policies are taken does not decide.
LEMMA DeniesIfCondemns == PoliciesTypeOK => DeniedIfCondemned
  <1>. SUFFICES ASSUME PoliciesTypeOK, NEW input \in Inputs
                PROVE  LET condemning == {i \in DOMAIN InForce : Condemns(InForce[i], input)} IN
                       /\ Uncounted(input).immediate_deny <=> condemning # {}
                       /\ condemning # {} => Uncounted(input).matched_policy_id = InForce[Min(condemning)].id
    BY DEF DeniedIfCondemned
  <1>1. Denying(input) = {i \in DOMAIN InForce : Condemns(InForce[i], input)}
    BY InForceIs, DenialsAreCondemning DEF Denying
  <1>. QED  BY <1>1, UncountedIs

-----------------------------------------------------------------------------
(* The simulation.                                                         *)

\* A policy that denies is reported with the risk of its first denial: of what
\* the simulation has seen by then, that is the last.
LEMMA TestPolicyIs ==
  ASSUME PoliciesTypeOK, NEW i \in DOMAIN policies, NEW input, input = Sample(input)
  PROVE  LET tested == TestPolicy(RulesOf(policies[i]), input)
             denials == Denials(policies[i], input)
         IN  /\ tested.immediate_deny <=> denials # {}
             /\ denials # {} =>
                  tested.risk_level =
                    EvaluateRule(SortRules(RulesOf(policies[i]))[Min(denials)], input).risk_level
  <1> DEFINE rules == RulesOf(policies[i])
             sorted == SortRules(rules)
             outcome == [n \in DOMAIN sorted |-> EvaluateRule(sorted[n], Sample(input))]
             denials == {n \in DOMAIN sorted : outcome[n].immediate_deny}
             seen == {n \in DOMAIN sorted :
                        outcome[n] # NoMatch /\ (denials = {} \/ n <= Min(denials))}
  <1>1. rules \in Seq(Rules) /\ DOMAIN sorted = DOMAIN rules /\ DOMAIN sorted \subseteq Nat
    BY RulesOfPolicy, LenProperties DEF SortRules
  <1>2. denials = Denials(policies[i], input)
    BY <1>1 DEF Denials
  <1>3. /\ TestPolicy(rules, input).immediate_deny = (denials # {})
        /\ TestPolicy(rules, input).risk_level = IF seen = {} THEN Null ELSE outcome[Max(seen)].risk_level
    BY DEF TestPolicy
  <1>4. ASSUME denials # {}
        PROVE  seen # {} /\ Max(seen) = Min(denials)
    <2> DEFINE m == Min(denials)
    <2>1. denials \in SUBSET Nat
      BY <1>1
    <2>2. m \in denials
      <3> HIDE DEF denials
      <3>. QED  BY <1>4, <2>1, MinIs
    <2>3. m \in DOMAIN sorted /\ m \in Nat /\ outcome[m].immediate_deny
      BY <1>1, <2>2
    <2>4. outcome[m] # NoMatch
      BY <2>3 DEF NoMatch
    <2> HIDE DEF outcome
    <2>5. m \in seen /\ \A n \in seen : n \in Nat /\ n <= m
      BY <1>1, <1>4, <2>3, <2>4
    <2> HIDE DEF seen, m
    <2>6. \A n \in seen : m >= n
      BY <2>3, <2>5
    <2>7. \A x \in seen : (\A n \in seen : x >= n) => x = m
      BY <2>3, <2>5
    <2>8. Max(seen) = m
      BY <2>5, <2>6, <2>7 DEF Max
    <2>. QED  BY <2>5, <2>8 DEF m
  <1> HIDE DEF seen, denials
  <1>5. denials # {} => /\ Min(denials) \in DOMAIN sorted
                        /\ outcome[Min(denials)] = EvaluateRule(sorted[Min(denials)], input)
    <2>1. denials \in SUBSET Nat /\ denials \subseteq DOMAIN sorted
      BY <1>1 DEF denials
    <2>2. denials # {} => Min(denials) \in DOMAIN sorted
      BY <2>1, MinIs
    <2>. QED  BY <2>2
  <1> HIDE DEF outcome, sorted
  <1>6. denials # {} => TestPolicy(rules, input).risk_level = outcome[Min(denials)].risk_level
    BY <1>3, <1>4
  <1>7. TestPolicy(rules, input).immediate_deny <=> denials # {}
    BY <1>3
  <1>. QED  BY <1>2, <1>5, <1>6, <1>7 DEF sorted

LEMMA SimulationAgrees == PoliciesTypeOK => SimulationPredicts
  <1>. SUFFICES ASSUME PoliciesTypeOK, NEW input \in Inputs, input = Sample(input)
                PROVE  LET simulated == SimulatePolicies(Active, input)
                           denying == {i \in DOMAIN InForce : simulated[i].immediate_deny}
                       IN  /\ Uncounted(input).immediate_deny <=> denying # {}
                           /\ denying # {} =>
                                /\ Uncounted(input).matched_policy_id = InForce[Min(denying)].id
                                /\ Uncounted(input).risk_level = simulated[Min(denying)].risk_level
    BY DEF SimulationPredicts
  <1> DEFINE simulated == SimulatePolicies(Active, input)
  <1>1. ASSUME NEW i \in DOMAIN InForce
        PROVE  /\ simulated[i].immediate_deny <=> Denials(InForce[i], input) # {}
               /\ Denials(InForce[i], input) # {} =>
                    simulated[i].risk_level =
                      EvaluateRule(SortRules(RulesOf(InForce[i]))[Min(Denials(InForce[i], input))],
                                   input).risk_level
    <2>1. i \in DOMAIN Active /\ Active[i] = policies[i] /\ i \in DOMAIN policies
          /\ InForce[i] = policies[i]
      BY InForceIs
    <2>2. simulated[i] = TestPolicy(RulesOf(policies[i]), input)
      BY <2>1 DEF SimulatePolicies
    <2> HIDE DEF simulated
    <2>. QED  BY <2>1, <2>2, TestPolicyIs
  <1>2. {i \in DOMAIN InForce : simulated[i].immediate_deny} = Denying(input)
    BY <1>1 DEF Denying
  <1>3. Denying(input) # {} => Min(Denying(input)) \in DOMAIN InForce
                               /\ Denials(InForce[Min(Denying(input))], input) # {}
    <2>1. Denying(input) \in SUBSET Nat
      BY InForceIs DEF Denying
    <2>2. Denying(input) # {} => Min(Denying(input)) \in Denying(input)
      BY <2>1, MinIs
    <2>. QED  BY <2>2 DEF Denying
  <1> HIDE DEF simulated
  <1>4. Denying(input) # {} => Uncounted(input).risk_level = simulated[Min(Denying(input))].risk_level
    BY <1>1, <1>3, UncountedIs
  <1>5. (Uncounted(input).immediate_deny <=> Denying(input) # {})
        /\ (Denying(input) # {} => Uncounted(input).matched_policy_id = InForce[Min(Denying(input))].id)
    BY UncountedIs
  <1>. QED  BY <1>2, <1>4, <1>5 DEF simulated

-----------------------------------------------------------------------------
(* Rules and their parts.                                                  *)

LEMMA OutcomeOfParts ==
  ASSUME NEW rule, NEW input, NEW f, NEW g,
         IsComposite(rule) => \A i \in DOMAIN Parts(rule) : f[Parts(rule)[i]] = g[Parts(rule)[i]]
  PROVE  OutcomeOf(rule, input, f) = OutcomeOf(rule, input, g)
  <1>1. CASE IsComposite(rule)
    <2>1. [i \in DOMAIN Parts(rule) |-> f[Parts(rule)[i]]] = [i \in DOMAIN Parts(rule) |-> g[Parts(rule)[i]]]
      BY <1>1
    <2>. QED  BY <2>1 DEF OutcomeOf
  <1>2. CASE ~IsComposite(rule)
    BY <1>2 DEF OutcomeOf
  <1>. QED  BY <1>1, <1>2

LEMMA PartsAreRules ==
  ASSUME NEW rule \in Rules, IsComposite(rule)
  PROVE  DOMAIN Parts(rule) \subseteq Nat /\ \A i \in DOMAIN Parts(rule) : Parts(rule)[i] \in Rules
  <1>1. Parts(rule) \in Seq(Rules)
    BY RulesAssumption
  <1>. QED  BY <1>1, LenProperties, ElementOfSeq

\* Since parts are nested less deep than the rule, there are such outcomes.
LEMMA OutcomesExist ==
  ASSUME NEW input
  PROVE  \E f : f = [rule \in Rules |-> OutcomeOf(rule, input, f)]
  <1> DEFINE Good(f, n) == \A rule \in Rules : Nesting[rule] < n => f[rule] = OutcomeOf(rule, input, f)
             S == {n \in Nat : \E f : Good(f, n)}
  <1>1. \A rule \in Rules : Nesting[rule] \in Nat /\ Nesting[rule] < MaxNesting + 1
    <2>1. Nesting \in [Rules -> 0 .. MaxNesting] /\ MaxNesting \in Nat
      BY RulesAssumption DEF MaxNesting
    <2>. QED  BY <2>1
  <1>2. 0 \in S
    <2>1. Good(Nesting, 0)
      BY <1>1
    <2>. QED  BY <2>1
  <1>3. ASSUME NEW n \in Nat, n \in S PROVE n + 1 \in S
    <2>1. PICK f : Good(f, n)
      BY <1>3
    <2> DEFINE g == [rule \in Rules |-> OutcomeOf(rule, input, f)]
    <2>2. \A rule \in Rules : Nesting[rule] < n => g[rule] = f[rule]
      BY <2>1
    <2>3. ASSUME NEW rule \in Rules, Nesting[rule] < n + 1
          PROVE  OutcomeOf(rule, input, f) = OutcomeOf(rule, input, g)
      <3>1. ASSUME IsComposite(rule), NEW i \in DOMAIN Parts(rule)
            PROVE  f[Parts(rule)[i]] = g[Parts(rule)[i]]
        <4>1. Parts(rule)[i] \in Rules /\ Nesting[Parts(rule)[i]] < Nesting[rule]
          BY <3>1, RulesAssumption, PartsAreRules
        <4>2. Nesting[Parts(rule)[i]] < n
          BY <1>1, <2>3, <4>1
        <4>. QED  BY <2>2, <4>1, <4>2
      <3> HIDE DEF g
      <3>. QED  BY <3>1, OutcomeOfParts
    <2>4. Good(g, n + 1)
      BY <2>3
    <2> HIDE DEF Good, g
    <2>. QED  BY <2>4
  <1>4. MaxNesting + 1 \in S
    <2>1. Nat \subseteq S
      <3> HIDE DEF S
      <3>. QED  BY <1>2, <1>3, SetInduction
    <2>2. MaxNesting + 1 \in Nat
      BY DEF MaxNesting
    <2> HIDE DEF S
    <2>. QED  BY <2>1, <2>2
  <1>5. PICK f : Good(f, MaxNesting + 1)
    BY <1>4
  <1>6. \A rule \in Rules : f[rule] = OutcomeOf(rule, input, f)
    BY <1>1, <1>5
  <1> DEFINE g == [rule \in Rules |-> OutcomeOf(rule, input, f)]
  <1>7. ASSUME NEW rule \in Rules PROVE OutcomeOf(rule, input, f) = OutcomeOf(rule, input, g)
    <2>1. ASSUME IsComposite(rule), NEW i \in DOMAIN Parts(rule)
          PROVE  f[Parts(rule)[i]] = g[Parts(rule)[i]]
      <3>1. Parts(rule)[i] \in Rules
        BY <2>1, PartsAreRules
      <3>. QED  BY <1>6, <3>1
    <2> HIDE DEF g
    <2>. QED  BY <2>1, OutcomeOfParts
  <1>8. g = [rule \in Rules |-> OutcomeOf(rule, input, g)]
    BY <1>7
  <1>. QED  BY <1>8

\* EvaluateRule computes them.
LEMMA EvaluateRuleIs ==
  ASSUME NEW input, NEW rule \in Rules
  PROVE  EvaluateRule(rule, input) = OutcomeOf(rule, input, [r \in Rules |-> EvaluateRule(r, input)])
  <1> DEFINE Solves(f) == f = [r \in Rules |-> OutcomeOf(r, input, f)]
             evaluate == CHOOSE f : Solves(f)
  <1>1. \A r \in Rules : EvaluateRule(r, input) = evaluate[r]
    BY DEF EvaluateRule
  <1>2. Solves(evaluate)
    <2>1. \E f : Solves(f)
      BY OutcomesExist
    <2> HIDE DEF Solves
    <2>. QED  BY <2>1
  <1> HIDE DEF evaluate
  <1>3. evaluate = [r \in Rules |-> EvaluateRule(r, input)]
    BY <1>1, <1>2
  <1>4. evaluate[rule] = OutcomeOf(rule, input, evaluate)
    BY <1>2
  <1>. QED  BY <1>1, <1>3, <1>4

-----------------------------------------------------------------------------
(* Misspelt rules.                                                         *)

typo == [type |-> "typo"]

LEMMA TypoDenies ==
  ASSUME NEW input, typo \in Rules
  PROVE  EvaluateRule(typo, input) = Outcome(TRUE, High)
  <1>1. Has(typo, "type") /\ typo.type = "typo"
    BY DEF typo, Has
  <1>2. ~IsComposite(typo)
    BY <1>1 DEF IsComposite
  <1>3. EvaluateRule(typo, input) = EvaluateSimple(typo, input)
    BY <1>1, <1>2, EvaluateRuleIs DEF OutcomeOf
  <1>4. typo.type \notin SyncRuleTypes /\ typo.type \notin ASYNC_RULE_TYPES
    BY <1>1 DEF SyncRuleTypes, Effect, ASYNC_RULE_TYPES
  <1>. QED  BY <1>3, <1>4 DEF EvaluateSimple

\* A composite rule one of whose parts comes to deny.
LEMMA CompositeTightens ==
  ASSUME NEW type \in {"and", "or"}, NEW outcomes, NEW tighter, NEW i \in DOMAIN outcomes,
         DOMAIN outcomes \subseteq Nat, DOMAIN tighter = DOMAIN outcomes,
         \A j \in DOMAIN outcomes \ {i} : tighter[j] = outcomes[j],
         tighter[i].immediate_deny
  PROVE  \/ EvaluateComposite(type, tighter) = EvaluateComposite(type, outcomes)
         \/ EvaluateComposite(type, tighter).immediate_deny
  <1> DEFINE matching == {j \in DOMAIN outcomes : outcomes[j] # NoMatch}
             matching2 == {j \in DOMAIN tighter : tighter[j] # NoMatch}
  <1>1. tighter[i] # NoMatch
    BY DEF NoMatch
  <1>3. matching2 = matching \cup {i}
    BY <1>1
  <1>4. CASE type = "and"
    <2>1. CASE matching2 = DOMAIN outcomes
      <3>1. EvaluateComposite(type, tighter) = MergeOutcomes(tighter)
        BY <1>4, <2>1 DEF EvaluateComposite
      <3>2. tighter # <<>>
        OBVIOUS
      <3>. QED  BY <3>1, <3>2 DEF MergeOutcomes, Outcome
    <2>2. CASE matching2 # DOMAIN outcomes
      <3>1. matching # DOMAIN outcomes
        BY <1>3, <2>2
      <3>2. EvaluateComposite(type, tighter) = NoMatch /\ EvaluateComposite(type, outcomes) = NoMatch
        BY <1>4, <2>2, <3>1 DEF EvaluateComposite
      <3>. QED  BY <3>2
    <2>. QED  BY <2>1, <2>2
  <1>5. CASE type = "or"
    <2>1. Min(matching2) \in matching2 /\ \A j \in matching2 : Min(matching2) <= j
      <3>1. matching2 \in SUBSET Nat /\ matching2 # {}
        BY <1>3
      <3> HIDE DEF matching, matching2
      <3>. QED  BY <3>1, MinIs
    <2>2. EvaluateComposite(type, tighter) = tighter[Min(matching2)]
      BY <1>3, <1>5 DEF EvaluateComposite
    <2>3. CASE Min(matching2) = i
      BY <2>2, <2>3
    <2>4. CASE Min(matching2) # i
      <3>1. Min(matching2) \in matching
        BY <1>3, <2>1, <2>4
      <3>2. Min(matching) \in matching /\ \A j \in matching : Min(matching) <= j
        <4>1. matching \in SUBSET Nat
          OBVIOUS
        <4> HIDE DEF matching, matching2
        <4>. QED  BY <3>1, <4>1, MinIs
      <3>3. Min(matching2) = Min(matching)
        <4>1. Min(matching2) \in Nat /\ Min(matching) \in Nat
          BY <3>1, <3>2
        <4>2. Min(matching) \in matching2
          BY <1>3, <3>2
        <4> HIDE DEF matching, matching2
        <4>. QED  BY <2>1, <3>1, <3>2, <4>1, <4>2
      <3>4. tighter[Min(matching2)] = outcomes[Min(matching2)]
        BY <2>4, <3>1
      <3>5. EvaluateComposite(type, outcomes) = outcomes[Min(matching)]
        BY <1>5, <3>1 DEF EvaluateComposite
      <3>. QED  BY <2>2, <3>3, <3>4, <3>5
    <2>. QED  BY <2>3, <2>4
  <1>. QED  BY <1>4, <1>5

\* Again, since parts are nested less deep than the rule: the misspelt rules
\* of a rule are those its parts give it.
LEMMA MisspeltExist == \E f : f = [rule \in Rules |-> Misspell(rule, f)]
  <1> DEFINE Good(f, n) == \A rule \in Rules : Nesting[rule] < n => f[rule] = Misspell(rule, f)
             S == {n \in Nat : \E f : Good(f, n)}
  <1>0. ASSUME NEW rule, NEW f, NEW g,
               IsComposite(rule) => \A i \in DOMAIN Parts(rule) : f[Parts(rule)[i]] = g[Parts(rule)[i]]
        PROVE  Misspell(rule, f) = Misspell(rule, g)
    BY <1>0 DEF Misspell
  <1>1. \A rule \in Rules : Nesting[rule] \in Nat /\ Nesting[rule] < MaxNesting + 1
    <2>1. Nesting \in [Rules -> 0 .. MaxNesting] /\ MaxNesting \in Nat
      BY RulesAssumption DEF MaxNesting
    <2>. QED  BY <2>1
  <1>2. 0 \in S
    <2>1. Good(Nesting, 0)
      BY <1>1
    <2>. QED  BY <2>1
  <1>3. ASSUME NEW n \in Nat, n \in S PROVE n + 1 \in S
    <2>1. PICK f : Good(f, n)
      BY <1>3
    <2> DEFINE g == [rule \in Rules |-> Misspell(rule, f)]
    <2>2. \A rule \in Rules : Nesting[rule] < n => g[rule] = f[rule]
      BY <2>1
    <2>3. ASSUME NEW rule \in Rules, Nesting[rule] < n + 1
          PROVE  Misspell(rule, f) = Misspell(rule, g)
      <3>1. ASSUME IsComposite(rule), NEW i \in DOMAIN Parts(rule)
            PROVE  f[Parts(rule)[i]] = g[Parts(rule)[i]]
        <4>1. Parts(rule)[i] \in Rules /\ Nesting[Parts(rule)[i]] < Nesting[rule]
          BY <3>1, RulesAssumption, PartsAreRules
        <4>2. Nesting[Parts(rule)[i]] < n
          BY <1>1, <2>3, <4>1
        <4>. QED  BY <2>2, <4>1, <4>2
      <3> HIDE DEF g
      <3>. QED  BY <3>1, <1>0
    <2>4. Good(g, n + 1)
      BY <2>3
    <2> HIDE DEF Good, g
    <2>. QED  BY <2>4
  <1>4. MaxNesting + 1 \in S
    <2>1. Nat \subseteq S
      <3> HIDE DEF S
      <3>. QED  BY <1>2, <1>3, SetInduction
    <2>2. MaxNesting + 1 \in Nat
      BY DEF MaxNesting
    <2> HIDE DEF S
    <2>. QED  BY <2>1, <2>2
  <1>5. PICK f : Good(f, MaxNesting + 1)
    BY <1>4
  <1>6. \A rule \in Rules : f[rule] = Misspell(rule, f)
    BY <1>1, <1>5
  <1> DEFINE g == [rule \in Rules |-> Misspell(rule, f)]
  <1>7. ASSUME NEW rule \in Rules PROVE Misspell(rule, f) = Misspell(rule, g)
    <2>1. ASSUME IsComposite(rule), NEW i \in DOMAIN Parts(rule)
          PROVE  f[Parts(rule)[i]] = g[Parts(rule)[i]]
      <3>1. Parts(rule)[i] \in Rules
        BY <2>1, PartsAreRules
      <3>. QED  BY <1>6, <3>1
    <2> HIDE DEF g
    <2>. QED  BY <2>1, <1>0
  <1>8. g = [rule \in Rules |-> Misspell(rule, g)]
    BY <1>7
  <1>. QED  BY <1>8

LEMMA MisspeltIs == \A rule \in Rules : Misspelt[rule] = Misspell(rule, Misspelt)
  <1> DEFINE Solves(f) == f = [rule \in Rules |-> Misspell(rule, f)]
  <1>1. Misspelt = CHOOSE f : Solves(f)
    BY DEF Misspelt
  <1>2. \E f : Solves(f)
    BY MisspeltExist
  <1>3. Solves(Misspelt)
    <2> HIDE DEF Solves
    <2>. QED  BY <1>1, <1>2
  <1>. QED  BY <1>3

\* What a typo may do to the outcome of a rule.
AtMostTightens(rule, misspelt, input) ==
    \/ EvaluateRule(misspelt, input) = EvaluateRule(rule, input)
    \/ EvaluateRule(misspelt, input).immediate_deny

\* A composite rule tightens at most if its part does.
LEMMA PartTightens ==
  ASSUME NEW input, NEW rule \in Rules, IsComposite(rule), NEW i \in DOMAIN Parts(rule),
         NEW part \in Rules, AtMostTightens(Parts(rule)[i], part, input),
         NEW misspelt \in Rules, misspelt = [rule EXCEPT !.rules[i] = part]
  PROVE  AtMostTightens(rule, misspelt, input)
  <1> DEFINE all == [r \in Rules |-> EvaluateRule(r, input)]
             outcomes == [j \in DOMAIN Parts(rule) |-> all[Parts(rule)[j]]]
             tighter == [j \in DOMAIN Parts(misspelt) |-> all[Parts(misspelt)[j]]]
  <1>1. /\ DOMAIN misspelt = DOMAIN rule
        /\ \A field \in DOMAIN rule \ {"rules"} : misspelt[field] = rule[field]
        /\ DOMAIN Parts(misspelt) = DOMAIN Parts(rule)
        /\ Parts(misspelt)[i] = part
        /\ \A j \in DOMAIN Parts(rule) \ {i} : Parts(misspelt)[j] = Parts(rule)[j]
    <2>1. "rules" \in DOMAIN rule /\ Parts(rule) = rule.rules
      BY DEF Parts, Field, Has
    <2>2. Parts(misspelt) = [rule.rules EXCEPT ![i] = part]
      BY <2>1 DEF Parts, Field, Has
    <2>. QED  BY <2>1, <2>2
  <1>2. /\ Has(rule, "type") /\ rule.type \in {"and", "or"}
        /\ Has(misspelt, "type") /\ misspelt.type = rule.type /\ IsComposite(misspelt)
    BY <1>1 DEF Has, IsComposite
  <1>3. /\ EvaluateRule(rule, input) = OutcomeOf(rule, input, all)
        /\ EvaluateRule(misspelt, input) = OutcomeOf(misspelt, input, all)
    BY EvaluateRuleIs
  <1>4. /\ EvaluateRule(rule, input) = EvaluateComposite(rule.type, outcomes)
        /\ EvaluateRule(misspelt, input) = EvaluateComposite(rule.type, tighter)
    BY <1>2, <1>3 DEF OutcomeOf
  <1>5. /\ DOMAIN tighter = DOMAIN outcomes /\ i \in DOMAIN outcomes
        /\ \A j \in DOMAIN outcomes \ {i} : tighter[j] = outcomes[j]
    BY <1>1
  <1>6. /\ tighter[i] = EvaluateRule(part, input)
        /\ outcomes[i] = EvaluateRule(Parts(rule)[i], input)
    BY <1>1, PartsAreRules
  <1>7. DOMAIN outcomes \subseteq Nat
    BY PartsAreRules
  <1>8. tighter[i] = outcomes[i] => tighter = outcomes
    BY <1>5
  <1> HIDE DEF outcomes, tighter
  <1>9. tighter[i] = outcomes[i] \/ tighter[i].immediate_deny
    BY <1>6 DEF AtMostTightens
  <1>10. CASE tighter[i] = outcomes[i]
    BY <1>4, <1>8, <1>10 DEF AtMostTightens
  <1>11. CASE tighter[i].immediate_deny
    BY <1>2, <1>4, <1>5, <1>7, <1>11, CompositeTightens DEF AtMostTightens
  <1>. QED  BY <1>9, <1>10, <1>11

LEMMA MisspeltTightens ==
  ASSUME NEW input, NEW rule \in Rules, Misspelt[rule] \subseteq Rules,
         NEW misspelt \in Misspelt[rule]
  PROVE  AtMostTightens(rule, misspelt, input)
  <1> DEFINE S == {n \in Nat : \A r \in Rules :
                      Nesting[r] < n /\ Misspelt[r] \subseteq Rules =>
                        \A m \in Misspelt[r] : AtMostTightens(r, m, input)}
  <1>1. \A r \in Rules : Nesting[r] \in Nat
    <2>1. Nesting \in [Rules -> 0 .. MaxNesting] /\ MaxNesting \in Nat
      BY RulesAssumption DEF MaxNesting
    <2>. QED  BY <2>1
  <1>2. 0 \in S
    BY <1>1
  <1>3. ASSUME NEW n \in Nat, n \in S PROVE n + 1 \in S
    <2>. SUFFICES ASSUME NEW r \in Rules, Nesting[r] < n + 1, Misspelt[r] \subseteq Rules,
                         NEW m \in Misspelt[r]
                  PROVE  AtMostTightens(r, m, input)
      OBVIOUS
    <2>1. Misspelt[r] = Misspell(r, Misspelt)
      BY MisspeltIs
    <2>2. m \in Rules
      OBVIOUS
    <2>3. CASE m = typo
      <3>1. Outcome(TRUE, High).immediate_deny
        BY DEF Outcome
      <3>. QED  BY <2>2, <2>3, <3>1, TypoDenies DEF AtMostTightens
    <2>4. CASE m # typo
      <3>1. IsComposite(r)
        BY <2>1, <2>4 DEF Misspell, typo
      <3>2. PICK i \in DOMAIN Parts(r) :
               m \in {[r EXCEPT !.rules[i] = part] : part \in Misspelt[Parts(r)[i]]}
        BY <2>1, <2>4, <3>1 DEF Misspell, typo
      <3>3. PICK part \in Misspelt[Parts(r)[i]] : m = [r EXCEPT !.rules[i] = part]
        BY <3>2
      <3>4. Parts(r)[i] \in Rules /\ Nesting[Parts(r)[i]] < n
        <4>1. Parts(r)[i] \in Rules /\ Nesting[Parts(r)[i]] < Nesting[r]
          BY <3>1, RulesAssumption, PartsAreRules
        <4>. QED  BY <1>1, <4>1
      <3>5. ASSUME NEW p \in Misspelt[Parts(r)[i]] PROVE p \in Rules
        <4> DEFINE q == [r EXCEPT !.rules[i] = p]
        <4>1. q \in Rules
          BY <2>1, <3>1 DEF Misspell
        <4>2. Parts(q)[i] = p /\ i \in DOMAIN Parts(q) /\ IsComposite(q)
          <5>1. "rules" \in DOMAIN r /\ Parts(r) = r.rules
            BY DEF Parts, Field, Has
          <5>2. Parts(q) = [r.rules EXCEPT ![i] = p]
            BY <5>1 DEF Parts, Field, Has
          <5>. QED  BY <3>1, <5>1, <5>2 DEF IsComposite, Has
        <4> HIDE DEF q
        <4>. QED  BY <4>1, <4>2, PartsAreRules
      <3>6. AtMostTightens(Parts(r)[i], part, input)
        BY <1>3, <3>4, <3>5
      <3>7. part \in Rules
        BY <3>5
      <3>. HIDE DEF S
      <3>. QED  BY <2>2, <3>1, <3>3, <3>6, <3>7, PartTightens
    <2>. QED  BY <2>3, <2>4
  <1>4. Nesting[rule] + 1 \in S
    <2>1. Nat \subseteq S
      <3> HIDE DEF S
      <3>. QED  BY <1>2, <1>3, SetInduction
    <2> HIDE DEF S
    <2>. QED  BY <1>1, <2>1
  <1>. QED  BY <1>1, <1>4

LEMMA TyposTighten == PoliciesTypeOK => TyposOnlyTighten
  <1>. SUFFICES ASSUME PoliciesTypeOK, NEW i \in DOMAIN policies,
                       NEW n \in DOMAIN RulesOf(policies[i])
                PROVE  RulesOf(policies[i])[n] \in TypoTight
    BY DEF TyposOnlyTighten
  <1> DEFINE rules == policies[i].rules
             rule == rules[n]
  <1>1. rules \in RuleSets
    <2>1. policies[i] \in Rows
      BY ElementOfSeq, LenProperties DEF PoliciesTypeOK
    <2>. QED  BY <2>1 DEF Rows
  <1>2. rules # Null /\ RulesOf(policies[i]) = rules
    BY DEF RulesOf
  <1>3. rule \in Rules /\ Misspelt[rule] \subseteq Rules
    <2>1. Misspelt[rule] \subseteq Rules
      BY <1>1, <1>2, PoliciesAssumption
    <2>2. RulesOf(policies[i])[n] \in Rules
      BY RulesOfPolicy, ElementOfSeq, LenProperties
    <2>. QED  BY <1>2, <2>1, <2>2
  <1>4. rule \in UNION {Range(r) : r \in RuleSets \ {Null}}
    <2>1. rule \in Range(rules)
      BY <1>2 DEF Range
    <2>. QED  BY <1>1, <1>2, <2>1
  <1> HIDE DEF rule
  <1>5. \A misspelt \in Misspelt[rule], input \in Inputs : AtMostTightens(rule, misspelt, input)
    BY <1>3, MisspeltTightens
  <1>6. rule \in TypoTight
    BY <1>4, <1>5 DEF TypoTight, AtMostTightens
  <1>. QED  BY <1>2, <1>6 DEF rule

-----------------------------------------------------------------------------
(* The policies table under the admin's handlers alone.                    *)

USE PoliciesAssumption

LEMMA TableInit == PoliciesInit => PoliciesTypeOK
  <1>. SUFFICES ASSUME PoliciesInit PROVE PoliciesTypeOK
    OBVIOUS
  <1>. PICK t \in Tables :
          policies = [i \in DOMAIN t |-> [id |-> i, rules |-> t[i].rules, active |-> t[i].active,
                                          due |-> t[i].due, touched |-> FALSE]]
    BY DEF PoliciesInit
  <1>1. t \in Seq([rules : RuleSets, active : BOOLEAN, due : BOOLEAN]) /\ Len(t) <= MaxPolicies
    OBVIOUS
  <1>2. DOMAIN t = 1..Len(t) /\ Len(t) \in Nat
    BY <1>1
  <1>3. ASSUME NEW i \in DOMAIN t
        PROVE  policies[i] \in Rows /\ policies[i].id = i
    <2>1. i \in Ids
      BY <1>1, <1>2 DEF Ids
    <2>4. t[i] \in [rules : RuleSets, active : BOOLEAN, due : BOOLEAN]
      BY <1>1, <1>2, ElementOfSeq
    <2>2. policies[i] = [id |-> i, rules |-> t[i].rules, active |-> t[i].active,
                         due |-> t[i].due, touched |-> FALSE]
      OBVIOUS
    <2>3. t[i].rules \in RuleSets /\ t[i].active \in BOOLEAN /\ t[i].due \in BOOLEAN
      BY <2>4
    <2>. QED  BY <2>1, <2>2, <2>3, Zenon DEF Rows
  <1>4. policies \in [1..Len(t) -> Rows]
    BY <1>2, <1>3
  <1>5. policies \in Seq(Rows) /\ Len(policies) = Len(t)
    BY <1>2, <1>4, SeqDef, LenProperties
  <1>6. \A i \in DOMAIN policies : policies[i].id = i
    BY <1>3
  <1>7. {MaxEdits, MaxFaults, MaxDrops} \subseteq Nat
    OBVIOUS
  <1>8. edits \in 0..MaxEdits /\ faults \in 0..MaxFaults /\ drops \in 0..MaxDrops
    BY <1>7 DEF PoliciesInit
  <1>9. /\ editor \in [Editors -> {"idle", "write", "record"}]
        /\ request \in [Editors -> Requests \cup {Null}]
        /\ \A h \in Editors : request[h] = Null /\ At(h, "idle")
    BY DEF PoliciesInit, At
  <1>10. trail = {} /\ made = {} /\ cut = {}
    BY DEF PoliciesInit
  <1>. QED  BY <1>1, <1>5, <1>6, <1>8, <1>9, <1>10 DEF PoliciesTypeOK

\* A row that is updated, and one that is added.
LEMMA UpdatedRow ==
  ASSUME NEW row \in Rows, NEW columns \in Columns
  PROVE  /\ Updated(row, columns) \in Rows /\ Updated(row, columns).id = row.id
         /\ Updated(row, columns).touched
         /\ Updated(row, columns).active /\ ~row.active => columns.active = TRUE
  BY DEF Updated, Rows, Columns

LEMMA TableUpdated ==
  ASSUME PoliciesTypeOK, NEW i \in DOMAIN policies, NEW columns \in Columns,
         policies' = [policies EXCEPT ![i] = Updated(@, columns)]
  PROVE  /\ policies' \in Seq(Rows) /\ Len(policies') <= MaxPolicies
         /\ DOMAIN policies' = DOMAIN policies
         /\ \A j \in DOMAIN policies' : policies'[j].id = j
         /\ \A j \in DOMAIN policies : policies'[j] = IF j = i THEN Updated(policies[i], columns)
                                                            ELSE policies[j]
  <1>1. policies \in Seq(Rows) /\ policies[i] \in Rows
    BY DEF PoliciesTypeOK
  <1>2. Updated(policies[i], columns) \in Rows /\ Updated(policies[i], columns).id = policies[i].id
    BY <1>1, UpdatedRow
  <1>3. policies' \in Seq(Rows) /\ Len(policies') = Len(policies)
    BY <1>1, <1>2, ExceptSeq
  <1>. QED  BY <1>1, <1>2, <1>3 DEF PoliciesTypeOK

LEMMA TableAppended ==
  ASSUME PoliciesTypeOK, NEW rules \in RuleSets, Len(policies) < MaxPolicies,
         policies' = Append(policies, NewRow(Len(policies) + 1, rules))
  PROVE  /\ policies' \in Seq(Rows) /\ Len(policies') <= MaxPolicies
         /\ DOMAIN policies' = DOMAIN policies \cup {Len(policies) + 1}
         /\ \A j \in DOMAIN policies' : policies'[j].id = j
         /\ \A j \in DOMAIN policies : policies'[j] = policies[j]
  <1>. DEFINE row == NewRow(Len(policies) + 1, rules)
  <1>1. policies \in Seq(Rows) /\ MaxPolicies \in Nat /\ Len(policies) \in Nat
    BY DEF PoliciesTypeOK
  <1>2. row \in Rows /\ row.id = Len(policies) + 1
    BY <1>1 DEF NewRow, Rows, Ids
  <1>3. /\ policies' \in Seq(Rows) /\ Len(policies') = Len(policies) + 1
        /\ \A j \in 1..Len(policies) : policies'[j] = policies[j]
        /\ policies'[Len(policies) + 1] = row
    BY <1>1, <1>2, AppendProperties
  <1>. QED  BY <1>1, <1>2, <1>3 DEF PoliciesTypeOK

LEMMA TableTurned ==
  ASSUME PoliciesTypeOK, NEW i \in DOMAIN policies,
         policies' = [policies EXCEPT ![i] = Turned(@)]
  PROVE  /\ policies' \in Seq(Rows) /\ Len(policies') <= MaxPolicies
         /\ DOMAIN policies' = DOMAIN policies
         /\ \A j \in DOMAIN policies' : policies'[j].id = j
         /\ \A j \in DOMAIN policies : policies'[j].active = policies[j].active
  <1>1. policies \in Seq(Rows) /\ policies[i] \in Rows
    BY DEF PoliciesTypeOK
  <1>2. /\ Turned(policies[i]) \in Rows
        /\ Turned(policies[i]).id = policies[i].id /\ Turned(policies[i]).active = policies[i].active
    BY <1>1, Zenon DEF Turned, Rows
  <1>3. policies' \in Seq(Rows) /\ Len(policies') = Len(policies)
    BY <1>1, <1>2, ExceptSeq
  <1>. QED  BY <1>1, <1>2, <1>3 DEF PoliciesTypeOK

\* An update by h puts policy i back into force.
Awakens(h, i) == At(h, "write") /\ request[h].id = i /\ request[h].columns.active = TRUE

\* The handlers' side of the types: who is at work has a request about a row
\* there is.
HandlersOK ==
    /\ editor \in [Editors -> {"idle", "write", "record"}]
    /\ request \in [Editors -> Requests \cup {Null}]
    /\ \A g \in Editors : request[g] = Null <=> At(g, "idle")
    /\ \A g \in Editors : request[g] # Null => request[g].id \in DOMAIN policies

\* No request is served twice: each has a number of its own, none of the
\* numbers to come, what is before its UPDATE has made no edit, and what has
\* ended is at no handler any more.
ServedOnce ==
    /\ cut \subseteq made
    /\ \A r \in made : r.n <= edits
    /\ \A h \in Editors : request[h] # Null => request[h].n <= edits /\ request[h] \notin cut
    /\ \A g, h \in Editors : g # h /\ request[g] # Null => request[g] # request[h]
    /\ \A h \in Editors : At(h, "write") => request[h] \notin made

Kept == PoliciesTypeOK /\ ServedOnce /\ EditsLeaveTraces

\* The requests between their edit and its audit row.
InFlight == {request[h] : h \in {h \in Editors : At(h, "record")}}

LEMMA PartsOfTable ==
  PoliciesTypeOK <=>
    /\ HandlersOK
    /\ policies \in Seq(Rows) /\ Len(policies) <= MaxPolicies
    /\ \A i \in DOMAIN policies : policies[i].id = i
    /\ trail \subseteq Requests /\ made \subseteq Requests /\ cut \subseteq Requests
    /\ edits \in 0..MaxEdits
    /\ faults \in 0..MaxFaults
    /\ drops \in 0..MaxDrops
  BY DEF PoliciesTypeOK, HandlersOK

\* A handler gets a request: no one has seen it before.
LEMMA AskedFresh ==
  ASSUME PoliciesTypeOK, ServedOnce, NEW h \in Editors,
         NEW op \in {"policy_created", "policy_updated", "policy_deleted"},
         NEW id \in Ids, NEW columns \in Columns, Ask(h, op, id, columns),
         NEW step \in {"write", "record"}, Goto(h, step),
         id \in DOMAIN policies', DOMAIN policies \subseteq DOMAIN policies'
  PROVE  LET r == request'[h] IN
         /\ r \in Requests /\ r.n = edits' /\ r.id = id
         /\ HandlersOK' /\ At(h, step)' /\ At(h, "idle")
         /\ \A g \in Editors \ {h} : editor'[g] = editor[g] /\ request'[g] = request[g]
         /\ edits' \in 0..MaxEdits /\ edits' > edits
         /\ r \notin made /\ r \notin cut /\ \A g \in Editors : r # request[g]
  <1>0. HandlersOK /\ edits \in 0..MaxEdits /\ MaxEdits \in Nat
    BY PartsOfTable
  <1>1. At(h, "idle") /\ edits' = edits + 1 /\ edits' \in 1..MaxEdits
    BY <1>0 DEF Ask
  <1>. DEFINE r == [op |-> op, id |-> id, columns |-> columns, n |-> edits']
  <1>2. request' = [request EXCEPT ![h] = r] /\ r \in Requests /\ r.n = edits' /\ r.id = id
    BY <1>1 DEF Ask, Requests
  <1>. HIDE DEF r
  <1>3. /\ HandlersOK' /\ At(h, step)' /\ request'[h] = r
        /\ \A g \in Editors \ {h} : editor'[g] = editor[g] /\ request'[g] = request[g]
    BY <1>0, <1>1, <1>2, RequestsAssumption DEF HandlersOK, Goto, At
  <1>4. ~(r.n <= edits)
    BY <1>0, <1>1, <1>2
  <1>5. r \notin made /\ r \notin cut
    BY <1>4 DEF ServedOnce
  <1>6. ASSUME NEW g \in Editors PROVE r # request[g]
    BY <1>2, <1>4, RequestsAssumption DEF ServedOnce
  <1>. QED  BY <1>0, <1>1, <1>2, <1>3, <1>5, <1>6

LEMMA HandlerDone ==
  ASSUME HandlersOK, NEW h \in Editors, Goto(h, "idle"),
         request' = [request EXCEPT ![h] = Null], UNCHANGED policies
  PROVE  HandlersOK' /\ request'[h] = Null /\ editor'[h] = "idle"
         /\ \A g \in Editors \ {h} : editor'[g] = editor[g] /\ request'[g] = request[g]
  BY DEF HandlersOK, Goto, At

\* The numbers stay apart when a handler is asked ...
LEMMA ServedAsked ==
  ASSUME Kept, NEW h \in Editors, NEW step \in {"write", "record"}, At(h, step)',
         request'[h] \in Requests, request'[h].n = edits', edits' \in Nat, edits' > edits,
         \A g \in Editors \ {h} : editor'[g] = editor[g] /\ request'[g] = request[g],
         request'[h] \notin made, request'[h] \notin cut, \A g \in Editors : request'[h] # request[g],
         cut' = cut, made' = IF step = "record" THEN made \cup {request'[h]} ELSE made
  PROVE  ServedOnce'
  <1>0. edits \in Nat /\ \A r \in made : r.n \in Nat
    BY DEF Kept, PoliciesTypeOK, Requests
  <1>1. \A r \in made' : r.n <= edits'
    BY <1>0 DEF Kept, ServedOnce
  <1>2. \A g \in Editors : request'[g] # Null => request'[g].n <= edits' /\ request'[g] \notin cut'
    <2>1. \A g \in Editors : request[g] # Null => request[g].n \in Nat
      BY DEF Kept, PoliciesTypeOK, Requests
    <2>. QED  BY <1>0, <2>1 DEF Kept, ServedOnce
  <1>3. \A f, g \in Editors : f # g /\ request'[f] # Null => request'[f] # request'[g]
    BY DEF Kept, ServedOnce
  <1>4. \A g \in Editors : At(g, "write")' => request'[g] \notin made'
    <2>1. ASSUME NEW g \in Editors, At(g, "write")', g # h PROVE request'[g] \notin made'
      BY <2>1 DEF Kept, ServedOnce, At
    <2>2. At(h, "write")' => request'[h] \notin made'
      BY DEF At
    <2>. QED  BY <2>1, <2>2
  <1>. QED  BY <1>1, <1>2, <1>3, <1>4 DEF Kept, ServedOnce

\* ... and an edit that is new is without its audit row.
LEMMA TracesAsked ==
  ASSUME Kept, NEW h \in Editors, ~At(h, "record"), At(h, "record")',
         \A g \in Editors \ {h} : editor'[g] = editor[g] /\ request'[g] = request[g],
         request'[h] \notin made, cut' = cut, trail' = trail, made' = made \cup {request'[h]}
  PROVE  EditsLeaveTraces'
  <1>1. InFlight' = InFlight \cup {request'[h]}
    BY DEF InFlight, At
  <1>2. trail \subseteq made /\ made \ trail = InFlight \cup cut
    BY DEF Kept, EditsLeaveTraces, InFlight
  <1>3. made' \ trail' = (made \ trail) \cup {request'[h]}
    BY <1>2
  <1>4. trail' \subseteq made' /\ made' \ trail' = InFlight' \cup cut'
    BY <1>1, <1>2, <1>3
  <1>. QED  BY <1>4 DEF EditsLeaveTraces, InFlight

\* A handler that ends leaves its request behind: with its audit row, or cut.
LEMMA HandlerEnds ==
  ASSUME Kept, NEW h \in Editors, ~At(h, "idle"), Goto(h, "idle"),
         request' = [request EXCEPT ![h] = Null], UNCHANGED <<policies, made, edits>>,
         \/ At(h, "record") /\ trail' = trail \cup {request[h]} /\ cut' = cut
         \/ At(h, "record") /\ trail' = trail /\ cut' = cut \cup {request[h]}
         \/ At(h, "write") /\ trail' = trail /\ cut' = cut
  PROVE  /\ HandlersOK' /\ ServedOnce' /\ EditsLeaveTraces'
         /\ trail' \subseteq Requests /\ cut' \subseteq Requests
  <1>0. HandlersOK /\ trail \subseteq Requests /\ cut \subseteq Requests /\ made \subseteq Requests
    BY PartsOfTable DEF Kept
  <1>1. /\ HandlersOK' /\ request'[h] = Null /\ editor'[h] = "idle"
        /\ \A g \in Editors \ {h} : editor'[g] = editor[g] /\ request'[g] = request[g]
    BY <1>0, HandlerDone
  <1>2. request[h] # Null /\ request[h] \in Requests /\ request[h] \notin cut
        /\ \A g \in Editors \ {h} : request[g] # request[h]
    BY <1>0 DEF HandlersOK, Kept, ServedOnce
  <1>3. trail \subseteq made /\ made \ trail = InFlight \cup cut
    BY DEF Kept, EditsLeaveTraces, InFlight
  <1>4. InFlight' = InFlight \ {request[h]}
    <2>1. InFlight' \subseteq InFlight \ {request[h]}
      BY <1>1, <1>2 DEF InFlight, At
    <2>2. InFlight \ {request[h]} \subseteq InFlight'
      BY <1>1, <1>2 DEF InFlight, At
    <2>. QED  BY <2>1, <2>2
  <1>5. At(h, "record") => request[h] \in InFlight /\ request[h] \in made /\ request[h] \notin trail
    <2>1. At(h, "record") => request[h] \in InFlight
      BY DEF InFlight
    <2>. QED  BY <1>3, <2>1
  <1>6. At(h, "write") => request[h] \notin InFlight
    <2>1. At(h, "write") => request[h] \notin made
      BY DEF Kept, ServedOnce
    <2>. QED  BY <1>3, <2>1
  <1>7. trail' \subseteq made' /\ made' \ trail' = InFlight' \cup cut'
    BY <1>2, <1>3, <1>4, <1>5, <1>6
  <1>8. EditsLeaveTraces'
    BY <1>7 DEF EditsLeaveTraces, InFlight
  <1>9. cut' \subseteq made' /\ cut' \subseteq cut \cup {request[h]}
    BY <1>5 DEF Kept, ServedOnce
  <1>10. ServedOnce'
    BY <1>0, <1>1, <1>2, <1>9, RequestsAssumption DEF Kept, ServedOnce, At
  <1>. QED  BY <1>0, <1>1, <1>2, <1>8, <1>10

LEMMA EditStep ==
  ASSUME Kept, NEW h \in Editors,
         \/ CreatePolicy(h) \/ LookUpPolicy(h) \/ UpdatePolicy(h)
         \/ DeletePolicy(h) \/ RecordEdit(h) \/ EditFails(h) \/ DropEdit(h)
  PROVE  /\ Kept'
         /\ \A i \in DOMAIN policies : policies'[i].active /\ ~policies[i].active => Awakens(h, i)
  <1>0. /\ HandlersOK /\ PoliciesTypeOK /\ ServedOnce /\ policies \in Seq(Rows)
        /\ \A i \in DOMAIN policies : i \in Ids /\ policies[i] \in Rows
    BY PartsOfTable DEF Kept, Ids
  <1>1. CASE CreatePolicy(h)
    <2> DEFINE id == Len(policies) + 1
    <2>1. PICK rules \in RuleSets :
             /\ Len(policies) < MaxPolicies
             /\ policies' = Append(policies, NewRow(id, rules))
             /\ Ask(h, "policy_created", id, [NoColumns EXCEPT !.rules = rules])
             /\ Made(h)
             /\ UNCHANGED <<trail, cut, faults, drops>>
      BY <1>1 DEF CreatePolicy
    <2>2. id \in Ids /\ [NoColumns EXCEPT !.rules = rules] \in Columns
      <3>1. Len(policies) \in Nat /\ MaxPolicies \in Nat
        BY <1>0
      <3>. QED  BY <2>1, <3>1 DEF Ids, NoColumns, Columns
    <2>3. /\ policies' \in Seq(Rows) /\ Len(policies') <= MaxPolicies
          /\ DOMAIN policies' = DOMAIN policies \cup {id}
          /\ \A j \in DOMAIN policies' : policies'[j].id = j
          /\ \A j \in DOMAIN policies : policies'[j] = policies[j]
      BY <1>0, <2>1, TableAppended
    <2>4. made' = made \cup {request'[h]} /\ Goto(h, "record")
      BY <2>1 DEF Made
    <2> HIDE DEF id
    <2>5. /\ request'[h] \in Requests /\ request'[h].n = edits'
          /\ HandlersOK' /\ At(h, "record")' /\ At(h, "idle")
          /\ \A g \in Editors \ {h} : editor'[g] = editor[g] /\ request'[g] = request[g]
          /\ edits' \in 0..MaxEdits /\ edits' > edits
          /\ request'[h] \notin made /\ request'[h] \notin cut
          /\ \A g \in Editors : request'[h] # request[g]
      BY <1>0, <2>1, <2>2, <2>3, <2>4, AskedFresh
    <2>6. PoliciesTypeOK'
      <3>1. made' \subseteq Requests
        BY <1>0, <2>4, <2>5 DEF PoliciesTypeOK
      <3>. QED  BY <1>0, <2>1, <2>3, <2>5, <3>1 DEF PoliciesTypeOK, HandlersOK, At
    <2>7. ServedOnce' /\ EditsLeaveTraces'
      <3>1. ~At(h, "record") /\ edits' \in Nat
        BY <2>5 DEF At
      <3>. QED  BY <2>1, <2>4, <2>5, <3>1, ServedAsked, TracesAsked
    <2>. QED  BY <2>3, <2>6, <2>7 DEF Kept
  <1>2. CASE LookUpPolicy(h)
    <2>1. PICK id \in DOMAIN policies, columns \in Columns \ {NoColumns} :
             /\ Ask(h, "policy_updated", id, columns)
             /\ Goto(h, "write")
             /\ UNCHANGED <<policies, trail, made, cut, faults, drops>>
      BY <1>2 DEF LookUpPolicy
    <2>2. /\ request'[h] \in Requests /\ request'[h].n = edits'
          /\ HandlersOK' /\ At(h, "write")' /\ At(h, "idle")
          /\ \A g \in Editors \ {h} : editor'[g] = editor[g] /\ request'[g] = request[g]
          /\ edits' \in 0..MaxEdits /\ edits' > edits
          /\ request'[h] \notin made /\ request'[h] \notin cut
          /\ \A g \in Editors : request'[h] # request[g]
      BY <1>0, <2>1, AskedFresh
    <2>3. PoliciesTypeOK'
      BY <1>0, <2>1, <2>2 DEF PoliciesTypeOK, HandlersOK, At
    <2>4. ServedOnce'
      BY <2>1, <2>2, ServedAsked
    <2>5. EditsLeaveTraces'
      <3>1. InFlight' = InFlight
        BY <2>2 DEF InFlight, At
      <3>. QED  BY <2>1, <3>1 DEF Kept, EditsLeaveTraces, InFlight
    <2>. QED  BY <2>1, <2>3, <2>4, <2>5 DEF Kept
  <1>3. CASE UpdatePolicy(h)
    <2>1. /\ At(h, "write") /\ Goto(h, "record") /\ made' = made \cup {request'[h]}
          /\ UNCHANGED <<request, trail, cut, edits, faults, drops>>
          /\ policies' = [policies EXCEPT ![request[h].id] = Updated(@, request[h].columns)]
      BY <1>3 DEF UpdatePolicy, Made
    <2>2. /\ request[h] \in Requests /\ request[h].id \in DOMAIN policies
          /\ request[h].columns \in Columns /\ request[h] \notin made
      BY <1>0, <2>1 DEF HandlersOK, At, Requests, ServedOnce
    <2>3. /\ policies' \in Seq(Rows) /\ Len(policies') <= MaxPolicies
          /\ DOMAIN policies' = DOMAIN policies
          /\ \A j \in DOMAIN policies' : policies'[j].id = j
          /\ \A j \in DOMAIN policies :
                policies'[j] = IF j = request[h].id THEN Updated(policies[request[h].id], request[h].columns)
                                                    ELSE policies[j]
      BY <1>0, <2>1, <2>2, TableUpdated
    <2>4. HandlersOK' /\ At(h, "record")' /\ ~At(h, "record")
          /\ \A g \in Editors \ {h} : editor'[g] = editor[g]
      BY <1>0, <2>1, <2>3 DEF HandlersOK, Goto, At
    <2>5. PoliciesTypeOK'
      <3>1. made' \subseteq Requests
        BY <1>0, <2>1, <2>2 DEF PoliciesTypeOK
      <3>. QED  BY <1>0, <2>1, <2>3, <2>4, <3>1 DEF PoliciesTypeOK, HandlersOK, At
    <2>6. ServedOnce'
      <3>1. \A g \in Editors \ {h} : request[g] # request[h]
        BY <1>0, <2>1 DEF HandlersOK, ServedOnce, At
      <3>2. request[h].n <= edits
        BY <1>0, <2>1 DEF HandlersOK, ServedOnce, At
      <3>. QED  BY <1>0, <2>1, <2>2, <2>4, <3>1, <3>2 DEF ServedOnce, At
    <2>7. EditsLeaveTraces'
      BY <2>1, <2>2, <2>4, TracesAsked
    <2>8. ASSUME NEW i \in DOMAIN policies, policies'[i].active, ~policies[i].active
          PROVE  Awakens(h, i)
      <3>1. i = request[h].id
        BY <2>3, <2>8
      <3>2. policies[i] \in Rows /\ Updated(policies[i], request[h].columns).active
        BY <1>0, <2>3, <2>8, <3>1
      <3>3. request[h].columns.active = TRUE
        BY <2>2, <2>8, <3>2, UpdatedRow
      <3>. QED  BY <2>1, <3>1, <3>3 DEF Awakens
    <2>. QED  BY <2>5, <2>6, <2>7, <2>8 DEF Kept
  <1>4. CASE DeletePolicy(h)
    <2>1. PICK id \in DOMAIN policies :
             /\ Ask(h, "policy_deleted", id, Withdrawn)
             /\ policies' = [policies EXCEPT ![id] = Updated(@, Withdrawn)]
             /\ Made(h)
             /\ UNCHANGED <<trail, cut, faults, drops>>
      BY <1>4 DEF DeletePolicy
    <2>2. Withdrawn \in Columns /\ Withdrawn.active = FALSE
      BY DEF Withdrawn, NoColumns, Columns
    <2>3. /\ policies' \in Seq(Rows) /\ Len(policies') <= MaxPolicies
          /\ DOMAIN policies' = DOMAIN policies
          /\ \A j \in DOMAIN policies' : policies'[j].id = j
          /\ \A j \in DOMAIN policies :
                policies'[j] = IF j = id THEN Updated(policies[id], Withdrawn) ELSE policies[j]
      BY <1>0, <2>1, <2>2, TableUpdated
    <2>4. made' = made \cup {request'[h]} /\ Goto(h, "record") /\ id \in Ids
      BY <1>0, <2>1 DEF Made
    <2>5. /\ request'[h] \in Requests /\ request'[h].n = edits'
          /\ HandlersOK' /\ At(h, "record")' /\ At(h, "idle")
          /\ \A g \in Editors \ {h} : editor'[g] = editor[g] /\ request'[g] = request[g]
          /\ edits' \in 0..MaxEdits /\ edits' > edits
          /\ request'[h] \notin made /\ request'[h] \notin cut
          /\ \A g \in Editors : request'[h] # request[g]
      BY <1>0, <2>1, <2>2, <2>3, <2>4, AskedFresh
    <2>6. PoliciesTypeOK'
      <3>1. made' \subseteq Requests
        BY <1>0, <2>4, <2>5 DEF PoliciesTypeOK
      <3>. QED  BY <1>0, <2>1, <2>3, <2>5, <3>1 DEF PoliciesTypeOK, HandlersOK, At
    <2>7. ServedOnce' /\ EditsLeaveTraces'
      <3>1. ~At(h, "record") /\ edits' \in Nat
        BY <2>5 DEF At
      <3>. QED  BY <2>1, <2>4, <2>5, <3>1, ServedAsked, TracesAsked
    <2>8. ASSUME NEW i \in DOMAIN policies, policies'[i].active, ~policies[i].active
           PROVE  FALSE
      <3>1. policies[i] \in Rows /\ Updated(policies[i], Withdrawn).active
        BY <1>0, <2>3, <2>8
      <3>. QED  BY <2>2, <2>8, <3>1, UpdatedRow
    <2>. QED  BY <2>6, <2>7, <2>8 DEF Kept
  <1>5. CASE RecordEdit(h)
    <2>1. /\ At(h, "record") /\ trail' = trail \cup {request[h]} /\ ~At(h, "idle")
          /\ Goto(h, "idle") /\ request' = [request EXCEPT ![h] = Null]
          /\ UNCHANGED <<policies, made, cut, edits, faults, drops>>
      BY <1>5 DEF RecordEdit, At
    <2>2. HandlersOK' /\ ServedOnce' /\ EditsLeaveTraces' /\ trail' \subseteq Requests
      BY <2>1, HandlerEnds
    <2>3. PoliciesTypeOK'
      BY <1>0, <2>1, <2>2 DEF PoliciesTypeOK, HandlersOK, At
    <2>. QED  BY <2>1, <2>2, <2>3 DEF Kept
  <1>6. CASE EditFails(h) \/ DropEdit(h)
    <2>1. /\ ~At(h, "idle") /\ Goto(h, "idle") /\ request' = [request EXCEPT ![h] = Null]
          /\ UNCHANGED <<policies, trail, made, edits>>
          /\ cut' = IF At(h, "record") THEN cut \cup {request[h]} ELSE cut
      BY <1>6 DEF EditFails, DropEdit, Abandon
    <2>2. faults' \in 0..MaxFaults /\ drops' \in 0..MaxDrops
      <3>1. MaxFaults \in Nat /\ MaxDrops \in Nat
        OBVIOUS
      <3>. QED  BY <1>0, <1>6, <3>1 DEF EditFails, DropEdit, Fault, PoliciesTypeOK
    <2>3. At(h, "record") \/ At(h, "write")
      BY <1>0, <2>1 DEF HandlersOK, At
    <2>4. /\ HandlersOK' /\ ServedOnce' /\ EditsLeaveTraces' /\ trail' \subseteq Requests
          /\ cut' \subseteq Requests
      <3>1. ~(At(h, "record") /\ At(h, "write"))
        BY DEF At
      <3>. QED  BY <2>1, <2>3, <3>1, HandlerEnds
    <2>5. PoliciesTypeOK'
      BY <1>0, <2>1, <2>2, <2>4 DEF PoliciesTypeOK, HandlersOK, At
    <2>. QED  BY <2>1, <2>4, <2>5 DEF Kept
  <1>. QED  BY <1>1, <1>2, <1>3, <1>4, <1>5, <1>6

\* A schedule that turns is nobody's edit, and activates nothing.
LEMMA TurnStep ==
  ASSUME Kept, NEW i \in DOMAIN policies, TurnSchedule(i)
  PROVE  Kept' /\ \A j \in DOMAIN policies : policies'[j].active = policies[j].active
  <1>0. PoliciesTypeOK /\ ServedOnce /\ EditsLeaveTraces /\ made \subseteq Requests
    BY DEF Kept, PoliciesTypeOK
  <1>1. /\ policies' = [policies EXCEPT ![i] = Turned(@)]
        /\ edits < MaxEdits /\ edits' = edits + 1
        /\ UNCHANGED <<editor, request, trail, made, cut, faults, drops>>
    BY DEF TurnSchedule
  <1>2. /\ policies' \in Seq(Rows) /\ Len(policies') <= MaxPolicies
        /\ DOMAIN policies' = DOMAIN policies
        /\ \A j \in DOMAIN policies' : policies'[j].id = j
        /\ \A j \in DOMAIN policies : policies'[j].active = policies[j].active
    BY <1>0, <1>1, TableTurned
  <1>3. edits' \in 0..MaxEdits /\ edits \in Nat /\ edits' \in Nat /\ edits <= edits'
    <2>1. MaxEdits \in Nat
      OBVIOUS
    <2>. QED  BY <1>0, <1>1, <2>1 DEF PoliciesTypeOK
  <1>4. PoliciesTypeOK'
    BY <1>0, <1>1, <1>2, <1>3 DEF PoliciesTypeOK, At
  <1>5. ServedOnce'
    <2>1. \A r \in Requests : r.n \in Nat
      BY DEF Requests
    <2>2. \A r \in Requests : r.n <= edits => r.n <= edits'
      BY <1>3, <2>1
    <2>3. \A g \in Editors : request[g] # Null => request[g] \in Requests
      BY <1>0 DEF PoliciesTypeOK
    <2>. QED  BY <1>0, <1>1, <2>2, <2>3 DEF ServedOnce, At
  <1>6. EditsLeaveTraces'
    BY <1>0, <1>1 DEF EditsLeaveTraces, At
  <1>. QED  BY <1>2, <1>4, <1>5, <1>6 DEF Kept

LEMMA KeptInit == PoliciesInit => Kept
  <1>1. PoliciesInit => EditsLeaveTraces /\ ServedOnce
    BY DEF PoliciesInit, EditsLeaveTraces, ServedOnce, At
  <1>. QED  BY <1>1, TableInit DEF Kept

LEMMA KeptNext == Kept /\ [Edit]_<<table, faults>> => Kept'
  <1>1. Kept /\ UNCHANGED <<table, faults>> => Kept'
    BY DEF Kept, table, PoliciesTypeOK, ServedOnce, EditsLeaveTraces, At
  <1>. QED  BY <1>1, EditStep, TurnStep DEF Edit

LEMMA KeptAlways == PoliciesSpec => []Kept
  BY KeptInit, KeptNext, PTL DEF PoliciesSpec

LEMMA TableTyped == PoliciesSpec => []PoliciesTypeOK
  <1>1. Kept => PoliciesTypeOK
    BY DEF Kept
  <1>. QED  BY <1>1, KeptAlways, PTL

-----------------------------------------------------------------------------
(* The theorems.                                                           *)

\* Neither priority nor order, nor what matched before without denying, decides
\* whether an action is denied: it is exactly if some rule of a policy in force
\* denies it, and the policy blamed is the first such (evaluate_policies,
\* sort_rules).
THEOREM DenialsDecide == PoliciesSpec => []DeniedIfCondemned
  BY TableTyped, DeniesIfCondemns, PTL

\* For an action without method and metadata, the simulation shows a denial by
\* a policy in force exactly if evaluate_policies denies before it comes to the
\* rules that count, at the same policy and of the same risk, whatever policies
\* are active and not due (simulate_policies against evaluate_policies).
THEOREM SimulationFaithful == PoliciesSpec => []SimulationPredicts
  BY TableTyped, SimulationAgrees, PTL

\* A typo in the type of a rule, or of a part of it at any depth, changes nothing
\* or denies, however the parts nest (evaluate_rule, evaluate_composite).
THEOREM TyposFailClosed == PoliciesSpec => []TyposOnlyTighten
  BY TableTyped, TyposTighten, PTL

\* Every edit has an audit row of its own and every audit row an edit, but for
\* the requests between the two and those that ended there: whatever the number
\* of handlers, the errors, and the handlers dropped.
THEOREM TracesLeft == PoliciesSpec => []EditsLeaveTraces
  <1>1. Kept => EditsLeaveTraces
    BY DEF Kept
  <1>. QED  BY <1>1, KeptInit, KeptNext, PTL DEF PoliciesSpec

\* A policy comes back into force only by an update that says so, however long
\* ago the handlers at work have looked it up.
THEOREM UpdatesActivate == PoliciesSpec => OnlyAnUpdateActivates
  <1>1. Kept /\ [Edit]_<<table, faults>> =>
           [\A i \in DOMAIN policies :
              policies'[i].active /\ ~policies[i].active =>
                \E h \in Editors : At(h, "write") /\ request[h].id = i
                                   /\ request[h].columns.active = TRUE]_policies
    <2>1. ASSUME Kept, Edit
          PROVE  \A i \in DOMAIN policies :
                    policies'[i].active /\ ~policies[i].active =>
                      \E h \in Editors : At(h, "write") /\ request[h].id = i
                                         /\ request[h].columns.active = TRUE
      BY <2>1, EditStep, TurnStep DEF Edit, Awakens
    <2>. QED  BY <2>1 DEF table
  <1>. QED  BY <1>1, KeptInit, KeptNext, PTL DEF PoliciesSpec, OnlyAnUpdateActivates
=============================================================================
