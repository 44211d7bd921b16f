-------------------------- MODULE AdminAccessProofs --------------------------
(***************************************************************************)
(* A session lasts its time, a logout is final, a state works once, and    *)
(* the throttle lets no more through than it says: for any number of       *)
(* requests, tokens, states and sources, and any limit and window.         *)
(***************************************************************************)
EXTENDS AdminAccess, SequenceTheorems, WellFoundedInduction, TLAPS

-----------------------------------------------------------------------------
(* Recursion over the numbers up to a bound.                               *)

\* The natural numbers have a least number principle, and so induction over a set.
LEMMA NatOrder ==
  \E R : IsWellFoundedOn(R, Nat) /\ \A y, z \in Nat : <<y, z>> \in R <=> y < z
  <1>1. \A y, z \in Nat : <<y, z>> \in OpToRel(<, Nat) <=> y < z
    BY DEF OpToRel
  <1>. QED  BY <1>1, NatLessThanWellFounded, Zenon

\* Induction over a set of natural numbers.
LEMMA SetInduction ==
  ASSUME NEW S, 0 \in S, \A n \in Nat : n \in S => n + 1 \in S
  PROVE  Nat \subseteq S
  <1> DEFINE T == Nat \ S
  <1>1. SUFFICES ASSUME T # {} PROVE FALSE
    OBVIOUS
  <1>2. PICK R : IsWellFoundedOn(R, Nat) /\ \A y, z \in Nat : <<y, z>> \in R <=> y < z
    BY NatOrder
  <1>3. PICK m \in T : \A y \in T : ~(<<y, m>> \in R)
    <2>1. IsWellFoundedOn(R, Nat) /\ T \subseteq Nat
      BY <1>2
    <2> HIDE DEF T
    <2>. QED  BY <1>1, <2>1, WFMin, Zenon
  <1>4. m \in Nat /\ m \notin S /\ \A y \in Nat \ S : ~(y < m)
    BY <1>2, <1>3
  <1>5. m # 0 /\ m - 1 \in Nat
    BY <1>4
  <1>. QED  BY <1>4, <1>5

\* Induction over the numbers up to N.
LEMMA UpTo ==
  ASSUME NEW N \in Nat, NEW S, 0 \in S, \A n \in 1 .. N : n - 1 \in S => n \in S
  PROVE  0 .. N \subseteq S
  <1> DEFINE T == {n \in Nat : n <= N => n \in S}
  <1>1. 0 \in T
    OBVIOUS
  <1>2. ASSUME NEW n \in Nat, n \in T PROVE n + 1 \in T
    <2>1. CASE n + 1 <= N
      <3>1. n + 1 \in 1 .. N /\ (n + 1) - 1 = n /\ n <= N
        BY <2>1
      <3>. QED  BY <1>2, <3>1
    <2>. QED  BY <2>1
  <1>3. Nat \subseteq T
    <2> HIDE DEF T
    <2>. QED  BY <1>1, <1>2, SetInduction
  <1>. QED  BY <1>3

\* f is what a recursion over the numbers up to N computes.
Iterates(f, V, N, base, step) ==
    /\ f \in [0 .. N -> V]
    /\ f[0] = base
    /\ \A i \in 1 .. N : f[i] = step[<<f[i - 1], i>>]

\* There is one, if each step stays in V.
LEMMA Iterated ==
  ASSUME NEW V, NEW base \in V, NEW N \in Nat, NEW step,
         \A v \in V, i \in 1 .. N : step[<<v, i>>] \in V
  PROVE  \E f : Iterates(f, V, N, base, step)
  <1> DEFINE Good(f, n) == f[0] = base /\ \A i \in 1 .. n : f[i] = step[<<f[i - 1], i>>]
             S == {n \in 0 .. N : \E f \in [0 .. N -> V] : Good(f, n)}
  <1>1. 0 \in S
    <2>1. [i \in 0 .. N |-> base] \in [0 .. N -> V] /\ Good([i \in 0 .. N |-> base], 0)
      OBVIOUS
    <2> HIDE DEF Good
    <2>. QED  BY <2>1
  <1>2. ASSUME NEW n \in 1 .. N, n - 1 \in S PROVE n \in S
    <2>1. PICK f \in [0 .. N -> V] : Good(f, n - 1)
      <3> HIDE DEF Good
      <3>. QED  BY <1>2
    <2>2. n \in Nat /\ n # 0 /\ n \in 0 .. N /\ n - 1 \in 0 .. N /\ n - 1 # n
      OBVIOUS
    <2> DEFINE g == [f EXCEPT ![n] = step[<<f[n - 1], n>>]]
    <2>3. g \in [0 .. N -> V]
      BY <2>2
    <2>4. g[0] = base
      BY <2>1, <2>2
    <2>5. ASSUME NEW i \in 1 .. n PROVE g[i] = step[<<g[i - 1], i>>]
      <3>1. CASE i = n
        BY <2>2, <3>1
      <3>2. CASE i # n
        <4>1. i \in 1 .. (n - 1) /\ i \in 0 .. N /\ i - 1 \in 0 .. N /\ i - 1 # n
          BY <2>2, <3>2
        <4>2. f[i] = step[<<f[i - 1], i>>]
          BY <2>1, <4>1
        <4>. QED  BY <3>2, <4>1, <4>2
      <3>. QED  BY <3>1, <3>2
    <2>6. Good(g, n)
      <3> HIDE DEF g
      <3>. QED  BY <2>4, <2>5
    <2> HIDE DEF Good, g
    <2>. QED  BY <2>2, <2>3, <2>6
  <1>3. 0 .. N \subseteq S
    <2> HIDE DEF S
    <2>. QED  BY <1>1, <1>2, UpTo
  <1>4. N \in S
    <2> HIDE DEF S
    <2>. QED  BY <1>3
  <1>. QED  BY <1>4 DEF Iterates

\* Whatever satisfies its equations does.
LEMMA IteratesIf ==
  ASSUME NEW V, NEW base \in V, NEW N \in Nat, NEW step, NEW g,
         \A v \in V, i \in 1 .. N : step[<<v, i>>] \in V,
         g = [i \in 0 .. N |-> g[i]], g[0] = base,
         \A i \in 1 .. N : g[i - 1] \in V => g[i] = step[<<g[i - 1], i>>]
  PROVE  Iterates(g, V, N, base, step)
  <1> DEFINE T == {i \in 0 .. N : g[i] \in V}
  <1>1. 0 \in T
    OBVIOUS
  <1>2. ASSUME NEW i \in 1 .. N, i - 1 \in T PROVE i \in T
    <2>1. g[i - 1] \in V
      BY <1>2
    <2>2. g[i] = step[<<g[i - 1], i>>]
      BY <2>1
    <2>3. step[<<g[i - 1], i>>] \in V
      BY <2>1
    <2>4. i \in 0 .. N
      OBVIOUS
    <2>. QED  BY <2>2, <2>3, <2>4
  <1>3. 0 .. N \subseteq T
    <2> HIDE DEF T
    <2>. QED  BY <1>1, <1>2, UpTo
  <1>4. \A i \in 1 .. N : i - 1 \in 0 .. N
    OBVIOUS
  <1>5. \A i \in 0 .. N : g[i] \in V
    BY <1>3
  <1>6. g \in [0 .. N -> V]
    BY <1>5
  <1>. QED  BY <1>4, <1>5, <1>6 DEF Iterates

-----------------------------------------------------------------------------
(* The throttle.                                                           *)

\* What the recursion of Retained does with the attempt at i.
Keep(times, t, s, i) == IF t - times[i] < Window THEN Append(s, times[i]) ELSE s

\* Retained is what its recursion says.
LEMMA RetainedIs ==
  ASSUME NEW times \in Seq(Nat), NEW t \in Nat
  PROVE  \E kept, step :
           /\ Iterates(kept, Seq(Nat), Len(times), << >>, step)
           /\ \A s \in Seq(Nat), i \in 1 .. Len(times) : step[<<s, i>>] = Keep(times, t, s, i)
           /\ Retained(times, t) = kept[Len(times)]
  <1> DEFINE N == Len(times)
             V == Seq(Nat)
             none == << >>
             Body(F) == [i \in 0 .. N |-> IF i = 0 THEN none ELSE Keep(times, t, F[i - 1], i)]
             step == [p \in V \X (1 .. N) |-> Keep(times, t, p[1], p[2])]
             kept == CHOOSE F : F = Body(F)
  <1>1. N \in Nat /\ none \in V /\ \A i \in 1 .. N : times[i] \in Nat
    BY LenProperties, EmptySeq, ElementOfSeq
  <1>2. \A s \in V : \A i \in 1 .. N : Keep(times, t, s, i) \in V
    BY <1>1, AppendProperties DEF Keep
  <1>3. Retained(times, t) = kept[N]
    BY DEF Retained, Keep
  <1>4. (\A i \in 0 .. N : i # 0 => i \in 1 .. N) /\ 0 \in 0 .. N
        /\ \A i \in 1 .. N : i \in 0 .. N /\ i - 1 \in 0 .. N /\ i # 0
    BY <1>1
  <1> HIDE DEF N, V, none
  <1>5. \A s \in V, i \in 1 .. N : step[<<s, i>>] = Keep(times, t, s, i) /\ step[<<s, i>>] \in V
    BY <1>2
  <1> HIDE DEF step
  <1>6. PICK f : Iterates(f, V, N, none, step)
    BY <1>1, <1>5, Iterated
  <1>7. f = Body(f)
    <2>1. ASSUME NEW i \in 1 .. N PROVE f[i] = Keep(times, t, f[i - 1], i)
      BY <1>4, <1>5, <1>6 DEF Iterates
    <2>. QED  BY <1>4, <1>6, <2>1 DEF Iterates
  <1>8. kept = Body(kept)
    <2> HIDE DEF Body
    <2>. QED  BY <1>7
  <1> HIDE DEF kept
  <1>9. kept = [i \in 0 .. N |-> kept[i]] /\ kept[0] = none
    BY <1>4, <1>8
  <1>10. ASSUME NEW i \in 1 .. N PROVE kept[i] = Keep(times, t, kept[i - 1], i)
    BY <1>4, <1>8
  <1>11. Iterates(kept, V, N, none, step)
    BY <1>1, <1>5, <1>9, <1>10, IteratesIf
  <1>. QED  BY <1>3, <1>5, <1>11 DEF N, V, none

\* What AdminAccessAssumption says of the throttle.
LEMMA Bounds == MaxAttempts \in Nat \ {0} /\ Window \in Nat
  BY AdminAccessAssumption

\* Instants in the order in which they were taken.
InOrder(times) == \A i, j \in 1 .. Len(times) : i <= j => times[i] <= times[j]

\* What is left of them at t: all but the first k, which are a Window old.
Leaves(times, t, left, n, k) ==
    /\ left \in Seq(Nat) /\ Len(left) = n - k
    /\ \A i \in 1 .. n - k : left[i] = times[k + i] /\ t - times[k + i] < Window
    /\ \A i \in 1 .. k : t - times[i] >= Window

LEMMA LeavesNext ==
  ASSUME NEW times \in Seq(Nat), NEW t \in Nat, InOrder(times), NEW n \in 1 .. Len(times),
         NEW left, NEW k \in 0 .. n - 1, Leaves(times, t, left, n - 1, k)
  PROVE  \E m \in 0 .. n : Leaves(times, t, Keep(times, t, left, n), n, m)
  <1>1. n \in Nat /\ k \in Nat /\ Len(times) \in Nat /\ \A i \in 1 .. Len(times) : times[i] \in Nat
    BY LenProperties, ElementOfSeq
  <1>2. \A i \in 1 .. n : times[i] <= times[n] /\ times[i] \in Nat
    <2>1. ASSUME NEW i \in 1 .. n PROVE i \in 1 .. Len(times) /\ i <= n
      BY <1>1
    <2>2. \A i \in 1 .. n : times[i] <= times[n]
      BY <2>1 DEF InOrder
    <2>. QED  BY <1>1, <2>1, <2>2
  <1>3. Window \in Nat
    BY Bounds
  <1>4. CASE t - times[n] < Window
    <2>1. Keep(times, t, left, n) = Append(left, times[n])
      BY <1>4 DEF Keep
    <2>2. /\ Append(left, times[n]) \in Seq(Nat)
          /\ Len(Append(left, times[n])) = n - k
          /\ \A i \in 1 .. n - 1 - k : Append(left, times[n])[i] = left[i]
          /\ Append(left, times[n])[n - k] = times[n]
      <3>1. times[n] \in Nat /\ left \in Seq(Nat) /\ Len(left) = n - 1 - k
        BY <1>2 DEF Leaves
      <3>2. (n - 1 - k) + 1 = n - k
        BY <1>1
      <3>. QED  BY <3>1, <3>2, AppendProperties
    <2>3. ASSUME NEW i \in 1 .. n - k
          PROVE  Append(left, times[n])[i] = times[k + i] /\ t - times[k + i] < Window
      <3>1. CASE i = n - k
        <4>1. k + i = n
          BY <1>1, <3>1
        <4>. QED  BY <1>4, <2>2, <3>1, <4>1
      <3>2. CASE i # n - k
        <4>1. i \in 1 .. n - 1 - k
          BY <1>1, <3>2
        <4>. QED  BY <2>2, <4>1 DEF Leaves
      <3>. QED  BY <3>1, <3>2
    <2>4. Leaves(times, t, Append(left, times[n]), n, k)
      BY <2>2, <2>3 DEF Leaves
    <2>. QED  BY <1>1, <2>1, <2>4
  <1>5. CASE t - times[n] >= Window
    <2>1. \A i \in 1 .. n : t - times[i] >= Window
      BY <1>2, <1>3, <1>5
    <2>2. k = n - 1
      <3>1. CASE k < n - 1
        <4>1. 1 \in 1 .. n - 1 - k /\ k + 1 \in 1 .. n
          BY <1>1, <3>1
        <4>2. t - times[k + 1] < Window
          BY <4>1 DEF Leaves
        <4>. QED  BY <1>2, <1>3, <2>1, <4>1, <4>2
      <3>. QED  BY <1>1, <3>1
    <2>3. Keep(times, t, left, n) = left
      BY <1>2, <1>3, <1>5 DEF Keep
    <2>4. Leaves(times, t, left, n, n)
      BY <1>1, <2>1, <2>2 DEF Leaves
    <2>. QED  BY <1>1, <2>3, <2>4
  <1>. QED  BY <1>2, <1>3, <1>4, <1>5

LEMMA RetainedLeaves ==
  ASSUME NEW times \in Seq(Nat), NEW t \in Nat, InOrder(times)
  PROVE  \E k \in 0 .. Len(times) : Leaves(times, t, Retained(times, t), Len(times), k)
  <1>1. PICK kept, step :
           /\ Iterates(kept, Seq(Nat), Len(times), << >>, step)
           /\ \A s \in Seq(Nat), i \in 1 .. Len(times) : step[<<s, i>>] = Keep(times, t, s, i)
           /\ Retained(times, t) = kept[Len(times)]
    BY RetainedIs
  <1> DEFINE N == Len(times)
             T == {n \in 0 .. N : \E k \in 0 .. n : Leaves(times, t, kept[n], n, k)}
  <1>2. N \in Nat
    BY LenProperties
  <1>3. 0 \in T
    <2>1. kept[0] = << >>
      BY <1>1 DEF Iterates
    <2>2. Leaves(times, t, << >>, 0, 0)
      BY EmptySeq DEF Leaves
    <2>. QED  BY <1>2, <2>1, <2>2
  <1>4. ASSUME NEW n \in 1 .. N, n - 1 \in T PROVE n \in T
    <2>1. PICK k \in 0 .. n - 1 : Leaves(times, t, kept[n - 1], n - 1, k)
      BY <1>4
    <2>2. kept[n - 1] \in Seq(Nat)
      BY <2>1 DEF Leaves
    <2>3. kept[n] = Keep(times, t, kept[n - 1], n)
      BY <1>1, <2>2 DEF Iterates
    <2>4. n \in 1 .. Len(times) /\ n \in 0 .. N
      BY <1>2
    <2>5. \E m \in 0 .. n : Leaves(times, t, kept[n], n, m)
      BY <2>1, <2>3, <2>4, LeavesNext
    <2>. QED  BY <2>4, <2>5
  <1>5. N \in T
    <2>1. 0 .. N \subseteq T
      <3> HIDE DEF T, N
      <3>. QED  BY <1>2, <1>3, <1>4, UpTo
    <2>. QED  BY <1>2, <2>1
  <1>. QED  BY <1>1, <1>5

-----------------------------------------------------------------------------
\* What the throttle remembers at t of the attempts it has let through: the last
\* of them; the others are a Window old.
Remembers(through, left, t) ==
    LET forgotten == Len(through) - Len(left) IN
    /\ left \in Seq(Nat) /\ Len(left) <= MaxAttempts /\ forgotten \in Nat
    /\ \A i \in 1 .. Len(left) : left[i] = through[forgotten + i]
    /\ \A i \in 1 .. forgotten : t - through[i] >= Window

\* It lets them through in the order of the clock, and never too many of them
\* within one Window.
Passes(through, t) ==
    /\ through \in Seq(Nat) /\ InOrder(through)
    /\ \A i \in 1 .. Len(through) : through[i] <= t
    /\ \A i \in 1 .. Len(through) :
           i + MaxAttempts <= Len(through) => through[i + MaxAttempts] - through[i] >= Window

Throttled == \A s \in Sources : Passes(passed[s], now) /\ Remembers(passed[s], attempts[s], now)

LEMMA LaterRemembers ==
  ASSUME NEW t \in Nat, NEW u \in Nat, t <= u, NEW through, NEW left,
         Passes(through, t), Remembers(through, left, t)
  PROVE  Passes(through, u) /\ Remembers(through, left, u)
  <1>1. through \in Seq(Nat)
    BY DEF Passes
  <1>2. \A i \in 1 .. Len(through) : through[i] \in Nat
    BY <1>1, ElementOfSeq
  <1>3. Passes(through, u)
    <2>1. \A i \in 1 .. Len(through) : through[i] <= u
      BY <1>2 DEF Passes
    <2>. QED  BY <2>1 DEF Passes
  <1>4. Len(through) \in Nat /\ Len(left) \in Nat
    BY <1>1, LenProperties DEF Remembers
  <1>5. \A i \in 1 .. (Len(through) - Len(left)) : i \in 1 .. Len(through)
    BY <1>4
  <1>6. \A i \in 1 .. (Len(through) - Len(left)) : u - through[i] >= Window
    BY <1>2, <1>5, Bounds DEF Remembers
  <1>. QED  BY <1>3, <1>6 DEF Remembers

\* Retaining what is recent forgets the first of what is left.
LEMMA RetainedRemembers ==
  ASSUME NEW t \in Nat, NEW through, NEW left, Passes(through, t), Remembers(through, left, t)
  PROVE  Remembers(through, Retained(left, t), t)
  <1> DEFINE gone == Len(through) - Len(left)
  <1>1. /\ through \in Seq(Nat) /\ left \in Seq(Nat) /\ Len(left) <= MaxAttempts /\ gone \in Nat
        /\ \A i \in 1 .. Len(left) : left[i] = through[gone + i]
        /\ \A i \in 1 .. gone : t - through[i] >= Window
    BY DEF Passes, Remembers
  <1>2. Len(through) \in Nat /\ Len(left) \in Nat
    BY <1>1, LenProperties
  <1>3. InOrder(left)
    <2>1. ASSUME NEW i \in 1 .. Len(left), NEW j \in 1 .. Len(left), i <= j PROVE left[i] <= left[j]
      <3>1. gone + i \in 1 .. Len(through) /\ gone + j \in 1 .. Len(through) /\ gone + i <= gone + j
        BY <1>1, <1>2, <2>1
      <3>2. through[gone + i] <= through[gone + j]
        BY <3>1 DEF Passes, InOrder
      <3>. QED  BY <1>1, <3>2
    <2>. QED  BY <2>1 DEF InOrder
  <1>4. PICK k \in 0 .. Len(left) : Leaves(left, t, Retained(left, t), Len(left), k)
    BY <1>1, <1>3, RetainedLeaves
  <1> DEFINE less == Retained(left, t)
  <1>5. /\ less \in Seq(Nat) /\ Len(less) = Len(left) - k
        /\ \A i \in 1 .. Len(left) - k : less[i] = left[k + i]
        /\ \A i \in 1 .. k : t - left[i] >= Window
    BY <1>4 DEF Leaves
  <1> HIDE DEF less
  <1>6. k \in Nat /\ k <= Len(left) /\ MaxAttempts \in Nat /\ Window \in Nat
    BY <1>2, Bounds
  <1>7. Len(less) <= MaxAttempts /\ Len(through) - Len(less) = gone + k /\ gone + k \in Nat
    BY <1>1, <1>2, <1>5, <1>6
  <1>8. ASSUME NEW i \in 1 .. Len(less) PROVE less[i] = through[(gone + k) + i]
    <2>1. i \in 1 .. Len(left) - k /\ k + i \in 1 .. Len(left) /\ gone + (k + i) = (gone + k) + i
      BY <1>1, <1>2, <1>5, <1>6
    <2>2. less[i] = left[k + i]
      BY <1>5, <2>1
    <2>3. left[k + i] = through[gone + (k + i)]
      BY <1>1, <2>1
    <2>. QED  BY <2>1, <2>2, <2>3
  <1>9. ASSUME NEW i \in 1 .. gone + k PROVE t - through[i] >= Window
    <2>1. CASE i <= gone
      BY <1>1, <1>6, <2>1
    <2>2. CASE i > gone
      <3>1. i - gone \in 1 .. k /\ i - gone \in 1 .. Len(left) /\ gone + (i - gone) = i
        BY <1>1, <1>6, <2>2
      <3>2. left[i - gone] = through[gone + (i - gone)] /\ t - left[i - gone] >= Window
        BY <1>1, <1>5, <3>1
      <3>. QED  BY <3>1, <3>2
    <2>. QED  BY <1>1, <2>1, <2>2
  <1>10. Remembers(through, less, t)
    BY <1>5, <1>7, <1>8, <1>9 DEF Remembers
  <1>. QED  BY <1>10 DEF less

\* One more, if there is room for it.
LEMMA OneMorePasses ==
  ASSUME NEW t \in Nat, NEW through, NEW left, Passes(through, t), Remembers(through, left, t),
         Len(left) < MaxAttempts
  PROVE  Passes(Append(through, t), t) /\ Remembers(Append(through, t), Append(left, t), t)
  <1> DEFINE gone == Len(through) - Len(left)
             n == Len(through)
             more == Append(through, t)
             kept == Append(left, t)
  <1>1. /\ through \in Seq(Nat) /\ left \in Seq(Nat) /\ gone \in Nat
        /\ \A i \in 1 .. Len(left) : left[i] = through[gone + i]
        /\ \A i \in 1 .. gone : t - through[i] >= Window
    BY DEF Passes, Remembers
  <1>2. n \in Nat /\ Len(left) \in Nat /\ \A i \in 1 .. n : through[i] \in Nat
    BY <1>1, LenProperties, ElementOfSeq
  <1>3. /\ more \in Seq(Nat) /\ Len(more) = n + 1 /\ more[n + 1] = t
        /\ \A i \in 1 .. n : more[i] = through[i]
    BY <1>1, AppendProperties
  <1>4. /\ kept \in Seq(Nat) /\ Len(kept) = Len(left) + 1 /\ kept[Len(left) + 1] = t
        /\ \A i \in 1 .. Len(left) : kept[i] = left[i]
    BY <1>1, AppendProperties
  <1>5. MaxAttempts \in Nat \ {0} /\ Window \in Nat
    BY Bounds
  <1>6. \A i \in 1 .. n : through[i] <= t
    BY DEF Passes
  <1>7. \A i, j \in 1 .. n : i <= j => through[i] <= through[j]
    BY DEF Passes, InOrder
  <1>8. \A i \in 1 .. n : i + MaxAttempts <= n => through[i + MaxAttempts] - through[i] >= Window
    BY DEF Passes
  <1> HIDE DEF more, kept
  <1>9. \A i \in 1 .. n + 1 : i = n + 1 \/ i \in 1 .. n
    BY <1>2
  <1>10. \A i \in 1 .. Len(more) : more[i] <= t
    BY <1>3, <1>6, <1>9
  <1>11. InOrder(more)
    <2>1. ASSUME NEW i \in 1 .. n + 1, NEW j \in 1 .. n + 1, i <= j PROVE more[i] <= more[j]
      <3>1. CASE j = n + 1
        BY <1>3, <1>10, <3>1
      <3>2. CASE j \in 1 .. n
        <4>1. i \in 1 .. n
          BY <1>2, <2>1, <3>2
        <4>. QED  BY <1>3, <1>7, <2>1, <3>2, <4>1
      <3>. QED  BY <1>9, <3>1, <3>2
    <2>. QED  BY <1>3, <2>1 DEF InOrder
  <1>12. ASSUME NEW i \in 1 .. Len(more), i + MaxAttempts <= Len(more)
         PROVE  more[i + MaxAttempts] - more[i] >= Window
    <2>1. i \in 1 .. n
      BY <1>2, <1>3, <1>5, <1>12
    <2>2. CASE i + MaxAttempts = n + 1
      <3>1. i \in 1 .. gone
        BY <1>2, <1>5, <2>1, <2>2
      <3>. QED  BY <1>1, <1>3, <2>1, <2>2, <3>1
    <2>3. CASE i + MaxAttempts <= n
      <3>1. i + MaxAttempts \in 1 .. n
        BY <1>2, <1>5, <2>1, <2>3
      <3>. QED  BY <1>3, <1>8, <2>1, <2>3, <3>1
    <2>4. i \in Nat /\ n \in Nat /\ MaxAttempts \in Nat /\ i + MaxAttempts <= n + 1
      BY <1>2, <1>3, <1>5, <1>12, <2>1
    <2>5. i + MaxAttempts = n + 1 \/ i + MaxAttempts <= n
      <3> HIDE DEF n
      <3>. QED  BY <2>4
    <2>. QED  BY <2>2, <2>3, <2>5
  <1>13. Passes(more, t)
    BY <1>3, <1>10, <1>11, <1>12 DEF Passes
  <1>14. Len(kept) <= MaxAttempts /\ Len(more) - Len(kept) = gone
    BY <1>2, <1>3, <1>4, <1>5
  <1>15. ASSUME NEW i \in 1 .. Len(kept) PROVE kept[i] = more[gone + i]
    <2>1. CASE i = Len(left) + 1
      <3>1. gone + i = n + 1
        BY <1>2, <2>1
      <3>. QED  BY <1>3, <1>4, <2>1, <3>1
    <2>2. CASE i \in 1 .. Len(left)
      <3>1. gone + i \in 1 .. n
        BY <1>1, <1>2, <2>2
      <3>. QED  BY <1>1, <1>3, <1>4, <2>2, <3>1
    <2>3. i = Len(left) + 1 \/ i \in 1 .. Len(left)
      BY <1>2, <1>4
    <2>. QED  BY <2>1, <2>2, <2>3
  <1>16. ASSUME NEW i \in 1 .. gone PROVE t - more[i] >= Window
    <2>1. i \in 1 .. n
      BY <1>1, <1>2
    <2>. QED  BY <1>1, <1>3, <2>1
  <1>17. Remembers(more, kept, t)
    BY <1>1, <1>4, <1>14, <1>15, <1>16 DEF Remembers
  <1>. QED  BY <1>13, <1>17 DEF more, kept

-----------------------------------------------------------------------------
LEMMA InitThrottled == Init => Throttled
  <1>1. Passes(<< >>, 0) /\ Remembers(<< >>, << >>, 0)
    BY EmptySeq, Bounds DEF Passes, Remembers, InOrder
  <1>. QED  BY <1>1 DEF Init, Throttled

LEMMA LogInThrottled ==
  ASSUME Throttled, TypeOK, NEW r \in Requests, LogIn(r)
  PROVE  Throttled'
  <1>1. PICK s \in Sources :
           /\ now' = now
           /\ \/ UNCHANGED passed /\ attempts' = [attempts EXCEPT ![s] = Recent(s)]
              \/ /\ ~Full(s)
                 /\ attempts' = [attempts EXCEPT ![s] = Append(Recent(s), now)]
                 /\ passed' = [passed EXCEPT ![s] = Append(@, now)]
    BY DEF LogIn
  <1>2. now \in Nat /\ DOMAIN attempts = Sources /\ DOMAIN passed = Sources
    BY DEF TypeOK, MemoryOK, HistoryOK
  <1>3. Passes(passed[s], now) /\ Remembers(passed[s], Recent(s), now)
    BY <1>2, RetainedRemembers DEF Throttled, Recent
  <1>4. ASSUME NEW p \in Sources \ {s}
        PROVE  Passes(passed'[p], now') /\ Remembers(passed'[p], attempts'[p], now')
    <2>1. passed'[p] = passed[p] /\ attempts'[p] = attempts[p]
      BY <1>1, <1>2
    <2>. QED  BY <1>1, <2>1 DEF Throttled
  <1>5. Passes(passed'[s], now') /\ Remembers(passed'[s], attempts'[s], now')
    <2>1. CASE UNCHANGED passed /\ attempts' = [attempts EXCEPT ![s] = Recent(s)]
      <3>1. attempts'[s] = Recent(s) /\ passed'[s] = passed[s]
        BY <1>2, <2>1
      <3>. QED  BY <1>1, <1>3, <3>1
    <2>2. CASE /\ ~Full(s)
               /\ attempts' = [attempts EXCEPT ![s] = Append(Recent(s), now)]
               /\ passed' = [passed EXCEPT ![s] = Append(@, now)]
      <3>1. attempts'[s] = Append(Recent(s), now) /\ passed'[s] = Append(passed[s], now)
        BY <1>2, <2>2
      <3>2. Len(Recent(s)) < MaxAttempts
        <4>1. Len(Recent(s)) \in Nat
          BY <1>3, LenProperties DEF Remembers
        <4>. QED  BY <2>2, <4>1, Bounds DEF Full
      <3>3. /\ Passes(Append(passed[s], now), now)
            /\ Remembers(Append(passed[s], now), Append(Recent(s), now), now)
        BY <1>2, <1>3, <3>2, OneMorePasses, Zenon
      <3>. QED  BY <1>1, <3>1, <3>3
    <2>. QED  BY <1>1, <2>1, <2>2
  <1>. QED  BY <1>4, <1>5 DEF Throttled

LEMMA TimePassesThrottled ==
  ASSUME Throttled, TypeOK, TimePasses
  PROVE  Throttled'
  <1>1. now \in Nat /\ now' \in Nat /\ now <= now' /\ UNCHANGED <<attempts, passed>>
    BY DEF TypeOK, TimePasses, memory, history
  <1>2. ASSUME NEW s \in Sources
        PROVE  Passes(passed'[s], now') /\ Remembers(passed'[s], attempts'[s], now')
    BY <1>1, LaterRemembers DEF Throttled
  <1>. QED  BY <1>2 DEF Throttled

LEMMA RestartThrottled ==
  ASSUME Throttled, TypeOK, Restart
  PROVE  Throttled'
  <1>1. /\ now \in Nat /\ now' = now
        /\ attempts' = [s \in Sources |-> << >>] /\ passed' = [s \in Sources |-> << >>]
    BY DEF TypeOK, Restart
  <1>2. Passes(<< >>, now) /\ Remembers(<< >>, << >>, now)
    BY EmptySeq, Bounds DEF Passes, Remembers, InOrder
  <1>. QED  BY <1>1, <1>2 DEF Throttled

\* The other steps leave the throttle alone.
LEMMA NextThrottled == TypeOK /\ Throttled /\ [Next]_vars => Throttled'
  <1>. SUFFICES ASSUME TypeOK, Throttled, [Next]_vars PROVE Throttled'
    OBVIOUS
  <1>1. CASE UNCHANGED <<now, attempts, passed>>
    BY <1>1 DEF Throttled
  <1>2. ASSUME NEW r \in Requests, Serve(r)
        PROVE  LogIn(r) \/ UNCHANGED <<now, attempts, passed>>
    BY <1>2 DEF Serve, CreateSession, Callback, Exchange, ReceiveUser, Arrive, Select, PurgeOne,
                CheckHeader, LogOut, memory, history
  <1>3. BeginOAuth => UNCHANGED <<now, attempts, passed>>
    BY DEF BeginOAuth
  <1>4. UNCHANGED vars => UNCHANGED <<now, attempts, passed>>
    BY DEF vars
  <1>. QED  BY <1>1, <1>2, <1>3, <1>4, LogInThrottled, TimePassesThrottled, RestartThrottled DEF Next

LEMMA ThrottledBounds == Throttled => GuessesAreBounded
  <1>. SUFFICES ASSUME Throttled, NEW s \in Sources, NEW i \in DOMAIN passed[s],
                       i + MaxAttempts \in DOMAIN passed[s]
                PROVE  passed[s][i + MaxAttempts] - passed[s][i] >= Window
    BY DEF GuessesAreBounded
  <1>1. Passes(passed[s], now)
    BY DEF Throttled
  <1>2. DOMAIN passed[s] = 1 .. Len(passed[s]) /\ Len(passed[s]) \in Nat
    BY <1>1, LenProperties DEF Passes
  <1>. QED  BY <1>1, <1>2 DEF Passes

-----------------------------------------------------------------------------
USE AdminAccessAssumption

-----------------------------------------------------------------------------
(* What the tables keep to.                                                *)

\* A row lasts Ttl from when its session was earned; what was deleted on
\* request is gone.
RowsKept ==
    \A x \in sessions :
        /\ x.id \in DOMAIN opened /\ x.id \notin dead
        /\ x.until = opened[x.id].time + Ttl

\* A state is given out once, and waits until it is spent or forgotten.
StatesKept ==
    /\ dead \subseteq DOMAIN opened \cup issued
    /\ pending \subseteq issued
    /\ pending \cap dead = {}

TablesSound == RowsKept /\ StatesKept /\ LiveSessionsStay

\* What the handler of a request relies on.
Knows(r) ==
    /\ at[r] = "create" => due[r] \in Ttl .. now + Ttl /\ who[r] \in Identities
    /\ at[r] \in {"exchange", "user"} => bears[r].state \in issued
    /\ at[r] \in {"exchange", "user", "create", "opened"} => ~void[r]
    /\ at[r] \in {"select", "purge"} => bears[r].token \in DOMAIN opened
    /\ at[r] = "select" /\ void[r] => bears[r].token \in dead
    /\ at[r] = "purge" => opened[bears[r].token].time + Ttl <= now
    /\ BySession(r) => /\ bears[r].token \in DOMAIN opened /\ ~void[r]
                       /\ when[r] < opened[bears[r].token].time + Ttl

Inv == TypeOK /\ TablesSound /\ \A r \in Requests : Knows(r)

LEMMA InitInv == Init => Inv
  <1>. SUFFICES ASSUME Init PROVE Inv
    OBVIOUS
  <1>1. DOMAIN opened = {}
    BY DEF Init
  <1>2. RequestsOK
    <2>1. at \in [Requests -> Places] /\ when \in [Requests -> 0 .. now] /\ due \in [Requests -> Nat]
      BY DEF Init, Places
    <2>2. who \in [Requests -> Identities \cup Tokens \cup {Nobody}]
      BY DEF Init
    <2>3. Nothing \in Bears
      BY DEF Nothing, Bears
    <2>4. bears \in [Requests -> Bears]
      BY <2>3, Zenon DEF Init
    <2>5. void \in [Requests -> BOOLEAN]
      BY Zenon DEF Init
    <2>. QED  BY <2>1, <2>2, <2>4, <2>5 DEF RequestsOK
  <1>3. passed \in [Sources -> Seq(Nat)]
    <2>1. << >> \in Seq(Nat)
      BY EmptySeq
    <2>. QED  BY <2>1 DEF Init
  <1>4. TypeOK
    BY <1>1, <1>2, <1>3 DEF Init, TypeOK, SessionsOK, MemoryOK, HistoryOK
  <1>5. TablesSound
    BY <1>1 DEF Init, TablesSound, RowsKept, StatesKept, LiveSessionsStay
  <1>6. \A r \in Requests : Knows(r)
    BY DEF Init, Knows, BySession
  <1>. QED  BY <1>4, <1>5, <1>6 DEF Inv

-----------------------------------------------------------------------------
(* What every step does to the tables.                                     *)

Grows ==
    /\ now <= now'
    /\ DOMAIN opened \subseteq DOMAIN opened'
    /\ \A t \in DOMAIN opened : opened'[t] = opened[t]
    /\ issued \subseteq issued' /\ dead \subseteq dead'

Stays(r) == UNCHANGED <<at[r], bears[r], who[r], due[r], void[r], when[r]>>

LEMMA KnowsKept ==
  ASSUME Inv, TypeOK', Grows, NEW r \in Requests, Stays(r)
  PROVE  Knows(r)'
  <1>1. now \in Nat /\ now' \in Nat /\ Ttl \in Nat /\ due[r] \in Nat /\ now <= now'
    BY DEF Inv, TypeOK, RequestsOK, Grows
  <1>2. due[r] \in Ttl .. now + Ttl => due[r] \in Ttl .. now' + Ttl
    BY <1>1
  <1>3. ASSUME NEW t \in DOMAIN opened PROVE opened[t].time \in Nat /\ opened'[t] = opened[t] /\ t \in DOMAIN opened'
    BY DEF Inv, TypeOK, HistoryOK, Grows
  <1>4. Knows(r)
    BY DEF Inv
  <1>5. at[r] = "purge" => opened'[bears[r].token].time + Ttl <= now'
    BY <1>1, <1>3, <1>4 DEF Knows
  <1>. QED  BY <1>2, <1>3, <1>4, <1>5 DEF Knows, Stays, Grows, BySession

\* A step of one request.
LEMMA RequestStep ==
  ASSUME Inv, TypeOK', Grows, TablesSound', NEW r \in Requests, Knows(r)',
         \A p \in Requests \ {r} : Stays(p)
  PROVE  Inv'
  BY KnowsKept DEF Inv

tables == <<now, sessions, memory, restarts, opened, issued, dead, passed>>

\* One that leaves the tables.
LEMMA ReadingStep ==
  ASSUME Inv, UNCHANGED tables, faults' \in 0 .. MaxFaults, RequestsOK', NEW r \in Requests, Knows(r)',
         \A p \in Requests \ {r} : Stays(p)
  PROVE  Inv'
  <1>1. TypeOK'
    BY DEF Inv, TypeOK, SessionsOK, MemoryOK, HistoryOK, tables, memory
  <1>2. TablesSound'
    BY DEF Inv, TablesSound, RowsKept, StatesKept, LiveSessionsStay, tables, memory
  <1>3. Grows
    BY DEF Inv, TypeOK, Grows, tables
  <1>. QED  BY <1>1, <1>2, <1>3, RequestStep

LEMMA FaultTyped == ASSUME Inv, Works \/ Fault PROVE faults' \in 0 .. MaxFaults
  BY DEF Inv, TypeOK, Works, Fault

\* A handler that is refused knows nothing.
LEMMA GotoStep ==
  ASSUME Inv, UNCHANGED tables, faults' \in 0 .. MaxFaults, NEW r \in Requests, UNCHANGED <<bears, who, due, void, when>>,
         NEW label \in Places, Goto(r, label), Knows(r)'
  PROVE  Inv'
  <1>1. RequestsOK' /\ \A p \in Requests \ {r} : Stays(p)
    BY DEF Inv, TypeOK, RequestsOK, Goto, Stays, tables
  <1>. QED  BY <1>1, ReadingStep

LEMMA RefusedStep ==
  ASSUME Inv, UNCHANGED tables, faults' \in 0 .. MaxFaults, NEW r \in Requests, UNCHANGED <<bears, who, due, void, when>>,
         Goto(r, "refused")
  PROVE  Inv'
  <1>1. at'[r] = "refused"
    BY DEF Goto, Inv, TypeOK, RequestsOK
  <1>. QED  BY <1>1, GotoStep DEF Knows, BySession, Places

\* A request that comes with something.
LEMMA ComeTyped ==
  ASSUME Inv, NEW r \in Requests, NEW b \in Bears, Come(r, b)
  PROVE  /\ bears' \in [Requests -> Bears] /\ bears'[r] = b
         /\ void' \in [Requests -> BOOLEAN]
         /\ void'[r] <=> b.token \in dead \/ b.state \in dead
         /\ \A p \in Requests \ {r} : bears'[p] = bears[p] /\ void'[p] = void[p]
  <1>1. bears \in [Requests -> Bears] /\ void \in [Requests -> BOOLEAN]
    BY DEF Inv, TypeOK, RequestsOK
  <1>2. bears' \in [Requests -> Bears] /\ bears'[r] = b
    BY <1>1 DEF Come
  <1>3. \A p \in Requests \ {r} : bears'[p] = bears[p]
    BY <1>1 DEF Come
  <1>4. (b.token \in dead \/ b.state \in dead) \in BOOLEAN
    OBVIOUS
  <1>5. /\ void' \in [Requests -> BOOLEAN]
        /\ void'[r] = (b.token \in dead \/ b.state \in dead)
    BY <1>1, <1>4, Zenon DEF Come
  <1>6. \A p \in Requests \ {r} : void'[p] = void[p]
    BY <1>1, Zenon DEF Come
  <1>. QED  BY <1>2, <1>3, <1>5, <1>6

\* What is used up is a token or a state.
LEMMA DeadTypes ==
  ASSUME Inv
  PROVE  /\ NoToken \notin dead /\ NoState \notin dead
         /\ dead \subseteq Tokens \cup States /\ issued \subseteq States /\ DOMAIN opened \subseteq Tokens
  BY DEF Inv, TypeOK, HistoryOK

LEMMA PrepareTyped ==
  ASSUME Inv, NEW r \in Requests, NEW identity \in Identities, Prepare(r, identity)
  PROVE  /\ at' \in [Requests -> Places] /\ at'[r] = "create"
         /\ who' \in [Requests -> Identities \cup Tokens \cup {Nobody}] /\ who'[r] = identity
         /\ due' \in [Requests -> Nat] /\ due'[r] \in Ttl .. now + Ttl
         /\ \A p \in Requests \ {r} : at'[p] = at[p] /\ who'[p] = who[p] /\ due'[p] = due[p]
  <1>1. now \in Nat /\ Ttl \in Nat
    BY DEF Inv, TypeOK
  <1>. QED  BY <1>1 DEF Prepare, Goto, Inv, TypeOK, RequestsOK, Places

\* The throttle and its history are typed after an attempt.
LEMMA ThrottleTyped ==
  ASSUME Inv, NEW s \in Sources, NEW q, attempts' = [attempts EXCEPT ![s] = q],
         passed' = [passed EXCEPT ![s] = Append(@, now)] \/ UNCHANGED passed
  PROVE  DOMAIN attempts' = Sources /\ passed' \in [Sources -> Seq(Nat)]
  <1>1. now \in Nat /\ passed \in [Sources -> Seq(Nat)] /\ DOMAIN attempts = Sources
    BY DEF Inv, TypeOK, HistoryOK, MemoryOK
  <1>2. Append(passed[s], now) \in Seq(Nat)
    BY <1>1, AppendProperties
  <1>. QED  BY <1>1, <1>2

LEMMA LogInStep ==
  ASSUME Inv, NEW r \in Requests, LogIn(r)
  PROVE  Inv'
  <1>1. PICK s \in Sources, right \in BOOLEAN :
           /\ Come(r, [Nothing EXCEPT !.password = right])
           /\ \/ /\ attempts' = [attempts EXCEPT ![s] = Recent(s)]
                 /\ Goto(r, "refused")
                 /\ UNCHANGED <<who, due, passed>>
              \/ /\ attempts' = [attempts EXCEPT ![s] = Append(Recent(s), now)]
                 /\ passed' = [passed EXCEPT ![s] = Append(@, now)]
                 /\ \/ Prepare(r, "password")
                    \/ Goto(r, "refused") /\ UNCHANGED <<who, due>>
    BY DEF LogIn
  <1>2. UNCHANGED <<now, sessions, pending, faults, restarts, opened, issued, dead, when>>
    BY DEF LogIn
  <1>3. [Nothing EXCEPT !.password = right] \in Bears
    BY DEF Nothing, Bears
  <1>4. /\ bears' \in [Requests -> Bears]
        /\ void' \in [Requests -> BOOLEAN]
        /\ \A p \in Requests \ {r} : bears'[p] = bears[p] /\ void'[p] = void[p]
    BY <1>1, <1>3, ComeTyped
  <1>5. ~void'[r]
    BY <1>1, <1>3, ComeTyped, DeadTypes DEF Nothing
  <1>6. DOMAIN attempts' = Sources /\ passed' \in [Sources -> Seq(Nat)]
    BY <1>1, ThrottleTyped
  <1>7. /\ RequestsOK' /\ Knows(r)' /\ \A p \in Requests \ {r} : Stays(p)
    <2>1. CASE Prepare(r, "password")
      <3>1. "password" \in Identities
        BY DEF Identities
      <3>2. /\ at' \in [Requests -> Places] /\ at'[r] = "create"
            /\ who' \in [Requests -> Identities \cup Tokens \cup {Nobody}] /\ who'[r] = "password"
            /\ due' \in [Requests -> Nat] /\ due'[r] \in Ttl .. now + Ttl
            /\ \A p \in Requests \ {r} : at'[p] = at[p] /\ who'[p] = who[p] /\ due'[p] = due[p]
        BY <2>1, <3>1, PrepareTyped
      <3>3. RequestsOK'
        BY <1>2, <1>4, <3>2 DEF Inv, TypeOK, RequestsOK
      <3>4. Knows(r)'
        BY <1>2, <1>5, <3>1, <3>2 DEF Knows, BySession
      <3>. QED  BY <1>2, <1>4, <3>2, <3>3, <3>4 DEF Stays
    <2>2. CASE Goto(r, "refused") /\ UNCHANGED <<who, due>>
      <3>1. /\ at' \in [Requests -> Places] /\ at'[r] = "refused"
            /\ \A p \in Requests \ {r} : at'[p] = at[p]
        BY <2>2 DEF Goto, Inv, TypeOK, RequestsOK, Places
      <3>2. RequestsOK'
        BY <1>2, <1>4, <2>2, <3>1 DEF Inv, TypeOK, RequestsOK
      <3>. QED  BY <1>2, <1>4, <2>2, <3>1, <3>2 DEF Knows, BySession, Stays
    <2>. QED  BY <1>1, <2>1, <2>2
  <1>8. TypeOK'
    BY <1>2, <1>6, <1>7 DEF Inv, TypeOK, SessionsOK, MemoryOK, HistoryOK
  <1>9. TablesSound' /\ Grows
    BY <1>2 DEF Inv, TypeOK, TablesSound, RowsKept, StatesKept, LiveSessionsStay, Grows
  <1>. QED  BY <1>7, <1>8, <1>9, RequestStep

\* The row is new: nothing that was answered or used up has its token.
LEMMA CreateSessionStep ==
  ASSUME Inv, NEW r \in Requests, CreateSession(r)
  PROVE  Inv'
  <1>1. PICK t \in Tokens \ DOMAIN opened :
           /\ at[r] = "create"
           /\ \/ /\ sessions' = sessions \cup {[id |-> t, identity |-> who[r], until |-> due[r]]}
                 /\ opened' = [x \in DOMAIN opened \cup {t} |->
                                  IF x = t THEN [by |-> who[r], time |-> due[r] - Ttl] ELSE opened[x]]
                 /\ Goto(r, "opened")
              \/ Goto(r, "refused") /\ UNCHANGED <<sessions, opened>>
    BY DEF CreateSession
  <1>2. /\ faults' \in 0 .. MaxFaults
        /\ UNCHANGED <<now, memory, bears, who, due, restarts, issued, dead, void, when, passed>>
    BY FaultTyped DEF CreateSession
  <1>3. /\ due[r] \in Ttl .. now + Ttl /\ who[r] \in Identities /\ ~void[r]
        /\ now \in Nat /\ Ttl \in Nat
    BY <1>1 DEF Inv, Knows, TypeOK
  <1>4. CASE Goto(r, "refused") /\ UNCHANGED <<sessions, opened>>
    BY <1>2, <1>4, RefusedStep DEF tables
  <1>5. CASE /\ sessions' = sessions \cup {[id |-> t, identity |-> who[r], until |-> due[r]]}
             /\ opened' = [x \in DOMAIN opened \cup {t} |->
                              IF x = t THEN [by |-> who[r], time |-> due[r] - Ttl] ELSE opened[x]]
             /\ Goto(r, "opened")
    <2>1. due[r] - Ttl \in 0 .. now /\ (due[r] - Ttl) + Ttl = due[r] /\ due[r] \in Nat
      BY <1>3
    <2>2. /\ DOMAIN opened' = DOMAIN opened \cup {t}
          /\ opened'[t] = [by |-> who[r], time |-> due[r] - Ttl]
          /\ \A x \in DOMAIN opened : opened'[x] = opened[x]
      BY <1>1, <1>5
    <2>3. /\ at' \in [Requests -> Places] /\ at'[r] = "opened"
          /\ \A p \in Requests \ {r} : at'[p] = at[p]
      BY <1>5 DEF Goto, Inv, TypeOK, RequestsOK, Places
    <2>4. RequestsOK'
      BY <1>2, <2>3 DEF Inv, TypeOK, RequestsOK
    <2>5. SessionsOK'
      BY <1>3, <1>5, <2>1 DEF Inv, TypeOK, SessionsOK
    <2>6. [by |-> who[r], time |-> due[r] - Ttl] \in [by : Identities, time : 0 .. now]
      BY <1>3, <2>1
    <2>7. HistoryOK'
      <3>1. \A x \in DOMAIN opened' : opened'[x] \in [by : Identities, time : 0 .. now]
        BY <2>2, <2>6 DEF Inv, TypeOK, HistoryOK
      <3>. QED  BY <1>2, <2>2, <3>1 DEF Inv, TypeOK, HistoryOK
    <2>8. TypeOK'
      BY <1>2, <2>4, <2>5, <2>7 DEF Inv, TypeOK, MemoryOK, memory
    <2>9. Grows
      BY <1>2, <1>3, <2>2 DEF Grows
    <2>10. t \notin dead
      BY DeadTypes DEF Inv, TablesSound, StatesKept
    <2>11. RowsKept'
      BY <1>2, <1>5, <2>1, <2>2, <2>10 DEF Inv, TablesSound, RowsKept
    <2>12. StatesKept'
      BY <1>2, <2>2 DEF Inv, TablesSound, StatesKept, memory
    <2>13. LiveSessionsStay'
      <3>1. ASSUME NEW x \in DOMAIN opened \ dead, now < opened[x].time + Ttl
            PROVE  \E y \in sessions' : y.id = x
        BY <1>5, <3>1 DEF Inv, TablesSound, LiveSessionsStay
      <3>2. \E y \in sessions' : y.id = t
        <4>1. [id |-> t, identity |-> who[r], until |-> due[r]] \in sessions'
          BY <1>5
        <4>2. [id |-> t, identity |-> who[r], until |-> due[r]].id = t
          OBVIOUS
        <4>. QED  BY <4>1, <4>2
      <3>. QED  BY <1>2, <2>2, <3>1, <3>2 DEF LiveSessionsStay
    <2>14. Knows(r)'
      BY <1>2, <1>3, <2>3 DEF Knows, BySession
    <2>15. \A p \in Requests \ {r} : Stays(p)
      BY <1>2, <2>3 DEF Stays
    <2>. QED  BY <2>8, <2>9, <2>11, <2>12, <2>13, <2>14, <2>15, RequestStep DEF TablesSound
  <1>. QED  BY <1>1, <1>4, <1>5

-----------------------------------------------------------------------------
(* The OAuth login.                                                        *)

LEMMA BeginOAuthStep ==
  ASSUME Inv, BeginOAuth
  PROVE  Inv'
  <1>1. PICK st \in States \ issued : pending' = pending \cup {st} /\ issued' = issued \cup {st}
    BY DEF BeginOAuth
  <1>2. UNCHANGED <<now, sessions, attempts, at, bears, who, due, faults, restarts,
                    opened, dead, void, when, passed>>
    BY DEF BeginOAuth
  <1>3. TypeOK'
    BY <1>1, <1>2 DEF Inv, TypeOK, SessionsOK, MemoryOK, RequestsOK, HistoryOK
  <1>4. st \notin dead
    BY <1>1, DeadTypes DEF Inv, TablesSound, StatesKept
  <1>5. TablesSound'
    BY <1>1, <1>2, <1>4 DEF Inv, TablesSound, RowsKept, StatesKept, LiveSessionsStay
  <1>6. Grows
    BY <1>1, <1>2 DEF Grows, Inv, TypeOK
  <1>7. \A r \in Requests : Stays(r)
    BY <1>2 DEF Stays
  <1>. QED  BY <1>3, <1>5, <1>6, <1>7, KnowsKept DEF Inv

\* A state that is looked up with success was not used up when it came.
LEMMA CallbackStep ==
  ASSUME Inv, NEW r \in Requests, Callback(r)
  PROVE  Inv'
  <1>1. PICK st \in issued :
           /\ Come(r, [Nothing EXCEPT !.state = st])
           /\ Goto(r, IF Known(st) THEN "exchange" ELSE "refused")
    BY DEF Callback
  <1>2. UNCHANGED <<now, sessions, memory, who, due, faults, restarts, history>>
    BY DEF Callback
  <1>3. PICK b \in Bears : b = [Nothing EXCEPT !.state = st] /\ b.state = st /\ b.token = NoToken
    <2>1. st \in States
      BY DeadTypes
    <2>2. [Nothing EXCEPT !.state = st] \in Bears
      BY <2>1 DEF Nothing, Bears
    <2>3. [Nothing EXCEPT !.state = st].state = st
      BY DEF Nothing
    <2>4. [Nothing EXCEPT !.state = st].token = NoToken
      BY DEF Nothing
    <2>. QED  BY <2>2, <2>3, <2>4
  <1>4. /\ bears' \in [Requests -> Bears] /\ bears'[r] = b
        /\ void' \in [Requests -> BOOLEAN]
        /\ void'[r] <=> b.token \in dead \/ b.state \in dead
        /\ \A p \in Requests \ {r} : bears'[p] = bears[p] /\ void'[p] = void[p]
    BY <1>1, <1>3, ComeTyped
  <1>5. Known(st) => ~void'[r]
    BY <1>3, <1>4, DeadTypes DEF Known, Inv, TablesSound, StatesKept
  <1>6. /\ at' \in [Requests -> Places] /\ at'[r] = (IF Known(st) THEN "exchange" ELSE "refused")
        /\ \A p \in Requests \ {r} : at'[p] = at[p]
    BY <1>1 DEF Goto, Inv, TypeOK, RequestsOK, Places
  <1>7. RequestsOK'
    BY <1>2, <1>4, <1>6 DEF Inv, TypeOK, RequestsOK, history
  <1>8. Knows(r)'
    BY <1>2, <1>3, <1>4, <1>5, <1>6 DEF Knows, BySession, history
  <1>9. \A p \in Requests \ {r} : Stays(p)
    BY <1>2, <1>4, <1>6 DEF Stays, history
  <1>10. UNCHANGED tables /\ faults' \in 0 .. MaxFaults
    BY <1>2 DEF tables, history, memory, Inv, TypeOK
  <1>. QED  BY <1>7, <1>8, <1>9, <1>10, ReadingStep

LEMMA ExchangeStep ==
  ASSUME Inv, NEW r \in Requests, Exchange(r)
  PROVE  Inv'
  <1>1. PICK next \in {"user", "refused"} : at[r] = "exchange" /\ Goto(r, next)
    BY DEF Exchange
  <1>2. UNCHANGED <<now, sessions, memory, bears, who, due, faults, restarts, history, void>>
    BY DEF Exchange
  <1>3. UNCHANGED tables /\ faults' \in 0 .. MaxFaults /\ UNCHANGED <<bears, who, due, void, when>>
    BY <1>2 DEF tables, history, memory, Inv, TypeOK
  <1>4. at'[r] = next /\ next \in Places
    BY <1>1 DEF Goto, Inv, TypeOK, RequestsOK, Places
  <1>5. Knows(r)'
    BY <1>1, <1>3, <1>4 DEF Inv, Knows, BySession, tables
  <1>. QED  BY <1>1, <1>3, <1>4, <1>5, GotoStep

LEMMA ReceiveUserStep ==
  ASSUME Inv, NEW r \in Requests, ReceiveUser(r)
  PROVE  Inv'
  <1>1. at[r] = "user"
    BY DEF ReceiveUser
  <1>2. UNCHANGED <<now, sessions, attempts, bears, faults, restarts, opened, issued, void, when, passed>>
    BY DEF ReceiveUser
  <1>3. bears[r].state \in issued /\ ~void[r]
    BY <1>1 DEF Inv, Knows
  <1>4. CASE Goto(r, "refused") /\ UNCHANGED <<pending, dead, who, due>>
    <2>1. UNCHANGED tables /\ faults' \in 0 .. MaxFaults
      BY <1>2, <1>4 DEF tables, memory, Inv, TypeOK
    <2>. QED  BY <1>2, <1>4, <2>1, RefusedStep
  <1>5. CASE \E e \in Emails : Accepted(e) /\ Spend(r) /\ Prepare(r, e)
    <2>1. PICK e \in Emails : Spend(r) /\ Prepare(r, e)
      BY <1>5
    <2>2. e \in Identities
      BY DEF Identities
    <2>3. /\ at' \in [Requests -> Places] /\ at'[r] = "create"
          /\ who' \in [Requests -> Identities \cup Tokens \cup {Nobody}] /\ who'[r] = e
          /\ due' \in [Requests -> Nat] /\ due'[r] \in Ttl .. now + Ttl
          /\ \A p \in Requests \ {r} : at'[p] = at[p] /\ who'[p] = who[p] /\ due'[p] = due[p]
      BY <2>1, <2>2, PrepareTyped
    <2>4. RequestsOK'
      BY <1>2, <2>3 DEF Inv, TypeOK, RequestsOK
    <2>5. pending' = pending \ {bears[r].state} /\ dead' = dead \cup {bears[r].state}
      BY <2>1 DEF Spend
    <2>6. TypeOK'
      BY <1>2, <1>3, <2>4, <2>5 DEF Inv, TypeOK, SessionsOK, MemoryOK, HistoryOK
    <2>7. Grows
      BY <1>2, <2>5 DEF Grows, Inv, TypeOK
    <2>8. RowsKept'
      BY <1>2, <1>3, <2>5, DeadTypes DEF Inv, TablesSound, RowsKept
    <2>9. StatesKept'
      BY <1>2, <1>3, <2>5 DEF Inv, TablesSound, StatesKept
    <2>10. LiveSessionsStay'
      BY <1>2, <2>5 DEF Inv, TablesSound, LiveSessionsStay
    <2>11. Knows(r)'
      BY <1>2, <1>3, <2>2, <2>3 DEF Knows, BySession
    <2>12. \A p \in Requests \ {r} : Stays(p)
      BY <1>2, <2>3 DEF Stays
    <2>. QED  BY <2>6, <2>7, <2>8, <2>9, <2>10, <2>11, <2>12, RequestStep DEF TablesSound
  <1>. QED  BY <1>4, <1>5 DEF ReceiveUser

-----------------------------------------------------------------------------
(* verify_admin and admin_logout.                                          *)

LEMMA ArriveStep ==
  ASSUME Inv, NEW r \in Requests, Arrive(r)
  PROVE  Inv'
  <1>1. PICK t \in DOMAIN opened \cup {NoToken}, right \in BOOLEAN :
           /\ Come(r, [token |-> t, state |-> NoState, password |-> right])
           /\ Goto(r, IF t = NoToken THEN "header" ELSE "select")
    BY DEF Arrive
  <1>2. UNCHANGED <<now, sessions, memory, who, due, faults, restarts, history>>
    BY DEF Arrive
  <1>3. PICK b \in Bears : b = [token |-> t, state |-> NoState, password |-> right] /\ b.token = t /\ b.state = NoState
    BY <1>1, DeadTypes DEF Bears
  <1>4. /\ bears' \in [Requests -> Bears] /\ bears'[r] = b
        /\ void' \in [Requests -> BOOLEAN]
        /\ void'[r] <=> b.token \in dead \/ b.state \in dead
        /\ \A p \in Requests \ {r} : bears'[p] = bears[p] /\ void'[p] = void[p]
    BY <1>1, <1>3, ComeTyped
  <1>5. /\ at' \in [Requests -> Places] /\ at'[r] = (IF t = NoToken THEN "header" ELSE "select")
        /\ \A p \in Requests \ {r} : at'[p] = at[p]
    BY <1>1 DEF Goto, Inv, TypeOK, RequestsOK, Places
  <1>6. RequestsOK'
    BY <1>2, <1>4, <1>5 DEF Inv, TypeOK, RequestsOK, history
  <1>7. UNCHANGED tables /\ faults' \in 0 .. MaxFaults /\ UNCHANGED <<who, due, when>>
    BY <1>2 DEF tables, history, memory, Inv, TypeOK
  <1>8. at'[r] = "select" => bears'[r].token \in DOMAIN opened /\ (void'[r] => bears'[r].token \in dead)
    BY <1>1, <1>3, <1>4, <1>5, DeadTypes
  <1>9. Knows(r)'
    BY <1>5, <1>7, <1>8 DEF Knows, BySession, tables
  <1>10. \A p \in Requests \ {r} : Stays(p)
    BY <1>4, <1>5, <1>7 DEF Stays
  <1>. QED  BY <1>6, <1>7, <1>9, <1>10, ReadingStep

\* A handler that lets its request in.
LEMMA AdmitStep ==
  ASSUME Inv, NEW r \in Requests, NEW identity \in Identities \cup Tokens, Admit(r, identity),
         UNCHANGED tables, UNCHANGED <<bears, due, void>>, faults' \in 0 .. MaxFaults,
         identity # "password" => /\ bears[r].token \in DOMAIN opened /\ ~void[r]
                                  /\ now < opened[bears[r].token].time + Ttl
  PROVE  Inv'
  <1>1. /\ at' \in [Requests -> Places] /\ at'[r] = "admitted"
        /\ who' \in [Requests -> Identities \cup Tokens \cup {Nobody}] /\ who'[r] = identity
        /\ when' \in [Requests -> 0 .. now] /\ when'[r] = now
        /\ \A p \in Requests \ {r} : at'[p] = at[p] /\ who'[p] = who[p] /\ when'[p] = when[p]
    BY DEF Admit, Goto, Inv, TypeOK, RequestsOK, Places
  <1>2. RequestsOK'
    BY <1>1 DEF Inv, TypeOK, RequestsOK, tables
  <1>3. Knows(r)'
    BY <1>1 DEF Knows, BySession, tables
  <1>4. \A p \in Requests \ {r} : Stays(p)
    BY <1>1 DEF Stays
  <1>. QED  BY <1>2, <1>3, <1>4, ReadingStep

\* A row that is found was not deleted before the request came, and says when
\* its session ends.
LEMMA SelectStep ==
  ASSUME Inv, NEW r \in Requests, Select(r)
  PROVE  Inv'
  <1>. DEFINE found == {x \in sessions : x.id = bears[r].token}
  <1>1. /\ at[r] = "select"
        /\ \/ \E x \in found : ~Expired(x) /\ Admit(r, x.id)
           \/ /\ \/ \E x \in found : Expired(x) /\ Goto(r, "purge")
                 \/ Goto(r, "header")
                 \/ Goto(r, "refused")
              /\ UNCHANGED <<who, when>>
    BY DEF Select
  <1>2. /\ faults' \in 0 .. MaxFaults
        /\ UNCHANGED <<now, sessions, memory, bears, due, restarts, opened, issued, dead, void, passed>>
    BY FaultTyped DEF Select
  <1>3. UNCHANGED tables
    BY <1>2 DEF tables
  <1>4. /\ bears[r].token \in DOMAIN opened
        /\ void[r] => bears[r].token \in dead
    BY <1>1 DEF Inv, Knows
  <1>5. ASSUME NEW x \in found
        PROVE  /\ x.id = bears[r].token /\ x.id \in Tokens /\ x.id \notin dead
               /\ x.until = opened[bears[r].token].time + Ttl /\ x.until \in Nat
    BY DEF Inv, TypeOK, SessionsOK, TablesSound, RowsKept
  <1>6. now \in Nat
    BY DEF Inv, TypeOK
  <1>7. CASE \E x \in found : ~Expired(x) /\ Admit(r, x.id)
    <2>1. PICK x \in found : ~Expired(x) /\ Admit(r, x.id)
      BY <1>7
    <2>2. now < opened[bears[r].token].time + Ttl
      BY <1>5, <1>6, <2>1 DEF Expired
    <2>. QED  BY <1>2, <1>3, <1>4, <1>5, <2>1, <2>2, AdmitStep
  <1>8. CASE (\E x \in found : Expired(x) /\ Goto(r, "purge")) /\ UNCHANGED <<who, when>>
    <2>1. PICK x \in found : Expired(x) /\ Goto(r, "purge")
      BY <1>8
    <2>2. opened[bears[r].token].time + Ttl <= now
      BY <1>5, <1>6, <2>1 DEF Expired
    <2>3. at'[r] = "purge" /\ "purge" \in Places
      BY <2>1 DEF Goto, Inv, TypeOK, RequestsOK, Places
    <2>4. Knows(r)'
      BY <1>2, <1>4, <1>8, <2>2, <2>3 DEF Knows, BySession
    <2>. QED  BY <1>2, <1>3, <1>8, <2>1, <2>3, <2>4, GotoStep
  <1>9. CASE Goto(r, "header") /\ UNCHANGED <<who, when>>
    <2>1. at'[r] = "header" /\ "header" \in Places
      BY <1>9 DEF Goto, Inv, TypeOK, RequestsOK, Places
    <2>2. Knows(r)'
      BY <2>1 DEF Knows, BySession
    <2>. QED  BY <1>2, <1>3, <1>9, <2>1, <2>2, GotoStep
  <1>10. CASE Goto(r, "refused") /\ UNCHANGED <<who, when>>
    BY <1>2, <1>3, <1>10, RefusedStep
  <1>. QED  BY <1>1, <1>7, <1>8, <1>9, <1>10

\* The row that is deleted has ended.
LEMMA PurgeOneStep ==
  ASSUME Inv, NEW r \in Requests, PurgeOne(r)
  PROVE  Inv'
  <1>1. /\ at[r] = "purge"
        /\ \/ sessions' = {x \in sessions : x.id # bears[r].token} /\ Goto(r, "header")
           \/ Goto(r, "refused") /\ UNCHANGED sessions
    BY DEF PurgeOne
  <1>2. /\ faults' \in 0 .. MaxFaults
        /\ UNCHANGED <<now, memory, bears, who, due, restarts, opened, issued, dead, passed, when, void>>
    BY FaultTyped DEF PurgeOne, history
  <1>3. bears[r].token \in DOMAIN opened /\ opened[bears[r].token].time + Ttl <= now
    BY <1>1 DEF Inv, Knows
  <1>4. CASE Goto(r, "refused") /\ UNCHANGED sessions
    BY <1>2, <1>4, RefusedStep DEF tables
  <1>5. CASE sessions' = {x \in sessions : x.id # bears[r].token} /\ Goto(r, "header")
    <2>1. /\ at' \in [Requests -> Places] /\ at'[r] = "header"
          /\ \A p \in Requests \ {r} : at'[p] = at[p]
      BY <1>5 DEF Goto, Inv, TypeOK, RequestsOK, Places
    <2>2. TypeOK'
      BY <1>2, <1>5, <2>1 DEF Inv, TypeOK, SessionsOK, MemoryOK, RequestsOK, HistoryOK, memory
    <2>3. Grows
      BY <1>2 DEF Grows, Inv, TypeOK
    <2>4. RowsKept' /\ StatesKept'
      BY <1>2, <1>5 DEF Inv, TablesSound, RowsKept, StatesKept, memory
    <2>5. LiveSessionsStay'
      <3>1. ASSUME NEW t \in DOMAIN opened \ dead, now < opened[t].time + Ttl
            PROVE  \E x \in sessions' : x.id = t
        <4>1. t # bears[r].token
          <5>1. now \in Nat /\ opened[t].time \in Nat /\ Ttl \in Nat
            BY DEF Inv, TypeOK, HistoryOK
          <5>. QED  BY <1>3, <3>1, <5>1
        <4>. QED  BY <1>5, <3>1, <4>1 DEF Inv, TablesSound, LiveSessionsStay
      <3>. QED  BY <1>2, <3>1 DEF LiveSessionsStay
    <2>6. Knows(r)'
      BY <2>1 DEF Knows, BySession
    <2>7. \A p \in Requests \ {r} : Stays(p)
      BY <1>2, <2>1 DEF Stays
    <2>. QED  BY <2>2, <2>3, <2>4, <2>5, <2>6, <2>7, RequestStep DEF TablesSound
  <1>. QED  BY <1>1, <1>4, <1>5

LEMMA CheckHeaderStep ==
  ASSUME Inv, NEW r \in Requests, CheckHeader(r)
  PROVE  Inv'
  <1>1. \/ Admit(r, "password")
        \/ Goto(r, "refused") /\ UNCHANGED <<who, when>>
    BY DEF CheckHeader
  <1>2. UNCHANGED tables /\ UNCHANGED <<bears, due, void>> /\ faults' \in 0 .. MaxFaults
    BY DEF CheckHeader, tables, memory, Inv, TypeOK
  <1>3. "password" \in Identities \cup Tokens
    BY DEF Identities
  <1>. QED  BY <1>1, <1>2, <1>3, AdmitStep, RefusedStep

LEMMA LogOutStep ==
  ASSUME Inv, NEW r \in Requests, LogOut(r)
  PROVE  Inv'
  <1>1. PICK t \in DOMAIN opened :
           /\ Come(r, [Nothing EXCEPT !.token = t])
           /\ \/ DeleteRow(t) /\ dead' = dead \cup {t}
              \/ UNCHANGED <<sessions, dead>>
           /\ Goto(r, "done")
    BY DEF LogOut
  <1>2. /\ faults' \in 0 .. MaxFaults
        /\ UNCHANGED <<now, memory, who, due, restarts, opened, issued, when, passed>>
    BY FaultTyped DEF LogOut
  <1>3. [Nothing EXCEPT !.token = t] \in Bears
    BY <1>1, DeadTypes DEF Nothing, Bears
  <1>4. /\ bears' \in [Requests -> Bears]
        /\ void' \in [Requests -> BOOLEAN]
        /\ \A p \in Requests \ {r} : bears'[p] = bears[p] /\ void'[p] = void[p]
    BY <1>1, <1>3, ComeTyped
  <1>5. /\ at' \in [Requests -> Places] /\ at'[r] = "done"
        /\ \A p \in Requests \ {r} : at'[p] = at[p]
    BY <1>1 DEF Goto, Inv, TypeOK, RequestsOK, Places
  <1>6. RequestsOK'
    BY <1>2, <1>4, <1>5 DEF Inv, TypeOK, RequestsOK
  <1>7. SessionsOK' /\ dead' \subseteq Tokens \cup States /\ dead \subseteq dead'
    BY <1>1, DeadTypes DEF Inv, TypeOK, SessionsOK, DeleteRow
  <1>8. TypeOK'
    BY <1>2, <1>6, <1>7 DEF Inv, TypeOK, MemoryOK, HistoryOK, memory
  <1>9. Grows
    BY <1>2, <1>7 DEF Grows, Inv, TypeOK
  <1>10. RowsKept'
    BY <1>1, <1>2 DEF Inv, TablesSound, RowsKept, DeleteRow
  <1>11. StatesKept'
    BY <1>1, <1>2, DeadTypes DEF Inv, TablesSound, StatesKept, memory
  <1>12. LiveSessionsStay'
    BY <1>1, <1>2 DEF Inv, TablesSound, LiveSessionsStay, DeleteRow
  <1>13. Knows(r)'
    BY <1>5 DEF Knows, BySession
  <1>14. \A p \in Requests \ {r} : Stays(p)
    BY <1>2, <1>4, <1>5 DEF Stays
  <1>. QED  BY <1>8, <1>9, <1>10, <1>11, <1>12, <1>13, <1>14, RequestStep DEF TablesSound

-----------------------------------------------------------------------------
(* Restarts and the clock.                                                 *)

\* The handlers that wait end, and the states they may bear are used up.
LEMMA RestartStep ==
  ASSUME Inv, Restart
  PROVE  Inv'
  <1>1. /\ restarts' \in 0 .. MaxRestarts
        /\ attempts' = [s \in Sources |-> << >>]
        /\ passed' = [s \in Sources |-> << >>]
        /\ pending' = {}
        /\ dead' = dead \cup issued
        /\ at' = [r \in Requests |-> IF at[r] \in {"idle", "admitted", "opened"} THEN at[r] ELSE "done"]
        /\ sessions' = {x \in sessions : ~Expired(x)} \/ UNCHANGED sessions
    BY DEF Restart, Inv, TypeOK
  <1>2. /\ faults' \in 0 .. MaxFaults
        /\ UNCHANGED <<now, bears, who, due, opened, issued, void, when>>
    BY FaultTyped DEF Restart
  <1>3. at' \in [Requests -> Places]
    BY <1>1 DEF Inv, TypeOK, RequestsOK, Places
  <1>4. << >> \in Seq(Nat)
    BY EmptySeq
  <1>5. passed' \in [Sources -> Seq(Nat)]
    BY <1>1, <1>4
  <1>6. TypeOK'
    BY <1>1, <1>2, <1>3, <1>5 DEF Inv, TypeOK, SessionsOK, MemoryOK, RequestsOK, HistoryOK
  <1>7. Grows
    BY <1>1, <1>2 DEF Grows, Inv, TypeOK
  <1>8. RowsKept'
    BY <1>1, <1>2, DeadTypes DEF Inv, TypeOK, SessionsOK, TablesSound, RowsKept
  <1>9. StatesKept'
    BY <1>1, <1>2 DEF Inv, TablesSound, StatesKept
  <1>10. LiveSessionsStay'
    <2>1. ASSUME NEW t \in DOMAIN opened \ dead, now < opened[t].time + Ttl
          PROVE  \E x \in sessions' : x.id = t
      <3>1. PICK x \in sessions : x.id = t
        BY <2>1 DEF Inv, TablesSound, LiveSessionsStay
      <3>2. x.until = opened[t].time + Ttl /\ x.until \in Nat /\ now \in Nat
        BY <3>1 DEF Inv, TypeOK, SessionsOK, TablesSound, RowsKept
      <3>3. ~Expired(x)
        BY <2>1, <3>2 DEF Expired
      <3>. QED  BY <1>1, <3>1, <3>3
    <2>. QED  BY <1>1, <1>2, <2>1 DEF LiveSessionsStay
  <1>11. ASSUME NEW r \in Requests PROVE Knows(r)'
    <2>1. CASE at[r] \in {"idle", "admitted", "opened"}
      <3>1. Stays(r)
        BY <1>1, <1>2, <2>1 DEF Stays
      <3>. QED  BY <1>6, <1>7, <3>1, KnowsKept
    <2>2. CASE at[r] \notin {"idle", "admitted", "opened"}
      <3>1. at'[r] = "done"
        BY <1>1, <2>2
      <3>. QED  BY <3>1 DEF Knows, BySession
    <2>. QED  BY <2>1, <2>2
  <1>. QED  BY <1>6, <1>8, <1>9, <1>10, <1>11 DEF Inv, TablesSound

LEMMA TimePassesStep ==
  ASSUME Inv, TimePasses
  PROVE  Inv'
  <1>1. now' = now + 1 /\ now \in Nat /\ now' \in 0 .. MaxTime
    BY DEF TimePasses, Inv, TypeOK
  <1>2. UNCHANGED <<sessions, attempts, pending, at, bears, who, due, faults, restarts,
                    opened, issued, dead, passed, when, void>>
    BY DEF TimePasses, memory, history
  <1>3. RequestsOK'
    <2>1. when' \in [Requests -> 0 .. now']
      BY <1>1, <1>2 DEF Inv, TypeOK, RequestsOK
    <2>. QED  BY <1>2, <2>1 DEF Inv, TypeOK, RequestsOK
  <1>4. HistoryOK'
    <2>1. ASSUME NEW t \in DOMAIN opened PROVE opened[t] \in [by : Identities, time : 0 .. now']
      <3>1. opened[t] \in [by : Identities, time : 0 .. now]
        BY DEF Inv, TypeOK, HistoryOK
      <3>2. 0 .. now \subseteq 0 .. now'
        BY <1>1
      <3>. QED  BY <3>1, <3>2
    <2>. QED  BY <1>2, <2>1 DEF Inv, TypeOK, HistoryOK
  <1>5. TypeOK'
    BY <1>1, <1>2, <1>3, <1>4 DEF Inv, TypeOK, SessionsOK, MemoryOK
  <1>6. Grows
    BY <1>1, <1>2 DEF Grows
  <1>7. RowsKept' /\ StatesKept'
    BY <1>2 DEF Inv, TablesSound, RowsKept, StatesKept
  <1>8. LiveSessionsStay'
    <2>1. ASSUME NEW t \in DOMAIN opened \ dead, now' < opened[t].time + Ttl
          PROVE  now < opened[t].time + Ttl
      <3>1. opened[t].time \in Nat /\ Ttl \in Nat
        BY DEF Inv, TypeOK, HistoryOK
      <3>. QED  BY <1>1, <2>1, <3>1
    <2>. QED  BY <1>2, <2>1 DEF Inv, TablesSound, LiveSessionsStay
  <1>9. \A r \in Requests : Stays(r)
    BY <1>2 DEF Stays
  <1>. QED  BY <1>5, <1>6, <1>7, <1>8, <1>9, KnowsKept DEF Inv, TablesSound

LEMMA StutterStep == ASSUME Inv, UNCHANGED vars PROVE Inv'
  BY DEF Inv, TypeOK, SessionsOK, MemoryOK, RequestsOK, HistoryOK, TablesSound, RowsKept, StatesKept,
         LiveSessionsStay, Knows, BySession, vars

LEMMA NextInv == Inv /\ [Next]_vars => Inv'
  <1>. SUFFICES ASSUME Inv, [Next]_vars PROVE Inv'
    OBVIOUS
  <1>1. ASSUME NEW r \in Requests, Serve(r) PROVE Inv'
    BY <1>1, LogInStep, CreateSessionStep, CallbackStep, ExchangeStep, ReceiveUserStep, ArriveStep,
       SelectStep, PurgeOneStep, CheckHeaderStep, LogOutStep DEF Serve
  <1>. QED  BY <1>1, BeginOAuthStep, RestartStep, TimePassesStep, StutterStep DEF Next

LEMMA InvHolds == Spec => []Inv
  BY InitInv, NextInv, PTL DEF Spec

-----------------------------------------------------------------------------
(* The theorems.                                                           *)

\* Every variable has its type in every reachable state.
THEOREM TypeCorrect == Spec => []TypeOK
  <1>1. Inv => TypeOK
    BY DEF Inv
  <1>. QED  BY <1>1, InvHolds, PTL

\* A session lets requests in for SESSION_TTL from its login, and its row is
\* there until then (session::create, validate, delete, purge_expired).
THEOREM SessionsLast == Spec => []SessionsLastTheirTime
  <1>1. Inv => SessionsLastTheirTime
    BY DEF Inv, TablesSound, Knows, SessionsLastTheirTime, SessionsEnd
  <1>. QED  BY <1>1, InvHolds, PTL

\* A token whose row a logout deleted lets no request in that comes with it
\* afterwards (admin_logout, session::validate).
THEOREM LogoutsFinal == Spec => []LogoutIsFinal
  <1>1. Inv => LogoutIsFinal
    BY DEF Inv, Knows, LogoutIsFinal
  <1>. QED  BY <1>1, InvHolds, PTL

\* A state that opened a session, or that a restart forgot, opens none for a
\* callback that comes after (oauth_callback).
THEOREM StatesOnce == Spec => []StatesWorkOnce
  <1>1. Inv => StatesWorkOnce
    BY DEF Inv, Knows, StatesWorkOnce
  <1>. QED  BY <1>1, InvHolds, PTL

\* However its attempts come, and however often the clock and the restarts come
\* between them, a source gets no more than MaxAttempts of them through the
\* throttle within one Window, wherever it begins (LoginThrottle::allow).
THEOREM GuessesBounded == Spec => []GuessesAreBounded
  <1>. USE DEF Spec
  <1>1. Spec => []TypeOK
    BY TypeCorrect
  <1>2. Spec => []Throttled
    BY <1>1, InitThrottled, NextThrottled, PTL
  <1>. QED  BY <1>2, ThrottledBounds, PTL
=============================================================================
