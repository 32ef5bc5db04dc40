---------------------------- MODULE ProofLemmas ----------------------------
(***************************************************************************)
(* What the proofs of several components rest on, whatever they are about: *)
(* induction over the natural numbers stated with a set, the indices of a  *)
(* ring, and folds from the left and loops as runs of steps.               *)
(***************************************************************************)
EXTENDS Integers, Sequences, SequencesExt, FiniteSetTheorems, SequenceTheorems, TLAPS

(***************************************************************************)
(* Induction.  Sets take the place of predicates, so that the provers can  *)
(* use the lemmas: a set of numbers is read off any predicate.             *)
(***************************************************************************)
\* Every set of natural numbers that is not empty has a least element.  The
\* intervals from 0 to its elements are well-founded.
LEMMA LeastNatural ==
  ASSUME NEW T \in SUBSET Nat, T # {}
  PROVE  \E x \in T : \A y \in T : x <= y
<1> DEFINE F == {0 .. n : n \in T}
           R == StrictSubsetOrdering(Nat)
           S == FiniteSubsetsOf(Nat)
<1>1. IsWellFoundedOn(R, S)
  BY FS_StrictSubsetOrderingWellFounded, Zenon
<1>2. F \subseteq S /\ F # {}
  <2>1. \A n \in T : n \in Int /\ 0 \in Int /\ 0 .. n \in SUBSET Nat
    OBVIOUS
  <2>2. \A n \in T : IsFiniteSet(0 .. n)
    BY <2>1, FS_Interval, Zenon
  <2>3. QED
    BY <2>1, <2>2, Zenon DEF FiniteSubsetsOf
<1>3. PICK u \in F : \A v \in F : <<v, u>> \notin R
  <2> HIDE DEF R, S, F
  <2>1. QED
    BY <1>1, <1>2, WFMin, Zenon
<1>4. PICK x \in T : u = 0 .. x
  BY Zenon
<1>5. ASSUME NEW y \in T, ~(x <= y) PROVE FALSE
  <2>1. x \in 0 .. x /\ x \notin 0 .. y /\ \A k \in 0 .. y : k \in 0 .. x
    BY <1>5
  <2>2. 0 .. y \in SUBSET Nat /\ 0 .. x \in SUBSET Nat
    OBVIOUS
  <2>3. <<0 .. y, 0 .. x>> \in R
    BY <2>1, <2>2, Zenon DEF StrictSubsetOrdering
  <2>4. QED
    BY <1>3, <1>4, <2>3, Zenon
<1>6. QED
  BY <1>5

\* A set that contains 0, and with every number of it the next one, contains all
\* numbers.
LEMMA NaturalInduction ==
  ASSUME NEW S \in SUBSET Nat, 0 \in S, \A n \in S : n + 1 \in S
  PROVE  \A n \in Nat : n \in S
<1>1. SUFFICES ASSUME Nat \ S # {} PROVE FALSE
  OBVIOUS
<1>2. PICK x \in Nat \ S : \A y \in Nat \ S : x <= y
  BY <1>1, LeastNatural, Zenon
<1>3. x \in Nat /\ x # 0 /\ x - 1 \in S
  BY <1>2
<1>4. QED
  BY <1>2, <1>3

\* The same up to a bound.
LEMMA IntervalInduction ==
  ASSUME NEW N \in Nat, NEW S, 0 \in S,
         \A n \in 0 .. N : n \in S /\ n < N => n + 1 \in S
  PROVE  \A n \in 0 .. N : n \in S
<1> DEFINE T == {n \in Nat : n <= N => n \in S}
<1>1. 0 \in T /\ \A n \in T : n + 1 \in T
  OBVIOUS
<1>2. \A n \in Nat : n \in T
  <2> HIDE DEF T
  <2>1. T \in SUBSET Nat
    BY DEF T
  <2>2. QED
    BY <1>1, <2>1, NaturalInduction, Zenon
<1>3. QED
  BY <1>2

\* A set of numbers with an upper bound has a greatest one, which Max returns.
LEMMA MaxOfBounded ==
  ASSUME NEW N \in Nat, NEW S \in SUBSET (1 .. N), S # {}
  PROVE  Max(S) \in S /\ \A y \in S : Max(S) >= y
<1> DEFINE T == {k \in 0 .. N : N - k \in S}
<1>1. PICK x \in S : TRUE
  OBVIOUS
<1>2. N - x \in T
  OBVIOUS
<1>3. T \in SUBSET Nat /\ T # {}
  <2>1. \A k \in T : k \in Nat
    OBVIOUS
  <2>2. QED
    BY <1>2, <2>1, Zenon
<1>4. PICK k \in T : \A j \in T : k <= j
  <2> HIDE DEF T
  <2>1. QED
    BY <1>3, LeastNatural, Zenon
<1>5. N - k \in S /\ k \in 0 .. N
  BY <1>4
<1>6. ASSUME NEW y \in S PROVE N - k >= y
  <2>1. N - y \in T
    OBVIOUS
  <2>2. QED
    BY <1>4, <1>5, <2>1
<1>7. \E z \in S : \A y \in S : z >= y
  BY <1>5, <1>6
<1>8. QED
  BY <1>7, Zenon DEF Max

(***************************************************************************)
(* The indices of a ring of L slots.                                       *)
(***************************************************************************)
LEMMA ModRange ==
  ASSUME NEW L \in Nat \ {0}, NEW a \in Int
  PROVE  a % L \in 0 .. L - 1 /\ a \div L \in Int /\ a = (L * (a \div L)) + (a % L)
OBVIOUS

LEMMA LaterMultiple ==
  ASSUME NEW L \in Nat \ {0}, NEW p \in Int, NEW q \in Int, p < q
  PROVE  L * p + L <= L * q
<1>1. PICK d \in Nat : q = p + 1 + d
  <2>1. q - p - 1 \in Nat /\ q = p + 1 + (q - p - 1)
    OBVIOUS
  <2>2. QED
    BY <2>1
<1>2. L * q = L * p + L + L * d /\ L * d >= 0
  BY <1>1
<1>3. L * p \in Int /\ L * q \in Int /\ L * d \in Int
  OBVIOUS
<1>4. QED
  BY <1>2, <1>3

\* The remainder is the only r below L with a = L * q + r.
LEMMA ModUnique ==
  ASSUME NEW L \in Nat \ {0}, NEW q \in Int, NEW r \in 0 .. L - 1, NEW a \in Int,
         a = L * q + r
  PROVE  a % L = r
<1> DEFINE p == a \div L
           s == a % L
<1>1. p \in Int /\ s \in 0 .. L - 1 /\ a = L * p + s
  BY ModRange
<1> HIDE DEF p, s
<1>2. L * p \in Int /\ L * q \in Int
  BY <1>1
<1>3. ~(p < q) /\ ~(q < p)
  BY <1>1, <1>2, LaterMultiple
<1>4. p = q
  BY <1>1, <1>3
<1>5. s = r
  BY <1>1, <1>2, <1>4
<1>6. QED
  BY <1>5 DEF s

LEMMA ModSmall ==
  ASSUME NEW L \in Nat \ {0}, NEW a \in 0 .. L - 1
  PROVE  a % L = a
OBVIOUS

\* Whole turns of the ring do not matter.
LEMMA ModTurns ==
  ASSUME NEW L \in Nat \ {0}, NEW a \in Int, NEW k \in Int
  PROVE  (a + L * k) % L = a % L
<1> DEFINE p == a \div L
           s == a % L
<1>1. p \in Int /\ s \in 0 .. L - 1 /\ a = L * p + s
  BY ModRange
<1> HIDE DEF p, s
<1>2. p + k \in Int /\ a + L * k = L * (p + k) + s /\ a + L * k \in Int
  BY <1>1
<1>3. (a + L * k) % L = s
  BY <1>1, <1>2, ModUnique
<1>4. QED
  BY <1>3 DEF s

\* An index may be wrapped before something is added to it.
LEMMA ModOfSum ==
  ASSUME NEW L \in Nat \ {0}, NEW a \in Int, NEW i \in Int
  PROVE  ((a % L) + i) % L = (a + i) % L
<1> DEFINE p == a \div L
           s == a % L
<1>1. p \in Int /\ s \in 0 .. L - 1 /\ a = L * p + s
  BY ModRange
<1> HIDE DEF p, s
<1>2. a + i = (s + i) + L * p /\ s + i \in Int
  BY <1>1
<1>3. (a + i) % L = (s + i) % L
  BY <1>1, <1>2, ModTurns
<1>4. QED
  BY <1>3 DEF s

\* Two numbers that share a slot are at least a turn apart.
LEMMA SameSlotTurnApart ==
  ASSUME NEW L \in Nat \ {0}, NEW a \in Int, NEW b \in Int, a % L = b % L, a < b
  PROVE  a + L <= b
<1> DEFINE p == a \div L
           q == b \div L
           s == a % L
<1>1. p \in Int /\ q \in Int /\ s \in 0 .. L - 1 /\ a = L * p + s /\ b = L * q + s
  BY ModRange
<1> HIDE DEF p, q, s
<1>2. L * p \in Int /\ L * q \in Int
  BY <1>1
<1>3. p < q
  <2>1. CASE p = q
    BY <1>1, <1>2, <2>1
  <2>2. CASE q < p
    <3>1. L * q + L <= L * p
      BY <1>1, <2>2, LaterMultiple
    <3>2. QED
      BY <1>1, <1>2, <3>1
  <2>3. QED
    BY <1>1, <2>1, <2>2
<1>4. L * p + L <= L * q
  BY <1>1, <1>3, LaterMultiple
<1>5. QED
  BY <1>1, <1>2, <1>4

\* The slots of the last turn hold the texts of the numbers up to newest.
HoldsLatest(ring, L, newest, texts) ==
  \A k \in 1 .. newest : newest - L < k => ring[k % L] = texts[k]

\* They still do when the next text is stored in its slot.
LEMMA LatestStep ==
  ASSUME NEW L \in Nat \ {0}, NEW T, NEW ring \in [0 .. L - 1 -> T],
         NEW n \in Nat, NEW text \in T, NEW texts, NEW more,
         HoldsLatest(ring, L, n, texts),
         \A k \in 1 .. n : more[k] = texts[k], more[n + 1] = text
  PROVE  HoldsLatest([ring EXCEPT ![(n + 1) % L] = text], L, n + 1, more)
<1> DEFINE new == [ring EXCEPT ![(n + 1) % L] = text]
<1> HIDE DEF new
<1>1. ASSUME NEW k \in 1 .. n + 1, (n + 1) - L < k
      PROVE  new[k % L] = more[k]
  <2>1. k % L \in 0 .. L - 1 /\ (n + 1) % L \in 0 .. L - 1
    <3>1. k \in Int /\ n + 1 \in Int
      OBVIOUS
    <3>2. QED
      BY <3>1, ModRange, Zenon
  <2>2. CASE k = n + 1
    BY <2>1, <2>2 DEF new
  <2>3. CASE k # n + 1
    <3>1. k \in 1 .. n /\ k \in Int /\ k < n + 1 /\ n - L < k
      BY <1>1, <2>3
    <3>2. k % L # (n + 1) % L
      <4>1. ~(k + L <= n + 1) /\ n + 1 \in Int
        BY <1>1, <3>1
      <4>2. QED
        BY <3>1, <4>1, SameSlotTurnApart
    <3>3. ring[k % L] = more[k]
      BY <3>1 DEF HoldsLatest
    <3>4. QED
      BY <2>1, <3>2, <3>3 DEF new
  <2>4. QED
    BY <2>2, <2>3
<1>2. HoldsLatest(new, L, n + 1, more)
  BY <1>1, Zenon DEF HoldsLatest
<1>3. QED
  BY <1>2 DEF new

(***************************************************************************)
(* A fold from the left.  FoldLeft is a recursion over the sets of indices *)
(* in which the greatest index is taken last.                              *)
(***************************************************************************)
\* The sets that the recursion goes through are intervals.
LEMMA LastOfInterval ==
  ASSUME NEW k \in Nat \ {0}
  PROVE  Max(1 .. k) = k /\ (1 .. k) \ {k} = 1 .. k - 1 /\ 1 .. k # {}
<1>1. Max(1 .. k) \in 1 .. k /\ \A y \in 1 .. k : Max(1 .. k) >= y
  <2>1. 1 .. k \in SUBSET (1 .. k) /\ 1 .. k # {} /\ k \in Nat
    OBVIOUS
  <2>2. QED
    BY <2>1, MaxOfBounded, Zenon
<1>2. k \in 1 .. k
  OBVIOUS
<1>3. QED
  BY <1>1, <1>2

\* f is what the recursion computes for every set of indices: step makes one step,
\* from a state and with an index.
IsFold(f, N, State, base, step) ==
  /\ f \in [SUBSET (1 .. N) -> State]
  /\ \A s \in SUBSET (1 .. N) :
       f[s] = IF s = {} THEN base ELSE step[<<f[s \ {Max(s)}], Max(s)>>]

\* The recursion has a solution for every function that makes one step.
LEMMA FoldExists ==
  ASSUME NEW N \in Nat, NEW State, NEW base \in State,
         NEW step \in [State \X (1 .. N) -> State]
  PROVE  \E f : IsFold(f, N, State, base, step)
<1> DEFINE Solves(f, k) ==
             /\ f \in [SUBSET (1 .. k) -> State]
             /\ \A s \in SUBSET (1 .. k) :
                  f[s] = IF s = {} THEN base ELSE step[<<f[s \ {Max(s)}], Max(s)>>]
           S == {k \in 0 .. N : \E f : Solves(f, k)}
<1>1. 0 \in S
  <2>1. \A s \in SUBSET (1 .. 0) : s = {}
    OBVIOUS
  <2>2. Solves([s \in SUBSET (1 .. 0) |-> base], 0)
    BY <2>1, Zenon
  <2>3. 0 \in 0 .. N
    OBVIOUS
  <2>4. QED
    BY <2>2, <2>3, Zenon
<1>2. ASSUME NEW k \in 0 .. N, k \in S, k < N
      PROVE  k + 1 \in S
  <2>1. PICK f : Solves(f, k)
    BY <1>2
  <2> DEFINE n == k + 1
             g == [s \in SUBSET (1 .. n) |->
                     IF n \in s THEN step[<<f[s \ {n}], n>>] ELSE f[s]]
  <2>2. n \in 1 .. N /\ n \in 0 .. N
    BY <1>2
  <2>3. ASSUME NEW s \in SUBSET (1 .. n)
        PROVE  /\ n \notin s => s \in SUBSET (1 .. k)
               /\ s \ {n} \in SUBSET (1 .. k)
    OBVIOUS
  <2>4. ASSUME NEW s \in SUBSET (1 .. n), n \in s
        PROVE  Max(s) = n /\ s # {}
    <3>1. n \in Nat /\ s # {}
      BY <2>2, <2>4
    <3>2. Max(s) \in s /\ \A y \in s : Max(s) >= y
      <4> HIDE DEF n
      <4>1. QED
        BY <3>1, MaxOfBounded, Zenon
    <3>3. Max(s) \in s /\ Max(s) >= n
      BY <2>4, <3>2, Zenon
    <3>4. Max(s) \in 1 .. n
      BY <3>3, Zenon
    <3>5. QED
      <4> HIDE DEF n
      <4>1. QED
        BY <3>1, <3>3, <3>4
  <2>5. ASSUME NEW s \in SUBSET (1 .. k), s # {}
        PROVE  Max(s) \in s /\ Max(s) \in 1 .. k /\ s \ {Max(s)} \in SUBSET (1 .. k)
    <3>1. k \in Nat
      OBVIOUS
    <3>2. Max(s) \in s
      BY <2>5, <3>1, MaxOfBounded, Zenon
    <3>3. QED
      BY <3>2
  <2>6. ASSUME NEW s \in SUBSET (1 .. n)
        PROVE  g[s] \in State
    <3>1. CASE n \in s
      <4>1. f[s \ {n}] \in State
        BY <2>1, <2>3, Zenon
      <4>2. QED
        BY <2>2, <3>1, <4>1
    <3>2. CASE n \notin s
      BY <2>1, <2>3, <3>2
    <3>3. QED
      BY <3>1, <3>2
  <2>7. ASSUME NEW s \in SUBSET (1 .. n)
        PROVE  g[s] = IF s = {} THEN base ELSE step[<<g[s \ {Max(s)}], Max(s)>>]
    <3>1. CASE n \in s
      <4>1. s \ {n} \in SUBSET (1 .. n) /\ n \notin s \ {n}
        OBVIOUS
      <4>2. g[s \ {n}] = f[s \ {n}] /\ g[s] = step[<<f[s \ {n}], n>>]
        BY <3>1, <4>1
      <4>3. QED
        <5> HIDE DEF g
        <5>1. QED
          BY <2>4, <3>1, <4>2
    <3>2. CASE n \notin s /\ s # {}
      <4>1. s \in SUBSET (1 .. k)
        BY <2>3, <3>2
      <4>2. s \ {Max(s)} \in SUBSET (1 .. n) /\ n \notin s \ {Max(s)}
        BY <3>2
      <4>3. g[s] = f[s] /\ g[s \ {Max(s)}] = f[s \ {Max(s)}]
        BY <3>2, <4>2
      <4>4. QED
        <5> HIDE DEF g
        <5>1. QED
          BY <2>1, <3>2, <4>1, <4>3
    <3>3. CASE s = {}
      <4>1. g[s] = f[s] /\ s \in SUBSET (1 .. k)
        BY <3>3
      <4>2. QED
        <5> HIDE DEF g
        <5>1. QED
          BY <2>1, <3>3, <4>1
    <3>4. QED
      BY <3>1, <3>2, <3>3
  <2>8. Solves(g, n)
    <3>1. g \in [SUBSET (1 .. n) -> State]
      <4>1. g = [s \in SUBSET (1 .. n) |-> g[s]]
        OBVIOUS
      <4> HIDE DEF g
      <4>2. QED
        BY <2>6, <4>1
    <3> HIDE DEF g
    <3>2. QED
      BY <2>7, <3>1, Zenon
  <2>9. QED
    BY <2>2, <2>8, Zenon
<1>3. \A k \in 0 .. N : k \in S
  <2> HIDE DEF S
  <2>1. QED
    BY <1>1, <1>2, IntervalInduction
<1>4. N \in 0 .. N
  OBVIOUS
<1>5. QED
  BY <1>3, <1>4, Zenon DEF IsFold

(***************************************************************************)
(* A loop that counts, as a run of steps.                                  *)
(***************************************************************************)
\* f is what a loop from st computes: step makes one step, from a state and with an index.
IsLoop(f, n, S, st, step) ==
  /\ f \in [0 .. n -> S]
  /\ \A i \in 0 .. n : f[i] = IF i = 0 THEN st ELSE step[<<f[i - 1], i - 1>>]

LEMMA LoopExists ==
  ASSUME NEW n \in Nat, NEW S, NEW st \in S, NEW step \in [S \X (0 .. n - 1) -> S]
  PROVE  \E f : IsLoop(f, n, S, st, step)
<1> DEFINE Solves(f, k) ==
             /\ f \in [0 .. k -> S]
             /\ \A i \in 0 .. k : f[i] = IF i = 0 THEN st ELSE step[<<f[i - 1], i - 1>>]
           T == {k \in 0 .. n : \E f : Solves(f, k)}
<1>1. 0 \in T
  <2>1. Solves([i \in 0 .. 0 |-> st], 0)
    OBVIOUS
  <2> HIDE DEF Solves
  <2>2. 0 \in 0 .. n
    OBVIOUS
  <2>3. QED
    BY <2>1, <2>2
<1>2. ASSUME NEW k \in 0 .. n, k \in T, k < n
      PROVE  k + 1 \in T
  <2>1. PICK f : Solves(f, k)
    BY <1>2
  <2> DEFINE x == step[<<f[k], k>>]
             g == [i \in 0 .. k + 1 |-> IF i = k + 1 THEN x ELSE f[i]]
  <2>2. f[k] \in S /\ k \in 0 .. n - 1 /\ k + 1 \in 0 .. n
    BY <1>2, <2>1
  <2>3. x \in S
    BY <2>2
  <2>4. \A i \in 0 .. k : g[i] = f[i] /\ i \in 0 .. k + 1
    BY <1>2
  <2>5. g[k + 1] = x
    BY <1>2
  <2>6. g \in [0 .. k + 1 -> S]
    <3> HIDE DEF x
    <3>1. \A i \in 0 .. k + 1 : i = k + 1 \/ i \in 0 .. k
      BY <1>2
    <3>2. QED
      BY <2>1, <2>3, <3>1
  <2> HIDE DEF g
  <2>7. ASSUME NEW i \in 0 .. k + 1
        PROVE  g[i] = IF i = 0 THEN st ELSE step[<<g[i - 1], i - 1>>]
    <3>1. CASE i = k + 1
      <4>1. i # 0 /\ i - 1 = k /\ k \in 0 .. k
        BY <1>2, <3>1
      <4>2. QED
        BY <2>4, <2>5, <3>1, <4>1
    <3>2. CASE i \in 0 .. k
      <4>1. i # 0 => i - 1 \in 0 .. k
        BY <1>2, <3>2
      <4>2. QED
        BY <2>1, <2>4, <3>2, <4>1
    <3>3. QED
      BY <1>2, <3>1, <3>2
  <2>8. Solves(g, k + 1)
    BY <2>6, <2>7
  <2> HIDE DEF Solves
  <2>9. QED
    BY <2>2, <2>8
<1>3. n \in T
  <2> HIDE DEF T
  <2>1. \A k \in 0 .. n : k \in T
    BY <1>1, <1>2, IntervalInduction
  <2>2. QED
    BY <2>1
<1>4. QED
  BY <1>3 DEF IsLoop

(***************************************************************************)
(* Messages under way, as a sequence.                                      *)
(***************************************************************************)
\* When the i-th message arrives those after it are left.
LEMMA LaterMessages ==
  ASSUME NEW S, NEW q \in Seq(S), NEW i \in 1 .. Len(q)
  PROVE  /\ SubSeq(q, i + 1, Len(q)) \in Seq(S)
         /\ \A k \in 1 .. Len(SubSeq(q, i + 1, Len(q))) :
              i + k \in 1 .. Len(q) /\ SubSeq(q, i + 1, Len(q))[k] = q[i + k]
<1>1. Len(q) \in Nat /\ \A k \in 1 .. Len(q) : q[k] \in S
  OBVIOUS
<1>2. /\ \A k \in i + 1 .. Len(q) : q[k] \in S
      /\ i + 1 \in 1 .. Len(q) + 1 /\ Len(q) \in i .. Len(q)
  BY <1>1
<1>3. SubSeq(q, i + 1, Len(q)) \in Seq(S)
  BY <1>1, <1>2
<1>4. Len(SubSeq(q, i + 1, Len(q))) = Len(q) - i
  BY <1>1, <1>2
<1>5. \A k \in 1 .. Len(q) - i : SubSeq(q, i + 1, Len(q))[k] = q[i + k]
  BY <1>1, <1>2
<1>6. QED
  BY <1>1, <1>3, <1>4, <1>5

\* A message is added at the end.
LEMMA OneMoreMessage ==
  ASSUME NEW S, NEW q \in Seq(S), NEW m \in S
  PROVE  /\ Append(q, m) \in Seq(S)
         /\ \A k \in 1 .. Len(Append(q, m)) :
              \/ k \in 1 .. Len(q) /\ Append(q, m)[k] = q[k]
              \/ Append(q, m)[k] = m
OBVIOUS

\* The same message is added three times.
LEMMA ThreeMoreMessages ==
  ASSUME NEW S, NEW q \in Seq(S), NEW m \in S
  PROVE  /\ q \o <<m, m, m>> \in Seq(S)
         /\ \A k \in 1 .. Len(q \o <<m, m, m>>) :
              \/ k \in 1 .. Len(q) /\ (q \o <<m, m, m>>)[k] = q[k]
              \/ (q \o <<m, m, m>>)[k] = m
<1>1. /\ <<m, m, m>> \in Seq(S) /\ Len(<<m, m, m>>) = 3
      /\ \A k \in 1 .. 3 : <<m, m, m>>[k] = m
  OBVIOUS
<1> DEFINE three == <<m, m, m>>
<1> HIDE DEF three
<1>2. three \in Seq(S) /\ Len(three) = 3 /\ \A k \in 1 .. 3 : three[k] = m
  BY <1>1 DEF three
<1>3. q \o three \in Seq(S) /\ Len(q \o three) = Len(q) + 3
  <2>1. q \o three \in Seq(S)
    BY <1>2
  <2>2. Len(q \o three) = Len(q) + Len(three)
    BY <1>2, ConcatProperties
  <2>3. QED
    BY <1>2, <2>1, <2>2
<1>4. ASSUME NEW k \in 1 .. Len(q) + 3
      PROVE  \/ k \in 1 .. Len(q) /\ (q \o three)[k] = q[k]
             \/ (q \o three)[k] = m
  BY <1>2, <1>3
<1>5. QED
  BY <1>3, <1>4 DEF three
=============================================================================
