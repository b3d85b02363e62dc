-------------------------------- MODULE Facts --------------------------------
(***************************************************************************)
(* What the proofs about several components need to know of queues without *)
(* duplicates, of sets of a bounded size, of what is defined by recursion  *)
(* and of lists.                                                           *)
(***************************************************************************)
EXTENDS Integers, Sequences, FiniteSets, Functions, Lists, TLAPS, FiniteSetTheorems,
        SequenceTheorems, WellFoundedInduction

\* A queue without duplicates gets no duplicate from a newcomer.
LEMMA AppendOnce ==
  ASSUME NEW S, NEW q \in Seq(S), NEW r \in S
  PROVE  /\ Append(q, r) \in Seq(S)
         /\ Len(Append(q, r)) = Len(q) + 1
         /\ Range(Append(q, r)) = Range(q) \cup {r}
         /\ IsInjective(q) /\ r \notin Range(q) => IsInjective(Append(q, r))
<1> DEFINE n == Len(q)
           longer == Append(q, r)
<1>1. n \in Nat /\ DOMAIN q = 1 .. n
  BY LenProperties
<1>2. /\ longer \in Seq(S) /\ Len(longer) = n + 1
      /\ \A i \in 1 .. n : longer[i] = q[i]
      /\ longer[n + 1] = r
  BY AppendProperties
<1> HIDE DEF n, longer
<1>3. DOMAIN longer = 1 .. n + 1
  BY <1>2, LenProperties
<1>4. Range(longer) = Range(q) \cup {r}
  BY <1>1, <1>2, <1>3 DEF Range
<1>5. IsInjective(q) /\ r \notin Range(q) => IsInjective(longer)
  BY <1>1, <1>2, <1>3 DEF IsInjective, Range
<1> QED BY <1>2, <1>4, <1>5 DEF n, longer

\* The first of a queue without duplicates leaves it for good.
LEMMA TailOnce ==
  ASSUME NEW S, NEW q \in Seq(S), q # <<>>, IsInjective(q)
  PROVE  /\ Head(q) \in S /\ Head(q) \in Range(q)
         /\ Tail(q) \in Seq(S) /\ Len(Tail(q)) <= Len(q)
         /\ Range(Tail(q)) = Range(q) \ {Head(q)}
         /\ IsInjective(Tail(q))
<1> DEFINE n == Len(q)
           rest == Tail(q)
           first == Head(q)
<1>1. n \in Nat \ {0} /\ DOMAIN q = 1 .. n /\ first = q[1]
  BY LenProperties, EmptySeq
<1>2. /\ first \in S /\ rest \in Seq(S) /\ Len(rest) = n - 1
      /\ \A i \in 1 .. n - 1 : rest[i] = q[i + 1]
  BY HeadTailProperties
<1> HIDE DEF n, rest, first
<1>3. DOMAIN rest = 1 .. n - 1
  BY <1>2, LenProperties
<1>4. first \in Range(q)
  BY <1>1 DEF Range
<1>5. Range(rest) = Range(q) \ {first}
  <2>1. Range(rest) \subseteq Range(q) \ {first}
    BY <1>1, <1>2, <1>3 DEF IsInjective, Range
  <2>2. ASSUME NEW i \in 1 .. n, q[i] # first
        PROVE  i - 1 \in 1 .. n - 1 /\ rest[i - 1] = q[i]
    BY <1>1, <1>2, <2>2
  <2>3. Range(q) \ {first} \subseteq Range(rest)
    BY <1>1, <1>3, <2>2 DEF Range
  <2> QED BY <2>1, <2>3
<1>6. ASSUME NEW i \in 1 .. n - 1, NEW j \in 1 .. n - 1, rest[i] = rest[j]
      PROVE  i = j
  <2>1. i + 1 \in 1 .. n /\ j + 1 \in 1 .. n /\ q[i + 1] = q[j + 1]
    BY <1>1, <1>2, <1>6
  <2> QED BY <1>1, <2>1 DEF IsInjective
<1>7. IsInjective(rest)
  BY <1>3, <1>6 DEF IsInjective
<1> QED BY <1>1, <1>2, <1>4, <1>5, <1>7 DEF n, rest, first

\* What is left when one member of a list leaves it.
LEMMA DropOne ==
  ASSUME NEW S, NEW q \in Seq(S), NEW i \in DOMAIN q,
         NEW rest, rest = SubSeq(q, 1, i - 1) \o SubSeq(q, i + 1, Len(q))
  PROVE  /\ rest \in Seq(S) /\ Len(rest) = Len(q) - 1
         /\ Range(rest) \subseteq Range(q)
<1> DEFINE n == Len(q)
           front == SubSeq(q, 1, i - 1)
           back == SubSeq(q, i + 1, n)
<1>1. n \in Nat /\ DOMAIN q = 1 .. n /\ i \in 1 .. n
  BY LenProperties
<1>2. \A j \in 1 .. n : q[j] \in S /\ q[j] \in Range(q)
  BY <1>1, ElementOfSeq DEF Range
<1>3. ASSUME NEW T, \A j \in 1 .. n : q[j] \in T
      PROVE  /\ front \in Seq(T) /\ Len(front) = i - 1
             /\ back \in Seq(T) /\ Len(back) = n - i
  <2>1. i - 1 \in Int /\ i + 1 \in Int /\ n \in Int
    BY <1>1
  <2>2. \A j \in 1 .. i - 1 : q[j] \in T
    BY <1>1, <1>3
  <2>3. \A j \in i + 1 .. n : q[j] \in T
    BY <1>1, <1>3
  <2>4. front \in Seq(T) /\ Len(front) = IF 1 <= i - 1 THEN (i - 1) - 1 + 1 ELSE 0
    BY <2>1, <2>2, SubSeqProperties
  <2>5. back \in Seq(T) /\ Len(back) = IF i + 1 <= n THEN n - (i + 1) + 1 ELSE 0
    BY <2>1, <2>3, SubSeqProperties
  <2> QED BY <1>1, <2>4, <2>5
<1>4. /\ front \in Seq(S) /\ Len(front) = i - 1
      /\ back \in Seq(S) /\ Len(back) = n - i
  BY <1>2, <1>3
<1>5. front \in Seq(Range(q)) /\ back \in Seq(Range(q))
  BY <1>2, <1>3
<1>6. rest = front \o back
  OBVIOUS
<1> HIDE DEF front, back
<1>7. rest \in Seq(S) /\ Len(rest) = Len(front) + Len(back)
  BY <1>4, <1>6, ConcatProperties
<1>8. rest \in Seq(Range(q))
  BY <1>5, <1>6, ConcatProperties
<1>9. Range(rest) \subseteq Range(q)
  <2>1. DOMAIN rest = 1 .. Len(rest)
    BY <1>8, LenProperties
  <2>2. \A j \in 1 .. Len(rest) : rest[j] \in Range(q)
    BY <1>8, ElementOfSeq
  <2> QED BY <2>1, <2>2 DEF Range
<1>10. Len(rest) = n - 1
  BY SMTT(60), <1>1, <1>4, <1>7
<1> HIDE DEF n
<1>11. Len(rest) = Len(q) - 1
  BY <1>10 DEF n
<1> QED BY <1>7, <1>9, <1>11

\* A smaller set keeps a bound.
LEMMA SubsetBound ==
  ASSUME NEW S, IsFiniteSet(S), NEW T \in SUBSET S, NEW n \in Nat, Cardinality(S) <= n
  PROVE  IsFiniteSet(T) /\ Cardinality(T) <= n
<1>1. IsFiniteSet(T) /\ Cardinality(T) <= Cardinality(S)
  BY FS_Subset
<1>2. Cardinality(T) \in Nat /\ Cardinality(S) \in Nat
  BY <1>1, FS_CardinalityType
<1> QED BY <1>1, <1>2

\* One more element in a set that has not reached a bound.
LEMMA AddBound ==
  ASSUME NEW S, IsFiniteSet(S), NEW x, NEW n \in Nat, Cardinality(S) < n
  PROVE  IsFiniteSet(S \cup {x}) /\ Cardinality(S \cup {x}) <= n
<1>1. /\ IsFiniteSet(S \cup {x})
      /\ Cardinality(S \cup {x}) \in {Cardinality(S), Cardinality(S) + 1}
  BY FS_AddElement
<1>2. Cardinality(S) \in Nat
  BY FS_CardinalityType
<1> QED BY <1>1, <1>2

\* One element in the place of another.
LEMMA SwapBound ==
  ASSUME NEW S, IsFiniteSet(S), NEW x \in S, NEW y, NEW n \in Nat, Cardinality(S) <= n
  PROVE  IsFiniteSet((S \ {x}) \cup {y}) /\ Cardinality((S \ {x}) \cup {y}) <= n
<1> DEFINE rest == S \ {x}
<1>1. IsFiniteSet(rest) /\ Cardinality(rest) = Cardinality(S) - 1
  BY FS_RemoveElement
<1>2. Cardinality(S) \in Nat
  BY FS_CardinalityType
<1>3. Cardinality(rest) < n
  BY <1>1, <1>2
<1> HIDE DEF rest
<1>4. IsFiniteSet(rest \cup {y}) /\ Cardinality(rest \cup {y}) <= n
  BY <1>1, <1>3, AddBound
<1> QED BY <1>4 DEF rest

\* When the first of a queue leaves, the places in it move up by one.
LEMMA MoveUp ==
  ASSUME NEW n \in Nat, NEW S \in SUBSET (1 .. n), NEW T,
         T = {i \in 1 .. n - 1 : i + 1 \in S}
  PROVE  /\ IsFiniteSet(S) /\ IsFiniteSet(T)
         /\ Cardinality(S) \in Nat /\ Cardinality(T) \in Nat
         /\ 1 \in S => Cardinality(T) = Cardinality(S) - 1
         /\ 1 \notin S => Cardinality(T) = Cardinality(S)
<1> DEFINE R == S \ {1}
           up == [i \in R |-> i - 1]
<1>1. IsFiniteSet(S) /\ Cardinality(S) \in Nat
  <2>1. IsFiniteSet(1 .. n)
    BY FS_Interval
  <2> QED BY <2>1, FS_Subset, FS_CardinalityType
<1>2. IsFiniteSet(R) /\ (1 \in S => Cardinality(R) = Cardinality(S) - 1) /\ (1 \notin S => R = S)
  BY <1>1, FS_RemoveElement
<1>3. up \in Bijection(R, T)
  <2>1. \A i \in R : i - 1 \in T /\ i \in Int
    OBVIOUS
  <2>2. \A i \in T : i + 1 \in R /\ (i + 1) - 1 = i
    OBVIOUS
  <2>3. up \in [R -> T]
    BY <2>1
  <2>4. \A i, j \in R : up[i] = up[j] => i = j
    BY <2>1
  <2>5. \A t \in T : \E i \in R : up[i] = t
    BY <2>2
  <2> HIDE DEF up, R
  <2>6. up \in Injection(R, T)
    BY <2>3, <2>4 DEF Injection, IsInjective
  <2>7. up \in Surjection(R, T)
    BY <2>3, <2>5 DEF Surjection
  <2> QED BY <2>6, <2>7 DEF Bijection
<1>4. IsFiniteSet(T) /\ Cardinality(T) = Cardinality(R)
  BY <1>2, <1>3, FS_Bijection DEF ExistsBijection
<1> QED
  BY <1>1, <1>2, <1>4, FS_CardinalityType

\* A set of natural numbers has a least member, and one with a bound a greatest.
LEMMA LeastNumber ==
  ASSUME NEW S \in SUBSET Nat, S # {}
  PROVE  \E x \in S : \A y \in S : x <= y
<1> DEFINE Less == OpToRel(<, Nat)
<1>1. \A i, j \in Nat : i < j => <<i, j>> \in Less
  BY Zenon DEF OpToRel
<1>2. IsWellFoundedOn(Less, Nat)
  BY NatLessThanWellFounded, Zenon
<1> HIDE DEF Less
<1>3. PICK x \in S : \A y \in S : <<y, x>> \notin Less
  BY <1>2, WFMin
<1>4. \A y \in S : ~(y < x)
  BY <1>1, <1>3, Zenon
<1>5. \A y \in S : x <= y
  BY <1>4
<1> QED BY <1>5

LEMMA GreatestNumber ==
  ASSUME NEW n \in Nat, NEW S \in SUBSET (0 .. n), S # {}
  PROVE  \E x \in S : \A y \in S : y <= x
<1> DEFINE T == {n - x : x \in S}
<1>1. T \in SUBSET Nat /\ T # {}
  <2>1. \A x \in S : n - x \in Nat
    OBVIOUS
  <2> QED BY <2>1, Zenon
<1>2. (\A t \in T : \E x \in S : t = n - x) /\ \A x \in S : n - x \in T
  BY Zenon
<1> HIDE DEF T
<1>3. PICK t \in T : \A u \in T : t <= u
  BY <1>1, LeastNumber
<1>4. PICK x \in S : t = n - x
  BY <1>2
<1>5. \A y \in S : n - x <= n - y
  BY <1>2, <1>3, <1>4
<1>6. \A y \in S : y <= x
  BY <1>5
<1> QED BY <1>6

\* A function is injective just if it has as many values as arguments.
LEMMA ManyValues ==
  ASSUME NEW n \in Nat, NEW f, DOMAIN f = 1 .. n, f = [i \in 1 .. n |-> f[i]]
  PROVE  /\ IsFiniteSet(Range(f)) /\ Cardinality(Range(f)) \in Nat
         /\ Cardinality(Range(f)) <= n
         /\ Cardinality(Range(f)) = n <=> IsInjective(f)
<1> DEFINE D == 1 .. n
           R == Range(f)
<1>1. IsFiniteSet(D) /\ Cardinality(D) = n
  BY FS_Interval
<1>2. f \in [D -> R] /\ \A y \in R : \E x \in D : f[x] = y
  BY DEF Range
<1>3. f \in Surjection(D, R)
  BY <1>2 DEF Surjection
<1> HIDE DEF D, R
<1>4. IsFiniteSet(R) /\ Cardinality(R) <= n
  BY <1>1, <1>3, FS_Surjection DEF ExistsSurjection
<1>5. Cardinality(R) = n => IsInjective(f)
  BY <1>1, <1>3, <1>4, FS_SurjSameCardinalityImpliesInj DEF Injection
<1>6. IsInjective(f) => Cardinality(R) = n
  <2> SUFFICES ASSUME IsInjective(f) PROVE Cardinality(R) = n
    OBVIOUS
  <2>1. f \in Injection(D, R)
    BY <1>2 DEF Injection
  <2>2. f \in Bijection(D, R)
    BY <1>3, <2>1 DEF Bijection
  <2> QED BY <1>1, <2>2, FS_Bijection DEF ExistsBijection
<1>7. Cardinality(R) \in Nat
  BY <1>4, FS_CardinalityType
<1> QED BY <1>4, <1>5, <1>6, <1>7 DEF R

\* The members of a set of numbers can be put in order.
Increasing(f, k) == \A i, j \in 1 .. k : i < j => f[i] < f[j]
HasOrder(S) == \E f \in [1 .. Cardinality(S) -> S] : Increasing(f, Cardinality(S))

LEMMA OrderOfNone == HasOrder({})
<1>1. Cardinality({}) = 0
  BY FS_EmptySet
<1> DEFINE f == [i \in 1 .. 0 |-> 0]
<1>2. f \in [1 .. 0 -> {}] /\ Increasing(f, 0)
  BY DEF Increasing
<1> HIDE DEF f
<1> QED BY <1>1, <1>2 DEF HasOrder

LEMMA OrderWithGreatest ==
  ASSUME NEW m \in Nat \ {0}, NEW T \in SUBSET (1 .. m - 1), HasOrder(T),
         NEW k \in Nat, Cardinality(T) = k, NEW S, S = T \cup {m}, Cardinality(S) = k + 1
  PROVE  HasOrder(S)
<1>1. PICK f \in [1 .. k -> T] : Increasing(f, k)
  BY DEF HasOrder
<1> DEFINE g == [i \in 1 .. k + 1 |-> IF i = k + 1 THEN m ELSE f[i]]
<1>2. \A i \in 1 .. k + 1 : i # k + 1 => i \in 1 .. k /\ f[i] \in T
  BY <1>1
<1>3. \A t \in T : t \in S /\ t < m
  OBVIOUS
<1>4. g \in [1 .. k + 1 -> S]
  BY <1>2, <1>3
<1>5. ASSUME NEW i \in 1 .. k + 1, NEW j \in 1 .. k + 1, i < j
      PROVE  g[i] < g[j]
  <2>1. i # k + 1
    BY <1>5
  <2>2. g[i] = f[i] /\ f[i] \in T /\ i \in 1 .. k
    BY <1>2, <2>1
  <2>3. CASE j = k + 1
    BY <1>3, <2>2, <2>3
  <2>4. CASE j # k + 1
    <3>1. g[j] = f[j] /\ j \in 1 .. k
      BY <1>2, <2>4
    <3> QED BY <1>1, <1>5, <2>2, <3>1 DEF Increasing
  <2> QED BY <2>3, <2>4
<1>6. Increasing(g, k + 1)
  BY <1>5 DEF Increasing
<1> HIDE DEF g
<1> QED BY <1>4, <1>6 DEF HasOrder

LEMMA InOrderOf ==
  ASSUME NEW n \in Nat, NEW K \in SUBSET (1 .. n)
  PROVE  Cardinality(K) \in Nat /\ HasOrder(K)
<1>1. \A m \in Nat : \A S \in SUBSET (1 .. m) : IsFiniteSet(S) /\ Cardinality(S) \in Nat
  <2>1. \A m \in Nat : IsFiniteSet(1 .. m)
    BY FS_Interval
  <2> QED BY <2>1, FS_Subset, FS_CardinalityType
<1> DEFINE Bad == {m \in Nat : \E S \in SUBSET (1 .. m) : ~HasOrder(S)}
<1>2. Bad \in SUBSET Nat
  OBVIOUS
<1>3. \A m \in Nat : m \in Bad <=> \E S \in SUBSET (1 .. m) : ~HasOrder(S)
  OBVIOUS
<1> HIDE DEF Bad
<1>4. ASSUME Bad # {} PROVE FALSE
  <2>1. PICK m \in Bad : \A other \in Bad : m <= other
    BY <1>2, <1>4, LeastNumber
  <2>2. m \in Nat
    BY <1>2
  <2>3. PICK S \in SUBSET (1 .. m) : ~HasOrder(S)
    BY <1>3, <2>2
  <2>4. m # 0
    <3> SUFFICES ASSUME m = 0 PROVE FALSE
      OBVIOUS
    <3>1. S = {}
      BY <2>3
    <3> QED BY <2>3, <3>1, OrderOfNone
  <2>5. m - 1 \in Nat /\ ~(m <= m - 1)
    BY <2>2, <2>4
  <2>6. \A T \in SUBSET (1 .. m - 1) : HasOrder(T)
    BY <1>3, <2>1, <2>5
  <2> DEFINE T == S \ {m}
  <2>7. T \in SUBSET (1 .. m - 1)
    BY <2>2, <2>4
  <2>8. m \in S
    <3> SUFFICES ASSUME m \notin S PROVE FALSE
      OBVIOUS
    <3>1. T = S
      OBVIOUS
    <3> QED BY <2>3, <2>6, <2>7, <3>1
  <2>9. /\ Cardinality(T) \in Nat /\ S = T \cup {m}
        /\ Cardinality(S) = Cardinality(T) + 1
    <3>1. IsFiniteSet(S) /\ Cardinality(S) \in Nat
      BY <1>1, <2>2
    <3>2. Cardinality(T) = Cardinality(S) - 1 /\ IsFiniteSet(T)
      BY <2>8, <3>1, FS_RemoveElement
    <3>3. Cardinality(T) \in Nat
      BY <3>2, FS_CardinalityType
    <3> QED BY <2>8, <3>1, <3>2, <3>3
  <2>10. HasOrder(T)
    BY <2>6, <2>7
  <2> HIDE DEF T
  <2> QED BY <2>2, <2>3, <2>4, <2>7, <2>9, <2>10, OrderWithGreatest
<1>5. HasOrder(K)
  BY <1>3, <1>4
<1> QED BY <1>1, <1>5

-----------------------------------------------------------------------------
(* Recursion and lists *)

\* Induction, with the counterexamples as a set: nothing that holds of 0 and
\* with each number of its successor fails.
LEMMA NoCounterexample ==
  ASSUME NEW n \in Nat, NEW Bad \in SUBSET (0 .. n), 0 \notin Bad,
         \A i \in 1 .. n : i - 1 \notin Bad => i \notin Bad
  PROVE  Bad = {}
<1> SUFFICES ASSUME Bad # {} PROVE FALSE
  OBVIOUS
<1>1. Bad \in SUBSET Nat
  OBVIOUS
<1>2. PICK x \in Bad : \A y \in Bad : x <= y
  BY <1>1, LeastNumber
<1>3. x \in 1 .. n /\ ~(x <= x - 1)
  BY <1>2
<1> QED BY <1>2, <1>3

\* What holds at the start and is kept by each step holds at each.
LEMMA Carried ==
  ASSUME NEW S, NEW n \in Nat, NEW f, f[0] \in S, \A i \in 1 .. n : f[i - 1] \in S => f[i] \in S
  PROVE  \A i \in 0 .. n : f[i] \in S
<1> DEFINE Bad == {i \in 0 .. n : f[i] \notin S}
<1>1. Bad = {}
  <2>1. Bad \in SUBSET (0 .. n) /\ 0 \notin Bad
    OBVIOUS
  <2>2. \A i \in 1 .. n : i - 1 \notin Bad => i \notin Bad
    OBVIOUS
  <2> HIDE DEF Bad
  <2> QED BY <2>1, <2>2, NoCounterexample
<1> QED BY <1>1

\* What is defined from its predecessor is defined.
LEMMA Recursion ==
  ASSUME NEW S, NEW base \in S, NEW n \in Nat, NEW step \in [1 .. n -> [S -> S]]
  PROVE  \E f \in [0 .. n -> S] : f[0] = base /\ \A i \in 1 .. n : f[i] = step[i][f[i - 1]]
<1> DEFINE Upto(k) == \E f \in [0 .. k -> S] :
                        f[0] = base /\ \A i \in 1 .. k : f[i] = step[i][f[i - 1]]
           Bad == {k \in 0 .. n : ~Upto(k)}
<1>1. Upto(0)
  <2> DEFINE f == [i \in 0 .. 0 |-> base]
  <2>1. f \in [0 .. 0 -> S] /\ f[0] = base /\ \A i \in 1 .. 0 : f[i] = step[i][f[i - 1]]
    OBVIOUS
  <2> HIDE DEF f
  <2> QED BY <2>1
<1>2. ASSUME NEW k \in 1 .. n, Upto(k - 1)
      PROVE  Upto(k)
  <2>1. PICK f \in [0 .. k - 1 -> S] :
               f[0] = base /\ \A i \in 1 .. k - 1 : f[i] = step[i][f[i - 1]]
    BY <1>2
  <2> DEFINE g == [i \in 0 .. k |-> IF i = k THEN step[k][f[k - 1]] ELSE f[i]]
  <2>2. step[k][f[k - 1]] \in S
    <3>1. k - 1 \in 0 .. k - 1
      OBVIOUS
    <3> QED BY <2>1, <3>1
  <2>3. \A i \in 0 .. k : i # k => i \in 0 .. k - 1
    OBVIOUS
  <2>4. g \in [0 .. k -> S]
    BY <2>1, <2>2, <2>3
  <2>5. g[0] = base
    BY <2>1
  <2>6. ASSUME NEW i \in 1 .. k PROVE g[i] = step[i][g[i - 1]]
    <3>1. i - 1 \in 0 .. k /\ i - 1 # k /\ g[i - 1] = f[i - 1] /\ i \in 0 .. k
      OBVIOUS
    <3>2. CASE i = k
      BY <3>1, <3>2
    <3>3. CASE i # k
      <4>1. i \in 1 .. k - 1 /\ g[i] = f[i]
        BY <3>1, <3>3
      <4> QED BY <2>1, <3>1, <4>1
    <3> QED BY <3>2, <3>3
  <2> HIDE DEF g
  <2> QED BY <2>4, <2>5, <2>6
<1> HIDE DEF Upto
<1>3. Bad = {}
  <2>1. Bad \in SUBSET (0 .. n) /\ 0 \notin Bad
    BY <1>1
  <2>2. \A i \in 1 .. n : i - 1 \notin Bad => i \notin Bad
    <3> TAKE i \in 1 .. n
    <3>1. i - 1 \in 0 .. n /\ i \in 0 .. n
      OBVIOUS
    <3> QED BY <1>2, <3>1
  <2> HIDE DEF Bad
  <2> QED BY <2>1, <2>2, NoCounterexample
<1>4. Upto(n)
  BY <1>3
<1> QED BY <1>4 DEF Upto

\* Two lists one after the other.
LEMMA Joined ==
  ASSUME NEW S, NEW x \in Seq(S), NEW y \in Seq(S)
  PROVE  /\ x \o y \in Seq(S)
         /\ Range(x \o y) = Range(x) \cup Range(y)
         /\ IsInjective(x) /\ IsInjective(y) /\ Range(x) \cap Range(y) = {} => IsInjective(x \o y)
<1> DEFINE a == Len(x)
           b == Len(y)
           z == x \o y
<1>1. z \in Seq(S) /\ Range(z) = Range(x) \cup Range(y)
  BY ConcatProperties, RangeConcatenation
<1>2. /\ a \in Nat /\ b \in Nat
      /\ DOMAIN x = 1 .. a /\ DOMAIN y = 1 .. b /\ DOMAIN z = 1 .. a + b
  BY <1>1, LenProperties, ConcatProperties
<1>3. \A i \in 1 .. a + b : z[i] = IF i <= a THEN x[i] ELSE y[i - a]
  BY ConcatProperties
<1> HIDE DEF a, b, z
<1>4. ASSUME IsInjective(x), IsInjective(y), Range(x) \cap Range(y) = {},
             NEW i \in 1 .. a + b, NEW j \in 1 .. a + b, z[i] = z[j]
      PROVE  i = j
  <2>1. CASE i <= a /\ j <= a
    <3>1. i \in DOMAIN x /\ j \in DOMAIN x /\ x[i] = x[j]
      BY <1>2, <1>3, <1>4, <2>1
    <3> QED BY <1>4, <3>1 DEF IsInjective
  <2>2. CASE ~(i <= a) /\ ~(j <= a)
    <3>1. i - a \in DOMAIN y /\ j - a \in DOMAIN y /\ y[i - a] = y[j - a]
      BY <1>2, <1>3, <1>4, <2>2
    <3>2. i - a = j - a
      BY <1>4, <3>1 DEF IsInjective
    <3> QED BY <1>2, <3>2
  <2>3. CASE i <= a /\ ~(j <= a)
    <3>1. i \in DOMAIN x /\ j - a \in DOMAIN y /\ x[i] = y[j - a]
      BY <1>2, <1>3, <1>4, <2>3
    <3> QED BY <1>4, <3>1 DEF Range
  <2>4. CASE ~(i <= a) /\ j <= a
    <3>1. j \in DOMAIN x /\ i - a \in DOMAIN y /\ x[j] = y[i - a]
      BY <1>2, <1>3, <1>4, <2>4
    <3> QED BY <1>4, <3>1 DEF Range
  <2> QED BY <2>1, <2>2, <2>3, <2>4
<1>5. IsInjective(x) /\ IsInjective(y) /\ Range(x) \cap Range(y) = {} => IsInjective(z)
  BY <1>2, <1>4 DEF IsInjective
<1> QED BY <1>1, <1>5 DEF z

\* Flattening puts one list after the other.
LEMMA FlattenedSteps ==
  ASSUME NEW S, NEW lists \in Seq(Seq(S))
  PROVE  \E f \in [0 .. Len(lists) -> Seq(S)] :
           /\ f[0] = <<>> /\ FlattenSeq(lists) = f[Len(lists)]
           /\ \A i \in 1 .. Len(lists) : f[i] = f[i - 1] \o lists[i]
<1> DEFINE n == Len(lists)
           R == Seq(S)
           e == <<>>
           Defined(f) == f = [i \in 1 .. n |-> IF i = 1 THEN lists[i] ELSE f[i - 1] \o lists[i]]
           step == [i \in 1 .. n |-> [x \in R |-> x \o lists[i]]]
<1>1. n \in Nat /\ DOMAIN lists = 1 .. n /\ \A i \in 1 .. n : lists[i] \in R
  BY LenProperties, ElementOfSeq
<1>2. n = 0 => FlattenSeq(lists) = e
  BY EmptySeq DEF FlattenSeq
<1>3. n # 0 => FlattenSeq(lists) = (CHOOSE f : Defined(f))[n]
  BY DEF FlattenSeq
<1> HIDE DEF n
<1>4. step \in [1 .. n -> [R -> R]] /\ \A i \in 1 .. n, x \in R : step[i][x] = x \o lists[i]
  <2>1. \A i \in 1 .. n, x \in R : x \o lists[i] \in R
    BY <1>1, ConcatProperties
  <2> QED BY <2>1
<1>5. e \in R
  BY EmptySeq
<1> HIDE DEF step
<1>6. PICK g \in [0 .. n -> R] : g[0] = e /\ \A i \in 1 .. n : g[i] = step[i][g[i - 1]]
  <2> HIDE DEF e, R
  <2>1. n \in Nat /\ step \in [1 .. n -> [R -> R]]
    BY <1>1, <1>4
  <2> QED BY <1>5, <2>1, Recursion
<1>7. \A i \in 1 .. n : i \in 0 .. n /\ i - 1 \in 0 .. n /\ (i # 1 => i - 1 \in 1 .. n)
  BY <1>1
<1>8. \A i \in 1 .. n : g[i] = g[i - 1] \o lists[i]
  BY <1>4, <1>6, <1>7
<1>9. 1 \in 1 .. n => g[1] = lists[1]
  <2> SUFFICES ASSUME 1 \in 1 .. n PROVE g[1] = lists[1]
    OBVIOUS
  <2>0. 1 - 1 = 0
    OBVIOUS
  <2>1. g[1] = g[1 - 1] \o lists[1]
    BY <1>8, Zenon
  <2>2. g[1] = <<>> \o lists[1] /\ lists[1] \in Seq(S)
    BY <1>1, <1>6, <2>0, <2>1
  <2> QED BY <2>2, ConcatEmptySeq
<1>10. ASSUME NEW f, Defined(f), NEW k \in 1 .. n PROVE f[k] = g[k]
  <2> DEFINE Bad == {i \in 0 .. n : i # 0 /\ f[i] # g[i]}
  <2>1. Bad \in SUBSET (0 .. n) /\ 0 \notin Bad
    OBVIOUS
  <2>2. ASSUME NEW i \in 1 .. n, i - 1 \notin Bad PROVE i \notin Bad
    <3>1. f[i] = IF i = 1 THEN lists[i] ELSE f[i - 1] \o lists[i]
      BY <1>10
    <3>2. i # 1 => f[i - 1] = g[i - 1]
      BY <1>7, <2>2
    <3> QED BY <1>8, <1>9, <3>1, <3>2
  <2>3. Bad = {}
    <3> HIDE DEF Bad
    <3> QED BY <1>1, <2>1, <2>2, NoCounterexample
  <2>4. k \in 0 .. n /\ k # 0
    BY <1>1
  <2> QED BY <2>3, <2>4
<1>11. \E f : Defined(f)
  <2> DEFINE f == [i \in 1 .. n |-> g[i]]
  <2>1. ASSUME NEW i \in 1 .. n
        PROVE  f[i] = IF i = 1 THEN lists[i] ELSE f[i - 1] \o lists[i]
    BY <1>7, <1>8, <1>9
  <2>2. Defined(f)
    BY <2>1
  <2> QED BY <2>2
<1>12. FlattenSeq(lists) = g[n]
  <2>1. CASE n = 0
    BY <1>2, <1>6, <2>1
  <2>2. CASE n # 0
    <3> DEFINE f == CHOOSE f : Defined(f)
    <3>1. Defined(f)
      BY <1>11
    <3>2. n \in 1 .. n
      BY <1>1, <2>2
    <3> HIDE DEF f, Defined
    <3> QED BY <1>3, <1>10, <2>2, <3>1, <3>2 DEF f
  <2> QED BY <2>1, <2>2
<1> QED BY <1>6, <1>8, <1>12 DEF n, R, e

\* A list of lists and what it is flattened to.
LEMMA Flattened ==
  ASSUME NEW S, NEW lists \in Seq(Seq(S))
  PROVE  /\ FlattenSeq(lists) \in Seq(S)
         /\ Range(FlattenSeq(lists)) = UNION {Range(lists[i]) : i \in DOMAIN lists}
         /\ (/\ \A i \in DOMAIN lists : IsInjective(lists[i])
             /\ \A i, j \in DOMAIN lists : i # j => Range(lists[i]) \cap Range(lists[j]) = {})
            => IsInjective(FlattenSeq(lists))
<1> DEFINE n == Len(lists)
           Parts(k) == UNION {Range(lists[i]) : i \in 1 .. k}
           Apart == /\ \A i \in 1 .. n : IsInjective(lists[i])
                    /\ \A i, j \in 1 .. n : i # j => Range(lists[i]) \cap Range(lists[j]) = {}
           Good(x, k) == /\ x \in Seq(S)
                         /\ Range(x) = Parts(k)
                         /\ Apart => IsInjective(x)
           Bad(f) == {k \in 0 .. n : ~Good(f[k], k)}
<1>1. n \in Nat /\ DOMAIN lists = 1 .. n /\ \A i \in 1 .. n : lists[i] \in Seq(S)
  BY LenProperties, ElementOfSeq
<1>2. PICK f \in [0 .. n -> Seq(S)] : /\ f[0] = <<>> /\ FlattenSeq(lists) = f[n]
                                     /\ \A i \in 1 .. n : f[i] = f[i - 1] \o lists[i]
  BY FlattenedSteps
<1> HIDE DEF n
<1>3. Good(f[0], 0)
  <2>1. f[0] \in Seq(S) /\ DOMAIN f[0] = {} /\ Parts(0) = {}
    BY <1>1, <1>2, EmptySeq
  <2> QED BY <2>1 DEF Range, IsInjective
<1>4. ASSUME NEW k \in 1 .. n, Good(f[k - 1], k - 1)
      PROVE  Good(f[k], k)
  <2> DEFINE x == f[k - 1]
             y == lists[k]
             z == x \o y
  <2>1. f[k] = z /\ x \in Seq(S) /\ y \in Seq(S)
    BY <1>1, <1>2, <1>4
  <2>2. Parts(k) = Parts(k - 1) \cup Range(lists[k])
    <3>1. k \in Nat /\ k \in 1 .. k
      BY <1>1
    <3>2. \A i : i \in 1 .. k <=> i = k \/ i \in 1 .. k - 1
      BY <3>1
    <3> QED BY <3>2
  <2>3. ASSUME Apart PROVE IsInjective(x) /\ IsInjective(y) /\ Range(x) \cap Range(y) = {}
    <3>1. \A i \in 1 .. k - 1 : i \in 1 .. n /\ i # k
      BY <1>1
    <3>2. \A i \in 1 .. k - 1 : Range(lists[i]) \cap Range(lists[k]) = {}
      BY <2>3, <3>1
    <3>3. Range(x) \cap Range(y) = {}
      BY <1>4, <3>2
    <3> QED BY <1>1, <1>4, <2>3, <3>3
  <2> HIDE DEF x, y, Parts, Apart
  <2>4. /\ z \in Seq(S) /\ Range(z) = Range(x) \cup Range(y)
        /\ IsInjective(x) /\ IsInjective(y) /\ Range(x) \cap Range(y) = {} => IsInjective(z)
    BY <2>1, Joined
  <2> HIDE DEF z
  <2>5. Range(z) = Parts(k)
    BY <1>4, <2>2, <2>4 DEF x, y
  <2> QED BY <2>1, <2>3, <2>4, <2>5
<1> HIDE DEF Good
<1>5. Bad(f) = {}
  <2>1. Bad(f) \in SUBSET (0 .. n) /\ 0 \notin Bad(f)
    BY <1>3
  <2>2. \A i \in 1 .. n : i - 1 \notin Bad(f) => i \notin Bad(f)
    <3> TAKE i \in 1 .. n
    <3>1. i - 1 \in 0 .. n /\ i \in 0 .. n
      BY <1>1
    <3> QED BY <1>4, <3>1
  <2> HIDE DEF Bad
  <2> QED BY <1>1, <2>1, <2>2, NoCounterexample
<1>6. Good(f[n], n)
  <2>1. n \in 0 .. n
    BY <1>1
  <2> QED BY <1>5, <2>1
<1> QED BY <1>1, <1>2, <1>6 DEF Good

\* Keeping is a filter.
LEMMA KeepingIs ==
  ASSUME NEW S, NEW list \in Seq(S), NEW set
  PROVE  /\ Keeping(list, set) \in Seq(S)
         /\ Range(Keeping(list, set)) = Range(list) \cap set
         /\ IsInjective(list) => IsInjective(Keeping(list, set))
<1> DEFINE n == Len(list)
           parts == [i \in DOMAIN list |-> IF list[i] \in set THEN <<list[i]>> ELSE <<>>]
<1>1. n \in Nat /\ DOMAIN list = 1 .. n /\ \A i \in 1 .. n : list[i] \in S
  BY LenProperties, ElementOfSeq
<1> HIDE DEF n
<1>2. \A i \in 1 .. n : parts[i] \in Seq(S)
  BY <1>1
<1>3. parts \in Seq(Seq(S)) /\ DOMAIN parts = 1 .. n
  <2>1. parts = [i \in 1 .. n |-> parts[i]]
    BY <1>1
  <2> HIDE DEF parts
  <2>2. [i \in 1 .. n |-> parts[i]] \in Seq(Seq(S))
    BY <1>1, <1>2, IsASeq
  <2> QED BY <2>1, <2>2
<1>4. \A i \in 1 .. n : /\ Range(parts[i]) = IF list[i] \in set THEN {list[i]} ELSE {}
                        /\ IsInjective(parts[i])
  BY <1>1 DEF Range, IsInjective
<1>5. IsInjective(list) =>
        \A i, j \in 1 .. n : i # j => Range(parts[i]) \cap Range(parts[j]) = {}
  BY <1>1, <1>4 DEF IsInjective
<1>6. UNION {Range(parts[i]) : i \in 1 .. n} = Range(list) \cap set
  BY <1>1, <1>4 DEF Range
<1>7. Keeping(list, set) = FlattenSeq(parts)
  BY DEF Keeping
<1> HIDE DEF parts
<1>8. /\ FlattenSeq(parts) \in Seq(S)
      /\ Range(FlattenSeq(parts)) = UNION {Range(parts[i]) : i \in DOMAIN parts}
      /\ (/\ \A i \in DOMAIN parts : IsInjective(parts[i])
          /\ \A i, j \in DOMAIN parts : i # j => Range(parts[i]) \cap Range(parts[j]) = {})
         => IsInjective(FlattenSeq(parts))
  BY <1>3, Flattened
<1>9. IsInjective(list) => IsInjective(FlattenSeq(parts))
  BY <1>3, <1>4, <1>5, <1>8
<1> QED BY <1>3, <1>6, <1>7, <1>8, <1>9

LEMMA One ==
  ASSUME NEW S, NEW x \in S
  PROVE  <<x>> \in Seq(S) /\ Range(<<x>>) = {x} /\ IsInjective(<<x>>)
BY DEF Range, IsInjective

LEMMA OwnRange ==
  ASSUME NEW S, NEW x \in Seq(S)
  PROVE  x \in Seq(Range(x)) /\ Range(x) \subseteq S
<1> DEFINE n == Len(x)
<1>1. n \in Nat /\ DOMAIN x = 1 .. n /\ x = [i \in 1 .. n |-> x[i]] /\ \A i \in 1 .. n : x[i] \in S
  BY LenProperties, ElementOfSeq
<1> HIDE DEF n
<1>2. \A i \in 1 .. n : x[i] \in Range(x)
  BY <1>1 DEF Range
<1>3. [i \in 1 .. n |-> x[i]] \in Seq(Range(x))
  BY <1>1, <1>2, IsASeq
<1>4. Range(x) \subseteq S
  BY <1>1 DEF Range
<1> QED BY <1>1, <1>3, <1>4

\* FirstIn is the least position, if there is one.
LEMMA FirstInIs ==
  ASSUME NEW S, NEW list \in Seq(S), NEW set
  PROVE  /\ FirstIn(list, set) \in 0 .. Len(list)
         /\ FirstIn(list, set) # 0 =>
              FirstIn(list, set) \in DOMAIN list /\ list[FirstIn(list, set)] \in set
         /\ FirstIn(list, set) = 0 <=> Range(list) \cap set = {}
<1> DEFINE positions == {i \in DOMAIN list : list[i] \in set}
           n == Len(list)
<1>1. n \in Nat /\ DOMAIN list = 1 .. n
  BY LenProperties
<1>2. CASE positions = {}
  <2>1. FirstIn(list, set) = 0
    BY <1>2 DEF FirstIn
  <2>2. Range(list) \cap set = {}
    BY <1>2 DEF Range
  <2> HIDE DEF n
  <2> QED BY <1>1, <2>1, <2>2
<1>3. CASE positions # {}
  <2>1. PICK x \in positions : \A y \in positions : x <= y
    <3>1. positions \in SUBSET Nat
      BY <1>1
    <3> HIDE DEF positions
    <3> QED BY <1>3, <3>1, LeastNumber
  <2>2. FirstIn(list, set) = CHOOSE i \in positions : \A j \in positions : i <= j
    BY <1>3, Zenon DEF FirstIn, Min
  <2>3. FirstIn(list, set) \in positions
    BY <2>1, <2>2
  <2>4. Range(list) \cap set # {}
    BY <2>3 DEF Range
  <2> HIDE DEF n
  <2> QED BY <1>1, <2>3, <2>4
<1> QED BY <1>2, <1>3

\* One member less, and those behind it move up.
LEMMA RemoveAtIs ==
  ASSUME NEW S, NEW list \in Seq(S), NEW k \in DOMAIN list
  PROVE  /\ RemoveAt(list, k) \in Seq(S) /\ Len(RemoveAt(list, k)) = Len(list) - 1
         /\ \A i \in 1 .. Len(list) - 1 :
              RemoveAt(list, k)[i] = IF i < k THEN list[i] ELSE list[i + 1]
<1> DEFINE n == Len(list)
           x == SubSeq(list, 1, k - 1)
           y == SubSeq(list, k + 1, n)
<1>1. n \in Nat /\ k \in 1 .. n /\ \A i \in 1 .. n : list[i] \in S
  BY LenProperties, ElementOfSeq
<1>2. x \in Seq(S) /\ Len(x) = k - 1 /\ \A i \in 1 .. k - 1 : x[i] = list[i]
  BY <1>1, SubSeqProperties
<1>3. y \in Seq(S) /\ Len(y) = n - k /\ \A i \in 1 .. n - k : y[i] = list[k + i]
  BY <1>1, SubSeqProperties
<1>4. RemoveAt(list, k) = x \o y
  BY DEF RemoveAt
<1> HIDE DEF n, x, y
<1>5. /\ x \o y \in Seq(S) /\ Len(x \o y) = n - 1
      /\ \A i \in 1 .. n - 1 : (x \o y)[i] = IF i <= k - 1 THEN x[i] ELSE y[i - (k - 1)]
  <2>1. /\ x \o y \in Seq(S) /\ Len(x \o y) = Len(x) + Len(y)
        /\ \A i \in 1 .. Len(x) + Len(y) :
             (x \o y)[i] = IF i <= Len(x) THEN x[i] ELSE y[i - Len(x)]
    BY <1>2, <1>3, ConcatProperties
  <2>2. Len(x) + Len(y) = n - 1
    BY <1>1, <1>2, <1>3
  <2> QED BY <1>2, <2>1, <2>2
<1>6. ASSUME NEW i \in 1 .. n - 1
      PROVE  (x \o y)[i] = IF i < k THEN list[i] ELSE list[i + 1]
  <2>1. CASE i <= k - 1
    <3>1. i \in 1 .. k - 1 /\ i < k
      BY <1>1, <2>1
    <3> QED BY <1>2, <1>5, <2>1, <3>1
  <2>2. CASE ~(i <= k - 1)
    <3>1. i - (k - 1) \in 1 .. n - k /\ ~(i < k) /\ k + (i - (k - 1)) = i + 1
      BY <1>1, <2>2
    <3> QED BY <1>3, <1>5, <2>2, <3>1
  <2> QED BY <2>1, <2>2
<1> QED BY <1>4, <1>5, <1>6 DEF n

\* A function on 1 .. n is a list.
LEMMA ListOf ==
  ASSUME NEW S, NEW n \in Nat, NEW p \in [1 .. n -> S]
  PROVE  p \in Seq(S) /\ Len(p) = n
<1>1. p = [i \in 1 .. n |-> p[i]] /\ \A i \in 1 .. n : p[i] \in S
  OBVIOUS
<1>2. [i \in 1 .. n |-> p[i]] \in Seq(S)
  BY <1>1, IsASeq
<1>3. p \in Seq(S) /\ DOMAIN p = 1 .. n
  BY <1>1, <1>2
<1> QED BY <1>3, LenProperties

\* A list and one more.
LEMMA OneMore ==
  ASSUME NEW S, NEW s \in Seq(S), NEW x \in S
  PROVE  /\ s \o <<x>> \in Seq(S) /\ Len(s \o <<x>>) = Len(s) + 1
         /\ \A i \in 1 .. Len(s) : (s \o <<x>>)[i] = s[i]
         /\ (s \o <<x>>)[Len(s) + 1] = x
<1>1. s \o <<x>> = Append(s, x) /\ Len(s) \in Nat
  BY AppendIsConcat, LenProperties
<1> QED BY <1>1, AppendProperties

\* What is kept are the members at certain positions, in their order, and they
\* are the same positions in a list whose members pass alike.
AtPlaces(h, kept, list, set, rest, other) ==
  /\ Len(rest) = Len(kept)
  /\ \A i \in 1 .. Len(kept) : /\ kept[i] = list[h[i]] /\ rest[i] = other[h[i]]
                              /\ list[h[i]] \in set
  /\ \A i, j \in 1 .. Len(kept) : i < j => h[i] < h[j]
  /\ \A k \in DOMAIN list : list[k] \in set => \E i \in 1 .. Len(kept) : h[i] = k

LEMMA KeepingAlike ==
  ASSUME NEW S, NEW T, NEW list \in Seq(S), NEW other \in Seq(T), NEW set, NEW some,
         Len(other) = Len(list), \A i \in DOMAIN list : list[i] \in set <=> other[i] \in some
  PROVE  \E h \in [1 .. Len(Keeping(list, set)) -> DOMAIN list] :
           AtPlaces(h, Keeping(list, set), list, set, Keeping(other, some), other)
<1> DEFINE n == Len(list)
           ps == [i \in DOMAIN list |-> IF list[i] \in set THEN <<list[i]>> ELSE <<>>]
           qs == [i \in DOMAIN other |-> IF other[i] \in some THEN <<other[i]>> ELSE <<>>]
<1>1. /\ n \in Nat /\ DOMAIN list = 1 .. n /\ \A i \in 1 .. n : list[i] \in S
      /\ DOMAIN other = 1 .. n /\ \A i \in 1 .. n : other[i] \in T
  BY LenProperties, ElementOfSeq
<1> HIDE DEF n
<1>2. ps \in Seq(Seq(S)) /\ Len(ps) = n
  <2> DEFINE R == Seq(S)
  <2>1. \A i \in 1 .. n : ps[i] \in R
    BY <1>1
  <2>2. ps \in [1 .. n -> R]
    BY <1>1, <2>1
  <2> HIDE DEF ps, R
  <2>3. ps \in Seq(R) /\ Len(ps) = n
    BY <1>1, <2>2, ListOf
  <2> QED BY <2>3 DEF R
<1>3. qs \in Seq(Seq(T)) /\ Len(qs) = n
  <2> DEFINE R == Seq(T)
  <2>1. \A i \in 1 .. n : qs[i] \in R
    BY <1>1
  <2>2. qs \in [1 .. n -> R]
    BY <1>1, <2>1
  <2> HIDE DEF qs, R
  <2>3. qs \in Seq(R) /\ Len(qs) = n
    BY <1>1, <2>2, ListOf
  <2> QED BY <2>3 DEF R
<1>4. PICK f \in [0 .. n -> Seq(S)] : /\ f[0] = <<>> /\ Keeping(list, set) = f[n]
                                     /\ \A i \in 1 .. n : f[i] = f[i - 1] \o ps[i]
  <2> HIDE DEF ps
  <2>1. \E f \in [0 .. n -> Seq(S)] : /\ f[0] = <<>> /\ FlattenSeq(ps) = f[n]
                                     /\ \A i \in 1 .. n : f[i] = f[i - 1] \o ps[i]
    BY <1>2, FlattenedSteps
  <2> QED BY <2>1 DEF Keeping, ps
<1>5. PICK g \in [0 .. n -> Seq(T)] : /\ g[0] = <<>> /\ Keeping(other, some) = g[n]
                                     /\ \A i \in 1 .. n : g[i] = g[i - 1] \o qs[i]
  <2> HIDE DEF qs
  <2>1. \E g \in [0 .. n -> Seq(T)] : /\ g[0] = <<>> /\ FlattenSeq(qs) = g[n]
                                     /\ \A i \in 1 .. n : g[i] = g[i - 1] \o qs[i]
    BY <1>3, FlattenedSteps
  <2> QED BY <2>1 DEF Keeping, qs
<1> DEFINE Picks(k, m, h) ==
             /\ Len(f[k]) = m /\ Len(g[k]) = m
             /\ \A i \in 1 .. m : /\ f[k][i] = list[h[i]] /\ g[k][i] = other[h[i]]
                                  /\ list[h[i]] \in set
             /\ \A i, j \in 1 .. m : i < j => h[i] < h[j]
             /\ \A l \in 1 .. k : list[l] \in set => \E i \in 1 .. m : h[i] = l
           Good(k) == \E m \in Nat : \E h \in [1 .. m -> 1 .. k] : Picks(k, m, h)
           Bad == {k \in 0 .. n : ~Good(k)}
<1>6. Good(0)
  <2>1. Len(f[0]) = 0 /\ Len(g[0]) = 0
    BY <1>4, <1>5, EmptySeq
  <2> DEFINE h == [i \in 1 .. 0 |-> 1]
  <2>2. h \in [1 .. 0 -> 1 .. 0] /\ Picks(0, 0, h)
    BY <2>1
  <2> HIDE DEF h, Picks
  <2> QED BY <2>2
<1>7. ASSUME NEW k \in 1 .. n, Good(k - 1) PROVE Good(k)
  <2>0. PICK m \in Nat : \E h \in [1 .. m -> 1 .. k - 1] : Picks(k - 1, m, h)
    BY <1>7
  <2>1. PICK h \in [1 .. m -> 1 .. k - 1] : Picks(k - 1, m, h)
    BY <2>0
  <2> HIDE DEF ps, qs
  <2>2. /\ k - 1 \in 0 .. n /\ f[k] = f[k - 1] \o ps[k] /\ g[k] = g[k - 1] \o qs[k]
        /\ f[k - 1] \in Seq(S) /\ g[k - 1] \in Seq(T) /\ k \in Nat
    <3>1. k - 1 \in 0 .. n /\ k \in Nat
      BY <1>1
    <3> HIDE DEF Picks, Good, Bad
    <3> QED BY <1>4, <1>5, <3>1
  <2>3. CASE list[k] \notin set
    <3>1. ps[k] = <<>> /\ qs[k] = <<>>
      BY <1>1, <2>3 DEF ps, qs
    <3>2. f[k] = f[k - 1] /\ g[k] = g[k - 1]
      BY <2>2, <3>1, ConcatEmptySeq
    <3>3. h \in [1 .. m -> 1 .. k]
      BY <2>2
    <3>4. \A l \in 1 .. k : list[l] \in set => l \in 1 .. k - 1
      BY <2>2, <2>3
    <3>5. Picks(k, m, h)
      BY <2>1, <3>2, <3>4
    <3> HIDE DEF Picks
    <3> QED BY <3>3, <3>5
  <2>4. CASE list[k] \in set
    <3> DEFINE h2 == [i \in 1 .. m + 1 |-> IF i = m + 1 THEN k ELSE h[i]]
               x == list[k]
               y == other[k]
    <3>1. ps[k] = <<x>> /\ qs[k] = <<y>> /\ x \in S /\ y \in T
      BY <1>1, <2>4 DEF ps, qs
    <3>2. \A i \in 1 .. m : h[i] \in 1 .. k - 1 /\ h[i] \in 1 .. k /\ h[i] < k /\ i \in 1 .. m + 1 /\ i # m + 1
      BY <2>1, <2>2
    <3>3. /\ Len(f[k]) = m + 1 /\ \A i \in 1 .. m : f[k][i] = f[k - 1][i]
          /\ f[k][m + 1] = x
      <4>1. Len(f[k - 1]) = m
        BY <2>1
      <4> HIDE DEF Picks, x, y
      <4> QED BY <2>2, <3>1, <4>1, OneMore
    <3>4. /\ Len(g[k]) = m + 1 /\ \A i \in 1 .. m : g[k][i] = g[k - 1][i]
          /\ g[k][m + 1] = y
      <4>1. Len(g[k - 1]) = m
        BY <2>1
      <4> HIDE DEF Picks, x, y
      <4> QED BY <2>2, <3>1, <4>1, OneMore
    <3>5. k \in 1 .. k /\ \A i \in 1 .. m + 1 : i = m + 1 \/ i \in 1 .. m
      BY <2>1, <2>2
    <3>6. /\ h2 \in [1 .. m + 1 -> 1 .. k] /\ h2[m + 1] = k /\ m + 1 \in 1 .. m + 1
          /\ \A i \in 1 .. m : h2[i] = h[i]
      BY <2>1, <3>2, <3>5
    <3> HIDE DEF h2, x, y
    <3>7. \A i \in 1 .. m + 1 : /\ f[k][i] = list[h2[i]] /\ g[k][i] = other[h2[i]]
                                /\ list[h2[i]] \in set
      <4> TAKE i \in 1 .. m + 1
      <4>1. CASE i = m + 1
        BY <2>4, <3>3, <3>4, <3>6, <4>1 DEF x, y
      <4>2. CASE i \in 1 .. m
        BY <2>1, <3>3, <3>4, <3>6, <4>2
      <4> QED BY <3>5, <4>1, <4>2
    <3>8. \A i, j \in 1 .. m + 1 : i < j => h2[i] < h2[j]
      <4> SUFFICES ASSUME NEW i \in 1 .. m + 1, NEW j \in 1 .. m + 1, i < j PROVE h2[i] < h2[j]
        OBVIOUS
      <4>1. i \in 1 .. m
        BY <2>1, <3>5
      <4>2. CASE j = m + 1
        BY <3>2, <3>6, <4>1, <4>2
      <4>3. CASE j \in 1 .. m
        BY <2>1, <3>6, <4>1, <4>3
      <4> QED BY <3>5, <4>2, <4>3
    <3>9. \A l \in 1 .. k : list[l] \in set => \E i \in 1 .. m + 1 : h2[i] = l
      <4> SUFFICES ASSUME NEW l \in 1 .. k, list[l] \in set PROVE \E i \in 1 .. m + 1 : h2[i] = l
        OBVIOUS
      <4>1. CASE l = k
        BY <3>6, <4>1
      <4>2. CASE l \in 1 .. k - 1
        BY <2>1, <3>2, <3>6, <4>2
      <4>3. l = k \/ l \in 1 .. k - 1
        BY <2>2
      <4> QED BY <4>1, <4>2, <4>3
    <3>10. m + 1 \in Nat /\ Picks(k, m + 1, h2)
      BY <3>3, <3>4, <3>7, <3>8, <3>9
    <3> HIDE DEF Picks
    <3> QED BY <3>6, <3>10
  <2> QED BY <2>3, <2>4
<1> HIDE DEF Good
<1>8. Bad = {}
  <2>1. Bad \in SUBSET (0 .. n) /\ 0 \notin Bad
    BY <1>6
  <2>2. \A i \in 1 .. n : i - 1 \notin Bad => i \notin Bad
    <3> TAKE i \in 1 .. n
    <3>1. i - 1 \in 0 .. n /\ i \in 0 .. n
      BY <1>1
    <3> QED BY <1>7, <3>1
  <2> HIDE DEF Bad
  <2> QED BY <1>1, <2>1, <2>2, NoCounterexample
<1>9. Good(n)
  <2>1. n \in 0 .. n
    BY <1>1
  <2> QED BY <1>8, <2>1
<1>10. PICK m \in Nat : \E h \in [1 .. m -> 1 .. n] : Picks(n, m, h)
  BY <1>9 DEF Good
<1>11. PICK h \in [1 .. m -> 1 .. n] : Picks(n, m, h)
  BY <1>10
<1>12. Len(Keeping(list, set)) = m
  BY <1>4, <1>11
<1> HIDE DEF ps, qs
<1> DEFINE K == Keeping(list, set)
<1>13. /\ h \in [1 .. Len(K) -> DOMAIN list] /\ Len(Keeping(other, some)) = Len(K)
       /\ \A i \in 1 .. Len(K) : /\ K[i] = list[h[i]] /\ Keeping(other, some)[i] = other[h[i]]
                                 /\ list[h[i]] \in set
       /\ \A i, j \in 1 .. Len(K) : i < j => h[i] < h[j]
       /\ \A k \in DOMAIN list : list[k] \in set => \E i \in 1 .. Len(K) : h[i] = k
  BY <1>1, <1>4, <1>5, <1>11, <1>12
<1>14. AtPlaces(h, K, list, set, Keeping(other, some), other)
  BY <1>13 DEF AtPlaces
<1> HIDE DEF K, Picks, Good, Bad
<1> QED BY <1>13, <1>14 DEF K

\* Keeping every member keeps the list.
LEMMA KeepingAll ==
  ASSUME NEW S, NEW list \in Seq(S), NEW set, Range(list) \subseteq set
  PROVE  Keeping(list, set) = list
<1> DEFINE kept == Keeping(list, set)
           n == Len(list)
           m == Len(kept)
<1>1. n \in Nat /\ DOMAIN list = 1 .. n /\ \A i \in 1 .. n : list[i] \in set
  BY LenProperties DEF Range
<1>2. kept \in Seq(S) /\ m \in Nat /\ DOMAIN kept = 1 .. m
  <2>1. kept \in Seq(S)
    BY KeepingIs
  <2> QED BY <2>1, LenProperties
<1>2a. PICK h \in [1 .. m -> DOMAIN list] : AtPlaces(h, kept, list, set, kept, list)
  BY KeepingAlike
<1> HIDE DEF kept, n
<1>3. /\ \A i \in 1 .. m : kept[i] = list[h[i]]
      /\ \A i, j \in 1 .. m : i < j => h[i] < h[j]
      /\ \A k \in DOMAIN list : list[k] \in set => \E i \in 1 .. m : h[i] = k
  BY <1>2a DEF AtPlaces
<1> HIDE DEF m
<1>4. /\ \A i \in 1 .. m : h[i] \in 1 .. n
      /\ \A k \in 1 .. n : \E i \in 1 .. m : h[i] = k
  BY <1>1, <1>3
<1>5. \A i \in 1 .. m : h[i] = i
  <2> DEFINE Bad == {i \in 1 .. m : h[i] # i}
  <2> SUFFICES ASSUME Bad # {} PROVE FALSE
    OBVIOUS
  <2>1. PICK i \in Bad : \A j \in Bad : i <= j
    <3>1. Bad \in SUBSET Nat
      BY <1>2
    <3> HIDE DEF Bad
    <3> QED BY <3>1, LeastNumber
  <2>2. i \in 1 .. m /\ h[i] # i /\ h[i] \in 1 .. n /\ \A j \in 1 .. m : j < i => h[j] = j
    BY <1>2, <1>4, <2>1
  <2>3. ~(h[i] < i)
    <3> SUFFICES ASSUME h[i] < i PROVE FALSE
      OBVIOUS
    <3>1. h[i] \in 1 .. m /\ h[h[i]] = h[i]
      BY <1>1, <1>2, <2>2
    <3> QED BY <1>1, <1>2, <1>3, <2>2, <3>1
  <2>4. i \in 1 .. n
    BY <1>1, <1>2, <2>2, <2>3
  <2>5. PICK j \in 1 .. m : h[j] = i
    BY <1>4, <2>4
  <2>6. i < j
    BY <1>2, <2>2, <2>5
  <2> QED BY <1>1, <1>2, <1>3, <2>2, <2>3, <2>5, <2>6
<1>6. m = n
  <2>1. n <= m
    <3> SUFFICES ASSUME n > 0 PROVE n <= m
      BY <1>1, <1>2
    <3>1. PICK i \in 1 .. m : h[i] = n
      BY <1>1, <1>4
    <3> QED BY <1>1, <1>2, <1>5, <3>1
  <2>2. m <= n
    <3> SUFFICES ASSUME m > 0 PROVE m <= n
      BY <1>1, <1>2
    <3>1. m \in 1 .. m
      BY <1>2
    <3> QED BY <1>1, <1>2, <1>4, <1>5, <3>1
  <2> QED BY <1>1, <1>2, <2>1, <2>2
<1>7. \A i \in 1 .. n : kept[i] = list[i]
  BY <1>3, <1>5, <1>6
<1> QED BY <1>1, <1>2, <1>6, <1>7, SeqEqual DEF kept, n, m

-----------------------------------------------------------------------------
(* The order of a list *)

\* Each member is to each behind it as the relation (a set of pairs) says.
Ordered(list, R) == \A i, j \in DOMAIN list : i < j => <<list[i], list[j]>> \in R

LEMMA JoinedOrder ==
  ASSUME NEW S, NEW x \in Seq(S), NEW y \in Seq(S), NEW R, Ordered(x, R), Ordered(y, R),
         \A a \in Range(x), b \in Range(y) : <<a, b>> \in R
  PROVE  Ordered(x \o y, R)
<1> DEFINE a == Len(x)
           b == Len(y)
           z == x \o y
<1>1. /\ a \in Nat /\ b \in Nat
      /\ DOMAIN x = 1 .. a /\ DOMAIN y = 1 .. b /\ DOMAIN z = 1 .. a + b
  BY LenProperties, ConcatProperties
<1>2. \A i \in 1 .. a + b : z[i] = IF i <= a THEN x[i] ELSE y[i - a]
  BY ConcatProperties
<1> HIDE DEF a, b, z
<1>3. ASSUME NEW i \in 1 .. a + b, NEW j \in 1 .. a + b, i < j
      PROVE  <<z[i], z[j]>> \in R
  <2>1. CASE j <= a
    <3>1. i \in DOMAIN x /\ j \in DOMAIN x /\ z[i] = x[i] /\ z[j] = x[j]
      BY <1>1, <1>2, <1>3, <2>1
    <3> QED BY <1>3, <3>1 DEF Ordered
  <2>2. CASE ~(i <= a)
    <3>1. /\ i - a \in DOMAIN y /\ j - a \in DOMAIN y /\ i - a < j - a
          /\ z[i] = y[i - a] /\ z[j] = y[j - a]
      BY <1>1, <1>2, <1>3, <2>2
    <3> QED BY <3>1 DEF Ordered
  <2>3. CASE i <= a /\ ~(j <= a)
    <3>1. i \in DOMAIN x /\ j - a \in DOMAIN y /\ z[i] = x[i] /\ z[j] = y[j - a]
      BY <1>1, <1>2, <1>3, <2>3
    <3>2. z[i] \in Range(x) /\ z[j] \in Range(y)
      BY <3>1 DEF Range
    <3> QED BY <3>2
  <2> QED BY <1>1, <1>3, <2>1, <2>2, <2>3
<1> QED BY <1>1, <1>3 DEF Ordered, z

LEMMA FlattenedOrder ==
  ASSUME NEW S, NEW lists \in Seq(Seq(S)), NEW R,
         \A i \in DOMAIN lists : Ordered(lists[i], R),
         \A i, j \in DOMAIN lists : i < j =>
           \A a \in Range(lists[i]), b \in Range(lists[j]) : <<a, b>> \in R
  PROVE  Ordered(FlattenSeq(lists), R)
<1> DEFINE n == Len(lists)
           Parts(k) == UNION {Range(lists[i]) : i \in 1 .. k}
           Good(x, k) == x \in Seq(S) /\ Range(x) = Parts(k) /\ Ordered(x, R)
           Bad(f) == {k \in 0 .. n : ~Good(f[k], k)}
<1>1. n \in Nat /\ DOMAIN lists = 1 .. n /\ \A i \in 1 .. n : lists[i] \in Seq(S)
  BY LenProperties, ElementOfSeq
<1>2. PICK f \in [0 .. n -> Seq(S)] : /\ f[0] = <<>> /\ FlattenSeq(lists) = f[n]
                                     /\ \A i \in 1 .. n : f[i] = f[i - 1] \o lists[i]
  BY FlattenedSteps
<1> HIDE DEF n
<1>3. Good(f[0], 0)
  <2>1. f[0] \in Seq(S) /\ DOMAIN f[0] = {} /\ Parts(0) = {}
    BY <1>1, <1>2, EmptySeq
  <2> QED BY <2>1 DEF Range, Ordered
<1>4. ASSUME NEW k \in 1 .. n, Good(f[k - 1], k - 1)
      PROVE  Good(f[k], k)
  <2> DEFINE x == f[k - 1]
             y == lists[k]
             z == x \o y
  <2>1. f[k] = z /\ x \in Seq(S) /\ y \in Seq(S) /\ Ordered(x, R) /\ Ordered(y, R)
    BY <1>1, <1>2, <1>4
  <2>2. Parts(k) = Parts(k - 1) \cup Range(lists[k])
    <3>1. k \in Nat /\ k \in 1 .. k
      BY <1>1
    <3>2. \A i : i \in 1 .. k <=> i = k \/ i \in 1 .. k - 1
      BY <3>1
    <3> QED BY <3>2
  <2>3. ASSUME NEW a \in Range(x), NEW b \in Range(y) PROVE <<a, b>> \in R
    <3>1. a \in Parts(k - 1)
      BY <1>4
    <3>2. PICK i \in 1 .. k - 1 : a \in Range(lists[i])
      BY <3>1
    <3>3. i \in DOMAIN lists /\ k \in DOMAIN lists /\ i < k
      BY <1>1
    <3> QED BY <3>2, <3>3
  <2> HIDE DEF x, y, Parts
  <2>4. z \in Seq(S) /\ Range(z) = Range(x) \cup Range(y) /\ Ordered(z, R)
    BY <2>1, <2>3, Joined, JoinedOrder
  <2> HIDE DEF z
  <2>5. Range(z) = Parts(k)
    BY <1>4, <2>2, <2>4 DEF x, y
  <2> QED BY <2>1, <2>4, <2>5
<1> HIDE DEF Good
<1>5. Bad(f) = {}
  <2>1. Bad(f) \in SUBSET (0 .. n) /\ 0 \notin Bad(f)
    BY <1>3
  <2>2. \A i \in 1 .. n : i - 1 \notin Bad(f) => i \notin Bad(f)
    <3> TAKE i \in 1 .. n
    <3>1. i - 1 \in 0 .. n /\ i \in 0 .. n
      BY <1>1
    <3> QED BY <1>4, <3>1
  <2> HIDE DEF Bad
  <2> QED BY <1>1, <2>1, <2>2, NoCounterexample
<1>6. Good(f[n], n)
  <2>1. n \in 0 .. n
    BY <1>1
  <2> QED BY <1>5, <2>1
<1> QED BY <1>2, <1>6 DEF Good

\* A filter keeps the order.
LEMMA KeepingOrder ==
  ASSUME NEW S, NEW list \in Seq(S), NEW set, NEW R, Ordered(list, R)
  PROVE  Ordered(Keeping(list, set), R)
<1> DEFINE n == Len(list)
           parts == [i \in DOMAIN list |-> IF list[i] \in set THEN <<list[i]>> ELSE <<>>]
<1>1. n \in Nat /\ DOMAIN list = 1 .. n /\ \A i \in 1 .. n : list[i] \in S
  BY LenProperties, ElementOfSeq
<1> HIDE DEF n
<1>2. \A i \in 1 .. n : parts[i] \in Seq(S)
  BY <1>1
<1>3. parts \in Seq(Seq(S)) /\ DOMAIN parts = 1 .. n
  <2>1. parts = [i \in 1 .. n |-> parts[i]]
    BY <1>1
  <2> HIDE DEF parts
  <2>2. [i \in 1 .. n |-> parts[i]] \in Seq(Seq(S))
    BY <1>1, <1>2, IsASeq
  <2> QED BY <2>1, <2>2
<1>4. \A i \in 1 .. n : Ordered(parts[i], R) /\ Range(parts[i]) \subseteq {list[i]}
  BY <1>1 DEF Range, Ordered
<1>5. Keeping(list, set) = FlattenSeq(parts)
  BY DEF Keeping
<1> HIDE DEF parts
<1>6. ASSUME NEW i \in DOMAIN parts, NEW j \in DOMAIN parts, i < j,
             NEW a \in Range(parts[i]), NEW b \in Range(parts[j])
      PROVE  <<a, b>> \in R
  <2>1. a = list[i] /\ b = list[j]
    BY <1>3, <1>4
  <2> QED BY <1>1, <1>3, <1>6, <2>1 DEF Ordered
<1> QED BY <1>3, <1>4, <1>5, <1>6, FlattenedOrder

LEMMA OfPairs ==
  ASSUME NEW list, NEW R, \A a, b \in Range(list) : <<a, b>> \in R
  PROVE  Ordered(list, R)
BY DEF Ordered, Range

\* What is before a place of a list and what is after it.
LEMMA TwoParts ==
  ASSUME NEW S, NEW s \in Seq(S), NEW k \in 0 .. Len(s)
  PROVE  /\ SubSeq(s, 1, k) \in Seq(S) /\ Len(SubSeq(s, 1, k)) = k
         /\ \A i \in 1 .. k : SubSeq(s, 1, k)[i] = s[i]
         /\ SubSeq(s, k + 1, Len(s)) \in Seq(S) /\ Len(SubSeq(s, k + 1, Len(s))) = Len(s) - k
         /\ \A i \in 1 .. Len(s) - k : SubSeq(s, k + 1, Len(s))[i] = s[k + i]
<1> DEFINE n == Len(s)
<1>1. n \in Nat /\ k \in Nat /\ k <= n /\ \A i \in 1 .. n : s[i] \in S
  BY LenProperties, ElementOfSeq
<1>2. n = Len(s)
  OBVIOUS
<1> HIDE DEF n
<1>3. \A i \in 1 .. k : s[i] \in S
  BY <1>1
<1>4. \A i \in k + 1 .. n : s[i] \in S
  BY <1>1
<1>5. /\ SubSeq(s, 1, k) \in Seq(S)
      /\ Len(SubSeq(s, 1, k)) = IF 1 <= k THEN k - 1 + 1 ELSE 0
      /\ \A i \in 1 .. k - 1 + 1 : SubSeq(s, 1, k)[i] = s[1 + i - 1]
  <2>1. 1 \in Int /\ k \in Int
    BY <1>1
  <2> HIDE <1>1
  <2> QED BY <1>3, <2>1, SubSeqProperties
<1>6. /\ SubSeq(s, k + 1, n) \in Seq(S)
      /\ Len(SubSeq(s, k + 1, n)) = IF k + 1 <= n THEN n - (k + 1) + 1 ELSE 0
      /\ \A i \in 1 .. n - (k + 1) + 1 : SubSeq(s, k + 1, n)[i] = s[k + 1 + i - 1]
  <2> DEFINE j == k + 1
  <2>1. j \in Int /\ n \in Int
    BY <1>1
  <2>2. \A i \in j .. n : s[i] \in S
    BY <1>4
  <2> HIDE DEF j
  <2>3. /\ SubSeq(s, j, n) \in Seq(S)
        /\ Len(SubSeq(s, j, n)) = IF j <= n THEN n - j + 1 ELSE 0
        /\ \A i \in 1 .. n - j + 1 : SubSeq(s, j, n)[i] = s[j + i - 1]
    BY <2>1, <2>2, SubSeqProperties
  <2> QED BY <2>3 DEF j
<1>7. \A i \in 1 .. k : i \in 1 .. k - 1 + 1 /\ 1 + i - 1 = i
  BY <1>1
<1>8. \A i \in 1 .. n - k : i \in 1 .. n - (k + 1) + 1 /\ k + 1 + i - 1 = k + i
  BY <1>1
<1>9. Len(SubSeq(s, 1, k)) = k /\ Len(SubSeq(s, k + 1, n)) = n - k
  BY <1>1, <1>5, <1>6
<1>10. \A i \in 1 .. k : SubSeq(s, 1, k)[i] = s[i]
  BY <1>5, <1>7
<1>11. \A i \in 1 .. n - k : SubSeq(s, k + 1, n)[i] = s[k + i]
  BY <1>6, <1>8
<1> QED BY <1>2, <1>5, <1>6, <1>9, <1>10, <1>11

=============================================================================
