-------------------------- MODULE StripeCalcProofs --------------------------
(***************************************************************************)
(* First the erasure code, for any number of data columns and any prime    *)
(* order above it: how P and Q change with one block, that subtracting the *)
(* others from P leaves the one that is missing, and that all columns but  *)
(* any two determine the data. Sums over the columns are a recursion over  *)
(* their subsets; what they need is proved by induction over finite sets.  *)
(*                                                                         *)
(* Then what handle_stripe() calculates: each calculation fills the        *)
(* buffers it is for with the blocks of their columns, provided its source *)
(* buffers have theirs; so does each branch that reads, writes, rebuilds   *)
(* or checks. Resting is what the branches may rely on, ColsGood what they *)
(* have to leave.                                                          *)
(***************************************************************************)
EXTENDS Stripe, FiniteSetTheorems, TLAPS

(* Induction over the subsets of a finite set, the property given as the    *)
(* set of those that have it.                                               *)
LEMMA SubsetInduction ==
  ASSUME NEW S, IsFiniteSet(S), NEW Good \in SUBSET SUBSET S,
         \A T \in SUBSET S : (\A U \in SUBSET T : U # T => U \in Good) => T \in Good
  PROVE  Good = SUBSET S
<1> SUFFICES ASSUME Good # SUBSET S PROVE FALSE
  OBVIOUS
<1> DEFINE Rest == (SUBSET S) \ Good
<1>1. Rest # {} /\ Rest \subseteq FiniteSubsetsOf(S)
  <2>1. \A T \in SUBSET S : IsFiniteSet(T)
    BY FS_Subset
  <2> QED
    BY <2>1 DEF FiniteSubsetsOf
<1>2. IsWellFoundedOn(StrictSubsetOrdering(S), FiniteSubsetsOf(S))
  BY FS_StrictSubsetOrderingWellFounded
<1>3. PICK T \in Rest : \A U \in Rest : ~ (<<U, T>> \in StrictSubsetOrdering(S))
  <2> HIDE DEF Rest
  <2> QED
    BY <1>1, <1>2, WFMin
<1>4. \A U \in SUBSET T : U # T => U \in Good
  BY <1>3 DEF StrictSubsetOrdering
<1> QED
  BY <1>3, <1>4

(* The columns are finite in number.                                        *)
LEMMA FiniteData == IsFiniteSet(Data) /\ IsFiniteSet(Cols)
  BY FS_Interval, CodeAssumption DEF Data, Cols, QD

-----------------------------------------------------------------------------
(* MapThenSumSet takes the elements in an order chosen; what it computes    *)
(* on the way is the function g below, one value for each set of columns    *)
(* left.                                                                    *)
First(s) == CHOOSE x \in s : TRUE

Summing(g, w, T) ==
  g = [s \in SUBSET T |-> IF s = {} THEN 0 ELSE w[First(s)] + g[s \ {First(s)}]]

(* The element chosen is one of the set.                                    *)
LEMMA FirstIn == ASSUME NEW s, s # {} PROVE First(s) \in s
  BY DEF First

(* There is one such function.                                              *)
LEMMA SummingUnique ==
  ASSUME NEW w, NEW T \in SUBSET Data, NEW g, Summing(g, w, T), NEW h, Summing(h, w, T)
  PROVE  g = h
<1> DEFINE Good == {s \in SUBSET T : g[s] = h[s]}
<1>1. IsFiniteSet(T)
  BY FiniteData, FS_Subset
<1>2. ASSUME NEW s \in SUBSET T, \A u \in SUBSET s : u # s => u \in Good PROVE s \in Good
  <2>1. CASE s = {}
    BY <2>1 DEF Summing
  <2>2. CASE s # {}
    <3>1. g[s] = w[First(s)] + g[s \ {First(s)}] /\ h[s] = w[First(s)] + h[s \ {First(s)}]
      BY <2>2 DEF Summing
    <3>2. s \ {First(s)} \in Good
      BY <1>2, <2>2, FirstIn
    <3> QED
      BY <3>1, <3>2
  <2> QED
    BY <2>1, <2>2
<1>3. Good = SUBSET T
  <2> HIDE DEF Good
  <2>1. Good \in SUBSET SUBSET T
    BY DEF Good
  <2> QED
    BY <1>1, <1>2, <2>1, SubsetInduction
<1> QED
  BY <1>3 DEF Summing

(* And there is one for every set of columns.                               *)
LEMMA SummingExists ==
  ASSUME NEW w
  PROVE  \E g : Summing(g, w, Data)
<1> DEFINE Good == {T \in SUBSET Data : \E g : Summing(g, w, T)}
           G(T) == CHOOSE g : Summing(g, w, T)
<1>1. ASSUME NEW T \in SUBSET Data, \A U \in SUBSET T : U # T => U \in Good PROVE T \in Good
  <2>1. \A U \in SUBSET T : U # T => Summing(G(U), w, U)
    BY <1>1
  <2> DEFINE g == [s \in SUBSET T |->
                     IF s = {} THEN 0
                     ELSE w[First(s)] + G(s \ {First(s)})[s \ {First(s)}]]
  <2>2. ASSUME NEW s \in SUBSET T, s # T PROVE g[s] = G(s)[s]
    <3>1. CASE s = {}
      <4>1. Summing(G(s), w, s)
        BY <2>1, <2>2
      <4>2. G(s)[s] = 0
        <5> HIDE DEF G
        <5> QED
          BY <3>1, <4>1 DEF Summing
      <4> QED
        <5> HIDE DEF G
        <5> QED
          BY <3>1, <4>2
    <3>2. CASE s # {}
      <4> DEFINE r == s \ {First(s)}
      <4>1. r \in SUBSET T /\ r # T /\ r \in SUBSET s
        BY <2>2, <3>2, FirstIn
      <4>2. Summing(G(s), w, s) /\ Summing(G(r), w, r)
        BY <2>1, <2>2, <4>1
      <4>3. Summing([u \in SUBSET r |-> G(s)[u]], w, r)
        <5>1. ASSUME NEW u \in SUBSET r, u # {} PROVE u \ {First(u)} \in SUBSET r
          OBVIOUS
        <5> HIDE DEF G, r
        <5> QED
          BY <4>1, <4>2, <5>1 DEF Summing
      <4>4. [u \in SUBSET r |-> G(s)[u]] = G(r)
        <5> HIDE DEF G, r
        <5> QED
          BY <4>1, <4>2, <4>3, SummingUnique
      <4>5. G(s)[s] = w[First(s)] + G(s)[r]
        <5> HIDE DEF G
        <5> QED
          BY <3>2, <4>2 DEF Summing
      <4>6. G(s)[r] = G(r)[r]
        <5> HIDE DEF G
        <5> QED
          BY <4>4
      <4> QED
        <5> HIDE DEF G
        <5> QED
          BY <3>2, <4>5, <4>6
    <3> QED
      BY <3>1, <3>2
  <2>3. \A s \in SUBSET T : s # {} => s \ {First(s)} \in SUBSET T /\ s \ {First(s)} # T
    BY FirstIn
  <2>4. Summing(g, w, T)
    <3>1. ASSUME NEW s \in SUBSET T, s # {}
          PROVE  g[s] = w[First(s)] + g[s \ {First(s)}]
      <4>1. g[s \ {First(s)}] = G(s \ {First(s)})[s \ {First(s)}]
        <5> HIDE DEF G, g
        <5> QED
          BY <2>2, <2>3, <3>1
      <4> QED
        <5> HIDE DEF G
        <5> QED
          BY <3>1, <4>1
    <3>2. g[{}] = 0
      OBVIOUS
    <3>3. g = [s \in SUBSET T |-> g[s]]
      OBVIOUS
    <3> HIDE DEF g
    <3> QED
      BY <3>1, <3>2, <3>3 DEF Summing
  <2> QED
    BY <2>4
<1>2. Good = SUBSET Data
  <2>1. Good \in SUBSET SUBSET Data
    OBVIOUS
  <2> HIDE DEF Good
  <2> QED
    BY <1>1, <2>1, FiniteData, SubsetInduction
<1> QED
  BY <1>2

(* The sum of the elements of T, as Sum() computes it. *)
Part(w) == CHOOSE g : Summing(g, w, Data)

(* Sum is its value for all data columns.                                   *)
LEMMA SumIsPart ==
  ASSUME NEW w
  PROVE  Sum(w) = Part(w)[Data]
  BY DEF Sum, MapThenSumSet, MapThenFoldSet, Part, Summing, First

(* Nothing sums to 0.                                                       *)
LEMMA PartEmpty ==
  ASSUME NEW w
  PROVE  Part(w)[{}] = 0
<1>1. Summing(Part(w), w, Data)
  BY SummingExists DEF Part
<1> HIDE DEF Part
<1> QED
  BY <1>1 DEF Summing

(* One column is added to the sum of the others.                            *)
LEMMA PartStep ==
  ASSUME NEW w, NEW T \in SUBSET Data, T # {}
  PROVE  Part(w)[T] = w[First(T)] + Part(w)[T \ {First(T)}]
<1>1. Summing(Part(w), w, Data)
  BY SummingExists DEF Part
<1> HIDE DEF Part
<1> QED
  BY <1>1 DEF Summing

(* Sums of integers are integers.                                           *)
LEMMA PartType ==
  ASSUME NEW w \in [Data -> Int]
  PROVE  \A T \in SUBSET Data : Part(w)[T] \in Int
<1> DEFINE Good == {T \in SUBSET Data : Part(w)[T] \in Int}
<1>1. ASSUME NEW T \in SUBSET Data, \A U \in SUBSET T : U # T => U \in Good PROVE T \in Good
  <2>1. CASE T = {}
    BY <2>1, PartEmpty
  <2>2. CASE T # {}
    <3>1. First(T) \in T
      BY <2>2, FirstIn
    <3>2. w[First(T)] \in Int /\ T \ {First(T)} \in Good
      BY <1>1, <3>1
    <3>3. Part(w)[T] = w[First(T)] + Part(w)[T \ {First(T)}]
      BY <2>2, PartStep
    <3> QED
      BY <3>2, <3>3
  <2> QED
    BY <2>1, <2>2
<1>2. Good = SUBSET Data
  <2>1. Good \in SUBSET SUBSET Data
    OBVIOUS
  <2> HIDE DEF Good
  <2> QED
    BY <1>1, <2>1, FiniteData, SubsetInduction
<1> QED
  BY <1>2

(* Changing one element changes the sum by the difference.                  *)
LEMMA PartExcept ==
  ASSUME NEW w \in [Data -> Int], NEW i \in Data, NEW v \in Int
  PROVE  \A T \in SUBSET Data :
           Part([w EXCEPT ![i] = v])[T] = Part(w)[T] + IF i \in T THEN v - w[i] ELSE 0
<1> DEFINE n == [w EXCEPT ![i] = v]
           Good == {T \in SUBSET Data : Part(n)[T] = Part(w)[T] + IF i \in T THEN v - w[i] ELSE 0}
<1>0. n \in [Data -> Int] /\ \A j \in Data : n[j] = IF j = i THEN v ELSE w[j]
  OBVIOUS
<1>1. ASSUME NEW T \in SUBSET Data, \A U \in SUBSET T : U # T => U \in Good PROVE T \in Good
  <2>1. CASE T = {}
    <3>1. Part(n)[T] = 0 /\ Part(w)[T] = 0
      BY <2>1, PartEmpty
    <3> HIDE DEF n
    <3> QED
      BY <2>1, <3>1
  <2>2. CASE T # {}
    <3> DEFINE f == First(T)
               R == T \ {f}
    <3>1. f \in T /\ R \in SUBSET T /\ R # T
      BY <2>2, FirstIn
    <3>2. Part(n)[R] = Part(w)[R] + IF i \in R THEN v - w[i] ELSE 0
      BY <1>1, <3>1
    <3>3. Part(n)[T] = n[f] + Part(n)[R] /\ Part(w)[T] = w[f] + Part(w)[R]
      BY <2>2, PartStep
    <3>4. {n[f], w[f], w[i], Part(n)[R], Part(w)[R]} \subseteq Int
      <4>1. {n[f], w[f], w[i]} \subseteq Int
        BY <1>0, <3>1
      <4>2. R \in SUBSET Data
        OBVIOUS
      <4>3. Part(w)[R] \in Int
        BY <4>2, PartType
      <4>4. Part(n)[R] \in Int
        <5> HIDE DEF n, R
        <5> QED
          BY <1>0, <4>2, PartType
      <4> QED
        BY <4>1, <4>3, <4>4
    <3>5. n[f] = IF f = i THEN v ELSE w[f]
      BY <1>0, <3>1
    <3>6. i \in T <=> i = f \/ i \in R
      BY <3>1
    <3>7. ~ (i = f /\ i \in R)
      OBVIOUS
    <3> HIDE DEF n, f, R
    <3> QED
      BY <3>2, <3>3, <3>4, <3>5, <3>6, <3>7
  <2> QED
    BY <2>1, <2>2
<1>2. Good = SUBSET Data
  <2>1. Good \in SUBSET SUBSET Data
    OBVIOUS
  <2> HIDE DEF Good
  <2> QED
    BY <1>1, <2>1, FiniteData, SubsetInduction
<1> QED
  BY <1>2

(* Zeros sum to 0.                                                          *)
LEMMA PartZero == \A T \in SUBSET Data : Part([i \in Data |-> 0])[T] = 0
<1> DEFINE w == [i \in Data |-> 0]
           Good == {T \in SUBSET Data : Part(w)[T] = 0}
<1>1. ASSUME NEW T \in SUBSET Data, \A U \in SUBSET T : U # T => U \in Good PROVE T \in Good
  <2>1. CASE T = {}
    <3> HIDE DEF w
    <3> QED
      BY <2>1, PartEmpty
  <2>2. CASE T # {}
    <3>1. First(T) \in T
      BY <2>2, FirstIn
    <3>2. w[First(T)] = 0 /\ Part(w)[T \ {First(T)}] = 0
      BY <1>1, <3>1
    <3> HIDE DEF w
    <3>3. Part(w)[T] = w[First(T)] + Part(w)[T \ {First(T)}]
      BY <2>2, PartStep
    <3> QED
      BY <3>2, <3>3
  <2> QED
    BY <2>1, <2>2
<1>2. Good = SUBSET Data
  <2>1. Good \in SUBSET SUBSET Data
    OBVIOUS
  <2> HIDE DEF Good
  <2> QED
    BY <1>1, <2>1, FiniteData, SubsetInduction
<1> QED
  BY <1>2

(* Sum of integers is an integer.                                           *)
LEMMA SumFacts ==
  ASSUME NEW w \in [Data -> Int]
  PROVE  /\ Sum(w) \in Int
         /\ \A i \in Data, v \in Int : Sum([w EXCEPT ![i] = v]) = Sum(w) - w[i] + v
<1>1. Sum(w) \in Int
  BY PartType, SumIsPart
<1>2. ASSUME NEW i \in Data, NEW v \in Int PROVE Sum([w EXCEPT ![i] = v]) = Sum(w) - w[i] + v
  <2>1. Part([w EXCEPT ![i] = v])[Data] = Part(w)[Data] + (v - w[i])
    BY PartExcept
  <2>2. w[i] \in Int
    OBVIOUS
  <2> QED
    BY <1>1, <2>1, <2>2, SumIsPart
<1> QED
  BY <1>1, <1>2

(* Changing one summand changes the sum by as much.                         *)
LEMMA SumExcept ==
  ASSUME NEW w \in [Data -> Int], NEW i \in Data, NEW v \in Int
  PROVE  Sum([w EXCEPT ![i] = v]) = Sum(w) - w[i] + v
BY SumFacts

(* The sum of zeros.                                                        *)
LEMMA SumZero == Sum([i \in Data |-> 0]) = 0
  BY PartZero, SumIsPart

-----------------------------------------------------------------------------
(* Remainders. *)

(* Remainders are block values.                                             *)
LEMMA ModRange == ASSUME NEW a \in Int PROVE a % Order \in Elem
  BY CodeAssumption DEF Elem

(* Quotient and remainder.                                                  *)
LEMMA DivMod == ASSUME NEW a \in Int PROVE \E q \in Int : a = Order * q + (a % Order)
<1>1. a = Order * (a \div Order) + (a % Order)
  BY CodeAssumption
<1>2. a \div Order \in Int
  BY CodeAssumption
<1> QED BY <1>1, <1>2

(* The remainder is the only one.                                           *)
LEMMA ModUnique == ASSUME NEW q \in Int, NEW r \in Elem PROVE (Order * q + r) % Order = r
<1>1. Order \in Nat \ {0} /\ r \in 0 .. Order - 1
  BY CodeAssumption DEF Elem
<1>2. \A p \in Nat \ {0}, k \in Int : \A s \in 0 .. p - 1 : (p * k + s) % p = s
  OBVIOUS
<1> QED BY <1>1, <1>2

(* Distributivity, which the solver is slow to use.                         *)
LEMMA Distributes ==
  /\ \A x, y, z \in Int : x * (y + z) = x * y + x * z
  /\ \A x, y, z \in Int : x * (y - z) = x * y - x * z
  /\ \A x, y \in Int : x * (0 - y) = 0 - x * y
  /\ \A x, y, z \in Int : x * (y * z) = y * (x * z)
  OBVIOUS

(* Adding a multiple changes no remainder.                                  *)
LEMMA ModMultiple ==
  ASSUME NEW a \in Int, NEW k \in Int
  PROVE  /\ (a + Order * k) % Order = a % Order
         /\ (a - Order * k) % Order = a % Order
<1>1. PICK q \in Int : a = Order * q + (a % Order)
  BY DivMod
<1>2. PICK r \in Elem : r = a % Order
  BY ModRange
<1>3. Order \in Int /\ r \in Int
  BY CodeAssumption DEF Elem
<1>4. Order * (q + k) = Order * q + Order * k /\ Order * (q - k) = Order * q - Order * k
  BY <1>3, Distributes
<1>5. a + Order * k = Order * (q + k) + r /\ a - Order * k = Order * (q - k) + r
  <2> DEFINE x == Order * q
             y == Order * k
  <2>1. x \in Int /\ y \in Int /\ a = x + r
    BY <1>1, <1>2, <1>3
  <2>2. Order * (q + k) = x + y /\ Order * (q - k) = x - y
    BY <1>4
  <2>3. a + y = (x + y) + r /\ a - y = (x - y) + r
    <3> HIDE DEF x, y
    <3> QED
      BY <1>3, <2>1
  <2> QED
    BY <2>2, <2>3
<1> QED
  BY <1>2, <1>5, ModUnique

(* A block value is its own remainder.                                      *)
LEMMA ModSmall == ASSUME NEW r \in Elem PROVE r % Order = r
<1>1. Order * 0 + r = r
  BY CodeAssumption DEF Elem
<1> QED
  BY <1>1, ModUnique

(* The remainder of a sum or difference is that of the remainders.          *)
LEMMA ModSum ==
  ASSUME NEW a \in Int, NEW b \in Int
  PROVE  /\ ((a % Order) + b) % Order = (a + b) % Order
         /\ (b - (a % Order)) % Order = (b - a) % Order
<1>1. PICK q \in Int : a = Order * q + (a % Order)
  BY DivMod
<1>2. PICK r \in Elem : r = a % Order
  BY ModRange
<1>3. r \in Int /\ Order * q \in Int
  BY CodeAssumption DEF Elem
<1>4. r + b = (a + b) - Order * q /\ b - r = (b - a) + Order * q
  BY <1>1, <1>2, <1>3
<1> QED
  BY <1>2, <1>4, ModMultiple

(* Equal remainders differ by a multiple of Order.                          *)
LEMMA ModEqual ==
  ASSUME NEW a \in Int, NEW b \in Int, a % Order = b % Order
  PROVE  (a - b) % Order = 0
<1>1. ((a % Order) + (0 - b)) % Order = (a + (0 - b)) % Order
  BY ModSum
<1>2. ((b % Order) + (0 - b)) % Order = (b + (0 - b)) % Order
  BY ModSum
<1>3. 0 \in Elem /\ b + (0 - b) = 0 /\ a + (0 - b) = a - b
  BY CodeAssumption DEF Elem
<1> QED
  BY <1>1, <1>2, <1>3, ModSmall

(* A multiple of a multiple.                                                *)
LEMMA ModTimes ==
  ASSUME NEW a \in Int, NEW k \in Int, a % Order = 0
  PROVE  (k * a) % Order = 0
<1>1. PICK q \in Int : a = Order * q + 0
  BY DivMod
<1>2. k * a = 0 + Order * (k * q)
  BY <1>1, Distributes, CodeAssumption
<1>3. 0 \in Elem
  BY CodeAssumption DEF Elem
<1> QED
  BY <1>2, <1>3, ModMultiple, ModSmall

(* A set of numbers that is not empty has a least element.                  *)
LEMMA LeastNat ==
  ASSUME NEW M \in SUBSET Nat, M # {}
  PROVE  \E m \in M : \A n \in M : m <= n
<1>1. PICK m \in M : \A n \in M : ~ (<<n, m>> \in OpToRel(<, Nat))
  BY NatLessThanWellFounded, WFMin
<1>2. \A n \in M : ~ (n < m)
  BY <1>1 DEF OpToRel
<1> QED
  BY <1>2

(* Order is prime: no product of two that are not multiples of it is one.   *)
LEMMA NoZeroDivisors ==
  ASSUME NEW a \in 1 .. Order - 1, NEW b \in Int, (a * b) % Order = 0
  PROVE  b % Order = 0
<1> DEFINE M == {m \in Nat \ {0} : (m * b) % Order = 0}
<1>0. Order \in Nat \ {0} /\ a \in Nat \ {0} /\ a < Order
  BY CodeAssumption
<1>1. PICK m \in M : \A n \in M : m <= n
  <2>1. a \in M
    BY <1>0
  <2>2. M \in SUBSET Nat
    OBVIOUS
  <2> HIDE DEF M
  <2> QED
    BY <2>1, <2>2, LeastNat
<1>2. m \in Nat \ {0} /\ (m * b) % Order = 0 /\ m <= a
  BY <1>0, <1>1
<1>3. PICK q \in Int, r \in 0 .. m - 1 : Order = m * q + r /\ r = Order % m
  <2>1. Order = m * (Order \div m) + (Order % m) /\ Order \div m \in Int /\ Order % m \in 0 .. m - 1
    BY <1>0, <1>2
  <2> QED
    BY <2>1
<1>4. (r * b) % Order = 0
  <2>1. r * b = (0 - q * (m * b)) + Order * b
    <3>1. r = Order - m * q
      BY <1>0, <1>2, <1>3
    <3>2. (Order - m * q) * b = Order * b - (m * q) * b
      BY <1>0, <1>2
    <3>3. (m * q) * b = q * (m * b)
      BY <1>2
    <3> QED
      BY <1>0, <1>2, <3>1, <3>2, <3>3
  <2>2. (0 - q * (m * b)) % Order = 0
    <3>1. 0 - q * (m * b) = (0 - q) * (m * b)
      BY <1>2
    <3>2. ((0 - q) * (m * b)) % Order = 0
      <4>1. m * b \in Int /\ 0 - q \in Int
        BY <1>2
      <4> QED
        BY <1>2, <4>1, ModTimes
    <3> QED
      BY <3>1, <3>2
  <2>3. 0 - q * (m * b) \in Int
    BY <1>2
  <2> QED
    BY <2>1, <2>2, <2>3, ModMultiple
<1>5. r = 0
  <2>1. r \notin M
    <3> HIDE DEF M
    <3> QED
      BY <1>1, <1>2
  <2> QED
    BY <1>2, <1>4, <2>1
<1>6. m = 1
  <2> SUFFICES ASSUME m # 1 PROVE FALSE
    OBVIOUS
  <2>1. m \in 2 .. Order - 1
    BY <1>0, <1>2
  <2> QED
    BY <1>3, <1>5, <2>1, CodeAssumption
<1> QED
  BY <1>2, <1>6

(* The only multiple of Order among the differences of block values is 0.   *)
LEMMA SmallMultiple ==
  ASSUME NEW d \in Elem, NEW e \in Elem, (e - d) % Order = 0
  PROVE  d = e
<1>1. PICK q \in Int : e - d = Order * q + 0
  BY DivMod DEF Elem
<1>2. d \in Int /\ e \in Int /\ 0 <= d /\ d < Order /\ 0 <= e /\ e < Order /\ Order \in Nat
  BY CodeAssumption DEF Elem
<1>3. CASE q >= 1
  <2>1. Order * q >= Order
    BY <1>2, <1>3
  <2> QED
    BY <1>1, <1>2, <2>1
<1>4. CASE q <= -1
  <2>1. Order * q <= 0 - Order
    BY <1>2, <1>4
  <2> QED
    BY <1>1, <1>2, <2>1
<1>5. CASE q = 0
  BY <1>1, <1>2, <1>5
<1> QED
  BY <1>3, <1>4, <1>5

-----------------------------------------------------------------------------
(* P and Q. *)

(* The summands of Q.                                                       *)
Weighted(d) == [i \in Data |-> (i + 1) * d[i]]

(* They are integers, and change with the block.                            *)
LEMMA WeightedFacts ==
  ASSUME NEW d \in [Data -> Elem]
  PROVE  /\ d \in [Data -> Int] /\ Weighted(d) \in [Data -> Int]
         /\ \A i \in Data, v \in Elem : [d EXCEPT ![i] = v] \in [Data -> Elem]
         /\ \A i \in Data, v \in Elem :
              Weighted([d EXCEPT ![i] = v]) = [Weighted(d) EXCEPT ![i] = (i + 1) * v]
<1>1. \A i \in Data : d[i] \in Elem /\ d[i] \in Int /\ i \in Int /\ (i + 1) * d[i] \in Int
  BY CodeAssumption DEF Elem, Data
<1>2. d \in [Data -> Int] /\ Weighted(d) \in [Data -> Int]
  BY <1>1 DEF Weighted
<1>3. ASSUME NEW i \in Data, NEW v \in Elem
      PROVE  /\ [d EXCEPT ![i] = v] \in [Data -> Elem]
             /\ Weighted([d EXCEPT ![i] = v]) = [Weighted(d) EXCEPT ![i] = (i + 1) * v]
  BY <1>1 DEF Weighted
<1> QED
  BY <1>2, <1>3

(* P and Q are block values.                                                *)
LEMMA ParityType ==
  ASSUME NEW d \in [Data -> Elem]
  PROVE  PValue(d) \in Elem /\ QValue(d) \in Elem
<1>1. Sum(d) \in Int /\ Sum(Weighted(d)) \in Int
  BY WeightedFacts, SumFacts
<1> QED
  BY <1>1, ModRange DEF PValue, QValue, Weighted

(* A stripe of zeros has parity 0.                                          *)
LEMMA ParityZero == PValue([i \in Data |-> 0]) = 0 /\ QValue([i \in Data |-> 0]) = 0
<1>1. 0 \in Elem
  BY CodeAssumption DEF Elem
<1>2. [i \in Data |-> (i + 1) * [j \in Data |-> 0][i]] = [i \in Data |-> 0]
  BY DEF Data
<1> QED
  BY <1>1, <1>2, SumZero, ModSmall DEF PValue, QValue

(* What a read-modify-write does to P and Q (rmw5, rmw6).                   *)
LEMMA ParityExcept ==
  ASSUME NEW d \in [Data -> Elem], NEW i \in Data, NEW v \in Elem
  PROVE  /\ PValue([d EXCEPT ![i] = v]) = (PValue(d) - d[i] + v) % Order
         /\ PValue([d EXCEPT ![i] = v]) = (PValue(d) + (v - d[i])) % Order
         /\ QValue([d EXCEPT ![i] = v]) = (QValue(d) + (i + 1) * (v - d[i])) % Order
<1>1. d[i] \in Int /\ v \in Int /\ i \in Int /\ Sum(d) \in Int /\ Sum(Weighted(d)) \in Int
  BY WeightedFacts, SumFacts DEF Elem, Data
<1>2. Sum([d EXCEPT ![i] = v]) = Sum(d) + (v - d[i])
  <2>1. d \in [Data -> Int]
    BY WeightedFacts
  <2>2. Sum([d EXCEPT ![i] = v]) = Sum(d) - d[i] + v
    BY <1>1, <2>1, SumExcept
  <2> QED
    BY <1>1, <2>2
<1>3. Sum(Weighted([d EXCEPT ![i] = v])) = Sum(Weighted(d)) + (i + 1) * (v - d[i])
  <2>1. (i + 1) * v \in Int /\ Weighted(d)[i] = (i + 1) * d[i]
    BY <1>1 DEF Weighted
  <2>2. Sum(Weighted([d EXCEPT ![i] = v])) = Sum(Weighted(d)) - (i + 1) * d[i] + (i + 1) * v
    <3>1. Weighted(d) \in [Data -> Int] /\ Weighted([d EXCEPT ![i] = v]) = [Weighted(d) EXCEPT ![i] = (i + 1) * v]
      BY WeightedFacts
    <3>2. Sum([Weighted(d) EXCEPT ![i] = (i + 1) * v]) = Sum(Weighted(d)) - Weighted(d)[i] + (i + 1) * v
      BY <2>1, <3>1, SumExcept
    <3> QED
      BY <2>1, <3>1, <3>2
  <2>3. (i + 1) * (v - d[i]) = (i + 1) * v - (i + 1) * d[i]
    BY <1>1, Distributes
  <2>4. (i + 1) * d[i] \in Int
    BY <1>1
  <2> DEFINE x == (i + 1) * v
             y == (i + 1) * d[i]
  <2>5. Sum(Weighted(d)) - y + x = Sum(Weighted(d)) + (x - y)
    <3> HIDE DEF x, y
    <3> QED
      BY <1>1, <2>1, <2>4 DEF x, y
  <2> QED
    BY <2>2, <2>3, <2>5
<1>4. PValue(d) \in Int /\ PValue(d) - d[i] + v = PValue(d) + (v - d[i])
  BY <1>1, ParityType DEF Elem
<1>5. v - d[i] \in Int /\ (i + 1) * (v - d[i]) \in Int
  BY <1>1
<1>6. PValue([d EXCEPT ![i] = v]) = (PValue(d) + (v - d[i])) % Order
  BY <1>1, <1>2, <1>5, ModSum DEF PValue
<1>7. QValue([d EXCEPT ![i] = v]) = (QValue(d) + (i + 1) * (v - d[i])) % Order
  BY <1>1, <1>3, <1>5, ModSum DEF QValue, Weighted
<1> QED
  BY <1>4, <1>6, <1>7

(* A block is P less the other blocks (raid5_generate_d).                   *)
LEMMA ParityRestores ==
  ASSUME NEW d \in [Data -> Elem], NEW i \in Data
  PROVE  (PValue(d) - PValue([d EXCEPT ![i] = 0])) % Order = d[i]
<1>1. d[i] \in Elem /\ d[i] \in Int /\ 0 \in Elem /\ Sum(d) \in Int /\ Sum(d) - d[i] + 0 \in Int
  BY WeightedFacts, SumFacts, CodeAssumption DEF Elem
<1>2. Sum([d EXCEPT ![i] = 0]) = Sum(d) - d[i] + 0
  <2>1. d \in [Data -> Int]
    BY WeightedFacts
  <2>2. \A v \in Int : Sum([d EXCEPT ![i] = v]) = Sum(d) - d[i] + v
    BY <2>1, SumExcept
  <2>3. ASSUME NEW z \in Int, z = 0 PROVE Sum([d EXCEPT ![i] = z]) = Sum(d) - d[i] + 0
    <3>1. Sum([d EXCEPT ![i] = z]) = Sum(d) - d[i] + z
      BY <2>2
    <3> QED
      BY <1>1, <2>3, <3>1
  <2>4. 0 \in Int
    OBVIOUS
  <2> QED
    BY <2>3, <2>4, Zenon
<1>3. PValue(d) \in Int
  BY ParityType DEF Elem
<1>4. (PValue(d) - PValue([d EXCEPT ![i] = 0])) % Order = (PValue(d) - (Sum(d) - d[i] + 0)) % Order
  BY <1>1, <1>2, <1>3, ModSum DEF PValue
<1>5. PValue(d) - (Sum(d) - d[i] + 0) = PValue(d) + (d[i] - Sum(d))
  BY <1>1, <1>3
<1>6. (PValue(d) + (d[i] - Sum(d))) % Order = (Sum(d) + (d[i] - Sum(d))) % Order
  BY <1>1, ModSum DEF PValue
<1>7. Sum(d) + (d[i] - Sum(d)) = d[i]
  BY <1>1
<1> QED
  BY <1>1, <1>4, <1>5, <1>6, <1>7, ModSmall

(* Blocks that differ in one data column differ in P and in Q.              *)
LEMMA OneDiffers ==
  ASSUME NEW d \in [Data -> Elem], NEW e \in [Data -> Elem], NEW x \in Data,
         \A i \in Data \ {x} : d[i] = e[i],
         PValue(d) = PValue(e) \/ QValue(d) = QValue(e)
  PROVE  d = e
<1>1. e = [d EXCEPT ![x] = e[x]]
  OBVIOUS
<1>2. d[x] \in Elem /\ e[x] \in Elem /\ d[x] \in Int /\ e[x] \in Int /\ x + 1 \in 1 .. Order - 1
  BY CodeAssumption DEF Elem, Data
<1>3. PValue(d) \in Elem /\ QValue(d) \in Elem /\ PValue(d) \in Int /\ QValue(d) \in Int
  BY ParityType DEF Elem
<1>4. d[x] = e[x]
  <2>1. CASE PValue(d) = PValue(e)
    <3>1. (PValue(d) + (e[x] - d[x])) % Order = PValue(d)
      BY <1>1, <1>2, <2>1, ParityExcept
    <3>2. PValue(d) = PValue(d) % Order
      BY <1>3, ModSmall
    <3>3. (PValue(d) + (e[x] - d[x]) - PValue(d)) % Order = 0
      BY <1>2, <1>3, <3>1, <3>2, ModEqual
    <3>4. PValue(d) + (e[x] - d[x]) - PValue(d) = e[x] - d[x]
      BY <1>2, <1>3
    <3> QED
      BY <1>2, <3>3, <3>4, SmallMultiple
  <2>2. CASE QValue(d) = QValue(e)
    <3> DEFINE t == (x + 1) * (e[x] - d[x])
    <3>1. (QValue(d) + t) % Order = QValue(d)
      BY <1>1, <1>2, <2>2, ParityExcept
    <3>2. QValue(d) = QValue(d) % Order
      BY <1>3, ModSmall
    <3>3. t \in Int
      BY <1>2
    <3>4. t % Order = 0
      <4> HIDE DEF t
      <4>1. (QValue(d) + t - QValue(d)) % Order = 0
        BY <1>3, <3>1, <3>2, <3>3, ModEqual
      <4>2. QValue(d) + t - QValue(d) = t
        BY <1>3, <3>3
      <4> QED
        BY <4>1, <4>2
    <3>5. (e[x] - d[x]) % Order = 0
      <4>1. e[x] - d[x] \in Int
        BY <1>2
      <4> QED
        BY <1>2, <3>4, <4>1, NoZeroDivisors
    <3> QED
      BY <1>2, <3>5, SmallMultiple
  <2> QED
    BY <2>1, <2>2
<1> QED
  BY <1>1, <1>4

(* Blocks that differ in two data columns differ in P or Q.                 *)
LEMMA TwoDiffer ==
  ASSUME NEW d \in [Data -> Elem], NEW e \in [Data -> Elem], NEW x \in Data, NEW y \in Data,
         x < y, \A i \in Data \ {x, y} : d[i] = e[i],
         PValue(d) = PValue(e), QValue(d) = QValue(e)
  PROVE  d = e
<1> DEFINE c == [d EXCEPT ![x] = e[x]]
           X == e[x] - d[x]
           Y == e[y] - d[y]
<1>1. c \in [Data -> Elem] /\ e = [c EXCEPT ![y] = e[y]] /\ c[y] = d[y] /\ x # y
  BY DEF Data
<1>2. /\ {d[x], e[x], d[y], e[y]} \subseteq Elem /\ {d[x], e[x], d[y], e[y]} \subseteq Int
      /\ x \in Int /\ y \in Int /\ X \in Int /\ Y \in Int
      /\ y - x \in 1 .. Order - 1
  BY CodeAssumption DEF Elem, Data
<1>3. /\ {PValue(d), QValue(d), PValue(c), QValue(c)} \subseteq Elem
      /\ {PValue(d), QValue(d), PValue(c), QValue(c)} \subseteq Int
  <2> HIDE DEF c
  <2> QED
    BY <1>1, ParityType DEF Elem
<1>4. (X + Y) % Order = 0
  <2>1. PValue(c) = (PValue(d) + X) % Order
    BY <1>2, ParityExcept
  <2>2. PValue(e) = (PValue(c) + Y) % Order
    <3>1. e[y] \in Elem
      OBVIOUS
    <3> HIDE DEF c
    <3>2. PValue([c EXCEPT ![y] = e[y]]) = (PValue(c) + (e[y] - c[y])) % Order
      BY <1>1, <3>1, ParityExcept
    <3> QED
      BY <1>1, <3>2
  <2>3. PValue(e) = (PValue(d) + X + Y) % Order
    <3>1. PValue(d) + X \in Int
      BY <1>2, <1>3
    <3> HIDE DEF X, Y
    <3> QED
      BY <1>2, <2>1, <2>2, <3>1, ModSum
  <2>4. (PValue(d) + X + Y) % Order = PValue(d) % Order
    BY <1>3, <2>3, ModSmall
  <2> HIDE DEF X, Y
  <2>5. (PValue(d) + X + Y - PValue(d)) % Order = 0
    <3>1. PValue(d) + X + Y \in Int /\ PValue(d) \in Int
      BY <1>2, <1>3
    <3> DEFINE a == PValue(d) + X + Y
    <3>2. a \in Int /\ a % Order = PValue(d) % Order
      BY <2>4, <3>1
    <3> HIDE DEF a
    <3>3. (a - PValue(d)) % Order = 0
      BY <3>1, <3>2, ModEqual
    <3> QED
      BY <1>2, <3>1, <3>3 DEF a
  <2>6. PValue(d) + X + Y - PValue(d) = X + Y
    BY <1>2, <1>3
  <2> QED
    BY <2>5, <2>6
<1>5. ((x + 1) * X + (y + 1) * Y) % Order = 0
  <2> DEFINE S == (x + 1) * X
             T == (y + 1) * Y
  <2>0. S \in Int /\ T \in Int
    BY <1>2
  <2>1. QValue(c) = (QValue(d) + S) % Order
    BY <1>2, ParityExcept
  <2>2. QValue(e) = (QValue(c) + T) % Order
    <3>1. e[y] \in Elem
      OBVIOUS
    <3> HIDE DEF c
    <3>2. QValue([c EXCEPT ![y] = e[y]]) = (QValue(c) + (y + 1) * (e[y] - c[y])) % Order
      BY <1>1, <3>1, ParityExcept
    <3> QED
      BY <1>1, <3>2
  <2> HIDE DEF S, T
  <2>3. QValue(e) = (QValue(d) + S + T) % Order
    <3>1. QValue(d) + S \in Int
      BY <2>0, <1>3
    <3> QED
      BY <2>0, <2>1, <2>2, <3>1, ModSum
  <2>4. (QValue(d) + S + T) % Order = QValue(d) % Order
    BY <1>3, <2>3, ModSmall
  <2>5. (QValue(d) + S + T - QValue(d)) % Order = 0
    <3>1. QValue(d) + S + T \in Int /\ QValue(d) \in Int
      BY <2>0, <1>3
    <3> DEFINE a == QValue(d) + S + T
    <3>2. a \in Int /\ a % Order = QValue(d) % Order
      BY <2>4, <3>1
    <3> HIDE DEF a
    <3>3. (a - QValue(d)) % Order = 0
      BY <3>1, <3>2, ModEqual
    <3> QED
      BY <2>0, <3>1, <3>3 DEF a
  <2>6. QValue(d) + S + T - QValue(d) = S + T
    BY <2>0, <1>3
  <2> QED
    BY <2>5, <2>6 DEF S, T
<1> HIDE DEF X, Y
<1>6. ((y - x) * Y) % Order = 0
  <2>1. PICK k \in Int : X + Y = Order * k + 0
    BY <1>2, <1>4, DivMod
  <2>2. (x + 1) * X + (y + 1) * Y = (y - x) * Y + (x + 1) * (X + Y)
    BY <1>2
  <2>3. (x + 1) * (X + Y) = Order * ((x + 1) * k)
    <3>1. X + Y = Order * k
      BY <1>2, <2>1, CodeAssumption
    <3> QED
      BY <1>2, <3>1, Distributes, CodeAssumption
  <2>4. (y - x) * Y \in Int /\ (x + 1) * k \in Int
    BY <1>2
  <2> QED
    BY <1>5, <2>2, <2>3, <2>4, ModMultiple
<1>7. Y % Order = 0
  BY <1>2, <1>6, NoZeroDivisors
<1>8. d[y] = e[y]
  BY <1>2, <1>7, SmallMultiple DEF Y
<1>9. d[x] = e[x]
  <2>1. X + Y = X
    BY <1>2, <1>8 DEF X, Y
  <2> QED
    BY <1>2, <1>4, <2>1, SmallMultiple DEF X
<1> QED
  BY <1>8, <1>9

(* Any two blocks can be lost, data, P or Q: the other ones of the stripe   *)
(* determine the data, which is what raid6/ promises handle_stripe().       *)
THEOREM TwoCanBeLost ==
  ASSUME NEW d \in [Data -> Elem], NEW e \in [Data -> Elem], NEW a \in Cols, NEW b \in Cols,
         \A i \in Cols \ {a, b} : Block(d, i) = Block(e, i)
  PROVE  d = e
<1>1. /\ Data \subseteq Cols /\ PD \in Cols \ Data /\ QD \in Cols \ Data /\ PD # QD
      /\ Cols = Data \cup {PD, QD}
  BY CodeAssumption DEF Data, Cols, PD, QD
<1>2. \A i \in Data : Block(d, i) = d[i] /\ Block(e, i) = e[i]
  BY <1>1 DEF Block
<1>3. /\ Block(d, PD) = PValue(d) /\ Block(e, PD) = PValue(e)
      /\ Block(d, QD) = QValue(d) /\ Block(e, QD) = QValue(e)
  BY <1>1 DEF Block
<1>4. CASE a \in Data /\ b \in Data /\ a # b
  <2>1. a < b \/ b < a
    BY <1>4 DEF Data
  <2>2. \A i \in Data \ {a, b} : d[i] = e[i]
    BY <1>1, <1>2
  <2>3. PValue(d) = PValue(e) /\ QValue(d) = QValue(e)
    BY <1>1, <1>3, <1>4
  <2>4. CASE a < b
    BY <1>4, <2>2, <2>3, <2>4, TwoDiffer
  <2>5. CASE b < a
    <3>1. \A i \in Data \ {b, a} : d[i] = e[i]
      BY <2>2
    <3> QED
      BY <1>4, <2>3, <2>5, <3>1, TwoDiffer
  <2> QED
    BY <2>1, <2>4, <2>5
<1>5. ASSUME NEW x \in Data, NEW z, {a, b} = {x, z}, z \notin Data \/ z = x PROVE d = e
  <2>1. \A i \in Data \ {x} : d[i] = e[i]
    BY <1>1, <1>2, <1>5
  <2>2. PValue(d) = PValue(e) \/ QValue(d) = QValue(e)
    BY <1>1, <1>3, <1>5
  <2> QED
    BY <2>1, <2>2, OneDiffers
<1>6. CASE a \notin Data /\ b \notin Data
  BY <1>1, <1>2, <1>6
<1> QED
  BY <1>4, <1>5, <1>6

-----------------------------------------------------------------------------
(* The columns as sets.                                                     *)
LEMMA Columns ==
  /\ Data \subseteq Cols /\ PD \in Cols \ Data /\ QD \in Cols \ Data /\ PD # QD
  /\ Cols = Data \cup {PD, QD} /\ 0 .. PD = Data \cup {PD} /\ Cols \subseteq Int
  /\ \A i \in Data : i < PD /\ 0 <= i /\ PD < QD
  /\ -1 \notin Cols
BY CodeAssumption DEF Data, Cols, PD, QD

(* The columns as numbers.                                                  *)
LEMMA ColumnOrder ==
  /\ PD \in Int /\ QD \in Int /\ PD < QD /\ PD \notin Data /\ QD \notin Data
  /\ \A i \in Cols : /\ i \in Data <=> i < PD
                     /\ i \in Int /\ i <= QD /\ (i > PD => i = QD)
BY CodeAssumption DEF Data, Cols, PD, QD

-----------------------------------------------------------------------------
(* The calculations.  d is the content of the data columns; Block(d, i) is  *)
(* what column i holds then.                                                *)

(* The buffers of S have their blocks.                                      *)
Has(g, d, S) == \A i \in S : g.c[i].uptodate /\ g.c[i].buf = Block(d, i)

(* The buffers of S get their blocks, the columns of L are locked.          *)
Fill(g, d, S, L) ==
  [c    |-> [i \in Cols |-> IF i \in S
                            THEN [g.c[i] EXCEPT !.buf = Block(d, i), !.uptodate = TRUE]
                            ELSE g.c[i]],
   lock |-> g.lock \cup L,
   ok   |-> TRUE]

(* No assertion has failed; the buffers of S are up to date; a function     *)
(* gives the columns of S their blocks.                                     *)
Sound(g) == g.ok = TRUE
Loaded(g, S) == \A i \in S : g.c[i].uptodate
Gives(new, d, S) == DOMAIN new = S /\ \A i \in S : new[i] = Block(d, i)

(* Put with the right values fills the buffers.                             *)
LEMMA PutFills ==
  ASSUME NEW g, NEW d, NEW new, NEW S, NEW L, NEW R, Sound(g), Loaded(g, R), Gives(new, d, S)
  PROVE  Put(g, new, L, R) = Fill(g, d, S, L)
BY DEF Put, Fill, Sound, Loaded, Gives

(* Buffers that have their blocks are up to date.                           *)
LEMMA HasLoaded == ASSUME NEW g, NEW d, NEW S, Has(g, d, S) PROVE Loaded(g, S)
BY DEF Has, Loaded

(* The blocks of the columns.                                               *)
LEMMA BlockOf ==
  ASSUME NEW d \in [Data -> Elem]
  PROVE  /\ Block(d, PD) = PValue(d) /\ Block(d, QD) = QValue(d)
         /\ \A i \in Data : Block(d, i) = d[i]
         /\ \A i \in Cols : Block(d, i) \in Elem
BY Columns, ParityType DEF Block

(* The data a calculation reads off its buffers.                            *)
LEMMA DataRead ==
  ASSUME NEW g, NEW d \in [Data -> Elem], Has(g, d, Data)
  PROVE  DataOf(g) = d
BY BlockOf DEF Has, DataOf

(* raid5_generate_d() restores a data block from P, or generates P.         *)
LEMMA Raid5Fills ==
  ASSUME NEW g, NEW d \in [Data -> Elem], NEW x \in 0 .. PD, Sound(g),
         Has(g, d, (0 .. PD) \ {x})
  PROVE  raid5_generate_d(g, x) = Fill(g, d, {x}, {x})
<1> DEFINE v == IF x = PD THEN PValue(DataOf(g))
                ELSE (g.c[PD].buf - PValue([DataOf(g) EXCEPT ![x] = 0])) % Order
<1>1. v = Block(d, x)
  <2>1. CASE x = PD
    <3>1. DataOf(g) = d
      BY <2>1, Columns, DataRead DEF Has
    <3> QED
      BY <2>1, <3>1, BlockOf
  <2>2. CASE x # PD
    <3>1. x \in Data /\ PD \in (0 .. PD) \ {x}
      BY <2>2, Columns
    <3>2. \A i \in Data \ {x} : g.c[i].buf = d[i]
      BY Columns, BlockOf DEF Has
    <3>3. [DataOf(g) EXCEPT ![x] = 0] = [d EXCEPT ![x] = 0]
      BY <3>1, <3>2 DEF DataOf
    <3>4. g.c[PD].buf = PValue(d)
      BY <3>1, BlockOf DEF Has
    <3>5. (PValue(d) - PValue([d EXCEPT ![x] = 0])) % Order = d[x]
      BY <3>1, ParityRestores
    <3>6. v = (PValue(d) - PValue([d EXCEPT ![x] = 0])) % Order
      BY <2>2, <3>3, <3>4, Zenon
    <3> QED
      BY <3>1, <3>5, <3>6, BlockOf
  <2> QED
    BY <2>1, <2>2
<1> DEFINE new == [i \in {x} |-> v]
<1>2. raid5_generate_d(g, x) = Put(g, new, {x}, (0 .. PD) \ {x})
  BY DEF raid5_generate_d
<1> HIDE DEF v
<1>3. Gives(new, d, {x})
  BY <1>1 DEF Gives
<1> HIDE DEF new
<1> QED
  BY <1>2, <1>3, HasLoaded, PutFills

(* raid6_generate_dd() restores two data blocks.                            *)
LEMMA DDFills ==
  ASSUME NEW g, NEW d \in [Data -> Elem], NEW a \in Data, NEW b \in Data, a # b, Sound(g),
         Has(g, d, Cols \ {a, b})
  PROVE  raid6_generate_dd(g, a, b) = Fill(g, d, {a, b}, {a, b})
<1> DEFINE Fits(e) == Agree(e, g, {a, b}) /\ PValue(e) = g.c[PD].buf /\ QValue(e) = g.c[QD].buf
<1>1. PD \in Cols \ {a, b} /\ QD \in Cols \ {a, b} /\ Data \ {a, b} \subseteq Cols \ {a, b}
  BY Columns
<1>2. Fits(d)
  BY <1>1, BlockOf DEF Has, Agree
<1>3. ASSUME NEW e \in [Data -> Elem], Fits(e) PROVE e = d
  <2>1. \A i \in Cols \ {a, b} : Block(e, i) = Block(d, i)
    BY <1>2, <1>3, Columns, BlockOf DEF Agree
  <2> QED
    BY <2>1, Columns, TwoCanBeLost
<1> DEFINE e == CHOOSE e \in [Data -> Elem] : Fits(e)
           new == [i \in {a, b} |-> e[i]]
<1>4. e = d
  BY <1>2, <1>3
<1>5. raid6_generate_dd(g, a, b) = Put(g, new, {a, b}, Cols \ {a, b})
  BY DEF raid6_generate_dd
<1> HIDE DEF e
<1>6. Gives(new, d, {a, b})
  BY <1>4, BlockOf DEF Gives
<1> HIDE DEF new
<1> QED
  BY <1>5, <1>6, HasLoaded, PutFills

(* raid6_generate_dp() restores a data block from Q, and P.                 *)
LEMMA DPFills ==
  ASSUME NEW g, NEW d \in [Data -> Elem], NEW a \in Data, Sound(g),
         Has(g, d, Cols \ {a, PD})
  PROVE  raid6_generate_dp(g, a) = Fill(g, d, {a, PD}, {a, PD})
<1> DEFINE Fits(e) == Agree(e, g, {a}) /\ QValue(e) = g.c[QD].buf
<1>1. QD \in Cols \ {a, PD} /\ Data \ {a} \subseteq Cols \ {a, PD} /\ a # PD
  BY Columns
<1>2. Fits(d)
  BY <1>1, BlockOf DEF Has, Agree
<1>3. ASSUME NEW e \in [Data -> Elem], Fits(e) PROVE e = d
  BY <1>2, <1>3, OneDiffers DEF Agree
<1> DEFINE e == CHOOSE e \in [Data -> Elem] : Fits(e)
           new == [i \in {a, PD} |-> Block(e, i)]
<1>4. e = d
  BY <1>2, <1>3
<1>5. raid6_generate_dp(g, a) = Put(g, new, {a, PD}, Cols \ {a, PD})
  BY DEF raid6_generate_dp
<1> HIDE DEF e
<1>6. Gives(new, d, {a, PD})
  BY <1>4, BlockOf DEF Gives
<1> HIDE DEF new
<1> QED
  BY <1>5, <1>6, HasLoaded, PutFills

(* raid6_generate_pq() and raid6_generate_q() generate parity.              *)
LEMMA PQFills ==
  ASSUME NEW g, NEW d \in [Data -> Elem], Sound(g), Has(g, d, Data)
  PROVE  /\ raid6_generate_pq(g) = Fill(g, d, {PD, QD}, {PD, QD})
         /\ raid6_generate_q(g) = Fill(g, d, IF NData = 1 THEN {QD} ELSE {PD, QD}, {QD})
<1>1. DataOf(g) = d
  BY DataRead
<1> DEFINE F == IF NData = 1 THEN {QD} ELSE {PD, QD}
           pq == [i \in {PD, QD} |-> Block(d, i)]
           q == [i \in F |-> Block(d, i)]
<1>2. /\ raid6_generate_pq(g) = Put(g, pq, {PD, QD}, Data)
      /\ raid6_generate_q(g) = Put(g, q, {QD}, Data)
  BY <1>1 DEF raid6_generate_pq, raid6_generate_q
<1>3. Gives(pq, d, {PD, QD}) /\ Gives(q, d, F)
  BY DEF Gives
<1> HIDE DEF pq, q, F
<1>4. Put(g, pq, {PD, QD}, Data) = Fill(g, d, {PD, QD}, {PD, QD})
  BY <1>3, HasLoaded, PutFills
<1>5. Put(g, q, {QD}, Data) = Fill(g, d, F, {QD})
  BY <1>3, HasLoaded, PutFills
<1> QED
  BY <1>2, <1>4, <1>5 DEF F

(* The content of the data columns once the pending write has been made.    *)
Written(d) ==
  [d EXCEPT ![bi.col] = IF bi.partial THEN (d[bi.col] + bi.val) % Order ELSE bi.val]

(* The write changes its own column, to a block value.                      *)
LEMMA WrittenData ==
  ASSUME NEW d \in [Data -> Elem], bi.col \in Data, bi.val \in Elem
  PROVE  /\ Written(d) \in [Data -> Elem]
         /\ \A i \in Data \ {bi.col} : Written(d)[i] = d[i]
         /\ Written(d)[bi.col] = IF bi.partial THEN (d[bi.col] + bi.val) % Order ELSE bi.val
         /\ Written(d)[bi.col] \in Elem
<1>1. d[bi.col] + bi.val \in Int
  BY CodeAssumption DEF Elem
<1>2. (d[bi.col] + bi.val) % Order \in Elem
  BY <1>1, ModRange
<1> QED
  BY <1>2 DEF Written

(* The block the code puts together is that of Written.                     *)
LEMMA NewBlockIs ==
  ASSUME NEW d \in [Data -> Elem], NEW g, bi.col \in Data, bi.val \in Elem,
         bi.partial => g.c[bi.col].buf = d[bi.col]
  PROVE  NewBlock(g) = Written(d)[bi.col]
<1>1. Written(d)[bi.col] = IF bi.partial THEN (d[bi.col] + bi.val) % Order ELSE bi.val
  BY WrittenData
<1>2. NewBlock(g) = IF bi.partial THEN (g.c[bi.col].buf + bi.val) % Order ELSE bi.val
  BY DEF NewBlock
<1>3. CASE bi.partial
  BY <1>1, <1>2, <1>3, Zenon
<1>4. CASE ~ bi.partial
  BY <1>1, <1>2, <1>4, Zenon
<1> QED
  BY <1>3, <1>4

(* copy_write_data() puts the new block in place.                           *)
LEMMA CopyFills ==
  ASSUME NEW d \in [Data -> Elem], NEW g, bi.col \in Data, bi.val \in Elem, Sound(g),
         bi.partial => g.c[bi.col].buf = d[bi.col]
  PROVE  copy_write_data(g) = Fill(g, Written(d), {bi.col}, {bi.col})
<1> DEFINE v == NewBlock(g)
           new == [i \in {bi.col} |-> v]
<1>1. copy_write_data(g) = Put(g, new, {bi.col}, {})
  BY DEF copy_write_data
<1>2. v = Block(Written(d), bi.col)
  BY NewBlockIs, WrittenData, BlockOf
<1> HIDE DEF v
<1>3. Gives(new, Written(d), {bi.col})
  BY <1>2 DEF Gives
<1>4. Loaded(g, {})
  BY DEF Loaded
<1> HIDE DEF new
<1> QED
  BY <1>1, <1>3, <1>4, PutFills

(* P and Q change by as much as the data, times the coefficient.            *)
LEMMA ParityWritten ==
  ASSUME NEW d \in [Data -> Elem], bi.col \in Data, bi.val \in Elem
  PROVE  /\ PValue(Written(d)) = (PValue(d) - d[bi.col] + Written(d)[bi.col]) % Order
         /\ PValue(Written(d)) = (PValue(d) + (Written(d)[bi.col] - d[bi.col])) % Order
         /\ QValue(Written(d)) =
              (QValue(d) + (bi.col + 1) * (Written(d)[bi.col] - d[bi.col])) % Order
<1> DEFINE v == Written(d)[bi.col]
<1>1. v \in Elem /\ Written(d) = [d EXCEPT ![bi.col] = v]
  BY WrittenData DEF Written
<1> HIDE DEF v
<1>2. /\ PValue([d EXCEPT ![bi.col] = v]) = (PValue(d) - d[bi.col] + v) % Order
      /\ PValue([d EXCEPT ![bi.col] = v]) = (PValue(d) + (v - d[bi.col])) % Order
      /\ QValue([d EXCEPT ![bi.col] = v]) = (QValue(d) + (bi.col + 1) * (v - d[bi.col])) % Order
  BY <1>1, ParityExcept
<1> QED
  BY <1>1, <1>2, Zenon DEF v

(* rmw5_write_data() updates P by the difference.                           *)
LEMMA Rmw5Fills ==
  ASSUME NEW d \in [Data -> Elem], NEW g, bi.col \in Data, bi.val \in Elem, Sound(g),
         Has(g, d, {bi.col, PD})
  PROVE  rmw5_write_data(g) = Fill(g, Written(d), {bi.col, PD}, {bi.col, PD})
<1> DEFINE v == NewBlock(g)
           p == (g.c[PD].buf - g.c[bi.col].buf + v) % Order
           new == [j \in {bi.col, PD} |-> IF j = PD THEN p ELSE v]
<1>1. rmw5_write_data(g) = Put(g, new, {bi.col, PD}, {bi.col, PD})
  BY DEF rmw5_write_data
<1>2. g.c[bi.col].buf = d[bi.col] /\ g.c[PD].buf = PValue(d) /\ bi.col # PD
  BY BlockOf, Columns DEF Has
<1>3. v = Written(d)[bi.col]
  BY <1>2, NewBlockIs
<1> HIDE DEF v
<1>4. p = PValue(Written(d))
  <2>1. PValue(Written(d)) = (PValue(d) - d[bi.col] + Written(d)[bi.col]) % Order
    BY ParityWritten
  <2> QED
    BY <1>2, <1>3, <2>1, Zenon
<1> HIDE DEF p
<1>5. Gives(new, Written(d), {bi.col, PD})
  BY <1>2, <1>3, <1>4, BlockOf, WrittenData DEF Gives
<1> HIDE DEF new
<1> QED
  BY <1>1, <1>5, HasLoaded, PutFills

(* With P, and without it.                                                  *)
LEMMA Rmw6Fills ==
  ASSUME NEW d \in [Data -> Elem], NEW g, bi.col \in Data, bi.val \in Elem, Sound(g),
         Has(g, d, {bi.col, PD, QD})
  PROVE  rmw6_write_data(g, TRUE) = Fill(g, Written(d), {bi.col, PD, QD}, {bi.col, PD, QD})
<1> DEFINE i == bi.col
           v == NewBlock(g)
           delta == v - g.c[i].buf
           q == (g.c[QD].buf + (i + 1) * delta) % Order
           p == (g.c[PD].buf + delta) % Order
           new == [j \in {i, PD, QD} |-> IF j = PD THEN p ELSE IF j = QD THEN q ELSE v]
<1>1. rmw6_write_data(g, TRUE) = Put(g, new, {i, PD, QD}, {i, PD, QD})
  BY DEF rmw6_write_data
<1>2. /\ g.c[i].buf = d[i] /\ g.c[PD].buf = PValue(d) /\ g.c[QD].buf = QValue(d)
      /\ i # PD /\ i # QD
  BY BlockOf, Columns DEF Has
<1>3. v = Written(d)[i]
  BY <1>2, NewBlockIs
<1> HIDE DEF v
<1>4. p = PValue(Written(d)) /\ q = QValue(Written(d))
  <2>1. /\ PValue(Written(d)) = (PValue(d) + (Written(d)[i] - d[i])) % Order
        /\ QValue(Written(d)) = (QValue(d) + (i + 1) * (Written(d)[i] - d[i])) % Order
    BY ParityWritten
  <2> QED
    BY <1>2, <1>3, <2>1, Zenon
<1> HIDE DEF p, q
<1>5. Gives(new, Written(d), {i, PD, QD})
  BY <1>2, <1>3, <1>4, BlockOf, WrittenData DEF Gives
<1> HIDE DEF new
<1>6. Put(g, new, {i, PD, QD}, {i, PD, QD}) = Fill(g, Written(d), {i, PD, QD}, {i, PD, QD})
  BY <1>5, HasLoaded, PutFills
<1> QED
  BY <1>1, <1>6

-----------------------------------------------------------------------------
(* A calculation that started from the columns col, with the content d of   *)
(* the columns V, and has locked L.  The buffer of a parity column counts   *)
(* while the column is in use and valid, or is about to be written.         *)

(* The buffers that have to be right: those up to date of data columns,     *)
(* and of parity disks in use or about to be written.                       *)
Known(g, i) == g.c[i].uptodate /\
  (i \in Data \/ (g.c[i].enabled /\ (g.c[i].valid \/ i \in g.lock)))

(* A calculation leaves the flags alone, and only the buffer of P may be    *)
(* dropped.                                                                 *)
Kept(x, y, i) ==
  /\ x.valid = y.valid /\ x.enabled = y.enabled /\ x.active = y.active /\ x.io = "none"
  /\ i # PD /\ y.uptodate => x.uptodate

(* Calculation g holds the data d, with the columns of L locked: the        *)
(* buffers that have to be right are, of those in V.                        *)
Holding(g, d, L, V) ==
  /\ Sound(g) /\ g.lock = L /\ L \subseteq Cols /\ V \subseteq Cols
  /\ g.c \in [Cols -> ColState]
  /\ \A i \in Cols : Kept(g.c[i], col[i], i)
  /\ \A i \in V : Known(g, i) => g.c[i].buf = Block(d, i)
  /\ \A i \in L : g.c[i].uptodate


(* Filling buffers with their blocks keeps the rest right.                  *)
LEMMA FillHolds ==
  ASSUME NEW g, NEW d \in [Data -> Elem], NEW L, NEW V, NEW S \in SUBSET Cols, NEW K \in SUBSET S,
         Holding(g, d, L, V)
  PROVE  /\ Holding(Fill(g, d, S, K), d, L \cup K, V \cup S)
         /\ \A T \in SUBSET Cols : Loaded(g, T) => Loaded(Fill(g, d, S, K), T \cup S)
         /\ Loaded(Fill(g, d, S, K), S)
<1> DEFINE h == Fill(g, d, S, K)
<1>1. /\ h.lock = L \cup K /\ Sound(h)
      /\ h.c = [i \in Cols |-> IF i \in S
                            THEN [g.c[i] EXCEPT !.buf = Block(d, i), !.uptodate = TRUE]
                            ELSE g.c[i]]
  BY DEF Fill, Sound, Holding
<1> HIDE DEF h
<1>2. \A i \in S : /\ h.c[i] = [g.c[i] EXCEPT !.buf = Block(d, i), !.uptodate = TRUE]
                   /\ g.c[i] \in ColState /\ Block(d, i) \in Elem
  BY <1>1, BlockOf DEF Holding
<1>3. \A i \in S : /\ h.c[i] \in ColState /\ h.c[i].uptodate /\ h.c[i].buf = Block(d, i)
                   /\ h.c[i].valid = g.c[i].valid /\ h.c[i].enabled = g.c[i].enabled
                   /\ h.c[i].active = g.c[i].active /\ h.c[i].io = g.c[i].io
  <2> TAKE i \in S
  <2>1. /\ h.c[i] = [g.c[i] EXCEPT !.buf = Block(d, i), !.uptodate = TRUE]
        /\ g.c[i] \in ColState /\ Block(d, i) \in Elem
    BY <1>2
  <2> QED
    BY <2>1 DEF ColState
<1>4. \A i \in Cols \ S : h.c[i] = g.c[i] /\ g.c[i] \in ColState
  BY <1>1 DEF Holding
<1>5. h.c \in [Cols -> ColState]
  BY <1>1, <1>3, <1>4
<1>6. \A i \in Cols : Kept(h.c[i], col[i], i)
  BY <1>3, <1>4 DEF Kept, Holding
<1>7. \A i \in V \cup S : Known(h, i) => h.c[i].buf = Block(d, i)
  BY <1>1, <1>3, <1>4 DEF Known, Holding
<1>8. \A i \in L \cup K : h.c[i].uptodate
  BY <1>3, <1>4 DEF Holding
<1>9. \A T \in SUBSET Cols : Loaded(g, T) => Loaded(h, T \cup S)
  BY <1>3, <1>4 DEF Loaded
<1>10. Loaded(h, S)
  BY <1>3 DEF Loaded
<1> QED
  BY <1>1, <1>5, <1>6, <1>7, <1>8, <1>9, <1>10 DEF h, Holding

(* What the columns hold when the pending write is made.                    *)
LEMMA WrittenHolds ==
  ASSUME NEW g, NEW d \in [Data -> Elem], NEW L, NEW V, Holding(g, d, L, V),
         bi.col \in Data, bi.val \in Elem
  PROVE  Holding(g, Written(d), L, (V \cap Data) \ {bi.col})
<1>1. \A i \in Data \ {bi.col} : Block(Written(d), i) = Block(d, i)
  BY WrittenData, BlockOf
<1> QED
  BY <1>1 DEF Holding

(* A parity column that is not in use holds anything.                       *)
LEMMA Unused ==
  ASSUME NEW g, NEW d, NEW L, NEW V, NEW W \in SUBSET Cols, Holding(g, d, L, V),
         \A i \in W \ V : i \notin Data /\ ~ g.c[i].enabled
  PROVE  Holding(g, d, L, W)
BY DEF Holding, Known

(* Buffers that are up to date and have to be right have their blocks.      *)
LEMMA HoldingHas ==
  ASSUME NEW g, NEW d, NEW L, NEW V, NEW S, Holding(g, d, L, V), S \subseteq V,
         \A i \in S : Known(g, i)
  PROVE  Has(g, d, S)
BY DEF Holding, Has, Known

(* What is held in some columns is held in fewer.                           *)
LEMMA Narrow ==
  ASSUME NEW g, NEW d, NEW L, NEW V, NEW W \in SUBSET V, Holding(g, d, L, V)
  PROVE  Holding(g, d, L, W)
BY DEF Holding

(* What each calculation leaves, from what it finds.                        *)
PUsed(g) == g.c[PD].enabled /\ g.c[PD].valid
QUsed(g) == g.c[QD].enabled /\ g.c[QD].valid

(* Buffers that are up to date have to be right, parity in use included.    *)
LEMMA KnownColumns ==
  ASSUME NEW g, NEW S, Loaded(g, S), PD \in S => PUsed(g), QD \in S => QUsed(g), S \subseteq Cols
  PROVE  \A i \in S : Known(g, i)
BY Columns DEF Loaded, PUsed, QUsed, Known

(* Each calculation turns buffers that hold the data into buffers that      *)
(* hold it and more: raid5_generate_d(),                                    *)
LEMMA Raid5Holds ==
  ASSUME NEW g, NEW d \in [Data -> Elem], NEW L, NEW V, Holding(g, d, L, V), NEW x \in 0 .. PD,
         (0 .. PD) \ {x} \subseteq V, Loaded(g, (0 .. PD) \ {x}), x # PD => PUsed(g)
  PROVE  /\ Holding(raid5_generate_d(g, x), d, L \cup {x}, V \cup {x})
         /\ \A T \in SUBSET Cols : Loaded(g, T) => Loaded(raid5_generate_d(g, x), T \cup {x})
<1> DEFINE S == (0 .. PD) \ {x}
           X == {x}
<1>1. S \subseteq V /\ Loaded(g, S) /\ (PD \in S => PUsed(g)) /\ QD \notin S /\ S \subseteq Cols
  BY Columns
<1>2. X \in SUBSET Cols /\ X \in SUBSET X
  BY Columns
<1>3. Sound(g)
  BY DEF Holding
<1>4. Has(g, d, S)
  <2> HIDE DEF S
  <2> QED
    BY <1>1, KnownColumns, HoldingHas
<1>5. raid5_generate_d(g, x) = Fill(g, d, X, X)
  BY <1>3, <1>4, Raid5Fills
<1> HIDE DEF S, X
<1>6. /\ Holding(Fill(g, d, X, X), d, L \cup X, V \cup X)
      /\ \A T \in SUBSET Cols : Loaded(g, T) => Loaded(Fill(g, d, X, X), T \cup X)
  BY <1>2, FillHolds
<1> QED
  BY <1>5, <1>6 DEF X

(* raid6_generate_dd(),                                                     *)
LEMMA DDHolds ==
  ASSUME NEW g, NEW d \in [Data -> Elem], NEW L, NEW V, Holding(g, d, L, V),
         NEW a \in Data, NEW b \in Data, a # b,
         Cols \ {a, b} \subseteq V, Loaded(g, Cols \ {a, b}), PUsed(g), QUsed(g)
  PROVE  /\ Holding(raid6_generate_dd(g, a, b), d, L \cup {a, b}, V \cup {a, b})
         /\ \A T \in SUBSET Cols :
              Loaded(g, T) => Loaded(raid6_generate_dd(g, a, b), T \cup {a, b})
<1> DEFINE S == Cols \ {a, b}
           X == {a, b}
<1>1. S \subseteq V /\ Loaded(g, S) /\ S \subseteq Cols
  OBVIOUS
<1>2. X \in SUBSET Cols /\ X \in SUBSET X
  BY Columns
<1>3. Sound(g)
  BY DEF Holding
<1>4. Has(g, d, S)
  <2> HIDE DEF S
  <2> QED
    BY <1>1, KnownColumns, HoldingHas
<1>5. raid6_generate_dd(g, a, b) = Fill(g, d, X, X)
  BY <1>3, <1>4, DDFills
<1> HIDE DEF S, X
<1>6. /\ Holding(Fill(g, d, X, X), d, L \cup X, V \cup X)
      /\ \A T \in SUBSET Cols : Loaded(g, T) => Loaded(Fill(g, d, X, X), T \cup X)
  BY <1>2, FillHolds
<1> QED
  BY <1>5, <1>6 DEF X

(* raid6_generate_dp(),                                                     *)
LEMMA DPHolds ==
  ASSUME NEW g, NEW d \in [Data -> Elem], NEW L, NEW V, Holding(g, d, L, V),
         NEW a \in Data, Cols \ {a, PD} \subseteq V, Loaded(g, Cols \ {a, PD}), QUsed(g)
  PROVE  /\ Holding(raid6_generate_dp(g, a), d, L \cup {a, PD}, V \cup {a, PD})
         /\ \A T \in SUBSET Cols :
              Loaded(g, T) => Loaded(raid6_generate_dp(g, a), T \cup {a, PD})
<1> DEFINE S == Cols \ {a, PD}
           X == {a, PD}
<1>1. S \subseteq V /\ Loaded(g, S) /\ S \subseteq Cols /\ PD \notin S
  OBVIOUS
<1>2. X \in SUBSET Cols /\ X \in SUBSET X
  BY Columns
<1>3. Sound(g)
  BY DEF Holding
<1>4. Has(g, d, S)
  <2> HIDE DEF S
  <2> QED
    BY <1>1, KnownColumns, HoldingHas
<1>5. raid6_generate_dp(g, a) = Fill(g, d, X, X)
  BY <1>3, <1>4, DPFills
<1> HIDE DEF S, X
<1>6. /\ Holding(Fill(g, d, X, X), d, L \cup X, V \cup X)
      /\ \A T \in SUBSET Cols : Loaded(g, T) => Loaded(Fill(g, d, X, X), T \cup X)
  BY <1>2, FillHolds
<1> QED
  BY <1>5, <1>6 DEF X

(* raid6_generate_pq() and raid6_generate_q(),                              *)
LEMMA PQHolds ==
  ASSUME NEW g, NEW d \in [Data -> Elem], NEW L, NEW V, Holding(g, d, L, V),
         Data \subseteq V, Loaded(g, Data)
  PROVE  /\ Holding(raid6_generate_pq(g), d, L \cup {PD, QD}, V \cup {PD, QD})
         /\ Holding(raid6_generate_q(g), d, L \cup {QD}, V \cup {QD})
<1> DEFINE X == {PD, QD}
           F == IF NData = 1 THEN {QD} ELSE {PD, QD}
           Q == {QD}
<1>1. /\ X \in SUBSET Cols /\ X \in SUBSET X /\ F \in SUBSET Cols /\ Q \in SUBSET F
      /\ PD \notin Data /\ QD \notin Data /\ Data \subseteq Cols /\ Q \subseteq F
  BY Columns
<1>2. Sound(g)
  BY DEF Holding
<1>3. Has(g, d, Data)
  BY <1>1, KnownColumns, HoldingHas
<1>4. raid6_generate_pq(g) = Fill(g, d, X, X) /\ raid6_generate_q(g) = Fill(g, d, F, Q)
  BY <1>2, <1>3, PQFills
<1> HIDE DEF X, F, Q
<1>5. Holding(Fill(g, d, X, X), d, L \cup X, V \cup X)
  BY <1>1, FillHolds
<1>6. Holding(Fill(g, d, F, Q), d, L \cup Q, V \cup F)
  BY <1>1, FillHolds
<1>7. Holding(Fill(g, d, F, Q), d, L \cup Q, V \cup Q)
  BY <1>1, <1>6, Narrow
<1> QED
  BY <1>4, <1>5, <1>7 DEF X, Q

(* copy_write_data(), which leaves parity behind,                           *)
LEMMA CopyHolds ==
  ASSUME NEW g, NEW d \in [Data -> Elem], NEW L, NEW V, Holding(g, d, L, V), Data \subseteq V,
         bi.col \in Data, bi.val \in Elem, bi.partial => g.c[bi.col].uptodate
  PROVE  /\ Holding(copy_write_data(g), Written(d), L \cup {bi.col}, Data)
         /\ \A T \in SUBSET Cols : Loaded(g, T) => Loaded(copy_write_data(g), T \cup {bi.col})
<1> DEFINE X == {bi.col}
           W == (V \cap Data) \ {bi.col}
<1>1. X \in SUBSET Cols /\ X \in SUBSET X /\ W \cup X = Data /\ Written(d) \in [Data -> Elem]
  BY Columns, WrittenData
<1>2. Sound(g) /\ Holding(g, Written(d), L, W)
  <2>1. Sound(g)
    BY DEF Holding
  <2> QED
    BY <2>1, WrittenHolds
<1>3. bi.partial => g.c[bi.col].buf = d[bi.col]
  BY BlockOf DEF Holding, Known
<1>4. copy_write_data(g) = Fill(g, Written(d), X, X)
  BY <1>2, <1>3, CopyFills
<1> HIDE DEF X, W
<1>5. /\ Holding(Fill(g, Written(d), X, X), Written(d), L \cup X, W \cup X)
      /\ \A T \in SUBSET Cols : Loaded(g, T) => Loaded(Fill(g, Written(d), X, X), T \cup X)
  BY <1>1, <1>2, FillHolds
<1> QED
  BY <1>1, <1>4, <1>5 DEF X

(* rmw5_write_data(),                                                       *)
LEMMA Rmw5Holds ==
  ASSUME NEW g, NEW d \in [Data -> Elem], NEW L, Holding(g, d, L, Cols),
         bi.col \in Data, bi.val \in Elem, Loaded(g, {bi.col, PD}), PUsed(g), ~ g.c[QD].enabled
  PROVE  Holding(rmw5_write_data(g), Written(d), L \cup {bi.col, PD}, Cols)
<1> DEFINE X == {bi.col, PD}
           W == (Cols \cap Data) \ {bi.col}
<1>1. /\ X \in SUBSET Cols /\ X \in SUBSET X /\ QD \notin X /\ X \subseteq Cols
      /\ Written(d) \in [Data -> Elem]
  BY Columns, WrittenData
<1>2. Sound(g) /\ Holding(g, Written(d), L, W)
  <2>1. Sound(g)
    BY DEF Holding
  <2> QED
    BY <2>1, WrittenHolds
<1>3. Has(g, d, X)
  <2> HIDE DEF X
  <2> QED
    BY <1>1, KnownColumns, HoldingHas DEF X
<1>4. rmw5_write_data(g) = Fill(g, Written(d), X, X)
  BY <1>2, <1>3, Rmw5Fills
<1> DEFINE h == Fill(g, Written(d), X, X)
<1>5. Holding(h, Written(d), L \cup X, W \cup X)
  <2> HIDE DEF X, W
  <2> QED
    BY <1>1, <1>2, FillHolds
<1>6. \A i \in Cols \ (W \cup X) : i \notin Data /\ ~ h.c[i].enabled
  <2>1. Cols \ (W \cup X) = {QD}
    BY Columns
  <2>2. h.c[QD] = g.c[QD]
    BY <1>1, Columns DEF Fill
  <2> QED
    BY <2>1, <2>2, Columns
<1> HIDE DEF X, W, h
<1>7. Holding(h, Written(d), L \cup X, Cols)
  BY <1>5, <1>6, Unused
<1> QED
  BY <1>4, <1>7 DEF X, h

(* rmw6_write_data() with P and Q,                                          *)
LEMMA Rmw6Holds ==
  ASSUME NEW g, NEW d \in [Data -> Elem], NEW L, Holding(g, d, L, Cols),
         bi.col \in Data, bi.val \in Elem, Loaded(g, {bi.col, PD, QD}), PUsed(g), QUsed(g)
  PROVE  Holding(rmw6_write_data(g, TRUE), Written(d), L \cup {bi.col, PD, QD}, Cols)
<1> DEFINE X == {bi.col, PD, QD}
           W == (Cols \cap Data) \ {bi.col}
<1>1. X \in SUBSET Cols /\ X \in SUBSET X /\ Written(d) \in [Data -> Elem] /\ W \cup X = Cols
  BY Columns, WrittenData
<1>2. Sound(g) /\ Holding(g, Written(d), L, W)
  <2>1. Sound(g)
    BY DEF Holding
  <2> QED
    BY <2>1, WrittenHolds
<1>3. Has(g, d, X)
  <2> HIDE DEF X
  <2> QED
    BY <1>1, KnownColumns, HoldingHas DEF X
<1>4. rmw6_write_data(g, TRUE) = Fill(g, Written(d), X, X)
  BY <1>2, <1>3, Rmw6Fills
<1> HIDE DEF X, W
<1>5. Holding(Fill(g, Written(d), X, X), Written(d), L \cup X, W \cup X)
  BY <1>1, <1>2, FillHolds
<1> QED
  BY <1>1, <1>4, <1>5 DEF X

(* and with Q alone.                                                        *)
LEMMA RmwNoPHolds ==
  ASSUME NEW g, NEW d \in [Data -> Elem], NEW L, Holding(g, d, L, Cols),
         bi.col \in Data, bi.val \in Elem, Loaded(g, {bi.col, QD}), QUsed(g),
         ~ g.c[PD].enabled, PD \notin L
  PROVE  Holding(rmw6_write_data(g, FALSE), Written(d), L \cup {bi.col, QD}, Cols)
<1> DEFINE i == bi.col
           v == NewBlock(g)
           delta == v - g.c[i].buf
           q == (g.c[QD].buf + (i + 1) * delta) % Order
           p == (g.c[PD].buf + delta) % Order
           new == [j \in {i, PD, QD} |-> IF j = PD THEN p ELSE IF j = QD THEN q ELSE v]
           h == Put(g, new, {i, QD}, {i, QD})
           r == [h EXCEPT !.c[PD].uptodate = FALSE]
           X == {i, QD}
<1>1. rmw6_write_data(g, FALSE) = r
  BY DEF rmw6_write_data
<1>2. Has(g, d, X)
  <2>1. X \subseteq Cols /\ PD \notin X
    BY Columns
  <2> HIDE DEF X
  <2> QED
    BY <2>1, KnownColumns, HoldingHas DEF X
<1>3. /\ g.c[i].buf = d[i] /\ g.c[QD].buf = QValue(d) /\ i # PD /\ i # QD /\ PD # QD
      /\ g.c[i].uptodate /\ g.c[QD].uptodate /\ i \in Data
  BY <1>2, BlockOf, Columns DEF Has
<1>4. v = Written(d)[i]
  BY <1>3, NewBlockIs
<1>5. Written(d) \in [Data -> Elem] /\ Sound(g) /\ g.c \in [Cols -> ColState]
  BY WrittenData DEF Holding
<1>6. p \in Elem
  <2>1. g.c[PD].buf \in Int /\ g.c[i].buf \in Int /\ v \in Int
    <3>1. g.c[PD].buf \in Elem /\ g.c[i].buf \in Elem
      BY <1>3, <1>5, Columns DEF ColState
    <3>2. v \in Elem
      BY <1>4, WrittenData
    <3> QED
      BY <3>1, <3>2 DEF Elem
  <2>2. g.c[PD].buf + delta \in Int
    BY <2>1
  <2> QED
    BY <2>2, ModRange
<1> HIDE DEF v
<1>7. q = QValue(Written(d))
  <2>1. QValue(Written(d)) = (QValue(d) + (i + 1) * (Written(d)[i] - d[i])) % Order
    BY ParityWritten
  <2> QED
    BY <1>3, <1>4, <2>1, Zenon
<1> HIDE DEF p, q
<1>8. /\ h.c = [j \in Cols |-> IF j \in DOMAIN new
                               THEN [g.c[j] EXCEPT !.buf = new[j], !.uptodate = TRUE]
                               ELSE g.c[j]]
      /\ h.lock = L \cup X /\ h.ok = TRUE
  BY <1>3 DEF Put, Holding, Sound
<1>9. /\ DOMAIN new = {i, PD, QD} /\ new[PD] \in Elem
      /\ \A j \in X : new[j] = Block(Written(d), j)
  BY <1>3, <1>4, <1>5, <1>6, <1>7, BlockOf
<1>10. /\ Sound(r) /\ r.lock = L \cup X
       /\ r.c = [h.c EXCEPT ![PD] = [@ EXCEPT !.uptodate = FALSE]]
  <2>1. h = [c |-> h.c, lock |-> h.lock, ok |-> h.ok]
    BY DEF Put
  <2> HIDE DEF h
  <2> QED
    BY <1>8, <2>1 DEF Sound
<1> HIDE DEF new, h, r
<1>11. \A j \in X : /\ r.c[j] = [g.c[j] EXCEPT !.buf = Block(Written(d), j), !.uptodate = TRUE]
                    /\ g.c[j] \in ColState /\ Block(Written(d), j) \in Elem
  <2> TAKE j \in X
  <2>1. j \in Cols /\ j # PD /\ j \in DOMAIN new /\ new[j] = Block(Written(d), j)
    BY <1>3, <1>9, Columns
  <2>2. r.c[j] = h.c[j]
    BY <1>8, <1>10, <2>1
  <2>3. h.c[j] = [g.c[j] EXCEPT !.buf = new[j], !.uptodate = TRUE]
    BY <1>8, <2>1
  <2>4. g.c[j] \in ColState /\ Block(Written(d), j) \in Elem
    BY <1>5, <2>1, BlockOf
  <2> QED
    BY <2>1, <2>2, <2>3, <2>4
<1>12. \A j \in X : /\ r.c[j] \in ColState /\ r.c[j].uptodate
                    /\ r.c[j].buf = Block(Written(d), j)
                    /\ r.c[j].valid = g.c[j].valid /\ r.c[j].enabled = g.c[j].enabled
                    /\ r.c[j].active = g.c[j].active /\ r.c[j].io = g.c[j].io
  <2> TAKE j \in X
  <2>1. /\ r.c[j] = [g.c[j] EXCEPT !.buf = Block(Written(d), j), !.uptodate = TRUE]
        /\ g.c[j] \in ColState /\ Block(Written(d), j) \in Elem
    BY <1>11
  <2> QED
    BY <2>1 DEF ColState
<1>13. /\ r.c[PD] \in ColState
       /\ r.c[PD].valid = g.c[PD].valid /\ r.c[PD].enabled = g.c[PD].enabled
       /\ r.c[PD].active = g.c[PD].active /\ r.c[PD].io = g.c[PD].io
  <2>1. h.c[PD] = [g.c[PD] EXCEPT !.buf = new[PD], !.uptodate = TRUE] /\ g.c[PD] \in ColState
    BY <1>5, <1>8, <1>9, Columns
  <2>2. r.c[PD] = [h.c[PD] EXCEPT !.uptodate = FALSE]
    BY <1>8, <1>10, Columns
  <2> QED
    BY <1>9, <2>1, <2>2 DEF ColState
<1>14. \A j \in Cols \ {i, PD, QD} : r.c[j] = g.c[j]
  BY <1>8, <1>9, <1>10
<1>15. \A j \in Cols : r.c[j] \in ColState /\ Kept(r.c[j], col[j], j)
  <2> TAKE j \in Cols
  <2>1. g.c[j] \in ColState /\ Kept(g.c[j], col[j], j)
    BY DEF Holding
  <2> QED
    BY <1>12, <1>13, <1>14, <2>1 DEF Kept
<1>16. \A j \in Cols : Known(r, j) => r.c[j].buf = Block(Written(d), j)
  <2> TAKE j \in Cols
  <2>1. CASE j \in X
    BY <1>12, <2>1
  <2>2. CASE j = PD
    BY <1>13, <2>2, Columns DEF Known
  <2>3. CASE j \notin {i, PD, QD}
    <3>1. j \in Data /\ r.c[j] = g.c[j] /\ Block(Written(d), j) = Block(d, j)
      BY <1>5, <1>14, <2>3, Columns, WrittenData, BlockOf
    <3> QED
      BY <3>1 DEF Holding, Known
  <2> QED
    BY <2>1, <2>2, <2>3
<1>17. \A j \in L \cup X : r.c[j].uptodate
  BY <1>12, <1>14, <1>3 DEF Holding
<1>18. r.c \in [Cols -> ColState]
  BY <1>8, <1>10, <1>15
<1>19. L \cup X \subseteq Cols
  BY Columns DEF Holding
<1> QED
  BY <1>1, <1>10, <1>15, <1>16, <1>17, <1>18, <1>19 DEF Holding

-----------------------------------------------------------------------------
(* The arrays the theorems are about, and the invariant.                    *)

(* The columns lost from the start, and those whose disk may fail.          *)
Lost(a) == {i \in Cols : a.slots[i] \in {"dsbl", "rebuild"}}
Faulty(a) == a.readFaults \cup a.writeFaults

(* Parity covers whatever is lost and fails: at most two columns, no other  *)
(* column than P fails when P is one of them, no parity disk is too short   *)
(* for the stripe, no new disk comes with a rebuild, and the start is clean. *)
Covered(a) ==
  /\ \A broken \in SUBSET Faulty(a) : Cardinality(broken) <= a.faults =>
       /\ Cardinality(Lost(a) \cup broken) <= 2
       /\ PD \in Lost(a) \cup broken => broken \subseteq {PD}
  /\ a.slots[PD] \in {"ok", "dsbl", "rebuild"} /\ a.slots[QD] \in {"ok", "dsbl", "rebuild"}
  /\ \A i, j \in Cols : ~ (a.slots[i] = "new" /\ a.slots[j] = "rebuild")
  /\ a.clean

(* The disk of column i ends before this stripe.                            *)
Short(a, i) == a.slots[i] = "short"

(* What the state k of a disk says, once the disks of broken have failed.   *)
DiskGood(a, broken, i, k) ==
  /\ k.valid => k.enabled /\ k.active
  /\ ~ k.active => a.slots[i] \in {"new", "absent"} /\ (k.enabled => a.slots[i] = "new")
  /\ k.active /\ ~ k.valid => i \in Lost(a) \cup broken
  /\ k.active /\ k.enabled /\ ~ k.valid => a.slots[i] = "rebuild"
  /\ k.enabled => a.slots[i] \notin {"dsbl", "absent"}
  /\ k.active => a.slots[i] # "absent"
  /\ ~ k.enabled => a.slots[i] \in {"dsbl", "absent"} \/ i \in broken

(* What the flags of column x say, of a disk in state k.                    *)
ColGood(a, broken, i, k, x) ==
  /\ x.active => k.active
  /\ ~ x.active => x.valid /\ x.uptodate /\ a.slots[i] \in {"new", "absent"}
  /\ ~ x.valid => i \in Lost(a) \cup broken
  /\ x.enabled \/ ~ k.enabled \/ Short(a, i)
  /\ x.enabled => a.slots[i] \notin {"dsbl", "absent"}
  /\ x.uptodate \/ x.enabled \/ ~ x.valid \/ i = PD \/ Short(a, i)
  /\ x.io = "write" => x.enabled /\ x.uptodate
  /\ x.io = "read" => ~ x.uptodate /\ x.enabled /\ x.valid /\ x.active

(* Where the block b of column x is: in a buffer that counts, and on the    *)
(* disk (m) that counts as valid, unless it is being written there.         *)
ColCurrent(a, i, k, m, b, x) ==
  /\ (i \in Data /\ x.uptodate) \/ (x.valid /\ x.enabled /\ x.uptodate) \/ x.io = "write"
       => x.buf = b
  /\ i \in Data /\ (~ k.active \/ Short(a, i)) => b = 0
  /\ (k.valid /\ ~ Short(a, i)) \/ (x.valid /\ x.enabled /\ x.active)
       => x.io = "write" \/ m = b

(* A parity disk that is disabled although its column is called valid: only *)
(* P, and then no data column is lost.                                      *)
ParityGood(c) ==
  /\ ~ c[QD].enabled => ~ c[QD].valid
  /\ ~ c[PD].enabled /\ c[PD].valid =>
       /\ \A i \in Data : c[i].valid \/ c[i].io = "write"
       /\ c[QD].enabled => c[QD].valid \/ c[QD].io = "write"

(* All of this, for every column.                                           *)
ColsGood(a, broken, dk, m, d, c) ==
  /\ \A i \in Cols : ColGood(a, broken, i, dk[i], c[i]) /\ ColCurrent(a, i, dk[i], m[i], Block(d, i), c[i])
  /\ ParityGood(c)

(* Every disk in use has its block, or is being written it.                 *)
InSync(a, i, k, m, b, x) == k.enabled /\ ~ Short(a, i) => x.io = "write" \/ m = b
SyncGood(a, dk, m, d, c) == \A i \in Cols : InSync(a, i, dk[i], m[i], Block(d, i), c[i])

-----------------------------------------------------------------------------
(* Fetching, and writing back. *)

(* Two states of a column with the same flags.                              *)
SameFlags(x, y) == x.valid = y.valid /\ x.enabled = y.enabled /\ x.active = y.active

(* schedule_read() spoils nothing, and once no column is locked the ones    *)
(* asked for are up to date and hold the data.                              *)
LEMMA FetchGood ==
  ASSUME NEW broken, NEW d \in [Data -> Elem], NEW S \in SUBSET (Cols \ Failed), Covered(array),
         col \in [Cols -> ColState], NoIO, ColsGood(array, broken, disk, media, d, col)
  PROVE  /\ Fetch(S) \in [Cols -> ColState]
         /\ ColsGood(array, broken, disk, media, d, Fetch(S))
         /\ \A i \in Cols : SameFlags(Fetch(S)[i], col[i])
         /\ \A i \in Cols : Fetch(S)[i].io # "write" /\ (col[i].uptodate => Fetch(S)[i].uptodate)
         /\ ~ Locked(Fetch(S)) => Holding(Calc(Fetch(S)), d, {}, Cols) /\ Loaded(Calc(Fetch(S)), S)
<1> DEFINE c == Fetch(S)
<1>0. /\ c \in [Cols -> ColState]
      /\ \A i \in Cols : c[i] = IF i \in S /\ ~ col[i].uptodate
                                THEN IF col[i].enabled THEN [col[i] EXCEPT !.io = "read"]
                                                       ELSE [col[i] EXCEPT !.buf = 0, !.uptodate = TRUE]
                                ELSE col[i]
  <2>1. 0 \in Elem /\ \A i \in Cols : col[i] \in ColState
    BY CodeAssumption DEF Elem
  <2>2. \A i \in Cols : /\ [col[i] EXCEPT !.io = "read"] \in ColState
                        /\ [col[i] EXCEPT !.buf = 0, !.uptodate = TRUE] \in ColState
    BY <2>1 DEF ColState
  <2> QED
    BY <2>1, <2>2 DEF Fetch
<1> HIDE DEF c
<1>1. ASSUME NEW i \in Cols
      PROVE  /\ ColGood(array, broken, i, disk[i], c[i])
             /\ ColCurrent(array, i, disk[i], media[i], Block(d, i), c[i])
             /\ SameFlags(c[i], col[i]) /\ c[i].io # "write"
             /\ c[i].io = "none" => Kept(c[i], col[i], i)
             /\ col[i].uptodate => c[i].uptodate
             /\ i \in S => c[i].uptodate \/ c[i].io = "read"
             /\ c[i].uptodate /\ i \in Data => c[i].buf = Block(d, i)
             /\ c[i].uptodate /\ c[i].valid /\ c[i].enabled => c[i].buf = Block(d, i)
  <2>1. /\ ColGood(array, broken, i, disk[i], col[i]) /\ col[i].io = "none" /\ col[i] \in ColState
        /\ ColCurrent(array, i, disk[i], media[i], Block(d, i), col[i])
    BY DEF ColsGood, NoIO
  <2>2. CASE ~ (i \in S /\ ~ col[i].uptodate)
    <3>1. c[i] = col[i]
      BY <1>0, <2>2
    <3> QED
      BY <2>1, <2>2, <3>1 DEF SameFlags, Kept, ColCurrent, ColGood
  <2>3. CASE i \in S /\ ~ col[i].uptodate /\ col[i].enabled
    <3>1. c[i] = [col[i] EXCEPT !.io = "read"]
      BY <1>0, <2>3
    <3>2. /\ c[i].io = "read" /\ c[i].valid = col[i].valid /\ c[i].enabled = col[i].enabled
          /\ c[i].active = col[i].active /\ c[i].uptodate = col[i].uptodate
      BY <2>1, <3>1 DEF ColState
    <3>3. col[i].valid
      BY <2>3 DEF Failed
    <3> QED
      BY <2>1, <2>3, <3>2, <3>3 DEF SameFlags, Kept, ColCurrent, ColGood
  <2>4. CASE i \in S /\ ~ col[i].uptodate /\ ~ col[i].enabled
    <3>1. c[i] = [col[i] EXCEPT !.buf = 0, !.uptodate = TRUE]
      BY <1>0, <2>4
    <3>2. /\ c[i].io = "none" /\ c[i].valid = col[i].valid /\ c[i].enabled = col[i].enabled
          /\ c[i].active = col[i].active /\ c[i].uptodate = TRUE /\ c[i].buf = 0
      BY <2>1, <3>1 DEF ColState
    <3>3. col[i].valid
      BY <2>4 DEF Failed
    <3>4. i = PD \/ (i \in Data /\ Block(d, i) = 0)
      BY <2>1, <2>4, <3>3, Columns DEF ColGood, ColCurrent, Covered, Short
    <3> QED
      BY <2>1, <2>4, <3>2, <3>3, <3>4, Columns DEF SameFlags, Kept, ColCurrent, ColGood
  <2> QED
    BY <2>2, <2>3, <2>4
<1>2. ParityGood(c)
  BY <1>1, Columns DEF ParityGood, SameFlags, ColsGood, NoIO
<1>3. ASSUME ~ Locked(c) PROVE Holding(Calc(c), d, {}, Cols) /\ Loaded(Calc(c), S)
  <2>1. /\ Calc(c).c = c /\ Calc(c).lock = {} /\ Sound(Calc(c))
    BY DEF Calc, Sound
  <2>2. \A i \in Cols : c[i].io = "none"
    BY <1>3 DEF Locked
  <2>3. Loaded(Calc(c), S)
    BY <1>1, <2>1, <2>2 DEF Loaded
  <2>4. \A i \in Cols : Known(Calc(c), i) => Calc(c).c[i].buf = Block(d, i)
    BY <1>1, <2>1, <2>2 DEF Known
  <2> QED
    BY <1>0, <1>1, <2>1, <2>2, <2>3, <2>4 DEF Holding
<1>4. ColsGood(array, broken, disk, media, d, c)
  BY <1>1, <1>2 DEF ColsGood
<1> QED
  BY <1>0, <1>1, <1>3, <1>4 DEF c

(* The columns locked by a calculation that took the content from d to e    *)
(* are enough, and not too many.                                            *)
LocksRight(d, e, L) ==
  /\ \A i \in Cols \ L : col[i].enabled => Block(e, i) = Block(d, i)
  /\ \A i \in Data : e[i] = d[i] \/ (disk[i].active /\ ~ Short(array, i))
  /\ QD \in L => QEnabled
  /\ PD \in L /\ ~ PEnabled => /\ \A i \in Data : col[i].valid \/ i \in L
                               /\ QEnabled => col[QD].valid \/ QD \in L

(* schedule_writes() of a calculation that holds the data e leaves columns  *)
(* that say nothing wrong of e.                                             *)
LEMMA ScheduleGood ==
  ASSUME NEW broken, NEW d \in [Data -> Elem], NEW e \in [Data -> Elem], NEW g, NEW L, Covered(array),
         col \in [Cols -> ColState], NoIO, ColsGood(array, broken, disk, media, d, col),
         \A i \in Cols : DiskGood(array, broken, i, disk[i]),
         Holding(g, e, L, Cols), LocksRight(d, e, L)
  PROVE  /\ schedule_writes(g) \in [Cols -> ColState]
         /\ ColsGood(array, broken, disk, media, e, schedule_writes(g))
         /\ \A i \in Cols : /\ schedule_writes(g)[i].uptodate = g.c[i].uptodate
                            /\ schedule_writes(g)[i].buf = g.c[i].buf
                            /\ schedule_writes(g)[i].io = IF i \in L /\ col[i].enabled THEN "write" ELSE "none"
<1> DEFINE w == schedule_writes(g)
<1>1. /\ g.lock = L /\ L \subseteq Cols /\ g.c \in [Cols -> ColState]
      /\ \A i \in Cols : g.c[i] \in ColState /\ Kept(g.c[i], col[i], i)
      /\ \A i \in Cols : Known(g, i) => g.c[i].buf = Block(e, i)
      /\ \A i \in L : g.c[i].uptodate
  BY DEF Holding
<1>2. /\ w \in [Cols -> ColState]
      /\ \A i \in Cols : w[i] = IF i \notin L THEN g.c[i]
                                ELSE IF g.c[i].enabled THEN [g.c[i] EXCEPT !.io = "write"]
                                ELSE [g.c[i] EXCEPT !.valid = TRUE]
  <2>1. \A i \in Cols : /\ [g.c[i] EXCEPT !.io = "write"] \in ColState
                        /\ [g.c[i] EXCEPT !.valid = TRUE] \in ColState
    <3> TAKE i \in Cols
    <3>1. g.c[i] \in ColState
      BY <1>1
    <3> QED
      BY <3>1 DEF ColState
  <2> QED
    BY <1>1, <2>1 DEF schedule_writes
<1> HIDE DEF w
<1>3. ASSUME NEW i \in Cols
      PROVE  /\ w[i].uptodate = g.c[i].uptodate /\ w[i].buf = g.c[i].buf
             /\ w[i].active = col[i].active /\ w[i].enabled = col[i].enabled
             /\ w[i].valid = (col[i].valid \/ (i \in L /\ ~ col[i].enabled))
             /\ w[i].io = IF i \in L /\ col[i].enabled THEN "write" ELSE "none"
  <2>1. g.c[i] \in ColState /\ Kept(g.c[i], col[i], i)
    BY <1>1
  <2>2. CASE i \notin L
    <3>1. w[i] = g.c[i]
      BY <1>2, <2>2
    <3> QED
      BY <2>1, <2>2, <3>1 DEF Kept, ColState
  <2>3. CASE i \in L /\ g.c[i].enabled
    <3>1. w[i] = [g.c[i] EXCEPT !.io = "write"]
      BY <1>2, <2>3
    <3> QED
      BY <2>1, <2>3, <3>1 DEF Kept, ColState
  <2>4. CASE i \in L /\ ~ g.c[i].enabled
    <3>1. w[i] = [g.c[i] EXCEPT !.valid = TRUE]
      BY <1>2, <2>4
    <3> QED
      BY <2>1, <2>4, <3>1 DEF Kept, ColState
  <2> QED
    BY <2>2, <2>3, <2>4
<1>4. ASSUME NEW i \in Cols
      PROVE  /\ ColGood(array, broken, i, disk[i], w[i])
             /\ ColCurrent(array, i, disk[i], media[i], Block(e, i), w[i])
  <2>1. /\ ColGood(array, broken, i, disk[i], col[i]) /\ col[i].io = "none" /\ col[i] \in ColState
        /\ ColCurrent(array, i, disk[i], media[i], Block(d, i), col[i])
        /\ Kept(g.c[i], col[i], i) /\ DiskGood(array, broken, i, disk[i])
    BY <1>1 DEF ColsGood, NoIO
  <2>2. ColGood(array, broken, i, disk[i], w[i])
    <3>1. ~ col[i].active => i # PD
      BY <2>1 DEF ColGood, Covered
    <3>2. i \in L => w[i].uptodate
      BY <1>1, <1>3
    <3>3. i # PD /\ col[i].uptodate => w[i].uptodate
      BY <1>3, <2>1 DEF Kept
    <3> QED
      BY <1>3, <2>1, <3>1, <3>2, <3>3 DEF ColGood
  <2>3. /\ i \in Data /\ w[i].uptodate => w[i].buf = Block(e, i)
        /\ w[i].valid /\ w[i].enabled /\ w[i].uptodate => w[i].buf = Block(e, i)
        /\ w[i].io = "write" => w[i].buf = Block(e, i)
    <3>1. Known(g, i) => w[i].buf = Block(e, i)
      BY <1>1, <1>3
    <3>2. g.c[i].enabled = col[i].enabled /\ g.c[i].valid = col[i].valid /\ g.lock = L
      BY <1>1, <2>1 DEF Kept
    <3>3. i \in Data /\ w[i].uptodate => w[i].buf = Block(e, i)
      BY <1>3, <3>1 DEF Known
    <3>4. w[i].valid /\ w[i].enabled /\ w[i].uptodate => w[i].buf = Block(e, i)
      BY <1>3, <3>1, <3>2 DEF Known
    <3>5. w[i].io = "write" => w[i].buf = Block(e, i)
      <4>1. ASSUME w[i].io = "write" PROVE i \in L /\ col[i].enabled
        BY <1>3, <4>1
      <4>2. i \in L => g.c[i].uptodate
        BY <1>1
      <4> QED
        BY <3>1, <3>2, <4>1, <4>2 DEF Known
    <3> QED
      BY <3>3, <3>4, <3>5
  <2>4. i \in Data /\ (~ disk[i].active \/ Short(array, i)) => Block(e, i) = 0
    BY <2>1, BlockOf DEF ColCurrent, LocksRight
  <2>5. ASSUME (disk[i].valid /\ ~ Short(array, i)) \/ (w[i].valid /\ w[i].enabled /\ w[i].active)
        PROVE  w[i].io = "write" \/ media[i] = Block(e, i)
    <3>1. col[i].enabled
      BY <1>3, <2>1, <2>5 DEF ColGood, DiskGood
    <3>2. CASE i \in L
      BY <1>3, <3>1, <3>2
    <3>3. CASE i \notin L
      <4>1. Block(e, i) = Block(d, i)
        BY <3>1, <3>3 DEF LocksRight
      <4> QED
        BY <1>3, <2>1, <2>5, <3>3, <4>1 DEF ColCurrent
    <3> QED
      BY <3>2, <3>3
  <2> QED
    BY <2>2, <2>3, <2>4, <2>5 DEF ColCurrent
<1>5. ParityGood(w)
  <2>1. ParityGood(col) /\ \A i \in Cols : col[i].io = "none"
    BY DEF ColsGood, NoIO
  <2>2. ~ w[QD].enabled => ~ w[QD].valid
    BY <1>3, <2>1, Columns DEF ParityGood, LocksRight, QEnabled
  <2>3. ASSUME ~ w[PD].enabled, w[PD].valid
        PROVE  /\ \A i \in Data : w[i].valid \/ w[i].io = "write"
               /\ w[QD].enabled => w[QD].valid \/ w[QD].io = "write"
    <3>1. CASE PD \in L
      <4>1. /\ \A i \in Data : col[i].valid \/ i \in L
            /\ col[QD].enabled => col[QD].valid \/ QD \in L
        BY <1>3, <2>3, <3>1, Columns DEF LocksRight, PEnabled, QEnabled
      <4> QED
        BY <1>3, <4>1, Columns
    <3>2. CASE PD \notin L
      <4>1. ~ col[PD].enabled /\ col[PD].valid
        BY <1>3, <2>3, <3>2, Columns
      <4> QED
        BY <1>3, <2>1, <4>1, Columns DEF ParityGood
    <3> QED
      BY <3>1, <3>2
  <2> QED
    BY <2>2, <2>3 DEF ParityGood
<1> QED
  BY <1>2, <1>3, <1>4, <1>5 DEF ColsGood, w

(* All disks in use are then up to date, if those left alone were.          *)
LEMMA ScheduleSync ==
  ASSUME NEW broken, NEW d, NEW e, NEW g, NEW L, NoIO, ColsGood(array, broken, disk, media, d, col),
         LocksRight(d, e, L),
         \A i \in Cols : schedule_writes(g)[i].io = IF i \in L /\ col[i].enabled THEN "write" ELSE "none",
         \A i \in Cols \ L : InSync(array, i, disk[i], media[i], Block(d, i), col[i])
  PROVE  SyncGood(array, disk, media, e, schedule_writes(g))
<1> DEFINE w == schedule_writes(g)
<1> SUFFICES ASSUME NEW i \in Cols, disk[i].enabled, ~ Short(array, i)
             PROVE  w[i].io = "write" \/ media[i] = Block(e, i)
  BY DEF SyncGood, InSync
<1>1. col[i].enabled /\ col[i].io = "none"
  BY DEF ColsGood, ColGood, NoIO
<1> QED
  BY <1>1 DEF LocksRight, InSync

-----------------------------------------------------------------------------
(* The failed columns: none, one, or two of them.                           *)

(* A set of at most two columns, and its first elements.                    *)
LEMMA SmallSet ==
  ASSUME NEW S \in SUBSET Int, IsFiniteSet(S), Cardinality(S) <= 2
  PROVE  \/ S = {} /\ Cardinality(S) = 0
         \/ \E a \in S : S = {a} /\ Cardinality(S) = 1 /\ Min(S) = a
         \/ \E a, b \in S : /\ a < b /\ S = {a, b} /\ Cardinality(S) = 2
                            /\ Min(S) = a /\ Min(S \ {a}) = b
<1>1. ASSUME NEW a \in Int PROVE Min({a}) = a
  BY DEF Min
<1>2. ASSUME NEW a \in Int, NEW b \in Int, a < b PROVE Min({a, b}) = a
  <2>1. \A y \in {a, b} : a <= y
    BY <1>2
  <2>2. ASSUME NEW x \in {a, b}, \A y \in {a, b} : x <= y PROVE x = a
    BY <1>2, <2>2
  <2> QED
    BY <2>1, <2>2 DEF Min
<1>3. CASE S = {}
  BY <1>3, FS_EmptySet
<1>4. CASE S # {}
  <2> PICK x \in S : TRUE
    BY <1>4
  <2>1. /\ IsFiniteSet(S \ {x}) /\ Cardinality(S \ {x}) = Cardinality(S) - 1
        /\ Cardinality(S) \in Nat /\ Cardinality(S \ {x}) \in Nat
    BY FS_RemoveElement, FS_CardinalityType
  <2>2. CASE S \ {x} = {}
    <3>1. S = {x}
      BY <2>2
    <3>2. Cardinality(S) = 1
      BY <3>1, FS_Singleton
    <3> QED
      BY <1>1, <3>1, <3>2
  <2>3. CASE S \ {x} # {}
    <3> PICK y \in S \ {x} : TRUE
      BY <2>3
    <3>1. /\ IsFiniteSet((S \ {x}) \ {y}) /\ Cardinality((S \ {x}) \ {y}) = Cardinality(S) - 2
          /\ Cardinality((S \ {x}) \ {y}) \in Nat
      <4>1. /\ IsFiniteSet((S \ {x}) \ {y})
            /\ Cardinality((S \ {x}) \ {y}) = Cardinality(S \ {x}) - 1
        BY <2>1, FS_RemoveElement
      <4> QED
        BY <2>1, <4>1, FS_CardinalityType
    <3>2. Cardinality(S) = 2 /\ (S \ {x}) \ {y} = {}
      BY <2>1, <3>1, FS_EmptySet
    <3>3. S = {x, y} /\ x # y /\ x \in Int /\ y \in Int
      BY <3>2
    <3>4. CASE x < y
      <4>1. S \ {x} = {y}
        BY <3>3
      <4> QED
        BY <1>1, <1>2, <3>2, <3>3, <3>4, <4>1
    <3>5. CASE y < x
      <4>1. S \ {y} = {x} /\ S = {y, x}
        BY <3>3
      <4> QED
        BY <1>1, <1>2, <3>2, <3>3, <3>5, <4>1
    <3> QED
      BY <3>3, <3>4, <3>5
  <2> QED
    BY <2>2, <2>3
<1> QED
  BY <1>3, <1>4

(* So are their subsets, and can be counted.                                *)
LEMMA FiniteCols == IsFiniteSet(Cols) /\ \A S \in SUBSET Cols : IsFiniteSet(S) /\ Cardinality(S) \in Nat
<1>1. IsFiniteSet(Cols)
  BY FiniteData
<1> QED
  BY <1>1, FS_Subset, FS_CardinalityType

(* failed, faila and failb when at most two columns have failed.            *)
LEMMA FailedFacts ==
  ASSUME NEW broken, broken \in SUBSET Faulty(array), Cardinality(broken) <= array.faults,
         array \in Array, Covered(array),
         \A i \in Cols : ~ col[i].valid => i \in Lost(array) \cup broken
  PROVE  \/ failed = 0 /\ Failed = {} /\ faila = -1 /\ failb = -1
         \/ failed = 1 /\ faila \in Cols /\ Failed = {faila} /\ failb = -1
         \/ /\ failed = 2 /\ faila \in Cols /\ failb \in Cols /\ faila < failb
            /\ Failed = {faila, failb}
<1> DEFINE B == Lost(array) \cup broken
<1>1. B \in SUBSET Cols /\ Failed \subseteq B /\ Failed \in SUBSET Int
  BY Columns DEF Lost, Faulty, Array, Failed
<1>2. Cardinality(Failed) <= 2 /\ IsFiniteSet(Failed)
  <2>1. IsFiniteSet(B) /\ Cardinality(B) \in Nat /\ Cardinality(B) <= 2
    BY <1>1, FiniteCols DEF Covered
  <2> HIDE DEF B
  <2>2. Cardinality(Failed) <= Cardinality(B) /\ IsFiniteSet(Failed)
    BY <1>1, <2>1, FS_Subset
  <2>3. Cardinality(Failed) \in Nat
    BY <2>2, FS_CardinalityType
  <2> QED
    BY <2>1, <2>2, <2>3
<1>3. \/ Failed = {} /\ Cardinality(Failed) = 0
      \/ \E a \in Failed : Failed = {a} /\ Cardinality(Failed) = 1 /\ Min(Failed) = a
      \/ \E a, b \in Failed : /\ a < b /\ Failed = {a, b} /\ Cardinality(Failed) = 2
                              /\ Min(Failed) = a /\ Min(Failed \ {a}) = b
  BY <1>1, <1>2, SmallSet
<1>4. Failed \subseteq Cols
  BY DEF Failed
<1> DEFINE F == Failed
           n == Cardinality(F)
           a == IF n >= 1 THEN Min(F) ELSE -1
           b == IF n >= 2 THEN Min(F \ {a}) ELSE -1
<1>5. failed = n /\ faila = a /\ failb = b
  BY DEF failed, faila, failb
<1> HIDE DEF F
<1>6. CASE F = {} /\ n = 0
  BY <1>5, <1>6 DEF F
<1>7. ASSUME NEW x \in F, F = {x}, n = 1, Min(F) = x
      PROVE  failed = 1 /\ faila \in Cols /\ F = {faila} /\ failb = -1
  <2>1. x \in Cols
    BY <1>4 DEF F
  <2>2. a = x /\ b = -1
    BY <1>7
  <2> HIDE DEF n, a, b
  <2> QED
    BY <1>5, <1>7, <2>1, <2>2
<1>8. ASSUME NEW x \in F, NEW y \in F, x < y, F = {x, y}, n = 2, Min(F) = x, Min(F \ {x}) = y
      PROVE  /\ failed = 2 /\ faila \in Cols /\ failb \in Cols /\ faila < failb
             /\ F = {faila, failb}
  <2>1. x \in Cols /\ y \in Cols
    BY <1>4 DEF F
  <2>2. a = x /\ b = y
    BY <1>8
  <2> QED
    BY <1>5, <1>8, <2>1, <2>2
<1> QED
  BY <1>3, <1>6, <1>7, <1>8 DEF F

-----------------------------------------------------------------------------
(* A stripe at rest, with content d.                                        *)

(* A stripe with no I/O running whose columns say nothing wrong of the      *)
(* data d: what handle_stripe() starts from.                                *)
Resting(broken, d) ==
  /\ d \in [Data -> Elem] /\ array \in Array /\ Covered(array)
  /\ broken \in SUBSET Faulty(array) /\ Cardinality(broken) <= array.faults
  /\ col \in [Cols -> ColState] /\ NoIO
  /\ ColsGood(array, broken, disk, media, d, col)
  /\ \A i \in Cols : DiskGood(array, broken, i, disk[i])

(* Parity that is valid and enabled.                                        *)
PInUse == col[PD].enabled /\ col[PD].valid
QInUse == col[QD].enabled /\ col[QD].valid

(* What can have failed then, and which parity can be relied on.            *)
LEMMA RestingFacts ==
  ASSUME NEW broken, NEW d, Resting(broken, d)
  PROVE  /\ \/ failed = 0 /\ Failed = {} /\ faila = -1 /\ failb = -1
            \/ failed = 1 /\ faila \in Cols /\ Failed = {faila} /\ failb = -1
            \/ /\ failed = 2 /\ faila \in Cols /\ failb \in Cols /\ faila < failb
               /\ Failed = {faila, failb}
         /\ \A i \in Cols : i \in Failed <=> ~ col[i].valid
         /\ QD \notin Failed => QInUse
         /\ PD \notin Failed /\ (\E i \in Data : i \in Failed) => PInUse
         /\ PD \notin Failed /\ QD \in Failed /\ QEnabled => PInUse
<1>1. \A i \in Cols : ~ col[i].valid => i \in Lost(array) \cup broken
  BY DEF Resting, ColsGood, ColGood
<1>2. /\ array \in Array /\ Covered(array) /\ ParityGood(col)
      /\ broken \in SUBSET Faulty(array) /\ Cardinality(broken) <= array.faults
      /\ \A i \in Cols : col[i].io = "none"
  BY DEF Resting, ColsGood, NoIO
<1>3. \A i \in Cols : i \in Failed <=> ~ col[i].valid
  BY DEF Failed
<1>4. \/ failed = 0 /\ Failed = {} /\ faila = -1 /\ failb = -1
      \/ failed = 1 /\ faila \in Cols /\ Failed = {faila} /\ failb = -1
      \/ /\ failed = 2 /\ faila \in Cols /\ failb \in Cols /\ faila < failb
         /\ Failed = {faila, failb}
  BY <1>1, <1>2, FailedFacts
<1>5. QD \notin Failed => QInUse
  BY <1>2, <1>3, Columns DEF ParityGood, QInUse
<1>6. PD \notin Failed /\ (\E i \in Data : i \in Failed) => PInUse
  BY <1>2, <1>3, Columns DEF ParityGood, PInUse
<1>7. PD \notin Failed /\ QD \in Failed /\ QEnabled => PInUse
  BY <1>2, <1>3, Columns DEF ParityGood, PInUse, QEnabled
<1> QED
  BY <1>3, <1>4, <1>5, <1>6, <1>7

(* A calculation leaves parity in use.                                      *)
LEMMA SameUse ==
  ASSUME NEW g, NEW d, NEW L, NEW V, Holding(g, d, L, V)
  PROVE  /\ PInUse => PUsed(g)
         /\ QInUse => QUsed(g)
         /\ g.c[PD].enabled = col[PD].enabled /\ g.c[QD].enabled = col[QD].enabled
BY Columns DEF Holding, Kept, PUsed, QUsed, PInUse, QInUse

(* Fewer columns are up to date if more are.                                *)
LEMMA LoadedSub ==
  ASSUME NEW g, NEW S, NEW T \in SUBSET S, Loaded(g, S)
  PROVE  Loaded(g, T)
BY DEF Loaded

(* Q filled in behind a calculation, if its disk takes writes.              *)
MaybeQ(h) == IF QEnabled THEN raid6_generate_q(h) ELSE h

(* Q is generated when its disk is enabled.                                 *)
LEMMA MaybeQHolds ==
  ASSUME NEW g, NEW d \in [Data -> Elem], NEW L, Holding(g, d, L, Cols), Loaded(g, Data)
  PROVE  Holding(MaybeQ(g), d, L \cup (IF QEnabled THEN {QD} ELSE {}), Cols)
<1>1. CASE QEnabled
  <2>1. Holding(raid6_generate_q(g), d, L \cup {QD}, Cols \cup {QD})
    BY Columns, PQHolds
  <2>2. Cols \cup {QD} = Cols
    BY Columns
  <2> QED
    BY <1>1, <2>1, <2>2 DEF MaybeQ
<1>2. CASE ~ QEnabled
  BY <1>2 DEF MaybeQ
<1> QED
  BY <1>1, <1>2

(* The read of a failed column.                                             *)
LEMMA ReadHolds ==
  ASSUME NEW broken, NEW d \in [Data -> Elem], Resting(broken, d), NEW g, Holding(g, d, {}, Cols), Loaded(g, Cols \ Failed),
         bi.col \in Data, bi.col \in Failed
  PROVE  \E L : Holding(ReadCalc(g), d, L, Cols) /\ LocksRight(d, d, L) /\ bi.col \in L
<1>1. /\ \/ failed = 1 /\ faila \in Cols /\ Failed = {faila}
         \/ /\ failed = 2 /\ faila \in Cols /\ failb \in Cols /\ faila < failb
            /\ Failed = {faila, failb}
      /\ \A i \in Cols : i \in Failed <=> ~ col[i].valid
      /\ QD \notin Failed => QInUse
      /\ PD \notin Failed => PInUse
  BY RestingFacts
<1>2. (PInUse => PUsed(g)) /\ (QInUse => QUsed(g)) /\ (QInUse => QEnabled)
  BY SameUse DEF QInUse, QEnabled
<1>3. ASSUME NEW L, QD \in L => QEnabled,
             PD \in L /\ ~ PEnabled => /\ \A i \in Data : col[i].valid \/ i \in L
                                       /\ QEnabled => col[QD].valid \/ QD \in L
      PROVE  LocksRight(d, d, L)
  BY <1>3 DEF LocksRight
<1>4. CASE failed = 1
  <2>1. faila = bi.col /\ faila \in Data /\ faila \in 0 .. PD /\ faila # PD /\ PD \notin Failed
    BY <1>1, <1>4, Columns
  <2>2. (0 .. PD) \ {faila} \subseteq Cols \ Failed /\ {} \cup {faila} = {faila} /\ Cols \cup {faila} = Cols
    BY <1>1, <1>4, Columns
  <2>3. Loaded(g, (0 .. PD) \ {faila})
    BY <2>2, LoadedSub
  <2>4. Holding(raid5_generate_d(g, faila), d, {} \cup {faila}, Cols \cup {faila})
    BY <1>1, <1>2, <2>1, <2>2, <2>3, Raid5Holds
  <2>5. ReadCalc(g) = raid5_generate_d(g, faila)
    BY <1>4 DEF ReadCalc
  <2>6. LocksRight(d, d, {faila})
    BY <1>3, <2>1, Columns
  <2> QED
    BY <2>1, <2>2, <2>4, <2>5, <2>6
<1>5. CASE failed = 2 /\ failb < PD
  <2>1. /\ faila \in Data /\ failb \in Data /\ faila # failb /\ PD \notin Failed /\ QD \notin Failed
        /\ bi.col \in {faila, failb} /\ failb # PD /\ failb # QD
    BY <1>1, <1>5, Columns
  <2>2. Cols \ {faila, failb} = Cols \ Failed /\ Cols \cup {faila, failb} = Cols
        /\ {} \cup {faila, failb} = {faila, failb}
    BY <1>1, <1>5
  <2>3. Holding(raid6_generate_dd(g, faila, failb), d, {} \cup {faila, failb}, Cols \cup {faila, failb})
    BY <1>1, <1>2, <2>1, <2>2, DDHolds
  <2>4. ReadCalc(g) = raid6_generate_dd(g, faila, failb)
    BY <1>5, <2>1, Columns DEF ReadCalc
  <2>5. LocksRight(d, d, {faila, failb})
    BY <1>3, <2>1, Columns
  <2> QED
    BY <2>1, <2>2, <2>3, <2>4, <2>5
<1>6. CASE failed = 2 /\ failb = PD
  <2>1. faila = bi.col /\ faila \in Data /\ QD \notin Failed /\ PD # QD /\ ~ (failb < PD)
    BY <1>1, <1>6, Columns
  <2>2. Cols \ {faila, PD} = Cols \ Failed /\ Cols \cup {faila, PD} = Cols
        /\ {} \cup {faila, PD} = {faila, PD}
    BY <1>1, <1>6
  <2>3. Holding(raid6_generate_dp(g, faila), d, {} \cup {faila, PD}, Cols \cup {faila, PD})
    BY <1>1, <1>2, <2>1, <2>2, DPHolds
  <2>4. ReadCalc(g) = raid6_generate_dp(g, faila)
    BY <1>6, <2>1 DEF ReadCalc
  <2>5. \A i \in Data : col[i].valid \/ i \in {faila, PD}
    BY <1>1, <1>6, Columns
  <2>6. LocksRight(d, d, {faila, PD})
    BY <1>1, <1>3, <2>1, <2>5, Columns DEF QInUse
  <2> QED
    BY <2>1, <2>2, <2>3, <2>4, <2>6
<1>7. CASE failed = 2 /\ failb = QD
  <2>1. /\ faila = bi.col /\ faila \in Data /\ faila \in 0 .. PD /\ faila # PD /\ PD \notin Failed
        /\ ~ (failb < PD) /\ failb # PD
    BY <1>1, <1>7, Columns
  <2>2. /\ (0 .. PD) \ {faila} \subseteq Cols \ Failed /\ {} \cup {faila} = {faila}
        /\ Cols \cup {faila} = Cols /\ (0 .. PD) \ {faila} \in SUBSET Cols
        /\ Data \subseteq ((0 .. PD) \ {faila}) \cup {faila}
    BY <1>1, <1>7, <2>1, Columns
  <2>3. Loaded(g, (0 .. PD) \ {faila})
    BY <2>2, LoadedSub
  <2> DEFINE h == raid5_generate_d(g, faila)
             K == IF QEnabled THEN {QD} ELSE {}
  <2>4. /\ Holding(h, d, {} \cup {faila}, Cols \cup {faila})
        /\ Loaded(h, ((0 .. PD) \ {faila}) \cup {faila})
    BY <1>1, <1>2, <2>1, <2>2, <2>3, Raid5Holds
  <2>5. ReadCalc(g) = MaybeQ(h)
    BY <1>7, <2>1 DEF ReadCalc, MaybeQ
  <2> HIDE DEF h
  <2>6. Loaded(h, Data)
    BY <2>2, <2>4 DEF Loaded
  <2>7. Holding(MaybeQ(h), d, {faila} \cup K, Cols)
    BY <2>2, <2>4, <2>6, MaybeQHolds
  <2>8. LocksRight(d, d, {faila} \cup K)
    BY <1>3, <2>1, Columns
  <2> QED
    BY <2>1, <2>5, <2>7, <2>8
<1>8. failed = 2 => failb < PD \/ failb = PD \/ failb = QD
  BY <1>1, CodeAssumption DEF Cols, PD, QD
<1> QED
  BY <1>1, <1>4, <1>5, <1>6, <1>7, <1>8

-----------------------------------------------------------------------------
(* Writing. *)

(* The stripe has a write to make.                                          *)
Writing == bi.col \in Data /\ bi.val \in Elem /\ disk[bi.col].active /\ ~ Short(array, bi.col)

(* After copy_write_data() every data column has the new data.              *)
LEMMA CopyAll ==
  ASSUME NEW g, NEW d \in [Data -> Elem], NEW L, NEW V, Holding(g, d, L, V), Data \subseteq V,
         Writing, Loaded(g, (Data \ {bi.col}) \cup TargetIfPartial)
  PROVE  /\ Holding(copy_write_data(g), Written(d), L \cup {bi.col}, Data)
         /\ Loaded(copy_write_data(g), Data) /\ Written(d) \in [Data -> Elem]
<1>1. bi.col \in Data /\ bi.val \in Elem /\ (bi.partial => g.c[bi.col].uptodate)
  BY DEF Writing, TargetIfPartial, Loaded
<1>2. /\ Holding(copy_write_data(g), Written(d), L \cup {bi.col}, Data)
      /\ \A T \in SUBSET Cols : Loaded(g, T) => Loaded(copy_write_data(g), T \cup {bi.col})
  BY <1>1, CopyHolds
<1>3. Loaded(g, Data \ {bi.col}) /\ Data \ {bi.col} \in SUBSET Cols
  BY Columns DEF Loaded
<1>4. Loaded(copy_write_data(g), (Data \ {bi.col}) \cup {bi.col})
  BY <1>2, <1>3
<1>5. (Data \ {bi.col}) \cup {bi.col} = Data
  BY <1>1
<1> QED
  BY <1>1, <1>2, <1>4, <1>5, WrittenData

(* P and Q, whatever of them is in use.                                     *)
LEMMA ParityHolds ==
  ASSUME NEW g, NEW d \in [Data -> Elem], NEW L, Holding(g, d, L, Data), Loaded(g, Data)
  PROVE  /\ Holding(raid6_generate_pq(g), d, L \cup {PD, QD}, Cols)
         /\ Holding(PAndMaybeQ(g), d, L \cup {PD} \cup (IF QEnabled THEN {QD} ELSE {}), Cols)
         /\ Holding(QAndMaybeP(g), d, L \cup {QD} \cup (IF PEnabled THEN {PD} ELSE {}), Cols)
         /\ ~ PEnabled /\ ~ QEnabled => Holding(g, d, L, Cols)
<1>1. Data \cup {PD, QD} = Cols /\ (0 .. PD) \ {PD} = Data /\ PD \in 0 .. PD /\ PD \notin Data /\ QD \notin Data
  BY Columns
<1>2. Holding(raid6_generate_pq(g), d, L \cup {PD, QD}, Cols)
  BY <1>1, PQHolds
<1>3. Holding(PAndMaybeQ(g), d, L \cup {PD} \cup (IF QEnabled THEN {QD} ELSE {}), Cols)
  <2>1. CASE QEnabled
    <3>1. L \cup {PD} \cup (IF QEnabled THEN {QD} ELSE {}) = L \cup {PD, QD}
      BY <2>1
    <3> QED
      BY <2>1, <3>1, <1>2 DEF PAndMaybeQ
  <2>2. CASE ~ QEnabled
    <3> DEFINE h == raid5_generate_d(g, PD)
    <3>1. Holding(h, d, L \cup {PD}, Data \cup {PD})
      BY <1>1, Raid5Holds
    <3>2. PAndMaybeQ(g) = h
      BY <2>2 DEF PAndMaybeQ, raid5_generate_p
    <3> HIDE DEF h
    <3>3. h.c[QD].enabled = col[QD].enabled
      BY <3>1, SameUse
    <3>4. \A i \in Cols \ (Data \cup {PD}) : i \notin Data /\ ~ h.c[i].enabled
      BY <1>1, <2>2, <3>3 DEF QEnabled
    <3>5. Holding(h, d, L \cup {PD}, Cols)
      BY <3>1, <3>4, Unused
    <3> QED
      BY <2>2, <3>2, <3>5
  <2> QED
    BY <2>1, <2>2
<1>4. Holding(QAndMaybeP(g), d, L \cup {QD} \cup (IF PEnabled THEN {PD} ELSE {}), Cols)
  <2>1. CASE PEnabled
    <3>1. L \cup {QD} \cup (IF PEnabled THEN {PD} ELSE {}) = L \cup {PD, QD}
      BY <2>1
    <3> QED
      BY <2>1, <3>1, <1>2 DEF QAndMaybeP
  <2>2. CASE ~ PEnabled
    <3> DEFINE h == raid6_generate_q(g)
    <3>1. Holding(h, d, L \cup {QD}, Data \cup {QD})
      BY <1>1, PQHolds
    <3>2. QAndMaybeP(g) = h
      BY <2>2 DEF QAndMaybeP
    <3> HIDE DEF h
    <3>3. h.c[PD].enabled = col[PD].enabled
      BY <3>1, SameUse
    <3>4. \A i \in Cols \ (Data \cup {QD}) : i \notin Data /\ ~ h.c[i].enabled
      BY <1>1, <2>2, <3>3 DEF PEnabled
    <3>5. Holding(h, d, L \cup {QD}, Cols)
      BY <3>1, <3>4, Unused
    <3> QED
      BY <2>2, <3>2, <3>5
  <2> QED
    BY <2>1, <2>2
<1>5. ASSUME ~ PEnabled, ~ QEnabled PROVE Holding(g, d, L, Cols)
  <2>1. g.c[PD].enabled = col[PD].enabled /\ g.c[QD].enabled = col[QD].enabled
    BY SameUse
  <2>2. \A i \in Cols \ Data : i \notin Data /\ ~ g.c[i].enabled
    BY <1>1, <1>5, <2>1 DEF PEnabled, QEnabled
  <2> QED
    BY <2>2, Unused
<1> QED
  BY <1>2, <1>3, <1>4, <1>5

(* What a write has locked is right to be written back.                     *)
LEMMA WriteLocks ==
  ASSUME NEW d \in [Data -> Elem], NEW L, Writing, bi.col \in L,
         PEnabled => PD \in L, QEnabled <=> QD \in L,
         PD \in L /\ ~ PEnabled => \A i \in Data : col[i].valid \/ i \in L
  PROVE  LocksRight(d, Written(d), L)
<1>1. /\ Written(d) \in [Data -> Elem]
      /\ \A i \in Data \ {bi.col} : Written(d)[i] = d[i]
  BY WrittenData DEF Writing
<1>2. \A i \in Cols \ L : col[i].enabled => Block(Written(d), i) = Block(d, i)
  BY <1>1, Columns, BlockOf DEF PEnabled, QEnabled
<1> QED
  BY <1>1, <1>2 DEF LocksRight, Writing

(* The method chosen, what is lost then, and what it reads first.           *)
LEMMA WriteCases ==
  ASSUME NEW broken, NEW d, Resting(broken, d), Writing, NEW junk
  PROVE  /\ WriteSources(junk) \in SUBSET (Cols \ Failed)
         /\ RmwPQ => PInUse /\ QInUse /\ WriteSources(junk) = {bi.col, PD, QD}
         /\ ~ RmwPQ /\ RmwP(junk) => PInUse /\ ~ QEnabled /\ WriteSources(junk) = {bi.col, PD}
         /\ ~ RmwPQ /\ ~ RmwP(junk) /\ RmwQ(junk) =>
              QInUse /\ ~ PEnabled /\ WriteSources(junk) = {bi.col, QD}
         /\ ~ Rmw(junk) /\ Recon => WriteSources(junk) = ReconSources
         /\ ~ Rmw(junk) /\ ~ Recon => ~ PEnabled /\ ~ QEnabled /\ WriteSources(junk) = TargetIfPartial
<1>1. /\ \/ failed = 0 /\ Failed = {} /\ faila = -1 /\ failb = -1
         \/ failed = 1 /\ faila \in Cols /\ Failed = {faila} /\ failb = -1
         \/ /\ failed = 2 /\ faila \in Cols /\ failb \in Cols /\ faila < failb
            /\ Failed = {faila, failb}
      /\ \A i \in Cols : i \in Failed <=> ~ col[i].valid
      /\ QD \notin Failed => QInUse
      /\ PD \notin Failed /\ (\E i \in Data : i \in Failed) => PInUse
      /\ PD \notin Failed /\ QD \in Failed /\ QEnabled => PInUse
  BY RestingFacts
<1>2. bi.col \in Data /\ (PInUse => PEnabled) /\ (QInUse => QEnabled)
  BY DEF Writing, PInUse, QInUse, PEnabled, QEnabled
<1>3. ParityGood(col) /\ \A i \in Cols : col[i].io = "none"
  BY DEF Resting, ColsGood, NoIO
<1>4. PD \notin Failed /\ ~ PEnabled => Failed \subseteq {QD} /\ (QEnabled => QD \notin Failed)
  BY <1>1, <1>3, Columns DEF ParityGood, PEnabled, QEnabled
<1>5. Failed \subseteq Cols
  BY DEF Failed
<1>6. CASE RmwPQ
  <2>1. WriteSources(junk) = {bi.col, PD, QD}
    BY <1>6 DEF WriteSources, RmwPQ, RmwP, RmwQ, Rmw
  <2>2. Failed \subseteq Data \ {bi.col} /\ PEnabled /\ QEnabled
    BY <1>6 DEF RmwPQ
  <2>3. PInUse /\ QInUse
    BY <1>1, <2>2, Columns DEF PInUse, PEnabled
  <2>4. {bi.col, PD, QD} \in SUBSET (Cols \ Failed)
    BY <1>2, <2>2, Columns
  <2>5. Rmw(junk)
    BY <1>6 DEF Rmw
  <2> QED
    BY <1>6, <2>1, <2>3, <2>4, <2>5
<1>7. CASE ~ RmwPQ /\ RmwP(junk)
  <2>1. WriteSources(junk) = {bi.col, PD}
    BY <1>7 DEF WriteSources, RmwPQ, RmwP, RmwQ, Rmw
  <2>2. /\ PEnabled /\ ~ QEnabled /\ QD \in Failed
        /\ failed = 1 \/ (faila < PD /\ faila # -1 => faila # bi.col)
    BY <1>1, <1>2, <1>7 DEF RmwP, HasWrite
  <2>3. PD \notin Failed /\ bi.col \notin Failed
    <3>1. CASE failed = 1
      BY <1>1, <1>2, <2>2, <3>1, Columns
    <3>2. CASE failed = 2
      <4>1. faila < PD /\ faila # bi.col
        BY <1>1, <1>2, <1>7, <3>2, Columns DEF RmwP, HasWrite
      <4>2. failb = QD /\ faila # PD
        BY <1>1, <2>2, <3>2, <4>1, ColumnOrder
      <4> QED
        BY <1>1, <1>2, <3>2, <4>1, <4>2, Columns
    <3> QED
      BY <1>1, <2>2, <3>1, <3>2
  <2>4. PInUse
    BY <1>1, <2>2, <2>3, Columns DEF PInUse, PEnabled
  <2>5. {bi.col, PD} \in SUBSET (Cols \ Failed) /\ Rmw(junk)
    BY <1>2, <1>7, <2>3, Columns DEF Rmw
  <2> QED
    BY <1>7, <2>1, <2>2, <2>4, <2>5
<1>8. CASE ~ RmwPQ /\ ~ RmwP(junk) /\ RmwQ(junk)
  <2>1. WriteSources(junk) = {bi.col, QD}
    BY <1>8 DEF WriteSources, RmwPQ, RmwP, RmwQ, Rmw
  <2>2. ~ PEnabled /\ QEnabled
    BY <1>8 DEF RmwQ
  <2>3. QD \notin Failed /\ bi.col \notin Failed
    <3>1. CASE PD \notin Failed
      BY <1>1, <1>2, <1>4, <2>2, <3>1, Columns
    <3>2. CASE PD \in Failed /\ failed = 1
      BY <1>1, <1>2, <3>2, Columns
    <3>3. CASE PD \in Failed /\ failed = 2
      <4>1. failb # QD /\ ~ HasWrite(faila, junk)
        BY <1>8, <3>3 DEF RmwQ
      <4>2. faila # PD
        BY <1>1, <3>3, <4>1, CodeAssumption DEF Cols, PD, QD
      <4>3. failb = PD /\ faila # QD
        BY <1>1, <3>3, <4>2, ColumnOrder
      <4>4. faila # bi.col
        BY <1>1, <3>3, <4>1, Columns DEF HasWrite
      <4> QED
        BY <1>1, <1>2, <3>3, <4>3, <4>4, Columns
    <3> QED
      BY <1>1, <3>1, <3>2, <3>3
  <2>4. {bi.col, QD} \in SUBSET (Cols \ Failed) /\ Rmw(junk)
    BY <1>2, <1>8, <2>3, Columns DEF Rmw
  <2> QED
    BY <1>1, <1>8, <2>1, <2>2, <2>3, <2>4
<1>9. CASE ~ Rmw(junk) /\ Recon
  <2>1. WriteSources(junk) = ReconSources /\ ~ RmwPQ /\ ~ RmwP(junk) /\ ~ RmwQ(junk)
    BY <1>9 DEF WriteSources, Rmw
  <2>2. ReconSources \in SUBSET (Cols \ Failed)
    <3>1. CASE Failed \in {{}, {PD}, {QD}}
      <4>1. ReconSources = (Data \ {bi.col}) \cup TargetIfPartial
        <5>1. failed # 2 /\ (failed = 1 => faila = PD \/ faila = QD)
          BY <3>1, <1>1, ColumnOrder
        <5>2. failed = 1 => ~ (faila < PD) /\ faila # bi.col
          BY <1>2, <5>1, ColumnOrder
        <5> QED
          BY <3>1, <5>1, <5>2 DEF ReconSources
      <4>2. TargetIfPartial \subseteq Data /\ Failed \cap Data = {}
        BY <1>2, <3>1, Columns DEF TargetIfPartial
      <4> QED
        BY <4>1, <4>2, Columns
    <3>2. CASE failed = 1 /\ faila < PD
      <4>1. faila \in Data /\ Failed = {faila} /\ Failed \notin {{}, {PD}, {QD}}
        BY <1>1, <3>2, ColumnOrder
      <4>2. CASE faila = bi.col /\ ~ bi.partial
        <5>1. ReconSources = Data \ {faila}
          BY <3>2, <4>1, <4>2 DEF ReconSources
        <5> QED
          BY <4>1, <5>1, Columns
      <4>3. CASE ~ (faila = bi.col /\ ~ bi.partial)
        <5>1. ReconSources = (0 .. PD) \ {faila}
          BY <3>2, <4>1, <4>3 DEF ReconSources
        <5> QED
          BY <4>1, <5>1, Columns
      <4> QED
        BY <4>2, <4>3
    <3>3. CASE failed = 2
      <4>1. Failed \notin {{}, {PD}, {QD}}
        BY <1>1, <3>3, Columns
      <4>2. ReconSources = Cols \ Failed
        BY <3>3, <4>1 DEF ReconSources
      <4> QED
        BY <4>2
    <3>4. failed = 1 => faila < PD \/ Failed \in {{PD}, {QD}}
      BY <1>1, Columns
    <3> QED
      BY <1>1, <3>1, <3>2, <3>3, <3>4
  <2> QED
    BY <1>9, <2>1, <2>2
<1>10. CASE ~ Rmw(junk) /\ ~ Recon
  <2>1. WriteSources(junk) = TargetIfPartial /\ ~ RmwPQ /\ ~ RmwP(junk) /\ ~ RmwQ(junk)
    BY <1>10 DEF WriteSources, Rmw
  <2>2. failed = 2 /\ ~ PEnabled /\ ~ QEnabled
    BY <1>1, <1>10 DEF Recon
  <2>3. PD \in Failed /\ QD \in Failed
    BY <1>1, <1>2, <1>4, <2>2, Columns
  <2>4. bi.col \notin Failed
    BY <1>1, <1>2, <2>2, <2>3, Columns
  <2>5. TargetIfPartial \in SUBSET (Cols \ Failed)
    BY <1>2, <2>4, Columns DEF TargetIfPartial
  <2> QED
    BY <1>10, <2>1, <2>2, <2>5
<1>11. Rmw(junk) <=> RmwPQ \/ RmwP(junk) \/ RmwQ(junk)
  BY DEF Rmw
<1> QED
  BY <1>6, <1>7, <1>8, <1>9, <1>10, <1>11

(* A write reconstructed from what can be read.                             *)
LEMMA ReconHolds ==
  ASSUME NEW broken, NEW d \in [Data -> Elem], Resting(broken, d), Writing, NEW g, Holding(g, d, {}, Cols),
         Loaded(g, ReconSources)
  PROVE  \E L : /\ Holding(ReconWrite(g), Written(d), L, Cols)
                /\ bi.col \in L /\ (PEnabled => PD \in L) /\ (QEnabled <=> QD \in L)
                /\ PD \in L /\ ~ PEnabled => \A i \in Data : col[i].valid \/ i \in L
<1> DEFINE Good(h) ==
      \E L : /\ Holding(h, Written(d), L, Cols)
             /\ bi.col \in L /\ (PEnabled => PD \in L) /\ (QEnabled <=> QD \in L)
             /\ PD \in L /\ ~ PEnabled => \A i \in Data : col[i].valid \/ i \in L
<1> SUFFICES Good(ReconWrite(g))
  OBVIOUS
<1>1. /\ \/ failed = 0 /\ Failed = {} /\ faila = -1 /\ failb = -1
         \/ failed = 1 /\ faila \in Cols /\ Failed = {faila} /\ failb = -1
         \/ /\ failed = 2 /\ faila \in Cols /\ failb \in Cols /\ faila < failb
            /\ Failed = {faila, failb}
      /\ \A i \in Cols : i \in Failed <=> ~ col[i].valid
      /\ QD \notin Failed => QInUse
      /\ PD \notin Failed /\ (\E i \in Data : i \in Failed) => PInUse
      /\ PD \notin Failed /\ QD \in Failed /\ QEnabled => PInUse
  BY RestingFacts
<1>2. bi.col \in Data /\ (PInUse => PEnabled) /\ (QInUse => QEnabled)
  BY DEF Writing, PInUse, QInUse, PEnabled, QEnabled
<1>3. (PInUse => PUsed(g)) /\ (QInUse => QUsed(g))
  BY SameUse
<1> DEFINE R == (Data \ {bi.col}) \cup TargetIfPartial
           QL == IF QEnabled THEN {QD} ELSE {}
           PL == IF PEnabled THEN {PD} ELSE {}
(* After the blocks of L have been restored, and the rest read.             *)
<1>4. ASSUME NEW h, NEW L, Holding(h, d, L, Cols), Loaded(h, R), L \subseteq Data \cup {PD}
      PROVE  /\ Holding(raid6_generate_pq(copy_write_data(h)), Written(d), (L \cup {bi.col}) \cup {PD, QD}, Cols)
             /\ Holding(PAndMaybeQ(copy_write_data(h)), Written(d), (L \cup {bi.col}) \cup {PD} \cup QL, Cols)
             /\ Holding(QAndMaybeP(copy_write_data(h)), Written(d), (L \cup {bi.col}) \cup {QD} \cup PL, Cols)
  <2> DEFINE k == copy_write_data(h)
             M == L \cup {bi.col}
  <2>1. Data \subseteq Cols
    BY Columns
  <2>2. Holding(k, Written(d), M, Data) /\ Loaded(k, Data) /\ Written(d) \in [Data -> Elem]
    BY <1>4, <2>1, CopyAll
  <2> HIDE DEF k, M
  <2>3. /\ Holding(raid6_generate_pq(k), Written(d), M \cup {PD, QD}, Cols)
        /\ Holding(PAndMaybeQ(k), Written(d), M \cup {PD} \cup QL, Cols)
        /\ Holding(QAndMaybeP(k), Written(d), M \cup {QD} \cup PL, Cols)
    BY <2>2, ParityHolds
  <2> QED
    BY <2>3 DEF k, M
<1>5. ASSUME NEW L, NEW h, L \subseteq Data \cup {PD},
             QEnabled, PEnabled \/ \A i \in Data : col[i].valid \/ i \in L,
             Holding(h, Written(d), (L \cup {bi.col}) \cup {PD, QD}, Cols)
      PROVE  Good(h)
  BY <1>5, <1>2
<1>6. ASSUME NEW L, NEW h, L \subseteq Data \cup {PD},
             PEnabled \/ \A i \in Data : col[i].valid \/ i \in L,
             Holding(h, Written(d), (L \cup {bi.col}) \cup {PD} \cup QL, Cols)
      PROVE  Good(h)
  <2> DEFINE K == (L \cup {bi.col}) \cup {PD} \cup QL
  <2>1. bi.col \in K /\ PD \in K /\ (QEnabled <=> QD \in K) /\ L \subseteq K
    BY <1>2, <1>6, ColumnOrder
  <2> HIDE DEF K
  <2> QED
    BY <1>6, <2>1 DEF K
<1>7. ASSUME NEW L, NEW h, L \subseteq Data \cup {PD}, QEnabled,
             \A i \in Data : col[i].valid \/ i \in L,
             Holding(h, Written(d), (L \cup {bi.col}) \cup {QD} \cup PL, Cols)
      PROVE  Good(h)
  <2> DEFINE K == (L \cup {bi.col}) \cup {QD} \cup PL
  <2>1. bi.col \in K /\ QD \in K /\ (PEnabled => PD \in K) /\ L \subseteq K
    BY <1>2, <1>7, ColumnOrder
  <2> HIDE DEF K
  <2> QED
    BY <1>7, <2>1 DEF K
<1>8. /\ {} \subseteq Data \cup {PD} /\ {} \cup {bi.col} = {bi.col}
      /\ Holding(g, d, {}, Cols)
  OBVIOUS
<1> HIDE DEF Good, QL, PL
<1>10. CASE failed = 0
  <2>1. ReconSources = R
    BY <1>10, <1>1 DEF ReconSources
  <2>2. Holding(raid6_generate_pq(copy_write_data(g)), Written(d), ({} \cup {bi.col}) \cup {PD, QD}, Cols)
    BY <1>4, <2>1
  <2>3. QEnabled /\ \A i \in Data : col[i].valid
    BY <1>1, <1>2, <1>10, Columns
  <2>4. ReconWrite(g) = raid6_generate_pq(copy_write_data(g))
    BY <1>10 DEF ReconWrite
  <2> QED
    BY <1>5, <2>2, <2>3, <2>4
<1>11. CASE failed = 1 /\ faila >= PD
  <2>1. /\ Failed \in {{PD}, {QD}} /\ faila \notin Data /\ faila # bi.col /\ ~ (faila < PD)
        /\ failed # 2 /\ failed # 0
    BY <1>1, <1>2, <1>11, ColumnOrder
  <2>2. ReconSources = R
    BY <1>11, <2>1 DEF ReconSources
  <2>3. Holding(PAndMaybeQ(copy_write_data(g)), Written(d), ({} \cup {bi.col}) \cup {PD} \cup QL, Cols)
    BY <1>4, <2>2
  <2>4. \A i \in Data : col[i].valid
    BY <1>1, <2>1, Columns
  <2>5. ReconWrite(g) = PAndMaybeQ(copy_write_data(g))
    BY <1>2, <1>11, <2>1 DEF ReconWrite
  <2> QED
    BY <1>6, <2>3, <2>4, <2>5
<1>12. CASE failed = 1 /\ faila = bi.col /\ ~ bi.partial
  <2>1. PInUse /\ QInUse /\ faila < PD /\ faila \in Data /\ ~ (faila >= PD) /\ Failed \notin {{}, {PD}, {QD}}
    BY <1>1, <1>2, <1>12, ColumnOrder
  <2>2. ReconSources = Data \ {faila} /\ R = Data \ {faila}
    BY <1>12, <2>1 DEF ReconSources, TargetIfPartial
  <2>3. Holding(raid6_generate_pq(copy_write_data(g)), Written(d), ({} \cup {bi.col}) \cup {PD, QD}, Cols)
    BY <1>4, <2>2
  <2>4. ReconWrite(g) = raid6_generate_pq(copy_write_data(g))
    BY <1>12, <2>1 DEF ReconWrite
  <2> QED
    BY <1>2, <1>5, <2>1, <2>3, <2>4
<1>13. CASE failed = 1 /\ faila < PD /\ (faila # bi.col \/ bi.partial)
  <2>1. /\ PInUse /\ QInUse /\ faila \in Data /\ ~ (faila >= PD) /\ Failed \notin {{}, {PD}, {QD}}
        /\ faila \in 0 .. PD
    BY <1>1, <1>2, <1>13, ColumnOrder, Columns
  <2>2. ReconSources = (0 .. PD) \ {faila}
    BY <1>13, <2>1 DEF ReconSources
  <2> DEFINE h == raid5_generate_d(g, faila)
  <2>3. /\ Holding(h, d, {} \cup {faila}, Cols \cup {faila})
        /\ Loaded(h, ((0 .. PD) \ {faila}) \cup {faila})
    <3>1. (0 .. PD) \ {faila} \in SUBSET Cols
      BY Columns
    <3> QED
      BY <1>3, <2>1, <2>2, <3>1, Raid5Holds
  <2>4. ReconWrite(g) = raid6_generate_pq(copy_write_data(h))
    BY <1>13, <2>1 DEF ReconWrite
  <2> HIDE DEF h
  <2>5. /\ Cols \cup {faila} = Cols /\ R \subseteq ((0 .. PD) \ {faila}) \cup {faila}
        /\ {faila} \subseteq Data \cup {PD} /\ {} \cup {faila} = {faila}
    BY <1>2, <2>1, Columns DEF TargetIfPartial
  <2>6. Loaded(h, R)
    BY <2>3, <2>5 DEF Loaded
  <2>7. Holding(raid6_generate_pq(copy_write_data(h)), Written(d), ({faila} \cup {bi.col}) \cup {PD, QD}, Cols)
    BY <1>4, <2>3, <2>5, <2>6
  <2> QED
    BY <1>2, <1>5, <2>1, <2>4, <2>5, <2>7
<1>14. CASE failed = 2 /\ failb < PD
  <2>1. /\ PInUse /\ QInUse /\ faila \in Data /\ failb \in Data /\ faila # failb
        /\ failb # PD /\ failb # QD /\ faila # PD /\ Failed \notin {{}, {PD}, {QD}}
    BY <1>1, <1>2, <1>14, ColumnOrder
  <2>2. ReconSources = Cols \ {faila, failb}
    BY <1>1, <1>14, <2>1 DEF ReconSources
  <2> DEFINE h == raid6_generate_dd(g, faila, failb)
  <2>3. /\ Holding(h, d, {} \cup {faila, failb}, Cols \cup {faila, failb})
        /\ Loaded(h, (Cols \ {faila, failb}) \cup {faila, failb})
    BY <1>3, <2>1, <2>2, DDHolds
  <2>4. ReconWrite(g) = raid6_generate_pq(copy_write_data(h))
    BY <1>14, <2>1 DEF ReconWrite
  <2> HIDE DEF h
  <2>5. /\ Cols \cup {faila, failb} = Cols /\ R \subseteq (Cols \ {faila, failb}) \cup {faila, failb}
        /\ {faila, failb} \subseteq Data \cup {PD} /\ {} \cup {faila, failb} = {faila, failb}
    BY <1>2, <2>1, Columns DEF TargetIfPartial
  <2>6. Loaded(h, R)
    BY <2>3, <2>5 DEF Loaded
  <2>7. Holding(raid6_generate_pq(copy_write_data(h)), Written(d),
                ({faila, failb} \cup {bi.col}) \cup {PD, QD}, Cols)
    BY <1>4, <2>3, <2>5, <2>6
  <2> QED
    BY <1>2, <1>5, <2>1, <2>4, <2>5, <2>7
<1>15. CASE failed = 2 /\ failb = PD
  <2>1. /\ QInUse /\ faila \in Data /\ faila < PD /\ ~ (failb < PD) /\ faila # PD
        /\ Failed \notin {{}, {PD}, {QD}} /\ PD # QD
    BY <1>1, <1>2, <1>15, ColumnOrder
  <2>2. ReconSources = Cols \ {faila, PD}
    BY <1>1, <1>15, <2>1 DEF ReconSources
  <2> DEFINE h == raid6_generate_dp(g, faila)
  <2>3. /\ Holding(h, d, {} \cup {faila, PD}, Cols \cup {faila, PD})
        /\ Loaded(h, (Cols \ {faila, PD}) \cup {faila, PD})
    BY <1>3, <2>1, <2>2, DPHolds
  <2>4. ReconWrite(g) = QAndMaybeP(copy_write_data(h))
    BY <1>15, <2>1 DEF ReconWrite
  <2> HIDE DEF h
  <2>5. /\ Cols \cup {faila, PD} = Cols /\ R \subseteq (Cols \ {faila, PD}) \cup {faila, PD}
        /\ {faila, PD} \subseteq Data \cup {PD} /\ {} \cup {faila, PD} = {faila, PD}
    BY <1>2, <2>1, Columns DEF TargetIfPartial
  <2>6. Loaded(h, R)
    BY <2>3, <2>5 DEF Loaded
  <2>7. Holding(QAndMaybeP(copy_write_data(h)), Written(d),
                ({faila, PD} \cup {bi.col}) \cup {QD} \cup PL, Cols)
    BY <1>4, <2>3, <2>5, <2>6
  <2>8. \A i \in Data : col[i].valid \/ i \in {faila, PD}
    BY <1>1, <1>15, Columns
  <2> QED
    BY <1>2, <1>7, <2>1, <2>4, <2>5, <2>7, <2>8
<1>16. CASE failed = 2 /\ failb = QD /\ faila < PD
  <2>1. /\ PInUse /\ faila \in Data /\ ~ (failb < PD) /\ failb # PD /\ faila # PD
        /\ Failed \notin {{}, {PD}, {QD}} /\ faila \in 0 .. PD
    BY <1>1, <1>2, <1>16, ColumnOrder, Columns
  <2>2. ReconSources = Cols \ {faila, QD}
    BY <1>1, <1>16, <2>1 DEF ReconSources
  <2> DEFINE h == raid5_generate_d(g, faila)
  <2>3. /\ Holding(h, d, {} \cup {faila}, Cols \cup {faila})
        /\ Loaded(h, ((0 .. PD) \ {faila}) \cup {faila})
    <3>1. (0 .. PD) \ {faila} \in SUBSET Cols /\ (0 .. PD) \ {faila} \subseteq Cols \ {faila, QD}
      BY Columns
    <3>2. Loaded(g, (0 .. PD) \ {faila})
      BY <2>2, <3>1 DEF Loaded
    <3> QED
      BY <1>3, <2>1, <3>1, <3>2, Raid5Holds
  <2>4. ReconWrite(g) = PAndMaybeQ(copy_write_data(h))
    BY <1>16, <2>1 DEF ReconWrite
  <2> HIDE DEF h
  <2>5. /\ Cols \cup {faila} = Cols /\ R \subseteq ((0 .. PD) \ {faila}) \cup {faila}
        /\ {faila} \subseteq Data \cup {PD} /\ {} \cup {faila} = {faila}
    BY <1>2, <2>1, Columns DEF TargetIfPartial
  <2>6. Loaded(h, R)
    BY <2>3, <2>5 DEF Loaded
  <2>7. Holding(PAndMaybeQ(copy_write_data(h)), Written(d), ({faila} \cup {bi.col}) \cup {PD} \cup QL, Cols)
    BY <1>4, <2>3, <2>5, <2>6
  <2> QED
    BY <1>2, <1>6, <2>1, <2>4, <2>5, <2>7
<1>17. CASE failed = 2 /\ faila = PD
  <2>1. /\ failb = QD /\ ~ (failb < PD) /\ failb # PD /\ ~ (faila < PD)
        /\ Failed \notin {{}, {PD}, {QD}}
    BY <1>1, <1>17, ColumnOrder
  <2>2. ReconSources = Data
    BY <1>1, <1>17, <2>1, Columns DEF ReconSources
  <2>3. Loaded(g, R)
    BY <1>2, <2>2 DEF Loaded, TargetIfPartial
  <2>4. Holding(PAndMaybeQ(copy_write_data(g)), Written(d), ({} \cup {bi.col}) \cup {PD} \cup QL, Cols)
    BY <1>4, <2>3
  <2>5. \A i \in Data : col[i].valid
    BY <1>1, <1>17, <2>1, Columns
  <2>6. ReconWrite(g) = PAndMaybeQ(copy_write_data(g))
    BY <1>17, <2>1 DEF ReconWrite
  <2> QED
    BY <1>6, <2>4, <2>5, <2>6
<1>18. /\ failed = 1 => \/ faila >= PD \/ (faila = bi.col /\ ~ bi.partial)
                        \/ (faila < PD /\ (faila # bi.col \/ bi.partial))
       /\ failed = 2 => \/ failb < PD \/ failb = PD \/ (failb = QD /\ faila < PD)
                        \/ faila = PD
  BY <1>1, ColumnOrder
<1> QED
  BY <1>1, <1>10, <1>11, <1>12, <1>13, <1>14, <1>15, <1>16, <1>17, <1>18

(* Any write.                                                               *)
LEMMA WriteHolds ==
  ASSUME NEW broken, NEW d \in [Data -> Elem], Resting(broken, d), Writing, NEW g, NEW junk,
         Holding(g, d, {}, Cols), Loaded(g, WriteSources(junk))
  PROVE  /\ Written(d) \in [Data -> Elem]
         /\ \E L : /\ Holding(WriteCalc(g, junk), Written(d), L, Cols)
                   /\ LocksRight(d, Written(d), L) /\ bi.col \in L
                   /\ PEnabled => PD \in L
                   /\ QEnabled => QD \in L
<1>1. /\ RmwPQ => PInUse /\ QInUse /\ WriteSources(junk) = {bi.col, PD, QD}
      /\ ~ RmwPQ /\ RmwP(junk) => PInUse /\ ~ QEnabled /\ WriteSources(junk) = {bi.col, PD}
      /\ ~ RmwPQ /\ ~ RmwP(junk) /\ RmwQ(junk) =>
           QInUse /\ ~ PEnabled /\ WriteSources(junk) = {bi.col, QD}
      /\ ~ Rmw(junk) /\ Recon => WriteSources(junk) = ReconSources
      /\ ~ Rmw(junk) /\ ~ Recon => ~ PEnabled /\ ~ QEnabled /\ WriteSources(junk) = TargetIfPartial
  BY WriteCases
<1>2. bi.col \in Data /\ bi.val \in Elem /\ (PInUse => PEnabled) /\ (QInUse => QEnabled)
  BY DEF Writing, PInUse, QInUse, PEnabled, QEnabled
<1>3. /\ PInUse => PUsed(g)
      /\ QInUse => QUsed(g)
      /\ g.c[PD].enabled = PEnabled /\ g.c[QD].enabled = QEnabled
  BY SameUse DEF PEnabled, QEnabled
<1>4. Written(d) \in [Data -> Elem]
  BY <1>2, WrittenData
<1>5. CASE RmwPQ
  <2>1. Loaded(g, {bi.col, PD, QD}) /\ {} \cup {bi.col, PD, QD} = {bi.col, PD, QD}
    BY <1>1, <1>5
  <2>2. Holding(rmw6_write_data(g, TRUE), Written(d), {bi.col, PD, QD}, Cols)
    BY <1>1, <1>2, <1>3, <1>5, <2>1, Rmw6Holds
  <2>3. LocksRight(d, Written(d), {bi.col, PD, QD})
    BY <1>1, <1>2, <1>5, WriteLocks
  <2>4. WriteCalc(g, junk) = rmw6_write_data(g, TRUE)
    BY <1>5 DEF WriteCalc, RmwPQ, RmwP, RmwQ, Rmw
  <2> QED
    <3> DEFINE L == {bi.col, PD, QD}
    <3>1. bi.col \in L /\ PD \in L /\ QD \in L
      OBVIOUS
    <3> HIDE DEF L
    <3> QED
      BY <1>4, <2>2, <2>3, <2>4, <3>1 DEF L
<1>6. CASE ~ RmwPQ /\ RmwP(junk)
  <2>1. Loaded(g, {bi.col, PD}) /\ {} \cup {bi.col, PD} = {bi.col, PD}
    BY <1>1, <1>6
  <2>2. Holding(rmw5_write_data(g), Written(d), {bi.col, PD}, Cols)
    BY <1>1, <1>2, <1>3, <1>6, <2>1, Rmw5Holds
  <2>3. LocksRight(d, Written(d), {bi.col, PD})
    BY <1>1, <1>2, <1>6, WriteLocks, ColumnOrder
  <2>4. WriteCalc(g, junk) = rmw5_write_data(g)
    BY <1>6 DEF WriteCalc, RmwPQ, RmwP, RmwQ, Rmw
  <2> QED
    BY <1>1, <1>4, <1>6, <2>2, <2>3, <2>4
<1>7. CASE ~ RmwPQ /\ ~ RmwP(junk) /\ RmwQ(junk)
  <2>1. Loaded(g, {bi.col, QD}) /\ {} \cup {bi.col, QD} = {bi.col, QD}
    BY <1>1, <1>7
  <2>2. Holding(rmw6_write_data(g, FALSE), Written(d), {bi.col, QD}, Cols)
    BY <1>1, <1>2, <1>3, <1>7, <2>1, RmwNoPHolds
  <2>3. LocksRight(d, Written(d), {bi.col, QD})
    BY <1>1, <1>2, <1>7, WriteLocks, ColumnOrder
  <2>4. WriteCalc(g, junk) = rmw6_write_data(g, FALSE)
    BY <1>7 DEF WriteCalc, RmwPQ, RmwP, RmwQ, Rmw
  <2> QED
    BY <1>1, <1>4, <1>7, <2>2, <2>3, <2>4
<1>8. CASE ~ Rmw(junk) /\ Recon
  <2>1. Loaded(g, ReconSources)
    BY <1>1, <1>8
  <2>2. PICK L : /\ Holding(ReconWrite(g), Written(d), L, Cols)
                 /\ bi.col \in L /\ (PEnabled => PD \in L) /\ (QEnabled <=> QD \in L)
                 /\ PD \in L /\ ~ PEnabled => \A i \in Data : col[i].valid \/ i \in L
    BY <2>1, ReconHolds
  <2>3. LocksRight(d, Written(d), L)
    BY <2>2, WriteLocks
  <2>4. WriteCalc(g, junk) = ReconWrite(g)
    BY <1>8 DEF WriteCalc, Rmw
  <2> QED
    BY <1>4, <2>2, <2>3, <2>4
<1>9. CASE ~ Rmw(junk) /\ ~ Recon
  <2>1. bi.partial => g.c[bi.col].uptodate
    BY <1>1, <1>9 DEF TargetIfPartial, Loaded
  <2>2. Data \subseteq Cols /\ {} \cup {bi.col} = {bi.col}
    BY Columns
  <2>3. Holding(copy_write_data(g), Written(d), {bi.col}, Data)
    BY <1>2, <2>1, <2>2, CopyHolds
  <2> DEFINE h == copy_write_data(g)
  <2> HIDE DEF h
  <2>4. h.c[PD].enabled = PEnabled /\ h.c[QD].enabled = QEnabled
    BY <2>3, SameUse DEF PEnabled, QEnabled, h
  <2>5. \A i \in Cols \ Data : i \notin Data /\ ~ h.c[i].enabled
    BY <1>1, <1>9, <2>4, Columns
  <2>6. Holding(h, Written(d), {bi.col}, Cols)
    BY <2>3, <2>5, Unused DEF h
  <2>7. LocksRight(d, Written(d), {bi.col})
    BY <1>1, <1>2, <1>9, WriteLocks, ColumnOrder
  <2>8. WriteCalc(g, junk) = h
    BY <1>9 DEF WriteCalc, Rmw, h
  <2> QED
    BY <1>1, <1>4, <1>9, <2>6, <2>7, <2>8
<1>10. Rmw(junk) <=> RmwPQ \/ RmwP(junk) \/ RmwQ(junk)
  BY DEF Rmw
<1> QED
  BY <1>5, <1>6, <1>7, <1>8, <1>9, <1>10

-----------------------------------------------------------------------------
(* Checking, and rebuilding. *)

(* A calculation has no other fields.                                       *)
IsCalc(g) == g = [c |-> g.c, lock |-> g.lock, ok |-> g.ok]

(* check_parity() keeps the buffers right, and finds no error when the      *)
(* parity it looks at is in use.                                            *)
LEMMA CheckHolds ==
  ASSUME NEW broken, NEW d \in [Data -> Elem], Resting(broken, d), NEW g, NEW fail, NEW recover \in BOOLEAN,
         Holding(g, d, {}, Cols), Loaded(g, Cols \ Failed), Failed \subseteq {fail},
         fail \in Cols => fail \in Failed, IsCalc(g)
  PROVE  \E L : /\ Holding(check_parity(g, fail, recover).g, d, L, Cols) /\ LocksRight(d, d, L)
                /\ check_parity(g, fail, recover).bad => PD \notin Failed /\ ~ PEnabled
<1>1. /\ \A i \in Cols : i \in Failed <=> ~ col[i].valid
      /\ QD \notin Failed => QInUse
      /\ PD \notin Failed /\ (\E i \in Data : i \in Failed) => PInUse
      /\ PD \notin Failed /\ QD \in Failed /\ QEnabled => PInUse
  BY RestingFacts
<1>2. (PInUse => PUsed(g)) /\ (QInUse => QUsed(g)) /\ (PInUse => PEnabled) /\ (QInUse => QEnabled)
  BY SameUse DEF PInUse, QInUse, PEnabled, QEnabled
<1> DEFINE H == IF fail \in Data THEN {fail} ELSE {}
           h == IF fail \in Data THEN raid5_generate_d(g, fail) ELSE g
           skipP == fail \in Data \/ fail = PD
           p == PValue(DataOf(h))
           q == QValue(DataOf(h))
           badP == ~ skipP /\ h.c[PD].buf # p
           badQ == fail # QD /\ h.c[QD].buf # q
           fix == (IF badP THEN {PD} ELSE {}) \cup (IF badQ THEN {QD} ELSE {})
           ok == h.ok /\ \A i \in Cols \ {fail} : g.c[i].uptodate
           x == IF fail = QD
                THEN [h.c[PD] EXCEPT !.uptodate = FALSE, !.buf = (@ - p) % Order]
                ELSE [h.c[PD] EXCEPT !.uptodate = TRUE]
           k == [h EXCEPT !.ok = ok, !.c[PD] = x]
           new == [i \in fix |-> IF i = PD THEN p ELSE q]
           r == IF recover /\ fix # {} THEN Put(k, new, fix, {}) ELSE k
<1>3. check_parity(g, fail, recover) = [g |-> r, bad |-> fix # {}]
  BY DEF check_parity
<1>4. Holding(h, d, H, Cols) /\ Loaded(h, Data) /\ Loaded(h, Cols \ Failed) /\ H \subseteq Data
  <2>1. CASE fail \in Data
    <3>1. /\ fail \in 0 .. PD /\ fail # PD /\ PD \notin Failed /\ (0 .. PD) \ {fail} \subseteq Cols \ Failed
          /\ Cols \cup {fail} = Cols /\ (0 .. PD) \ {fail} \in SUBSET Cols
          /\ Data \subseteq ((0 .. PD) \ {fail}) \cup {fail} /\ {} \cup {fail} = {fail} /\ fail \in Failed
      BY <2>1, Columns
    <3>2. Loaded(g, (0 .. PD) \ {fail}) /\ PUsed(g)
      BY <1>1, <1>2, <2>1, <3>1 DEF Loaded
    <3>3. /\ Holding(raid5_generate_d(g, fail), d, {} \cup {fail}, Cols \cup {fail})
          /\ \A T \in SUBSET Cols : Loaded(g, T) => Loaded(raid5_generate_d(g, fail), T \cup {fail})
      BY <3>1, <3>2, Raid5Holds
    <3>4. /\ Loaded(raid5_generate_d(g, fail), ((0 .. PD) \ {fail}) \cup {fail})
          /\ Loaded(raid5_generate_d(g, fail), (Cols \ Failed) \cup {fail})
      BY <3>1, <3>2, <3>3
    <3> DEFINE m == raid5_generate_d(g, fail)
    <3>5. h = m /\ H = {fail}
      BY <2>1
    <3> HIDE DEF m, h, H
    <3>6. Loaded(m, Data) /\ Loaded(m, Cols \ Failed)
      BY <3>1, <3>4 DEF Loaded, m
    <3> QED
      BY <2>1, <3>1, <3>3, <3>5, <3>6 DEF m
  <2>2. CASE fail \notin Data
    <3>1. Data \subseteq Cols \ Failed
      BY <2>2, Columns
    <3> QED
      BY <2>2, <3>1 DEF Loaded
  <2> QED
    BY <2>1, <2>2
<1> HIDE DEF H, h
<1>5. DataOf(h) = d
  <2>1. \A i \in Data : Known(h, i)
    BY <1>4 DEF Known, Loaded
  <2>2. Has(h, d, Data)
    BY <1>4, <2>1, Columns, HoldingHas
  <2> QED
    BY <2>2, DataRead
<1>6. p = PValue(d) /\ q = QValue(d) /\ p \in Elem /\ q \in Elem
  BY <1>5, ParityType
<1> HIDE DEF p, q
<1>7. ~ badQ
  <2> SUFFICES ASSUME fail # QD PROVE h.c[QD].buf = q
    OBVIOUS
  <2>1. QD \in Cols \ Failed /\ QInUse
    BY <1>1, Columns
  <2>2. QUsed(h) /\ h.c[QD].uptodate
    BY <1>4, <2>1, SameUse DEF Loaded
  <2>3. Known(h, QD)
    BY <2>2 DEF Known, QUsed
  <2> QED
    BY <1>4, <1>6, <2>1, <2>3, BlockOf DEF Holding
<1>8. badP => PD \notin Failed /\ ~ PEnabled /\ (\A i \in Data : i \notin Failed)
  <2> SUFFICES ASSUME badP PROVE ~ PEnabled
    BY Columns
  <2>1. PD \in Cols \ Failed
    BY Columns
  <2>2. SUFFICES ASSUME PEnabled PROVE h.c[PD].buf = p
    OBVIOUS
  <2>3. PInUse
    BY <1>1, <2>1, <2>2 DEF PInUse, PEnabled
  <2>4. PUsed(h) /\ h.c[PD].uptodate
    BY <1>4, <2>1, <2>3, SameUse DEF Loaded
  <2>5. Known(h, PD)
    BY <2>4 DEF Known, PUsed
  <2> QED
    BY <1>4, <1>6, <2>1, <2>5, BlockOf DEF Holding
<1>9. fix = IF badP THEN {PD} ELSE {}
  BY <1>7
<1> HIDE DEF badP, badQ
<1>10. ok = TRUE
  BY <1>4 DEF Loaded, Holding, Sound
<1>11. Holding(k, d, H, Cols)
  <2>1. /\ h.c \in [Cols -> ColState] /\ h.lock = H /\ H \subseteq Cols
        /\ \A i \in Cols : Kept(h.c[i], col[i], i)
        /\ \A i \in Cols : Known(h, i) => h.c[i].buf = Block(d, i)
        /\ \A i \in H : h.c[i].uptodate
    BY <1>4 DEF Holding
  <2>2. h.c[PD] \in ColState /\ PD \in Cols
    BY <2>1, Columns
  <2>3. (h.c[PD].buf - p) % Order \in Elem
    <3>1. h.c[PD].buf \in Elem
      BY <2>2 DEF ColState
    <3>2. h.c[PD].buf - p \in Int
      BY <1>6, <3>1 DEF Elem
    <3> QED
      BY <3>2, ModRange
  <2>4. /\ x \in ColState /\ x.valid = h.c[PD].valid /\ x.enabled = h.c[PD].enabled
        /\ x.active = h.c[PD].active /\ x.io = h.c[PD].io
        /\ x.uptodate <=> fail # QD
        /\ fail # QD => x.buf = h.c[PD].buf
    BY <2>2, <2>3 DEF ColState
  <2>5. IsCalc(h)
    <3>1. IsCalc(raid5_generate_d(g, fail))
      BY DEF raid5_generate_d, Put, IsCalc
    <3> QED
      BY <3>1 DEF h
  <2> HIDE DEF x, ok
  <2>6. k = [c |-> [h.c EXCEPT ![PD] = x], lock |-> h.lock, ok |-> ok]
    <3>1. PICK C, M, O : h = [c |-> C, lock |-> M, ok |-> O]
      BY <2>5 DEF IsCalc
    <3> DEFINE e == [h EXCEPT !.ok = ok]
               D == [e.c EXCEPT ![PD] = x]
    <3>2. k = [e EXCEPT !.c = D]
      OBVIOUS
    <3>3. e = [c |-> C, lock |-> M, ok |-> ok] /\ h.c = C /\ h.lock = M
      BY <3>1
    <3> HIDE DEF e
    <3>4. D = [h.c EXCEPT ![PD] = x]
      BY <3>3
    <3> HIDE DEF D, k
    <3>5. [e EXCEPT !.c = D] = [c |-> D, lock |-> M, ok |-> ok]
      BY <3>3
    <3> QED
      BY <3>2, <3>3, <3>4, <3>5
  <2> HIDE DEF k
  <2>7. /\ k.lock = H /\ Sound(k) /\ k.c \in [Cols -> ColState]
        /\ k.c[PD] = x /\ \A i \in Cols \ {PD} : k.c[i] = h.c[i]
    BY <1>10, <2>1, <2>2, <2>4, <2>6 DEF Sound
  <2>8. \A i \in Cols : Kept(k.c[i], col[i], i)
    BY <2>1, <2>2, <2>4, <2>7 DEF Kept
  <2>9. PD \notin H
    BY <1>4, Columns
  <2>10. \A i \in H : k.c[i].uptodate
    BY <2>1, <2>7, <2>9
  <2>11. ASSUME NEW i \in Cols, Known(k, i) PROVE k.c[i].buf = Block(d, i)
    <3>1. CASE i # PD
      <4>1. Known(h, i)
        BY <2>1, <2>7, <2>11, <3>1 DEF Known
      <4> QED
        BY <2>1, <2>7, <3>1, <4>1
    <3>2. CASE i = PD
      <4>1. /\ fail # QD /\ h.c[PD].enabled /\ h.c[PD].valid /\ k.c[PD].buf = h.c[PD].buf
            /\ col[PD].valid
        BY <2>1, <2>2, <2>4, <2>7, <2>9, <2>11, <3>2, Columns DEF Known, Kept
      <4>2. h.c[PD].uptodate
        BY <1>1, <1>4, <4>1, Columns DEF Loaded
      <4>3. Known(h, PD)
        BY <4>1, <4>2 DEF Known
      <4> QED
        BY <2>1, <3>2, <4>1, <4>3, Columns
    <3> QED
      BY <3>1, <3>2
  <2> QED
    BY <2>1, <2>7, <2>8, <2>10, <2>11 DEF Holding
<1> HIDE DEF k
<1>12. \E L : Holding(r, d, L, Cols) /\ LocksRight(d, d, L)
  <2>1. CASE ~ (recover /\ fix # {})
    <3>1. LocksRight(d, d, H)
      BY <1>4, Columns DEF LocksRight
    <3> QED
      BY <1>11, <2>1, <3>1
  <2>2. CASE recover /\ fix # {}
    <3>1. fix = {PD} /\ badP
      BY <1>9, <2>2
    <3> HIDE DEF fix
    <3>2. Gives(new, d, fix) /\ Loaded(k, {}) /\ Sound(k)
      BY <1>6, <1>11, <3>1, BlockOf DEF Gives, Loaded, Holding
    <3> HIDE DEF new
    <3>3. r = Fill(k, d, fix, fix)
      BY <2>2, <3>2, PutFills
    <3>4. fix \in SUBSET Cols /\ fix \in SUBSET fix
      BY <3>1, Columns
    <3>5. Holding(Fill(k, d, fix, fix), d, H \cup fix, Cols \cup fix)
      BY <1>11, <3>4, FillHolds
    <3>6. Cols \cup fix = Cols
      BY <3>4
    <3>7. LocksRight(d, d, H \cup fix)
      BY <1>1, <1>2, <1>4, <1>8, <3>1, Columns DEF LocksRight
    <3> QED
      BY <3>3, <3>5, <3>6, <3>7
  <2> QED
    BY <2>1, <2>2
<1>13. fix # {} => PD \notin Failed /\ ~ PEnabled
  BY <1>8, <1>9
<1> HIDE DEF r, fix
<1> DEFINE bad == fix # {}
<1> HIDE DEF bad
<1>14. /\ check_parity(g, fail, recover).g = r
       /\ check_parity(g, fail, recover).bad = bad
  BY <1>3 DEF bad
<1>15. check_parity(g, fail, recover).bad => fix # {}
  BY <1>14, Zenon DEF bad
<1> QED
  BY <1>12, <1>13, <1>14, <1>15

(* What a sync computes holds the data, with every failed column that has   *)
(* a disk locked; an error is only found when P is called valid but not in  *)
(* use.                                                                     *)
LEMMA SyncHolds ==
  ASSUME NEW broken, NEW d \in [Data -> Elem], Resting(broken, d), NEW g, NEW recover \in BOOLEAN,
         Holding(g, d, {}, Cols), Loaded(g, Cols \ Failed), IsCalc(g)
  PROVE  \E L : /\ Holding(SyncCalc(g, recover).g, d, L, Cols) /\ LocksRight(d, d, L)
                /\ \A i \in Failed : col[i].enabled => i \in L
                /\ SyncCalc(g, recover).bad => PD \notin Failed /\ ~ PEnabled
<1>1. /\ \/ failed = 0 /\ Failed = {} /\ faila = -1 /\ failb = -1
         \/ failed = 1 /\ faila \in Cols /\ Failed = {faila} /\ failb = -1
         \/ /\ failed = 2 /\ faila \in Cols /\ failb \in Cols /\ faila < failb
            /\ Failed = {faila, failb}
      /\ \A i \in Cols : i \in Failed <=> ~ col[i].valid
      /\ QD \notin Failed => QInUse
      /\ PD \notin Failed /\ (\E i \in Data : i \in Failed) => PInUse
  BY RestingFacts
<1>2. (PInUse => PUsed(g)) /\ (QInUse => QUsed(g)) /\ (PInUse => PEnabled) /\ (QInUse => QEnabled)
  BY SameUse DEF PInUse, QInUse, PEnabled, QEnabled
<1>3. CASE failed = 0 \/ (failed = 1 /\ ~ col[faila].enabled)
  <2>1. Failed \subseteq {faila} /\ (faila \in Cols => faila \in Failed)
    BY <1>1, <1>3, Columns
  <2>2. PICK L : /\ Holding(check_parity(g, faila, recover).g, d, L, Cols) /\ LocksRight(d, d, L)
                 /\ check_parity(g, faila, recover).bad => PD \notin Failed /\ ~ PEnabled
    BY <2>1, CheckHolds
  <2>3. SyncCalc(g, recover) = check_parity(g, faila, recover)
    BY <1>3 DEF SyncCalc
  <2>4. \A i \in Failed : ~ col[i].enabled
    BY <1>1, <1>3
  <2> QED
    BY <2>2, <2>3, <2>4
<1> DEFINE b == CASE failed = 1 /\ faila <= PD -> raid5_generate_d(g, faila)
                  [] failed = 1 /\ faila = QD -> raid6_generate_q(g)
                  [] failed = 2 /\ faila = PD ->
                       IF PEnabled THEN PAndMaybeQ(g) ELSE MaybeQ(g)
                  [] failed = 2 /\ failb = PD -> raid6_generate_dp(g, faila)
                  [] failed = 2 /\ faila < PD /\ failb = QD -> MaybeQ(raid5_generate_d(g, faila))
                  [] failed = 2 /\ failb < PD -> raid6_generate_dd(g, faila, failb)
           Good(h) == \E L : /\ Holding(h, d, L, Cols) /\ LocksRight(d, d, L)
                             /\ \A i \in Failed : col[i].enabled => i \in L
<1>4. ASSUME NEW h, NEW L, Holding(h, d, L, Cols), QD \in L => QEnabled,
             PD \in L /\ ~ PEnabled => /\ \A i \in Data : col[i].valid \/ i \in L
                                       /\ QEnabled => col[QD].valid \/ QD \in L,
             \A i \in Failed : col[i].enabled => i \in L
      PROVE  Good(h)
  BY <1>4 DEF LocksRight
<1> HIDE DEF Good
<1>5. ASSUME ~ (failed = 0 \/ (failed = 1 /\ ~ col[faila].enabled)) /\ failed = 1 /\ faila <= PD PROVE Good(b)
  <2>1. /\ (0 .. PD) \ {faila} \subseteq Cols \ Failed /\ {} \cup {faila} = {faila}
        /\ Cols \cup {faila} = Cols /\ faila \in 0 .. PD /\ col[faila].enabled
        /\ faila = PD \/ faila \in Data
        /\ faila # QD
    BY <1>1, <1>5, Columns, ColumnOrder
  <2>2. Loaded(g, (0 .. PD) \ {faila}) /\ (faila # PD => PUsed(g))
    BY <1>1, <1>2, <1>5, <2>1, Columns DEF Loaded
  <2>3. Holding(raid5_generate_d(g, faila), d, {} \cup {faila}, Cols \cup {faila})
    BY <2>1, <2>2, Raid5Holds
  <2>4. b = raid5_generate_d(g, faila)
    BY <1>5, <2>1
  <2>5. PD = faila => PEnabled
    BY <2>1 DEF PEnabled
  <2>6. Good(raid5_generate_d(g, faila))
    <3>1. PD \in {faila} => PEnabled
      BY <2>5
    <3>2. QD \notin {faila} /\ \A i \in Failed : i \in {faila}
      BY <1>1, <1>5, <2>1
    <3>3. Holding(raid5_generate_d(g, faila), d, {faila}, Cols)
      BY <2>1, <2>3
    <3> QED
      BY <1>4, <3>1, <3>2, <3>3
  <2> QED
    BY <2>4, <2>6
<1>6. ASSUME ~ (failed = 0 \/ (failed = 1 /\ ~ col[faila].enabled)) /\ failed = 1 /\ faila = QD PROVE Good(b)
  <2>1. /\ Data \subseteq Cols \ Failed /\ {} \cup {QD} = {QD} /\ Cols \cup {QD} = Cols /\ QEnabled
        /\ ~ (faila <= PD) /\ Data \subseteq Cols
    BY <1>1, <1>6, Columns, ColumnOrder DEF QEnabled
  <2>2. Loaded(g, Data)
    BY <2>1 DEF Loaded
  <2>3. Holding(raid6_generate_q(g), d, {} \cup {QD}, Cols \cup {QD})
    BY <2>1, <2>2, PQHolds
  <2>4. b = raid6_generate_q(g)
    BY <1>6, <2>1
  <2>5. Good(raid6_generate_q(g))
    <3>1. PD \notin {QD} /\ \A i \in Failed : i \in {QD}
      BY <1>1, <1>6, Columns
    <3>2. Holding(raid6_generate_q(g), d, {QD}, Cols)
      BY <2>1, <2>3
    <3> QED
      BY <1>4, <2>1, <3>1, <3>2
  <2> QED
    BY <2>4, <2>5
<1>7. ASSUME failed = 2 /\ faila = PD PROVE Good(b)
  <2>1. /\ failb = QD /\ Data \subseteq Cols \ Failed /\ Data \subseteq Cols /\ PD # QD
        /\ \A i \in Data : col[i].valid
        /\ failb # PD /\ ~ (failb < PD) /\ ~ (faila < PD)
    BY <1>1, <1>7, Columns, ColumnOrder
  <2>2. Loaded(g, Data)
    BY <2>1 DEF Loaded
  <2> DEFINE K == IF QEnabled THEN {QD} ELSE {}
  <2>3. CASE PEnabled
    <3>1. Holding(g, d, {}, Data)
      BY <2>1, Narrow
    <3>2. Holding(PAndMaybeQ(g), d, {} \cup {PD} \cup K, Cols)
      BY <2>2, <3>1, ParityHolds
    <3>3. b = PAndMaybeQ(g)
      BY <1>7, <2>1, <2>3
    <3> HIDE DEF b
    <3>4. \A i \in Failed : col[i].enabled => i \in {} \cup {PD} \cup K
      BY <1>1, <1>7, <2>1 DEF QEnabled
    <3>5. QD \in {} \cup {PD} \cup K => QEnabled
      BY <2>1
    <3>6. Good(PAndMaybeQ(g))
      BY <1>4, <2>3, <3>2, <3>4, <3>5
    <3> QED
      BY <3>3, <3>6
  <2>4. CASE ~ PEnabled
    <3>1. Holding(MaybeQ(g), d, {} \cup K, Cols)
      BY <2>2, MaybeQHolds
    <3>3. b = MaybeQ(g)
      BY <1>7, <2>1, <2>4
    <3> HIDE DEF b
    <3>4. \A i \in Failed : col[i].enabled => i \in {} \cup K
      BY <1>1, <1>7, <2>1, <2>4 DEF QEnabled, PEnabled
    <3>5. (QD \in {} \cup K => QEnabled) /\ PD \notin {} \cup K
      BY <2>1
    <3>6. Good(MaybeQ(g))
      BY <1>4, <3>1, <3>4, <3>5
    <3> QED
      BY <3>3, <3>6
  <2> QED
    BY <2>3, <2>4
<1>8. ASSUME failed = 2 /\ failb = PD PROVE Good(b)
  <2>1. /\ faila # PD /\ faila \in Data /\ QD \notin Failed /\ Cols \ {faila, PD} = Cols \ Failed
        /\ Cols \cup {faila, PD} = Cols /\ {} \cup {faila, PD} = {faila, PD} /\ PD # QD
        /\ \A i \in Data : col[i].valid \/ i \in {faila, PD}
        /\ ~ (failb < PD) /\ failb # QD
    BY <1>1, <1>8, Columns, ColumnOrder
  <2>2. Holding(raid6_generate_dp(g, faila), d, {} \cup {faila, PD}, Cols \cup {faila, PD})
    BY <1>1, <1>2, <2>1, DPHolds
  <2>3. b = raid6_generate_dp(g, faila)
    BY <1>8, <2>1
  <2>4. col[QD].valid /\ QD \notin {faila, PD}
    BY <1>1, <2>1, Columns
  <2>5. \A i \in Failed : i \in {faila, PD}
    BY <1>1, <1>8
  <2>6. Good(raid6_generate_dp(g, faila))
    BY <1>4, <2>1, <2>2, <2>4, <2>5
  <2> QED
    BY <2>3, <2>6
<1>9. ASSUME failed = 2 /\ failb = QD /\ faila < PD PROVE Good(b)
  <2>1. /\ faila \in Data /\ faila \in 0 .. PD /\ faila # PD /\ PD \notin Failed /\ failb # PD
        /\ (0 .. PD) \ {faila} \subseteq Cols \ Failed /\ {} \cup {faila} = {faila}
        /\ Cols \cup {faila} = Cols /\ (0 .. PD) \ {faila} \in SUBSET Cols
        /\ Data \subseteq ((0 .. PD) \ {faila}) \cup {faila} /\ ~ (failb < PD)
        /\ faila \in Failed
    BY <1>1, <1>9, Columns, ColumnOrder
  <2>2. Loaded(g, (0 .. PD) \ {faila}) /\ PUsed(g)
    BY <1>1, <1>2, <2>1 DEF Loaded
  <2> DEFINE h == raid5_generate_d(g, faila)
             K == IF QEnabled THEN {QD} ELSE {}
  <2>3. b = MaybeQ(h)
    BY <1>9, <2>1
  <2>4. /\ Holding(h, d, {} \cup {faila}, Cols \cup {faila})
        /\ Loaded(h, ((0 .. PD) \ {faila}) \cup {faila})
    BY <2>1, <2>2, Raid5Holds
  <2> HIDE DEF h, b
  <2>5. Loaded(h, Data)
    BY <2>1, <2>4 DEF Loaded
  <2>6. Holding(MaybeQ(h), d, {faila} \cup K, Cols)
    BY <2>1, <2>4, <2>5, MaybeQHolds
  <2>7. (QD \in {faila} \cup K => QEnabled) /\ PD \notin {faila} \cup K
    BY <2>1, ColumnOrder
  <2>8. \A i \in Failed : col[i].enabled => i \in {faila} \cup K
    BY <1>1, <1>9, <2>1 DEF QEnabled
  <2>9. Good(MaybeQ(h))
    BY <1>4, <2>6, <2>7, <2>8
  <2> QED
    BY <2>3, <2>9
<1>10. ASSUME failed = 2 /\ failb < PD PROVE Good(b)
  <2>1. /\ faila \in Data /\ failb \in Data /\ faila # failb /\ PD \notin Failed /\ QD \notin Failed
        /\ failb # PD /\ failb # QD /\ faila # PD
        /\ Cols \ {faila, failb} = Cols \ Failed /\ Cols \cup {faila, failb} = Cols
        /\ {} \cup {faila, failb} = {faila, failb}
    BY <1>1, <1>10, ColumnOrder
  <2>2. Holding(raid6_generate_dd(g, faila, failb), d, {} \cup {faila, failb}, Cols \cup {faila, failb})
    BY <1>1, <1>2, <2>1, DDHolds
  <2>3. b = raid6_generate_dd(g, faila, failb)
    BY <1>10, <2>1
  <2>4. PD \notin {faila, failb} /\ QD \notin {faila, failb} /\ \A i \in Failed : i \in {faila, failb}
    BY <1>1, <1>10, <2>1, ColumnOrder
  <2>5. Good(raid6_generate_dd(g, faila, failb))
    BY <1>4, <2>2, <2>1, <2>4
  <2> QED
    BY <2>3, <2>5
<1>11. CASE ~ (failed = 0 \/ (failed = 1 /\ ~ col[faila].enabled))
  <2>1. SyncCalc(g, recover) = [bad |-> FALSE, g |-> b]
    BY <1>11 DEF SyncCalc, MaybeQ
  <2>2. \/ failed = 1 /\ faila <= PD
        \/ failed = 1 /\ faila = QD
        \/ failed = 2 /\ faila = PD
        \/ failed = 2 /\ failb = PD
        \/ failed = 2 /\ failb = QD /\ faila < PD
        \/ failed = 2 /\ failb < PD
    BY <1>1, <1>11, ColumnOrder
  <2> HIDE DEF b
  <2>3. Good(b)
    BY <1>5, <1>6, <1>7, <1>8, <1>9, <1>10, <1>11, <2>2
  <2>4. SyncCalc(g, recover).g = b /\ SyncCalc(g, recover).bad = FALSE
    BY <2>1
  <2>5. ~ SyncCalc(g, recover).bad
    BY <2>4
  <2> QED
    BY <2>3, <2>4, <2>5 DEF Good
<1> QED
  BY <1>3, <1>11
=============================================================================
