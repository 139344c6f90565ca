---------------------------- MODULE Raid6Proofs ----------------------------
(***************************************************************************)
(* What raid6_select_algo() ends with, and that whatever happens to a      *)
(* stripe its disks hold the data and the code of it: for any number of    *)
(* columns, any size and content of a block, any routines the selection    *)
(* may end with and any two disks missing.                                 *)
(*                                                                         *)
(* The argument goes up in five steps.  The selection names the routines   *)
(* (SelectionInv).  Every routine works byte by byte, and what it makes of *)
(* a byte is the field's product (Bytes and registers, The field, Sums).   *)
(* So gen_syndrome() is the code, xor_syndrome() the difference of two     *)
(* codes, and the recoveries solve for what is missing (GenEncodes,        *)
(* XorMoves, TwoRebuilt, OneRebuilt).  So each operation of handle_stripe()*)
(* makes the columns it locks fit the data (Makes, Moves), also when it    *)
(* runs several one after the other (Updates, Checks).  So every step of   *)
(* the stripe keeps RowInv, which says that the disks fit the data.        *)
(*                                                                         *)
(* Recursions over numbers are functions here; what they need is proved    *)
(* by induction over the numbers up to a bound.                            *)
(***************************************************************************)
EXTENDS Raid6, WellFoundedInduction, SequenceTheorems, FiniteSetTheorems, TLAPS

(* Induction up to a bound, the property given as the set of those that     *)
(* have it.                                                                 *)
LEMMA UpTo ==
  ASSUME NEW n \in Nat, NEW Good, 0 \in Good,
         \A k \in 1..n : k - 1 \in Good => k \in Good
  PROVE  0..n \subseteq Good
<1> DEFINE Rest == (0..n) \ Good
<1> SUFFICES ASSUME Rest # {} PROVE FALSE
  OBVIOUS
<1>1. Rest \subseteq Nat
  OBVIOUS
<1>2. PICK m \in Rest : \A k \in Rest : ~ (<<k, m>> \in OpToRel(<, Nat))
  <2> HIDE DEF Rest
  <2> QED
    BY <1>1, NatLessThanWellFounded, WFMin
<1>3. m \in 1..n /\ m \notin Good /\ m - 1 \in 0..n
  OBVIOUS
<1>4. m - 1 \in Good
  <2>1. <<m - 1, m>> \in OpToRel(<, Nat)
    BY <1>3 DEF OpToRel
  <2> QED
    BY <1>2, <1>3, <2>1
<1> QED
  BY <1>3, <1>4

(* A recursion over the numbers up to a bound defines a function.           *)
Recurs(f, n, V, base, step) ==
  /\ f \in [0..n -> V] /\ f[0] = base
  /\ \A k \in 1..n : f[k] = step[<<k, f[k - 1]>>]

(* There is a function that follows the recursion.                          *)
LEMMA Recursion ==
  ASSUME NEW n \in Nat, NEW V, NEW base \in V, NEW step \in [(1..n) \X V -> V]
  PROVE  \E f : Recurs(f, n, V, base, step)
<1> DEFINE Fits(f, m) == Recurs(f, m, V, base, step)
           Good == {m \in 0..n : \E f : Fits(f, m)}
<1>1. 0 \in Good
  <2>1. Fits([i \in 0..0 |-> base], 0)
    BY DEF Recurs
  <2> HIDE DEF Fits
  <2> QED
    BY <2>1
<1>2. ASSUME NEW m \in 1..n, m - 1 \in Good PROVE m \in Good
  <2>1. PICK f : Fits(f, m - 1)
    BY <1>2
  <2> DEFINE g == [i \in 0..m |-> IF i = m THEN step[<<m, f[m - 1]>>] ELSE f[i]]
  <2>2. f[m - 1] \in V /\ step[<<m, f[m - 1]>>] \in V
    BY <2>1 DEF Recurs
  <2>3. g \in [0..m -> V] /\ g[0] = base
    BY <2>1, <2>2 DEF Recurs
  <2>4. ASSUME NEW k \in 1..m PROVE g[k] = step[<<k, g[k - 1]>>]
    <3>1. k - 1 \in 0..m /\ k - 1 # m /\ g[k - 1] = f[k - 1]
      OBVIOUS
    <3>2. CASE k = m
      BY <3>1, <3>2
    <3>3. CASE k # m
      <4>1. k \in 1..m - 1 /\ g[k] = f[k]
        BY <3>3
      <4> QED
        BY <2>1, <3>1, <4>1 DEF Recurs
    <3> QED
      BY <3>2, <3>3
  <2>5. Fits(g, m)
    BY <2>3, <2>4 DEF Recurs
  <2> HIDE DEF Fits, g
  <2> QED
    BY <2>5
<1>3. n \in Good
  <2> HIDE DEF Good
  <2>1. 0..n \subseteq Good
    BY <1>1, <1>2, UpTo
  <2> QED
    BY <2>1
<1> QED
  BY <1>3

-----------------------------------------------------------------------------
(* The lists of algorithms. Those with the highest priority come first, and *)
(* the portable ones, which every processor runs, come last.                *)
XorNames == {"sse2x1", "sse2x2", "sse2x4", "avx2x1", "avx2x2", "avx2x4", "avx512x1", "avx512x2",
             "avx512x4", "lsx", "lasx", "vx128x8", "intx1", "intx2", "intx4", "intx8",
             "neonx1", "neonx2", "neonx4", "neonx8"}
GenNames == XorNames \cup
            {"mmxx1", "mmxx2", "sse1x1", "sse1x2", "altivecx1", "altivecx2", "altivecx4",
             "altivecx8", "vpermxor1", "vpermxor2", "vpermxor4", "vpermxor8"}

Needed == {"any", "mmx", "mmxext", "sse2", "avx2", "avx512", "vpermxor", "altivec", "vx", "neon",
           "lasx", "lsx"}

Algorithm == {c \in [name : GenNames, valid : Needed, priority : Nat, xor : BOOLEAN] :
                c.xor => c.name \in XorNames}

(* A list whose priorities fall from hi to lo.                              *)
Falls(list, hi, lo) ==
  /\ list \in Seq(Algorithm)
  /\ \A i \in 1..Len(list) : list[i].priority \in lo..hi
  /\ \A i, j \in 1..Len(list) : i <= j => list[i].priority >= list[j].priority

(* Two falling lists, one after the other, fall.                            *)
LEMMA FallsOn ==
  ASSUME NEW s, NEW t, NEW hi \in Nat, NEW mid \in Nat, NEW lo \in Nat, lo <= mid, mid <= hi,
         Falls(s, hi, mid), Falls(t, mid, lo)
  PROVE  Falls(s \o t, hi, lo)
<1> DEFINE u == s \o t
<1>1. /\ u \in Seq(Algorithm) /\ Len(u) = Len(s) + Len(t) /\ Len(s) \in Nat /\ Len(t) \in Nat
      /\ \A i \in 1..Len(u) : u[i] = IF i <= Len(s) THEN s[i] ELSE t[i - Len(s)]
  BY DEF Falls
<1> HIDE DEF u
<1>2. ASSUME NEW i \in 1..Len(u)
      PROVE  \/ i \in 1..Len(s) /\ u[i] = s[i] /\ u[i].priority \in mid..hi
             \/ i - Len(s) \in 1..Len(t) /\ u[i] = t[i - Len(s)] /\ u[i].priority \in lo..mid
  BY <1>1 DEF Falls
<1>3. \A i \in 1..Len(u) : u[i].priority \in lo..hi
  BY <1>2
<1>4. ASSUME NEW i \in 1..Len(u), NEW j \in 1..Len(u), i <= j
      PROVE  u[i].priority >= u[j].priority
  <2>1. CASE j <= Len(s)
    <3>1. i \in 1..Len(s) /\ j \in 1..Len(s) /\ u[i] = s[i] /\ u[j] = s[j]
      BY <1>1, <1>4, <2>1
    <3> QED
      BY <1>4, <3>1 DEF Falls
  <2>2. CASE i > Len(s)
    <3>1. /\ i - Len(s) \in 1..Len(t) /\ j - Len(s) \in 1..Len(t)
          /\ u[i] = t[i - Len(s)] /\ u[j] = t[j - Len(s)] /\ i - Len(s) <= j - Len(s)
      BY <1>1, <1>4, <2>2
    <3> QED
      BY <3>1 DEF Falls
  <2>3. CASE i <= Len(s) /\ j > Len(s)
    <3>1. i \in 1..Len(s) /\ u[i] = s[i] /\ j - Len(s) \in 1..Len(t) /\ u[j] = t[j - Len(s)]
      BY <1>1, <2>3
    <3>2. s[i].priority \in mid..hi /\ t[j - Len(s)].priority \in lo..mid
      BY <3>1 DEF Falls
    <3> QED
      BY <3>1, <3>2
  <2> QED
    BY <1>1, <2>1, <2>2, <2>3
<1> QED
  BY <1>1, <1>3, <1>4 DEF Falls, u

(* Lists of equal priority, given as tuples.                                *)
LEMMA FallsLevel ==
  ASSUME NEW p \in Nat, NEW list \in Seq(Algorithm),
         \A i \in 1..Len(list) : list[i].priority = p
  PROVE  Falls(list, p, p)
  BY DEF Falls

(* An entry of the list with an xor_syndrome().                             *)
LEMMA XorCalls ==
  ASSUME NEW n \in XorNames, NEW v \in Needed, NEW p \in Nat
  PROVE  LET c == Calls(n, v, p, TRUE)
         IN  c \in Algorithm /\ c.priority = p /\ c.valid = v /\ c.xor
  BY DEF Calls, Algorithm, GenNames

(* An entry of the list without one.                                        *)
LEMMA GenCalls ==
  ASSUME NEW n \in GenNames, NEW v \in Needed, NEW p \in Nat
  PROVE  LET c == Calls(n, v, p, FALSE)
         IN  c \in Algorithm /\ c.priority = p
  BY DEF Calls, Algorithm

(* The four portable routines, the last of which runs anywhere.             *)
LEMMA PortableFalls ==
  /\ Falls(Portable, 0, 0)
  /\ Len(Portable) = 4 /\ Portable[4].valid = "any" /\ Portable[4].xor
<1> DEFINE a == Calls("intx8", "any", 0, TRUE)
           b == Calls("intx4", "any", 0, TRUE)
           c == Calls("intx2", "any", 0, TRUE)
           d == Calls("intx1", "any", 0, TRUE)
<1>1. /\ a \in Algorithm /\ b \in Algorithm /\ c \in Algorithm /\ d \in Algorithm
      /\ a.priority = 0 /\ b.priority = 0 /\ c.priority = 0 /\ d.priority = 0
      /\ d.valid = "any" /\ d.xor
  <2>1. {"intx8", "intx4", "intx2", "intx1"} \subseteq XorNames /\ "any" \in Needed
    BY DEF XorNames, Needed
  <2>2. ASSUME NEW n \in XorNames
        PROVE  /\ Calls(n, "any", 0, TRUE) \in Algorithm /\ Calls(n, "any", 0, TRUE).priority = 0
               /\ Calls(n, "any", 0, TRUE).valid = "any" /\ Calls(n, "any", 0, TRUE).xor
    BY <2>1 DEF Calls, Algorithm, GenNames
  <2> HIDE DEF XorNames, Needed
  <2> QED
    BY <2>1, <2>2
<1>2. Portable = <<a, b, c, d>>
  BY DEF Portable
<1> HIDE DEF a, b, c, d
<1>3. <<a, b, c, d>> \in Seq(Algorithm) /\ Len(<<a, b, c, d>>) = 4
  BY <1>1
<1>4. \A i \in 1..4 : <<a, b, c, d>>[i].priority = 0
  BY <1>1
<1> QED
  BY <1>1, <1>2, <1>3, <1>4, FallsLevel

(* Two entries of the same priority.                                        *)
LEMMA PairFalls ==
  ASSUME NEW p \in Nat, NEW a \in Algorithm, NEW b \in Algorithm,
         a.priority = p, b.priority = p
  PROVE  Falls(<<a, b>>, p, p)
<1>1. <<a, b>> \in Seq(Algorithm) /\ \A i \in 1..2 : <<a, b>>[i].priority = p
  OBVIOUS
<1> QED
  BY <1>1, FallsLevel

(* The groups of vector routines that the lists are put together from.      *)
LEMMA SimdFalls ==
  /\ Falls(Avx512, 2, 2) /\ Falls(Avx2, 2, 2) /\ Falls(Sse2, 1, 1)
  /\ Falls(<<Calls("avx512x4", "avx512", 2, TRUE)>>, 2, 2)
  /\ Falls(<<Calls("avx2x4", "avx2", 2, TRUE)>>, 2, 2)
  /\ Falls(<<Calls("sse2x4", "sse2", 1, TRUE)>>, 1, 1)
  /\ Falls(<<Calls("vx128x8", "vx", 1, TRUE)>>, 1, 1)
  /\ Falls(<<Calls("lasx", "lasx", 0, TRUE), Calls("lsx", "lsx", 0, TRUE)>>, 0, 0)
<1>2. ASSUME NEW p \in Nat, NEW a \in Algorithm, a.priority = p PROVE Falls(<<a>>, p, p)
  <2>1. <<a>> \in Seq(Algorithm) /\ \A i \in 1..1 : <<a>>[i].priority = p
    BY <1>2
  <2> QED
    BY <2>1, FallsLevel
<1>3. /\ {"avx512x4", "avx512x2", "avx512x1", "avx2x4", "avx2x2", "avx2x1", "sse2x4", "sse2x2", "sse2x1",
          "vx128x8", "lasx", "lsx"} \subseteq XorNames
      /\ {"avx512", "avx2", "sse2", "vx", "lasx", "lsx"} \subseteq Needed
  BY DEF XorNames, Needed
<1>4. ASSUME NEW n \in XorNames, NEW v \in Needed, NEW p \in Nat
      PROVE  Falls(<<Calls(n, v, p, TRUE)>>, p, p)
  <2> DEFINE c == Calls(n, v, p, TRUE)
  <2>1. c \in Algorithm /\ c.priority = p
    BY XorCalls
  <2> HIDE DEF c
  <2>2. Falls(<<c>>, p, p)
    BY <1>2, <2>1
  <2> QED
    BY <2>2 DEF c
<1>5. ASSUME NEW n \in XorNames, NEW m \in XorNames, NEW v \in Needed, NEW w \in Needed, NEW p \in Nat
      PROVE  Falls(<<Calls(n, v, p, TRUE), Calls(m, w, p, TRUE)>>, p, p)
  <2> DEFINE c == Calls(n, v, p, TRUE)
             d == Calls(m, w, p, TRUE)
  <2>1. c \in Algorithm /\ c.priority = p /\ d \in Algorithm /\ d.priority = p
    BY XorCalls
  <2> HIDE DEF c, d
  <2>2. Falls(<<c, d>>, p, p)
    BY <2>1, PairFalls
  <2> QED
    BY <2>2 DEF c, d
<1> HIDE DEF XorNames
<1>6. Falls(Avx512, 2, 2)
  BY <1>3, <1>5 DEF Avx512
<1>7. Falls(Avx2, 2, 2)
  BY <1>3, <1>5 DEF Avx2
<1>8. Falls(Sse2, 1, 1)
  BY <1>3, <1>5 DEF Sse2
<1>9. Falls(<<Calls("lasx", "lasx", 0, TRUE), Calls("lsx", "lsx", 0, TRUE)>>, 0, 0)
  BY <1>3, <1>5
<1>10. /\ Falls(<<Calls("avx512x4", "avx512", 2, TRUE)>>, 2, 2)
       /\ Falls(<<Calls("avx2x4", "avx2", 2, TRUE)>>, 2, 2)
       /\ Falls(<<Calls("sse2x4", "sse2", 1, TRUE)>>, 1, 1)
       /\ Falls(<<Calls("vx128x8", "vx", 1, TRUE)>>, 1, 1)
  BY <1>3, <1>4
<1> QED
  BY <1>6, <1>7, <1>8, <1>9, <1>10

(* Four routines of a kind, none with an xor_syndrome, or all with one.     *)
LEMMA QuadFalls ==
  ASSUME NEW names \in [1..4 -> GenNames], NEW v \in Needed, NEW xor \in BOOLEAN,
         xor => \A k \in 1..4 : names[k] \in XorNames
  PROVE  Falls([k \in 1..4 |-> Calls(names[k], v, 0, xor)], 0, 0)
<1> DEFINE list == [k \in 1..4 |-> Calls(names[k], v, 0, xor)]
<1>1. \A k \in 1..4 : Calls(names[k], v, 0, xor) \in Algorithm /\ Calls(names[k], v, 0, xor).priority = 0
  BY DEF Calls, Algorithm
<1>2. list \in [1..4 -> Algorithm] /\ \A i \in 1..4 : list[i].priority = 0
  BY <1>1
<1>3. list \in Seq(Algorithm) /\ Len(list) = 4
  <2> HIDE DEF list
  <2>1. Seq(Algorithm) = UNION {[1..n -> Algorithm] : n \in Nat}
    BY SeqDef
  <2>2. list \in Seq(Algorithm)
    BY <1>2, <2>1
  <2> QED
    BY <1>2, <2>2
<1> QED
  BY <1>2, <1>3, FallsLevel

(* Each list ends with the portable routines.                               *)
EndsPortable(list) ==
  \E n \in 1..Len(list) : list[n].valid = "any" /\ list[n].xor

(* A list stays in order with the portable routines at its end.             *)
LEMMA PortableEnds ==
  ASSUME NEW s, Falls(s, 2, 0)
  PROVE  Falls(s \o Portable, 2, 0) /\ EndsPortable(s \o Portable)
<1>1. Falls(s \o Portable, 2, 0)
  BY PortableFalls, FallsOn
<1>2. /\ s \in Seq(Algorithm) /\ Portable \in Seq(Algorithm) /\ Len(Portable) = 4
      /\ Portable[4].valid = "any" /\ Portable[4].xor
  BY PortableFalls DEF Falls
<1>3. Len(s) + 4 \in 1..Len(s \o Portable) /\ (s \o Portable)[Len(s) + 4] = Portable[4]
  <2>1. Len(s) \in Nat /\ Len(s \o Portable) = Len(s) + 4
    <3>1. Len(s) \in Nat
      BY <1>2, LenProperties
    <3>2. Len(s \o Portable) = Len(s) + Len(Portable)
      <4> DEFINE p == Portable
      <4>1. s \in Seq(Algorithm) /\ p \in Seq(Algorithm)
        BY <1>2
      <4> HIDE DEF p
      <4>2. Len(s \o p) = Len(s) + Len(p)
        BY <4>1, ConcatProperties
      <4> QED
        BY <4>2 DEF p
    <3> QED
      BY <1>2, <3>1, <3>2
  <2>2. \A i \in 1..Len(s) + 4 : (s \o Portable)[i] = IF i <= Len(s) THEN s[i] ELSE Portable[i - Len(s)]
    BY <1>2, <2>1, ConcatProperties
  <2> QED
    BY <2>1, <2>2
<1> QED
  BY <1>1, <1>2, <1>3 DEF EndsPortable

(* The bounds of a falling list may be widened.                             *)
LEMMA FallsWider ==
  ASSUME NEW s, NEW hi \in Nat, NEW lo \in Nat, Falls(s, hi, lo), NEW top \in Nat, hi <= top, NEW low \in Nat, low <= lo
  PROVE  Falls(s, top, low)
  BY DEF Falls

(* What raid6_select_algo() finds in the list of any architecture.          *)
LEMMA AlgorithmLists ==
  ASSUME NEW arch \in Architectures
  PROVE  Falls(raid6_algos(arch), 2, 0) /\ EndsPortable(raid6_algos(arch))
<1> DEFINE sse1x2 == Calls("sse1x2", "mmxext", 1, FALSE)
           sse1x1 == Calls("sse1x1", "mmxext", 1, FALSE)
           mmxx2 == Calls("mmxx2", "mmx", 0, FALSE)
           mmxx1 == Calls("mmxx1", "mmx", 0, FALSE)
           avx512x4 == <<Calls("avx512x4", "avx512", 2, TRUE)>>
           avx2x4 == <<Calls("avx2x4", "avx2", 2, TRUE)>>
           sse2x4 == <<Calls("sse2x4", "sse2", 1, TRUE)>>
           vx128x8 == <<Calls("vx128x8", "vx", 1, TRUE)>>
           lasx == <<Calls("lasx", "lasx", 0, TRUE), Calls("lsx", "lsx", 0, TRUE)>>
           vperm == [k \in 1..4 |-> Calls(<<"vpermxor8", "vpermxor4", "vpermxor2", "vpermxor1">>[k],
                                          "vpermxor", 0, FALSE)]
           altivec == [k \in 1..4 |-> Calls(<<"altivecx8", "altivecx4", "altivecx2", "altivecx1">>[k],
                                            "altivec", 0, FALSE)]
           neon == [k \in 1..4 |-> Calls(<<"neonx8", "neonx4", "neonx2", "neonx1">>[k], "neon", 0, TRUE)]
<1>1. CASE arch = "i386"
  <2>1. /\ sse1x2 \in Algorithm /\ sse1x1 \in Algorithm /\ mmxx2 \in Algorithm /\ mmxx1 \in Algorithm
        /\ sse1x2.priority = 1 /\ sse1x1.priority = 1 /\ mmxx2.priority = 0 /\ mmxx1.priority = 0
    <3>1. {"sse1x2", "sse1x1", "mmxx2", "mmxx1"} \subseteq GenNames /\ {"mmxext", "mmx"} \subseteq Needed
      BY DEF GenNames, Needed
    <3>2. ASSUME NEW n \in GenNames, NEW v \in Needed, NEW p \in Nat
          PROVE  Calls(n, v, p, FALSE) \in Algorithm /\ Calls(n, v, p, FALSE).priority = p
      BY GenCalls
    <3> QED
      BY <3>1, <3>2
  <2> HIDE DEF sse1x2, sse1x1, mmxx2, mmxx1
  <2>2. Falls(<<sse1x2, sse1x1, mmxx2, mmxx1>>, 1, 0)
    BY <2>1 DEF Falls
  <2>3. Falls(Avx512 \o Avx2, 2, 2)
    BY SimdFalls, FallsOn
  <2>4. Falls((Avx512 \o Avx2) \o Sse2, 2, 1)
    <3>1. Falls(Sse2, 2, 1)
      BY SimdFalls, FallsWider
    <3> QED
      BY <2>3, <3>1, FallsOn
  <2>5. Falls(((Avx512 \o Avx2) \o Sse2) \o <<sse1x2, sse1x1, mmxx2, mmxx1>>, 2, 0)
    BY <2>2, <2>4, FallsOn
  <2>6. raid6_algos(arch) = (((Avx512 \o Avx2) \o Sse2) \o <<sse1x2, sse1x1, mmxx2, mmxx1>>) \o Portable
    BY <1>1 DEF raid6_algos, sse1x2, sse1x1, mmxx2, mmxx1
  <2> QED
    BY <2>5, <2>6, PortableEnds
<1>2. CASE arch = "x86_64"
  <2>0. Falls(avx512x4, 2, 2) /\ Falls(avx2x4, 2, 2) /\ Falls(sse2x4, 1, 1)
    BY SimdFalls
  <2> HIDE DEF avx512x4, avx2x4, sse2x4
  <2>1. Falls(avx512x4 \o Avx512, 2, 2)
    BY <2>0, SimdFalls, FallsOn
  <2>2. Falls((avx512x4 \o Avx512) \o avx2x4, 2, 2)
    BY <2>0, <2>1, FallsOn
  <2>3. Falls(((avx512x4 \o Avx512) \o avx2x4) \o Avx2, 2, 2)
    BY <2>2, SimdFalls, FallsOn
  <2>4. Falls((((avx512x4 \o Avx512) \o avx2x4) \o Avx2) \o sse2x4, 2, 1)
    <3>1. Falls(sse2x4, 2, 1)
      BY <2>0, FallsWider
    <3> QED
      BY <2>3, <3>1, FallsOn
  <2>5. Falls(((((avx512x4 \o Avx512) \o avx2x4) \o Avx2) \o sse2x4) \o Sse2, 2, 1)
    BY <2>4, SimdFalls, FallsOn
  <2>6. Falls(((((avx512x4 \o Avx512) \o avx2x4) \o Avx2) \o sse2x4) \o Sse2, 2, 0)
    BY <2>5, FallsWider
  <2>7. raid6_algos(arch) = (((((avx512x4 \o Avx512) \o avx2x4) \o Avx2) \o sse2x4) \o Sse2) \o Portable
    BY <1>2 DEF raid6_algos, avx512x4, avx2x4, sse2x4
  <2> QED
    BY <2>6, <2>7, PortableEnds
<1>3. CASE arch = "ppc"
  <2>1. Falls(vperm, 0, 0) /\ Falls(altivec, 0, 0)
    <3>1. /\ <<"vpermxor8", "vpermxor4", "vpermxor2", "vpermxor1">> \in [1..4 -> GenNames]
          /\ <<"altivecx8", "altivecx4", "altivecx2", "altivecx1">> \in [1..4 -> GenNames]
          /\ {"vpermxor", "altivec"} \subseteq Needed
      BY DEF GenNames, Needed
    <3> QED
      BY <3>1, QuadFalls
  <2> HIDE DEF vperm, altivec
  <2>2. Falls(vperm \o altivec, 2, 0)
    BY <2>1, FallsOn, FallsWider
  <2>3. raid6_algos(arch) = (vperm \o altivec) \o Portable
    BY <1>3 DEF raid6_algos, vperm, altivec
  <2> QED
    BY <2>2, <2>3, PortableEnds
<1>4. CASE arch = "s390"
  <2>1. Falls(vx128x8, 2, 0)
    BY SimdFalls, FallsWider
  <2> HIDE DEF vx128x8
  <2>2. raid6_algos(arch) = vx128x8 \o Portable
    BY <1>4 DEF raid6_algos, vx128x8
  <2> QED
    BY <2>1, <2>2, PortableEnds
<1>5. CASE arch = "arm"
  <2>1. Falls(neon, 0, 0)
    <3>1. /\ <<"neonx8", "neonx4", "neonx2", "neonx1">> \in [1..4 -> XorNames]
          /\ "neon" \in Needed
      BY DEF XorNames, Needed
    <3>2. <<"neonx8", "neonx4", "neonx2", "neonx1">> \in [1..4 -> GenNames]
      BY <3>1 DEF GenNames
    <3> QED
      BY <3>1, <3>2, QuadFalls
  <2> HIDE DEF neon
  <2>2. Falls(neon, 2, 0)
    BY <2>1, FallsWider
  <2>3. raid6_algos(arch) = neon \o Portable
    BY <1>5 DEF raid6_algos, neon
  <2> QED
    BY <2>2, <2>3, PortableEnds
<1>6. CASE arch = "loongarch"
  <2>1. Falls(lasx, 2, 0)
    BY SimdFalls, FallsWider
  <2> HIDE DEF lasx
  <2>2. raid6_algos(arch) = lasx \o Portable
    BY <1>6 DEF raid6_algos, lasx
  <2> QED
    BY <2>1, <2>2, PortableEnds
<1> QED
  BY <1>1, <1>2, <1>3, <1>4, <1>5, <1>6 DEF Architectures

(* The lists of recovery routines.                                          *)
RecovNames ==
  {"avx512x1", "avx512x2", "avx2x1", "avx2x2", "ssse3x1", "ssse3x2", "s390xc",
   "neon", "lasx", "lsx", "intx1"}
Recovery == [name : RecovNames, valid : Needed \cup {"ssse3"}, priority : Nat]

(* The lists of recovery routines are short and one entry always runs.      *)
LEMMA RecoveryLists ==
  ASSUME NEW arch \in Architectures
  PROVE  LET list == raid6_recov_algos(arch)
         IN  /\ list \in Seq(Recovery) /\ Len(list) \in 1..4
             /\ \E n \in 1..Len(list) : list[n].valid = "any"
<1> DEFINE intx1 == RecovCalls("intx1", "any", 0)
<1> SUFFICES ASSUME NEW list, list = raid6_recov_algos(arch)
             PROVE  /\ list \in Seq(Recovery) /\ Len(list) \in 1..4
                    /\ \E n \in 1..Len(list) : list[n].valid = "any"
  OBVIOUS
<1>1. ASSUME NEW n \in RecovNames, NEW v \in Needed \cup {"ssse3"}, NEW p \in Nat
      PROVE  RecovCalls(n, v, p) \in Recovery
  BY DEF RecovCalls, Recovery
<1>2. /\ RecovCalls("avx512x1", "avx512", 3) \in Recovery /\ RecovCalls("avx512x2", "avx512", 3) \in Recovery
      /\ RecovCalls("avx2x1", "avx2", 2) \in Recovery /\ RecovCalls("avx2x2", "avx2", 2) \in Recovery
      /\ RecovCalls("ssse3x1", "ssse3", 1) \in Recovery /\ RecovCalls("ssse3x2", "ssse3", 1) \in Recovery
      /\ RecovCalls("s390xc", "any", 1) \in Recovery
      /\ RecovCalls("neon", "neon", 10) \in Recovery /\ RecovCalls("lasx", "lasx", 2) \in Recovery
      /\ RecovCalls("lsx", "lsx", 1) \in Recovery /\ intx1 \in Recovery
  <2>1. /\ RecovNames =
             {"avx512x1", "avx512x2", "avx2x1", "avx2x2", "ssse3x1", "ssse3x2", "s390xc",
              "neon", "lasx", "lsx", "intx1"}
        /\ {"avx512", "avx2", "ssse3", "any", "neon", "lasx", "lsx"} \subseteq Needed \cup {"ssse3"}
    BY DEF RecovNames, Needed
  <2> HIDE DEF RecovNames, Needed
  <2> QED
    BY <1>1, <2>1
<1>3. intx1.valid = "any"
  BY DEF RecovCalls
<1> HIDE DEF intx1
<1>4. ASSUME NEW own \in Seq(Recovery), Len(own) \in 0..3, list = own \o <<intx1>>
      PROVE  /\ list \in Seq(Recovery) /\ Len(list) \in 1..4
             /\ \E n \in 1..Len(list) : list[n].valid = "any"
  <2>1. <<intx1>> \in Seq(Recovery) /\ Len(<<intx1>>) = 1 /\ <<intx1>>[1] = intx1
    BY <1>2
  <2>2. /\ list \in Seq(Recovery) /\ Len(list) = Len(own) + 1
        /\ list[Len(own) + 1] = intx1
    BY <1>4, <2>1, ConcatProperties
  <2>3. Len(list) \in 1..4
    <3>1. Len(own) \in 0..3 /\ Len(list) = Len(own) + 1
      BY <1>4, <2>2
    <3>2. \A k \in 0..3 : k + 1 \in 1..4
      OBVIOUS
    <3> QED
      BY ONLY <3>1, <3>2
  <2>4. list[Len(list)].valid = "any"
    <3>1. list[Len(list)] = intx1
      BY ONLY <2>2
    <3> QED
      BY ONLY <1>3, <3>1
  <2> QED
    BY <2>2, <2>3, <2>4
<1>5. CASE arch \in {"i386", "x86_64"}
  <2> DEFINE a == RecovCalls(IF arch = "i386" THEN "avx512x1" ELSE "avx512x2", "avx512", 3)
             b == RecovCalls(IF arch = "i386" THEN "avx2x1" ELSE "avx2x2", "avx2", 2)
             c == RecovCalls(IF arch = "i386" THEN "ssse3x1" ELSE "ssse3x2", "ssse3", 1)
  <2>1. list = <<a, b, c>> \o <<intx1>>
    BY <1>5 DEF raid6_recov_algos, intx1
  <2>2. a \in Recovery /\ b \in Recovery /\ c \in Recovery
    BY <1>2
  <2> HIDE DEF a, b, c
  <2>3. <<a, b, c>> \in Seq(Recovery) /\ Len(<<a, b, c>>) = 3
    BY <2>2
  <2>4. PICK own : own = <<a, b, c>>
    OBVIOUS
  <2>5. own \in Seq(Recovery) /\ Len(own) \in 0..3 /\ list = own \o <<intx1>>
    BY <2>1, <2>3, <2>4
  <2> QED
    BY <1>4, <2>5
<1>6. CASE arch \in {"s390", "arm"}
  <2> DEFINE a == IF arch = "s390" THEN RecovCalls("s390xc", "any", 1) ELSE RecovCalls("neon", "neon", 10)
  <2>1. list = <<a>> \o <<intx1>>
    BY <1>6 DEF raid6_recov_algos, intx1
  <2>2. a \in Recovery
    BY <1>2
  <2> HIDE DEF a
  <2>3. <<a>> \in Seq(Recovery) /\ Len(<<a>>) = 1
    BY <2>2
  <2> QED
    BY <1>4, <2>1, <2>3
<1>7. CASE arch = "loongarch"
  <2> DEFINE a == RecovCalls("lasx", "lasx", 2)
             b == RecovCalls("lsx", "lsx", 1)
  <2>1. list = <<a, b>> \o <<intx1>>
    BY <1>7 DEF raid6_recov_algos, intx1
  <2>2. a \in Recovery /\ b \in Recovery
    BY <1>2
  <2> HIDE DEF a, b
  <2>3. <<a, b>> \in Seq(Recovery) /\ Len(<<a, b>>) = 2
    BY <2>2
  <2>4. PICK own : own = <<a, b>>
    OBVIOUS
  <2>5. own \in Seq(Recovery) /\ Len(own) \in 0..3 /\ list = own \o <<intx1>>
    BY <2>1, <2>3, <2>4
  <2> QED
    BY <1>4, <2>5
<1>8. CASE arch = "ppc"
  <2>1. list = <<>> \o <<intx1>>
    BY <1>8 DEF raid6_recov_algos, intx1
  <2>3. <<>> \in Seq(Recovery) /\ Len(<<>>) = 0
    OBVIOUS
  <2>4. PICK own : own = <<>>
    OBVIOUS
  <2>5. own \in Seq(Recovery) /\ Len(own) \in 0..3 /\ list = own \o <<intx1>>
    BY <2>1, <2>3, <2>4
  <2> QED
    BY <1>4, <2>5
<1> QED
  BY <1>5, <1>6, <1>7, <1>8 DEF Architectures

-----------------------------------------------------------------------------
(* What ChooseRecov's loop over the list leaves.                            *)
Choosing(choice, list, k) ==
  /\ choice \in 0..k
  /\ choice = 0 => \A j \in 1..k : ~ Runs(list[j])
  /\ choice # 0 => /\ Runs(list[choice])
                   /\ \A j \in 1..k : Runs(list[j]) => list[j].priority <= list[choice].priority

BetterRecov(list, i, c) ==
  IF (c = 0 \/ list[i].priority > list[c].priority) /\ Runs(list[i]) THEN i ELSE c

IsChoice(f, list) ==
  f = [i \in 0..Len(list) |->
         IF i = 0 THEN 0
         ELSE IF /\ f[i - 1] = 0 \/ list[i].priority > list[f[i - 1]].priority
                 /\ Runs(list[i])
              THEN i ELSE f[i - 1]]

(* The loop over the recovery routines is defined on any list.              *)
LEMMA ChoiceExists ==
  ASSUME NEW list, Len(list) \in Nat
  PROVE  \E f : IsChoice(f, list)
<1> DEFINE n == Len(list)
           V == 0..n
           step == [p \in (1..n) \X V |-> BetterRecov(list, p[1], p[2])]
<1>1. step \in [(1..n) \X V -> V] /\ 0 \in V /\ n \in Nat
  BY DEF BetterRecov
<1>2. PICK f : Recurs(f, n, V, 0, step)
  <2> HIDE DEF V, step, n
  <2> QED
    BY <1>1, Recursion
<1>3. ASSUME NEW k \in 1..n PROVE f[k] = BetterRecov(list, k, f[k - 1])
  <2>1. k \in 1..n /\ k - 1 \in 0..n /\ f[k - 1] \in V
    BY <1>1, <1>2 DEF Recurs
  <2>2. step[<<k, f[k - 1]>>] = BetterRecov(list, k, f[k - 1])
    BY <2>1
  <2> QED
    BY <1>2, <2>2 DEF Recurs
<1>4. IsChoice(f, list)
  <2>1. f \in [0..n -> V] /\ f[0] = 0
    BY <1>2 DEF Recurs
  <2> HIDE DEF V, step
  <2> QED
    BY <1>1, <1>3, <2>1 DEF IsChoice, BetterRecov
<1> QED
  BY <1>4

(* It ends with a routine that runs, none better before it.                 *)
LEMMA RecovChoice ==
  ASSUME NEW list \in Seq(Recovery), NEW m \in 1..Len(list), list[m].valid = "any",
         NEW choice, IsChoice(choice, list)
  PROVE  choice[Len(list)] # 0 /\ Choosing(choice[Len(list)], list, Len(list))
<1> DEFINE n == Len(list)
<1>1. n \in Nat /\ \A j \in 1..n : list[j].priority \in Nat
  <2>1. n \in Nat /\ \A j \in 1..n : list[j] \in Recovery
    OBVIOUS
  <2> HIDE DEF n
  <2> QED
    BY <2>1 DEF Recovery
<1>2. choice[0] = 0 /\ \A i \in 1..n : choice[i] = BetterRecov(list, i, choice[i - 1])
  <2> DEFINE Value(i) == IF i = 0 THEN 0 ELSE BetterRecov(list, i, choice[i - 1])
  <2>1. choice = [i \in 0..n |-> Value(i)]
    BY DEF IsChoice, BetterRecov
  <2> HIDE DEF Value, n
  <2>2. \A i \in 0..n : choice[i] = Value(i)
    BY <2>1
  <2> QED
    BY <1>1, <2>2 DEF Value
<1> HIDE DEF n
<1> DEFINE Good == {i \in 0..n : Choosing(choice[i], list, i)}
<1>3. 0 \in Good
  BY <1>1, <1>2 DEF Choosing
<1>4. ASSUME NEW k \in 1..n, k - 1 \in Good PROVE k \in Good
  <2>1. Choosing(choice[k - 1], list, k - 1) /\ choice[k] = BetterRecov(list, k, choice[k - 1])
    BY <1>2, <1>4
  <2>2. \A j \in 1..k : j \in 1..n /\ (j = k \/ j \in 1..k - 1)
    BY <1>1
  <2> DEFINE c == choice[k - 1]
  <2>3. c \in 0..k - 1 /\ (c # 0 => c \in 1..n /\ list[c].priority \in Nat) /\ list[k].priority \in Nat
    BY <1>1, <2>1 DEF Choosing
  <2>4. CASE (c = 0 \/ list[k].priority > list[c].priority) /\ Runs(list[k])
    <3>1. choice[k] = k
      BY <2>1, <2>4 DEF BetterRecov
    <3>2. ASSUME NEW j \in 1..k, Runs(list[j]) PROVE list[j].priority <= list[k].priority
      <4>1. CASE j = k
        BY <2>3, <4>1
      <4>2. CASE j \in 1..k - 1
        <5>1. c # 0 /\ list[j].priority <= list[c].priority
          BY <2>1, <3>2, <4>2 DEF Choosing
        <5>2. list[j].priority \in Nat
          BY <1>1, <2>2
        <5> QED
          BY <2>3, <2>4, <5>1, <5>2
      <4> QED
        BY <2>2, <4>1, <4>2
    <3>3. choice[k] \in 0..k /\ choice[k] # 0 /\ Runs(list[choice[k]])
      BY <1>1, <2>4, <3>1
    <3> QED
      BY <3>1, <3>2, <3>3 DEF Choosing
  <2>5. CASE ~ ((c = 0 \/ list[k].priority > list[c].priority) /\ Runs(list[k]))
    <3>1. choice[k] = c
      BY <2>1, <2>5 DEF BetterRecov
    <3>2. c = 0 => \A j \in 1..k : ~ Runs(list[j])
      BY <2>1, <2>2, <2>5 DEF Choosing
    <3>3. ASSUME c # 0, NEW j \in 1..k, Runs(list[j]) PROVE list[j].priority <= list[c].priority
      BY <2>1, <2>2, <2>3, <2>5, <3>3 DEF Choosing
    <3>4. c # 0 => Runs(list[c])
      BY <2>1 DEF Choosing
    <3> QED
      BY <2>3, <3>1, <3>2, <3>3, <3>4 DEF Choosing
  <2> QED
    BY <2>4, <2>5
<1>5. n \in Good
  <2> HIDE DEF Good
  <2>1. 0..n \subseteq Good
    BY <1>1, <1>3, <1>4, UpTo
  <2> QED
    BY <1>1, <2>1
<1>6. Runs(list[m]) /\ m \in 1..n
  BY DEF Runs, n
<1> QED
  BY <1>5, <1>6 DEF Choosing, n

-----------------------------------------------------------------------------
(* raid6_select_algo(). The scan of a list keeps the best of what it passed.*)
Usable(i) == Runs(List[i]) /\ (phase = "xor" => List[i].xor)

Passed ==
  /\ Usable(best)
  /\ \A i \in 1..at-1 : Usable(i) => List[i].priority <= List[best].priority
  /\ cpu.benchmark =>
       /\ best \in DOMAIN perfs /\ DOMAIN perfs \subseteq 1..at-1 /\ perfs[best] = bestperf
       /\ \A i \in DOMAIN perfs : perfs[i] \in Nat
       /\ \A i \in 1..at-1 : Usable(i) /\ List[i].priority = List[best].priority =>
            i \in DOMAIN perfs /\ perfs[i] <= bestperf
  /\ ~cpu.benchmark => at = Len(List) + 1

Scan ==
  /\ at \in 1..Len(List)+1 /\ best \in 0..at-1 /\ bestperf \in Nat
  /\ best = 0 => bestperf = 0 /\ perfs = <<>> /\ \A i \in 1..at-1 : ~Usable(i)
  /\ best # 0 => Passed

GenPicked == \E i \in 1..Len(List) : List[i].name = algs.gen /\ Runs(List[i])
XorPicked == \E i \in 1..Len(List) : List[i].name = algs.xor /\ Runs(List[i]) /\ List[i].xor
RecovPicked ==
  \E r \in DOMAIN raid6_recov_algos(cpu.arch) :
    LET list == raid6_recov_algos(cpu.arch)
    IN  /\ list[r].name = algs.recov /\ Runs(list[r])
        /\ \A j \in DOMAIN list : Runs(list[j]) => list[j].priority <= list[r].priority

Algs == [gen : GenNames \cup {"none"}, xor : XorNames \cup {"none"}, recov : RecovNames \cup {"none"}]
Named == algs.gen \in GenNames /\ algs.xor \in XorNames /\ algs.recov \in RecovNames

Selecting == {"gen", "xor", "recov", "chosen"}
Loaded == cpu.arch \in Architectures /\ cpu.benchmark \in BOOLEAN /\ cpu # NoCPU

Fresh == at = 1 /\ best = 0 /\ bestperf = 0 /\ perfs = <<>>

SelectionInv ==
  /\ phase \in {"off", "ready", "answered"} \cup Selecting
  /\ algs \in Algs
  /\ phase = "off" => Fresh
  /\ phase \in Selecting => Loaded
  /\ phase \in {"gen", "xor"} => Scan
  /\ phase \in {"xor", "recov", "chosen"} => GenPicked
  /\ phase \in {"recov", "chosen"} => XorPicked
  /\ phase = "chosen" => RecovPicked
  /\ phase \in {"ready", "answered"} => Named

(* The list of the processor that is loaded, by its priorities.             *)
LEMMA ListFalls ==
  ASSUME Loaded
  PROVE  /\ List = raid6_algos(cpu.arch) /\ Len(List) \in Nat
         /\ \A i \in 1..Len(List) : List[i] \in Algorithm /\ List[i].priority \in Nat
         /\ \A i, j \in 1..Len(List) : i <= j => List[i].priority >= List[j].priority
         /\ EndsPortable(List)
<1>1. List = raid6_algos(cpu.arch)
  BY DEF List, Loaded
<1>2. Falls(List, 2, 0) /\ EndsPortable(List)
  BY <1>1, AlgorithmLists DEF Loaded
<1> HIDE DEF List
<1>3. List \in Seq(Algorithm) /\ Len(List) \in Nat
  BY <1>2 DEF Falls
<1>4. \A i \in 1..Len(List) : List[i] \in Algorithm
  BY <1>3
<1>5. \A i \in 1..Len(List) : List[i].priority \in 0..2
  BY <1>2 DEF Falls
<1> QED
  BY <1>1, <1>2, <1>3, <1>4, <1>5 DEF Falls

(* A scan that has seen nothing.                                            *)
LEMMA FreshScans ==
  ASSUME Loaded', Fresh'
  PROVE  Scan'
<1>1. Len(List') \in Nat
  <2>1. List' = raid6_algos(cpu'.arch) /\ cpu'.arch \in Architectures
    BY DEF List, Loaded
  <2>2. Falls(raid6_algos(cpu'.arch), 2, 0)
    BY <2>1, AlgorithmLists
  <2> QED
    BY <2>1, <2>2 DEF Falls
<1> HIDE DEF List
<1> QED
  BY <1>1 DEF Fresh, Scan

(* The list ends with an algorithm that always runs: the scan found one.    *)
LEMMA ScanFinds ==
  ASSUME Loaded, Scan, at > Len(List)
  PROVE  /\ at = Len(List) + 1 /\ best \in 1..Len(List) /\ Usable(best) /\ Passed
<1>1. /\ Len(List) \in Nat /\ at = Len(List) + 1 /\ best \in 0..Len(List)
  <2>1. Len(List) \in Nat
    BY ListFalls
  <2> HIDE DEF List
  <2> QED
    BY <2>1 DEF Scan
<1>2. PICK n \in 1..Len(List) : List[n].valid = "any" /\ List[n].xor
  <2>1. EndsPortable(List)
    BY ListFalls
  <2> HIDE DEF List
  <2> QED
    BY <2>1 DEF EndsPortable
<1> HIDE DEF List
<1>3. Usable(n) /\ n \in 1..at-1
  BY <1>1, <1>2 DEF Usable, Runs
<1>4. best # 0
  BY <1>3 DEF Scan
<1> QED
  BY <1>1, <1>4 DEF Scan, Passed

(* An algorithm that is passed over does not run or is no better.           *)
LEMMA SkipScans ==
  ASSUME Loaded, Scan, Skip
  PROVE  Scan'
<1>1. List' = List /\ phase' = phase /\ cpu' = cpu /\ best' = best /\ bestperf' = bestperf /\ perfs' = perfs
      /\ at' = at + 1 /\ at <= Len(List) /\ ~Tried(at)
  BY DEF Skip, List
<1>2. /\ Len(List) \in Nat
      /\ \A i \in 1..Len(List) : List[i].priority \in Nat
      /\ \A i, j \in 1..Len(List) : i <= j => List[i].priority >= List[j].priority
  BY ListFalls
<1> HIDE DEF List
<1>3. \A i : Usable(i)' = Usable(i)
  BY <1>1 DEF Usable, Runs
<1>4. at \in 1..Len(List) /\ best \in 0..at-1 /\ bestperf \in Nat /\ at' - 1 = at
  BY <1>1, <1>2 DEF Scan
<1>5. ASSUME NEW i \in 1..at PROVE i = at \/ i \in 1..at-1
  BY <1>4
<1>6. CASE best = 0
  <2>1. ~Usable(at)
    BY <1>1, <1>6 DEF Tried, Usable
  <2>2. \A i \in 1..at : ~Usable(i)
    BY <1>5, <1>6, <2>1 DEF Scan
  <2> QED
    BY <1>1, <1>2, <1>3, <1>4, <1>6, <2>2 DEF Scan
<1>7. CASE best # 0
  <2>1. Passed /\ best \in 1..Len(List) /\ best <= at
    BY <1>4, <1>7, <1>2 DEF Scan
  <2>2. Usable(at) => List[at].priority < List[best].priority
    BY <1>1, <1>2, <1>4, <2>1 DEF Tried, Usable
  <2>3. \A i \in 1..at : Usable(i) => List[i].priority <= List[best].priority
    BY <1>2, <1>4, <1>5, <2>1, <2>2 DEF Passed
  <2>4. cpu.benchmark
    BY <1>4, <2>1, <1>2 DEF Passed, Loaded
  <2>5. /\ best \in DOMAIN perfs /\ DOMAIN perfs \subseteq 1..at /\ perfs[best] = bestperf
    BY <1>4, <2>1, <2>4 DEF Passed
  <2>6. ASSUME NEW i \in 1..at, Usable(i), List[i].priority = List[best].priority
        PROVE  i \in DOMAIN perfs /\ perfs[i] <= bestperf
    BY <1>2, <1>5, <2>1, <2>2, <2>4, <2>6 DEF Passed
  <2>7. Passed'
    BY <1>1, <1>3, <1>4, <2>1, <2>3, <2>4, <2>5, <2>6 DEF Passed
  <2> QED
    BY <1>1, <1>2, <1>4, <1>7, <2>7 DEF Scan
<1> QED
  BY <1>6, <1>7

(* The first that may run has the highest priority of those that may.       *)
LEMMA TakeFirstScans ==
  ASSUME Loaded, Scan, TakeFirst
  PROVE  Scan'
<1>1. List' = List /\ phase' = phase /\ cpu' = cpu /\ best' = at /\ bestperf' = bestperf /\ perfs' = perfs
      /\ at' = Len(List) + 1 /\ at <= Len(List) /\ Tried(at) /\ ~cpu.benchmark
  BY DEF TakeFirst, List
<1>2. /\ Len(List) \in Nat
      /\ \A i \in 1..Len(List) : List[i].priority \in Nat
      /\ \A i, j \in 1..Len(List) : i <= j => List[i].priority >= List[j].priority
  BY ListFalls
<1> HIDE DEF List
<1>3. \A i : Usable(i)' = Usable(i)
  BY <1>1 DEF Usable, Runs
<1>4. at \in 1..Len(List) /\ best \in 0..at-1 /\ bestperf \in Nat /\ at' - 1 = Len(List)
  BY <1>1, <1>2 DEF Scan
<1>5. best = 0
  BY <1>1, <1>2, <1>4 DEF Scan, Passed
<1>6. Usable(at)
  BY <1>1 DEF Tried, Usable, TakeFirst
<1>7. ASSUME NEW i \in 1..Len(List), Usable(i) PROVE List[i].priority <= List[at].priority
  <2>1. i >= at
    BY <1>4, <1>5, <1>7 DEF Scan
  <2> QED
    BY <1>2, <1>4, <2>1
<1>8. Passed'
  BY <1>1, <1>3, <1>4, <1>6, <1>7 DEF Passed
<1> QED
  BY <1>1, <1>2, <1>4, <1>8 DEF Scan

(* The best so far is the fastest of the highest priority measured.         *)
LEMMA MeasureScans ==
  ASSUME Loaded, Scan, NEW perf \in Nat \ {0}, Measure(perf)
  PROVE  Scan'
<1>1. List' = List /\ phase' = phase /\ cpu' = cpu /\ perfs' = [i \in DOMAIN perfs \cup {at} |-> IF i = at THEN perf ELSE perfs[i]]
      /\ at' = at + 1 /\ at <= Len(List) /\ Tried(at) /\ cpu.benchmark
  BY DEF Measure, List
<1>2. /\ Len(List) \in Nat
      /\ \A i \in 1..Len(List) : List[i].priority \in Nat
      /\ \A i, j \in 1..Len(List) : i <= j => List[i].priority >= List[j].priority
  BY ListFalls
<1>11. IF perf > bestperf THEN best' = at /\ bestperf' = perf ELSE best' = best /\ bestperf' = bestperf
  BY DEF Measure
<1> HIDE DEF List
<1>3. \A i : Usable(i)' = Usable(i)
  BY <1>1 DEF Usable, Runs
<1>4. at \in 1..Len(List) /\ best \in 0..at-1 /\ bestperf \in Nat /\ at' - 1 = at
  BY <1>1, <1>2 DEF Scan
<1>5. ASSUME NEW i \in 1..at PROVE i = at \/ i \in 1..at-1
  BY <1>4
<1>6. Usable(at)
  BY <1>1 DEF Tried, Usable, Measure
<1>7. DOMAIN perfs \subseteq 1..at-1
  BY <1>1, <1>2, <1>4 DEF Scan, Passed
<1>8. /\ DOMAIN perfs' = DOMAIN perfs \cup {at} /\ perfs'[at] = perf
      /\ \A i \in DOMAIN perfs : perfs'[i] = perfs[i]
  <2>1. at \notin DOMAIN perfs
    BY <1>4, <1>7
  <2> QED
    BY <1>1, <2>1
<1>9. CASE best = 0
  <2>1. \A i \in 1..at-1 : ~Usable(i)
    BY <1>9 DEF Scan
  <2>2. best' = at /\ bestperf' = perf
    BY <1>11, <1>9 DEF Scan
  <2>3. ASSUME NEW i \in 1..at, Usable(i) PROVE i = at
    BY <1>5, <2>1, <2>3
  <2>4. Passed'
    <3>1. DOMAIN perfs' \subseteq 1..at
      BY <1>4, <1>7, <1>8
    <3>2. \A i \in 1..at : Usable(i) => List[i].priority <= List[at].priority
      BY <1>2, <1>4, <2>3
    <3>3. \A i \in 1..at : Usable(i) => i \in DOMAIN perfs' /\ perfs'[i] <= perf
      BY <1>8, <2>3
    <3>4. \A i \in DOMAIN perfs' : perfs'[i] \in Nat
      <4>1. perfs = <<>>
        BY <1>9 DEF Scan
      <4> QED
        BY <1>8, <4>1
    <3> QED
      BY <1>1, <1>3, <1>4, <1>6, <1>8, <2>2, <3>1, <3>2, <3>3, <3>4 DEF Passed
  <2> QED
    BY <1>1, <1>2, <1>4, <2>2, <2>4 DEF Scan
<1>10. CASE best # 0
  <2>1. Passed /\ best \in 1..Len(List) /\ best <= at
    BY <1>4, <1>10, <1>2 DEF Scan
  <2>2. List[at].priority = List[best].priority
    <3>1. List[at].priority >= List[best].priority
      BY <1>1, <1>10 DEF Tried
    <3> QED
      BY <1>2, <1>4, <2>1, <3>1
  <2>3. \A i \in 1..at : Usable(i) => List[i].priority <= List[best].priority
    BY <1>2, <1>4, <1>5, <2>1, <2>2 DEF Passed
  <2>4. /\ best \in DOMAIN perfs /\ DOMAIN perfs \subseteq 1..at-1 /\ perfs[best] = bestperf
    BY <1>1, <2>1 DEF Passed
  <2>5. ASSUME NEW i \in 1..at-1, Usable(i), List[i].priority = List[best].priority
        PROVE  i \in DOMAIN perfs /\ perfs'[i] <= bestperf
    BY <1>1, <1>8, <2>1, <2>5 DEF Passed
  <2>6. DOMAIN perfs' \subseteq 1..at
    BY <1>4, <1>8, <2>4
  <2>7. CASE perf > bestperf
    <3>1. best' = at /\ bestperf' = perf
      BY <1>11, <2>7
    <3>2. ASSUME NEW i \in 1..at, Usable(i), List[i].priority = List[at].priority
          PROVE  i \in DOMAIN perfs' /\ perfs'[i] <= perf
      <4>1. CASE i = at
        BY <1>8, <4>1
      <4>2. CASE i \in 1..at-1
        <5>1. i \in DOMAIN perfs /\ perfs'[i] <= bestperf
          BY <2>2, <2>5, <3>2, <4>2
        <5>2. perfs'[i] <= perf
          <6>1. perfs'[i] \in Nat
            BY <1>1, <1>8, <2>1, <5>1 DEF Passed
          <6> QED
            BY <1>4, <2>7, <5>1, <6>1
        <5> QED
          BY <1>8, <5>1, <5>2
      <4> QED
        BY <1>5, <4>1, <4>2
    <3>3. \A i \in 1..at : Usable(i) => List[i].priority <= List[at].priority
      BY <2>2, <2>3
    <3>5. \A i \in DOMAIN perfs' : perfs'[i] \in Nat
      BY <1>1, <1>8, <2>1 DEF Passed
    <3>4. Passed'
      BY <1>1, <1>3, <1>4, <1>6, <1>8, <2>6, <3>1, <3>2, <3>3, <3>5 DEF Passed
    <3> QED
      BY <1>1, <1>2, <1>4, <3>1, <3>4 DEF Scan
  <2>8. CASE ~ (perf > bestperf)
    <3>1. best' = best /\ bestperf' = bestperf
      BY <1>11, <2>8
    <3>2. ASSUME NEW i \in 1..at, Usable(i), List[i].priority = List[best].priority
          PROVE  i \in DOMAIN perfs' /\ perfs'[i] <= bestperf
      <4>1. CASE i = at
        BY <1>4, <1>8, <2>8, <4>1
      <4>2. CASE i \in 1..at-1
        BY <1>8, <2>5, <3>2, <4>2
      <4> QED
        BY <1>5, <4>1, <4>2
    <3>3. best \in DOMAIN perfs' /\ perfs'[best] = bestperf
      BY <1>8, <2>4
    <3>4. Passed'
      BY <1>1, <1>3, <1>4, <2>1, <2>3, <2>6, <3>1, <3>2, <3>3 DEF Passed
    <3> QED
      BY <1>1, <1>2, <1>4, <1>10, <2>1, <3>1, <3>4 DEF Scan
  <2> QED
    BY <2>7, <2>8
<1> QED
  BY <1>9, <1>10

(* The generator is one that runs; if it also has an xor_syndrome(), so is  *)
(* that.                                                                    *)
LEMMA GenChosenPicks ==
  ASSUME Loaded, Scan, algs \in Algs, GenChosen
  PROVE  algs' \in Algs /\ GenPicked' /\ (phase' = "recov" => XorPicked')
<1>1. /\ phase = "gen" /\ at > Len(List) /\ cpu' = cpu /\ List' = List
      /\ algs' = [algs EXCEPT !.gen = List[best].name,
                              !.xor = IF List[best].xor THEN List[best].name ELSE @]
      /\ phase' = IF List[best].xor THEN "recov" ELSE "xor"
  BY DEF GenChosen, List
<1>2. best \in 1..Len(List) /\ Usable(best) /\ List[best] \in Algorithm
  BY <1>1, ListFalls, ScanFinds
<1> HIDE DEF List
<1>3. /\ algs'.gen = List[best].name /\ (List[best].xor => algs'.xor = List[best].name)
      /\ algs' \in Algs
  <2>1. /\ List[best].name \in GenNames /\ (List[best].xor => List[best].name \in XorNames)
    BY <1>2 DEF Algorithm
  <2> QED
    BY <1>1, <2>1 DEF Algs
<1>4. Runs(List[best]) /\ \A i : Runs(List[i])' = Runs(List[i])
  BY <1>1, <1>2 DEF Usable, Runs
<1>5. GenPicked'
  BY <1>1, <1>2, <1>3, <1>4 DEF GenPicked
<1>6. phase' = "recov" => XorPicked'
  BY <1>1, <1>2, <1>3, <1>4 DEF XorPicked
<1> QED
  BY <1>3, <1>5, <1>6

(* The xor_syndrome() is one that runs.                                     *)
LEMMA XorChosenPicks ==
  ASSUME Loaded, Scan, algs \in Algs, GenPicked, XorChosen
  PROVE  algs' \in Algs /\ GenPicked' /\ XorPicked'
<1>1. /\ phase = "xor" /\ at > Len(List) /\ cpu' = cpu /\ List' = List
      /\ algs' = [algs EXCEPT !.xor = List[best].name]
  BY DEF XorChosen, List
<1>2. best \in 1..Len(List) /\ Usable(best) /\ List[best] \in Algorithm
  BY <1>1, ListFalls, ScanFinds
<1> HIDE DEF List
<1>3. algs'.gen = algs.gen /\ algs'.xor = List[best].name /\ algs' \in Algs
  <2>1. List[best].name \in XorNames
    BY <1>1, <1>2 DEF Algorithm, Usable
  <2> QED
    BY <1>1, <2>1 DEF Algs
<1>4. Len(List)' = Len(List) /\ \A i : Runs(List[i])' = Runs(List[i])
  BY <1>1 DEF Runs
<1>5. GenPicked'
  BY <1>1, <1>3, <1>4 DEF GenPicked
<1>6. XorPicked'
  BY <1>1, <1>2, <1>3, <1>4 DEF XorPicked, Usable
<1> QED
  BY <1>3, <1>5, <1>6

(* The recovery is one that runs, of the highest priority there is.         *)
LEMMA ChooseRecovPicks ==
  ASSUME Loaded, algs \in Algs, GenPicked, XorPicked, ChooseRecov
  PROVE  algs' \in Algs /\ GenPicked' /\ XorPicked' /\ RecovPicked'
<1> DEFINE list == raid6_recov_algos(cpu.arch)
           choice[i \in 0..Len(list)] ==
             IF i = 0 THEN 0
             ELSE IF /\ choice[i - 1] = 0 \/ list[i].priority > list[choice[i - 1]].priority
                     /\ Runs(list[i])
                  THEN i ELSE choice[i - 1]
           c == choice[Len(list)]
<1>1. cpu' = cpu /\ List' = List /\ algs' = [algs EXCEPT !.recov = list[c].name]
  BY DEF ChooseRecov, List
<1>2. list \in Seq(Recovery) /\ Len(list) \in Nat /\ \E n \in 1..Len(list) : list[n].valid = "any"
  BY RecoveryLists DEF Loaded
<1> HIDE DEF List
<1>3. IsChoice(choice, list)
  <2> HIDE DEF list
  <2>1. \E f : IsChoice(f, list)
    BY <1>2, ChoiceExists
  <2> QED
    BY <2>1 DEF IsChoice, choice
<1> HIDE DEF choice
<1>4. c \in 1..Len(list) /\ Choosing(c, list, Len(list))
  <2> HIDE DEF list
  <2>1. c # 0 /\ Choosing(c, list, Len(list))
    BY <1>2, <1>3, RecovChoice
  <2> QED
    BY <1>2, <2>1 DEF Choosing
<1>5. /\ DOMAIN list = 1..Len(list)
      /\ \A j \in DOMAIN list : Runs(list[j]) => list[j].priority <= list[c].priority
      /\ Runs(list[c]) /\ list[c] \in Recovery
  <2> HIDE DEF list
  <2> QED
    BY <1>2, <1>4 DEF Choosing
<1> HIDE DEF c
<1>6. algs' \in Algs /\ algs'.gen = algs.gen /\ algs'.xor = algs.xor /\ algs'.recov = list[c].name
  <2>1. list[c].name \in RecovNames
    <3> HIDE DEF list
    <3> QED
      BY <1>5 DEF Recovery
  <2> HIDE DEF list
  <2> QED
    BY <1>1, <2>1 DEF Algs
<1>7. \A alg : Runs(alg)' = Runs(alg)
  BY <1>1 DEF Runs
<1>8. GenPicked' /\ XorPicked'
  BY <1>1, <1>6, <1>7 DEF GenPicked, XorPicked, Runs
<1>9. RecovPicked'
  <2>1. raid6_recov_algos(cpu.arch)' = list
    BY <1>1
  <2> HIDE DEF list
  <2> QED
    BY <1>1, <1>4, <1>5, <1>6, <1>7, <2>1 DEF RecovPicked, Runs
<1> QED
  BY <1>6, <1>8, <1>9

(* A processor is loaded.                                                   *)
LEMMA LoadSelects ==
  ASSUME Load
  PROVE  Loaded'
<1>1. PICK arch \in Archs, benchmark \in BOOLEAN : \E features \in Features(arch) :
        cpu' = [arch |-> arch, features |-> features, benchmark |-> benchmark]
  BY DEF Load
<1>2. cpu'.arch = arch /\ cpu'.benchmark = benchmark /\ arch \in Architectures
  BY <1>1, Raid6Assumption
<1>3. cpu' # NoCPU
  BY <1>2 DEF NoCPU, Architectures
<1> QED
  BY <1>2, <1>3 DEF Loaded

(* What the operations on the stripe leave of the selection.                *)
Kept == algs' = algs /\ phase \in {"ready", "answered"} /\ phase' \in {"ready", "answered"}

(* No operation on the stripe changes a routine.                            *)
LEMMA StripeStepKeeps ==
  ASSUME \/ Read \/ Answered
         \/ \E i \in Written(N), v \in Versions, rmw \in BOOLEAN : Write(i, v, rmw)
         \/ \E replaced \in (SUBSET lost) \ {{}} : Rebuild(replaced)
         \/ \E c \in Failing(N) : Fail(c)
         \/ \E c \in {PD, QD}, w \in {0, Words - 1} : Corrupt(c, w)
         \/ \E recover \in BOOLEAN : Check(recover)
  PROVE  Kept
<1>1. CASE Read
  BY <1>1 DEF Read, Kept
<1>2. CASE Answered
  BY <1>2 DEF Answered, Kept
<1>3. ASSUME NEW i \in Written(N), NEW v \in Versions, NEW rmw \in BOOLEAN, Write(i, v, rmw)
      PROVE  Kept
  BY <1>3 DEF Write, Kept, selection
<1>4. ASSUME NEW replaced \in (SUBSET lost) \ {{}}, Rebuild(replaced) PROVE Kept
  BY <1>4 DEF Rebuild, Kept, selection
<1>5. ASSUME NEW c \in Failing(N), Fail(c) PROVE Kept
  BY <1>5 DEF Fail, Kept, selection
<1>6. ASSUME NEW c \in {PD, QD}, NEW w \in {0, Words - 1}, Corrupt(c, w) PROVE Kept
  BY <1>6 DEF Corrupt, Kept, selection
<1>7. ASSUME NEW recover \in BOOLEAN, Check(recover) PROVE Kept
  BY <1>7 DEF Check, Kept
<1> QED
  BY <1>1, <1>2, <1>3, <1>4, <1>5, <1>6, <1>7

(* The selection's invariant holds at first.                                *)
LEMMA SelectionInit == Init => SelectionInv
<1> SUFFICES ASSUME Init PROVE SelectionInv
  OBVIOUS
<1>1. algs \in Algs
  BY DEF Init, Algs
<1> QED
  BY <1>1 DEF Init, SelectionInv, Fresh, Selecting

(* Every step keeps the selection's invariant.                              *)
LEMMA SelectionNext ==
  ASSUME SelectionInv, [Next]_vars
  PROVE  SelectionInv'
<1>1. CASE Load
  <2>1. Loaded' /\ phase' = "gen" /\ algs' = algs /\ Fresh'
    BY <1>1, LoadSelects DEF Load, SelectionInv, Fresh
  <2>2. Scan'
    BY <2>1, FreshScans
  <2> QED
    BY <2>1, <2>2 DEF SelectionInv, Selecting
<1>2. CASE Skip
  <2>1. /\ phase \in {"gen", "xor"} /\ phase' = phase /\ cpu' = cpu /\ algs' = algs
    BY <1>2 DEF Skip
  <2>2. Loaded /\ Scan'
    BY <1>2, <2>1, SkipScans DEF SelectionInv, Selecting
  <2>3. Loaded' /\ (phase = "xor" => GenPicked')
    BY <2>1, <2>2 DEF Loaded, SelectionInv, GenPicked, List, Runs
  <2> QED
    BY <2>1, <2>2, <2>3 DEF SelectionInv, Selecting
<1>3. CASE TakeFirst
  <2>1. /\ phase \in {"gen", "xor"} /\ phase' = phase /\ cpu' = cpu /\ algs' = algs
    BY <1>3 DEF TakeFirst
  <2>2. Loaded /\ Scan'
    BY <1>3, <2>1, TakeFirstScans DEF SelectionInv, Selecting
  <2>3. Loaded' /\ (phase = "xor" => GenPicked')
    BY <2>1, <2>2 DEF Loaded, SelectionInv, GenPicked, List, Runs
  <2> QED
    BY <2>1, <2>2, <2>3 DEF SelectionInv, Selecting
<1>4. ASSUME NEW perf \in MinPerf..MaxPerf, Measure(perf) PROVE SelectionInv'
  <2>1. /\ phase \in {"gen", "xor"} /\ phase' = phase /\ cpu' = cpu /\ algs' = algs
    BY <1>4 DEF Measure
  <2>2. perf \in Nat \ {0}
    BY Raid6Assumption
  <2>3. Loaded /\ Scan'
    BY <1>4, <2>1, <2>2, MeasureScans DEF SelectionInv, Selecting
  <2>4. Loaded' /\ (phase = "xor" => GenPicked')
    BY <2>1, <2>3 DEF Loaded, SelectionInv, GenPicked, List, Runs
  <2> QED
    BY <2>1, <2>3, <2>4 DEF SelectionInv, Selecting
<1>5. CASE GenChosen
  <2>1. phase = "gen" /\ phase' \in {"xor", "recov"} /\ cpu' = cpu /\ Fresh'
    BY <1>5 DEF GenChosen, Fresh
  <2>2. Loaded /\ Loaded' /\ algs' \in Algs /\ GenPicked' /\ (phase' = "recov" => XorPicked')
    BY <1>5, <2>1, GenChosenPicks DEF SelectionInv, Selecting, Loaded
  <2>3. Scan'
    BY <2>1, <2>2, FreshScans
  <2> QED
    BY <2>1, <2>2, <2>3 DEF SelectionInv, Selecting
<1>6. CASE XorChosen
  <2>1. phase = "xor" /\ phase' = "recov" /\ cpu' = cpu
    BY <1>6 DEF XorChosen
  <2>2. Loaded /\ Loaded' /\ algs' \in Algs /\ GenPicked' /\ XorPicked'
    BY <1>6, <2>1, XorChosenPicks DEF SelectionInv, Selecting, Loaded
  <2> QED
    BY <2>1, <2>2 DEF SelectionInv, Selecting
<1>7. CASE ChooseRecov
  <2>1. phase = "recov" /\ phase' = "chosen" /\ cpu' = cpu
    BY <1>7 DEF ChooseRecov
  <2>2. Loaded /\ Loaded' /\ algs' \in Algs /\ GenPicked' /\ XorPicked' /\ RecovPicked'
    BY <1>7, <2>1, ChooseRecovPicks DEF SelectionInv, Selecting, Loaded
  <2> QED
    BY <2>1, <2>2 DEF SelectionInv, Selecting
<1>8. CASE Boot
  <2>1. phase = "chosen" /\ phase' = "ready" /\ algs' = algs
    BY <1>8 DEF Boot
  <2>2. Named
    <3>1. Loaded /\ GenPicked /\ XorPicked /\ RecovPicked
      BY <2>1 DEF SelectionInv, Selecting
    <3>2. \A i \in 1..Len(List) : List[i].name \in GenNames /\ (List[i].xor => List[i].name \in XorNames)
      <4>1. \A i \in 1..Len(List) : List[i] \in Algorithm
        BY <3>1, ListFalls
      <4> HIDE DEF List
      <4> QED
        BY <4>1 DEF Algorithm
    <3>3. algs.recov \in RecovNames
      <4> DEFINE list == raid6_recov_algos(cpu.arch)
      <4>1. list \in Seq(Recovery) /\ \E r \in DOMAIN list : list[r].name = algs.recov
        BY <3>1, RecoveryLists DEF Loaded, RecovPicked
      <4> HIDE DEF list
      <4>2. PICK r \in DOMAIN list : list[r].name = algs.recov
        BY <4>1
      <4>3. list[r] \in Recovery
        BY <4>1
      <4> QED
        BY <4>2, <4>3 DEF Recovery
    <3> HIDE DEF List
    <3> QED
      BY <3>1, <3>2, <3>3 DEF Named, GenPicked, XorPicked
  <2> QED
    BY <2>1, <2>2 DEF SelectionInv, Selecting, Named
<1>9. CASE Kept
  BY <1>9 DEF Kept, SelectionInv, Selecting, Named
<1>10. CASE vars' = vars
  <2>1. phase' = phase /\ cpu' = cpu /\ at' = at /\ best' = best /\ bestperf' = bestperf /\ perfs' = perfs /\ algs' = algs
    BY <1>10 DEF vars, selection
  <2>2. List' = List
    BY <2>1 DEF List
  <2>3. (Loaded' <=> Loaded) /\ (Fresh' <=> Fresh) /\ (Named' <=> Named)
    BY <2>1 DEF Loaded, Fresh, Named
  <2>4. (GenPicked' <=> GenPicked) /\ (XorPicked' <=> XorPicked) /\ (RecovPicked' <=> RecovPicked)
    BY <2>1 DEF GenPicked, XorPicked, RecovPicked, List, Runs
  <2>5. Scan' <=> Scan
    BY <2>1, <2>2 DEF Scan, Passed, Usable, Runs
  <2> QED
    BY <2>1, <2>3, <2>4, <2>5 DEF SelectionInv
<1> QED
  BY <1>1, <1>2, <1>3, <1>4, <1>5, <1>6, <1>7, <1>8, <1>9, <1>10, StripeStepKeeps DEF Next, Select

(* raid6_select_algo() ends with routines that this processor runs, of the  *)
(* highest priority there is for it, and the fastest it measured.           *)
THEOREM FittestSelected == Spec => []BestChosen
<1>1. ASSUME SelectionInv PROVE BestChosen
  <2>1. ASSUME phase \in {"gen", "xor"}, at > Len(List)
        PROVE  /\ best # 0 /\ Runs(List[best]) /\ (phase = "xor" => List[best].xor)
               /\ \A i \in 1..Len(List) :
                    Runs(List[i]) /\ (phase = "xor" => List[i].xor) =>
                      /\ List[i].priority <= List[best].priority
                      /\ cpu.benchmark /\ List[i].priority = List[best].priority =>
                           i \in DOMAIN perfs /\ perfs[i] <= perfs[best]
    <3>1. at = Len(List) + 1 /\ best \in 1..Len(List) /\ Usable(best) /\ Passed /\ Len(List) \in Nat
      BY <1>1, <2>1, ScanFinds, ListFalls DEF SelectionInv, Selecting
    <3> HIDE DEF List
    <3>2. 1..at-1 = 1..Len(List)
      BY <3>1
    <3>3. cpu.benchmark => perfs[best] = bestperf
      BY <3>1 DEF Passed
    <3> QED
      BY <3>1, <3>2, <3>3 DEF Usable, Passed
  <2>2. ASSUME phase = "chosen" PROVE GenPicked /\ XorPicked /\ RecovPicked
    BY <1>1, <2>2 DEF SelectionInv
  <2> QED
    BY <2>1, <2>2 DEF BestChosen, GenPicked, XorPicked, RecovPicked
<1> QED
  BY <1>1, SelectionInit, SelectionNext, PTL DEF Spec

-----------------------------------------------------------------------------
(* Bytes and registers.                                                     *)
LEMMA XorFacts ==
  /\ \A a, b, c : Xor(a, Xor(b, c)) = Xor(Xor(a, b), c)
  /\ \A a, b : Xor(a, b) = Xor(b, a)
  /\ \A a : Xor(a, {}) = a /\ Xor({}, a) = a /\ Xor(a, a) = {}
BY DEF Xor

(* The sum of two bytes is a byte.                                          *)
LEMMA XorByte == \A a, b \in Byte : Xor(a, b) \in Byte
BY DEF Xor, Byte

(* What a lane holds is a byte.                                             *)
LEMMA ByteAtIn == \A v, l : ByteAt(v, l) \in Byte
BY DEF ByteAt, Byte

(* Registers with the same bytes are the same.                              *)
LEMMA SameBytes ==
  ASSUME NEW u \in Register, NEW v \in Register, \A l \in Lanes : ByteAt(u, l) = ByteAt(v, l)
  PROVE  u = v
<1>1. ASSUME NEW w \in Register, NEW x \in Register, \A l \in Lanes : ByteAt(w, l) = ByteAt(x, l), NEW k \in w
      PROVE  k \in x
  <2>1. k \in 0..15
    BY DEF Register
  <2>2. CASE k <= 7
    <3>1. k \in ByteAt(w, 0) 
      BY <2>1, <2>2 DEF ByteAt
    <3>2. k \in ByteAt(x, 0)
      BY <1>1, <3>1 DEF Lanes
    <3> QED
      BY <3>2, <2>1 DEF ByteAt
  <2>3. CASE k > 7
    <3>1. k - 8 \in ByteAt(w, 8) /\ 8 + (k - 8) = k
      BY <2>1, <2>3 DEF ByteAt
    <3>2. k - 8 \in ByteAt(x, 8)
      BY <1>1, <3>1 DEF Lanes
    <3> QED
      BY <3>1, <3>2 DEF ByteAt
  <2> QED
    BY <2>1, <2>2, <2>3
<1>2. u \subseteq v
  BY <1>1
<1>3. v \subseteq u
  BY <1>1
<1> QED
  BY <1>2, <1>3

(* Registers are added byte by byte.                                        *)
LEMMA XorBytes ==
  ASSUME NEW u \in Register, NEW v \in Register
  PROVE  /\ Xor(u, v) \in Register
         /\ \A l \in Lanes : ByteAt(Xor(u, v), l) = Xor(ByteAt(u, l), ByteAt(v, l))
BY DEF Xor, Register, ByteAt

(* A register made byte by byte by the function f of bytes.                 *)
Fill(f, v) == UNION {{l + k : k \in f[ByteAt(v, l)]} : l \in Lanes}

(* A register that is made byte by byte has those bytes.                    *)
LEMMA FillBytes ==
  ASSUME NEW f \in [Byte -> Byte], NEW v
  PROVE  /\ Fill(f, v) \in Register
         /\ \A l \in Lanes : ByteAt(Fill(f, v), l) = f[ByteAt(v, l)]
<1> DEFINE a == f[ByteAt(v, 0)]
           b == f[ByteAt(v, 8)]
<1>1. a \in SUBSET (0..7) /\ b \in SUBSET (0..7)
  BY ByteAtIn DEF Byte
<1>2. Fill(f, v) = {0 + k : k \in a} \cup {8 + k : k \in b}
  BY DEF Fill, Lanes
<1> HIDE DEF a, b
<1>3. ASSUME NEW k \in 0..15 PROVE k \in Fill(f, v) <=> (IF k < 8 THEN k \in a ELSE k - 8 \in b)
  BY <1>1, <1>2
<1>4. Fill(f, v) \subseteq 0..15
  BY <1>1, <1>2
<1>5. ByteAt(Fill(f, v), 0) = a
  <2>1. \A k \in 0..7 : k \in 0..15 /\ k < 8 /\ 0 + k = k
    OBVIOUS
  <2>2. \A k \in 0..7 : 0 + k \in Fill(f, v) <=> k \in a
    BY <1>3, <2>1
  <2> QED
    BY <1>1, <2>2 DEF ByteAt
<1>6. ByteAt(Fill(f, v), 8) = b
  <2>1. \A k \in 0..7 : 8 + k \in 0..15 /\ ~(8 + k < 8) /\ (8 + k) - 8 = k
    OBVIOUS
  <2>2. \A k \in 0..7 : 8 + k \in Fill(f, v) <=> k \in b
    BY <1>3, <2>1
  <2> QED
    BY <1>1, <2>2 DEF ByteAt
<1> QED
  BY <1>4, <1>5, <1>6 DEF Register, Lanes, a, b

(* Doubling, as each instruction set does it, doubles every byte.           *)
Twofold == [b \in Byte |-> Times2(b)]

(* Doubling stays in the field.                                             *)
LEMMA Times2In == \A b \in Byte : Times2(b) \in Byte
<1> SUFFICES ASSUME NEW b \in Byte PROVE Times2(b) \in Byte
  OBVIOUS
<1>1. {k + 1 : k \in b \ {7}} \subseteq 0..7
  BY DEF Byte
<1>2. Const1d \subseteq 0..7
  BY DEF Const1d
<1> QED
  BY <1>1, <1>2 DEF Times2, Byte, Xor

(* The vector units' doubling doubles each byte.                            *)
LEMMA DoubleBytes ==
  ASSUME NEW v \in Register
  PROVE  /\ Double(v) \in Register
         /\ \A l \in Lanes : ByteAt(Double(v), l) = Times2(ByteAt(v, l))
<1> DEFINE up == [b \in Byte |-> {k + 1 : k \in b \ {7}}]
           sign == [b \in Byte |-> IF 7 \in b THEN 0..7 ELSE {}]
<1>1. up \in [Byte -> Byte] /\ sign \in [Byte -> Byte]
  <2>1. \A b \in Byte : {k + 1 : k \in b \ {7}} \subseteq 0..7
    BY DEF Byte
  <2> QED
    BY <2>1 DEF Byte
<1>2. AddSelf(v) = Fill(up, v) /\ SignMask(v) = Fill(sign, v)
  <2>1. /\ AddSelf(v) = {0 + k : k \in {i + 1 : i \in ByteAt(v, 0) \ {7}}}
                        \cup {8 + k : k \in {i + 1 : i \in ByteAt(v, 8) \ {7}}}
        /\ SignMask(v) = {0 + k : k \in IF 7 \in ByteAt(v, 0) THEN 0..7 ELSE {}}
                         \cup {8 + k : k \in IF 7 \in ByteAt(v, 8) THEN 0..7 ELSE {}}
    BY DEF AddSelf, SignMask, ByBytes, Lanes
  <2>2. \A f : Fill(f, v) = {0 + k : k \in f[ByteAt(v, 0)]} \cup {8 + k : k \in f[ByteAt(v, 8)]}
    BY DEF Fill, Lanes
  <2>3. \A l \in Lanes : /\ up[ByteAt(v, l)] = {i + 1 : i \in ByteAt(v, l) \ {7}}
                         /\ sign[ByteAt(v, l)] = IF 7 \in ByteAt(v, l) THEN 0..7 ELSE {}
    BY ByteAtIn
  <2> HIDE DEF up, sign
  <2> QED
    BY <2>1, <2>2, <2>3 DEF Lanes
<1>3. \A l \in Lanes : ByteAt(AddSelf(v), l) = {k + 1 : k \in ByteAt(v, l) \ {7}}
  <2> HIDE DEF up, sign
  <2>1. \A l \in Lanes : ByteAt(Fill(up, v), l) = up[ByteAt(v, l)]
    BY <1>1, FillBytes
  <2> QED
    BY <1>2, <2>1, ByteAtIn DEF up
<1>4. \A l \in Lanes : ByteAt(SignMask(v), l) = IF 7 \in ByteAt(v, l) THEN 0..7 ELSE {}
  <2> HIDE DEF up, sign
  <2>1. \A l \in Lanes : ByteAt(Fill(sign, v), l) = sign[ByteAt(v, l)]
    BY <1>1, FillBytes
  <2> QED
    BY <1>2, <2>1, ByteAtIn DEF sign
<1>5. AddSelf(v) \in Register /\ SignMask(v) \in Register
  <2> HIDE DEF up, sign
  <2> QED
    BY <1>1, <1>2, FillBytes
<1>6. ASSUME NEW l \in Lanes
      PROVE  ByteAt(SignMask(v) \cap x1d, l) = IF 7 \in ByteAt(v, l) THEN Const1d ELSE {}
  <2>1. \A k \in 0..7 : l + k \in x1d <=> k \in Const1d
    BY DEF x1d, Each, Lanes, Const1d
  <2>2. ByteAt(SignMask(v) \cap x1d, l) = ByteAt(SignMask(v), l) \cap Const1d
    BY <2>1 DEF ByteAt
  <2>3. Const1d \subseteq 0..7
    BY DEF Const1d
  <2> QED
    BY <1>4, <2>2, <2>3
<1>7. SignMask(v) \cap x1d \in Register
  BY <1>5 DEF Register
<1>8. ASSUME NEW l \in Lanes PROVE ByteAt(Double(v), l) = Times2(ByteAt(v, l))
  <2>1. ByteAt(Double(v), l) = Xor(ByteAt(AddSelf(v), l), ByteAt(SignMask(v) \cap x1d, l))
    BY <1>5, <1>7, XorBytes DEF Double
  <2> QED
    BY <1>3, <1>6, <2>1 DEF Times2
<1> QED
  BY <1>5, <1>7, <1>8, XorBytes DEF Double

(* So does the portable one, with its masks.                                *)
LEMMA DoubleIntIsDouble ==
  ASSUME NEW v \in Register
  PROVE  DoubleInt(v) = Double(v)
<1>1. SHLBYTE(v) = AddSelf(v)
  <2>1. AddSelf(v) = {0 + k : k \in {i + 1 : i \in ByteAt(v, 0) \ {7}}}
                     \cup {8 + k : k \in {i + 1 : i \in ByteAt(v, 8) \ {7}}}
    BY DEF AddSelf, ByBytes, Lanes
  <2>2. AddSelf(v) \subseteq SHLBYTE(v)
    <3>1. \A i \in ByteAt(v, 0) \ {7} : i \in v \ {15} /\ 0 + (i + 1) \in Each(1..7)
      BY DEF ByteAt, Each, Lanes
    <3>2. \A i \in ByteAt(v, 8) \ {7} : 8 + i \in v \ {15} /\ 8 + (i + 1) \in Each(1..7) /\ 8 + (i + 1) = (8 + i) + 1
      BY DEF ByteAt, Each, Lanes
    <3> QED
      BY <2>1, <3>1, <3>2 DEF SHLBYTE, ByteAt
  <2>3. SHLBYTE(v) \subseteq AddSelf(v)
    <3> SUFFICES ASSUME NEW i \in v \ {15}, i + 1 \in Each(1..7)
                 PROVE  i + 1 \in AddSelf(v)
      BY DEF SHLBYTE
    <3>1. i \in 0..15
      BY DEF Register
    <3>2. CASE i + 1 \in 1..7
      <4>1. i \in ByteAt(v, 0) \ {7} /\ i + 1 = 0 + (i + 1)
        BY <3>1, <3>2 DEF ByteAt
      <4> QED
        BY <2>1, <4>1
    <3>3. CASE i + 1 \in 9..15
      <4>1. i - 8 \in ByteAt(v, 8) \ {7} /\ i + 1 = 8 + ((i - 8) + 1)
        BY <3>1, <3>3 DEF ByteAt
      <4> QED
        BY <2>1, <4>1
    <3> QED
      BY <3>1, <3>2, <3>3 DEF Each, Lanes
  <2> QED
    BY <2>2, <2>3
<1>2. MASK(v) = SignMask(v)
  <2> DEFINE u == v \cap Each({7})
  <2>1. u \in SUBSET Each({7}) /\ u \cap Each({7}) = u
    OBVIOUS
  <2>2. MASK(v) = MASK(u)
    BY <2>1 DEF MASK
  <2>3. \A l \in Lanes : 7 \in ByteAt(v, l) <=> 7 \in ByteAt(u, l)
    <3>1. \A l \in Lanes : l + 7 \in Each({7})
      BY DEF Each
    <3> QED
      BY <3>1 DEF ByteAt
  <2>4. SignMask(v) = SignMask(u)
    BY <2>3 DEF SignMask, ByBytes
  <2>5. MASK(u) = SignMask(u)
    BY <2>1, TablesAssumption DEF DoublingIsRight
  <2> QED
    BY <2>2, <2>4, <2>5
<1> QED
  BY <1>1, <1>2 DEF DoubleInt, Double

(* A lane-wise routine does to a byte what it does to a register of one.    *)
LEMMA OneByte ==
  ASSUME NEW f \in [Byte -> Byte], NEW b \in Byte
  PROVE  ByteAt(Fill(f, b), 0) = f[b]
<1>1. ByteAt(b, 0) = b
  <2>1. \A k \in 0..7 : 0 + k = k
    OBVIOUS
  <2> QED
    BY <2>1 DEF ByteAt, Byte
<1> QED
  BY <1>1, FillBytes DEF Lanes

(* What it does to one byte it does to each.                                *)
LEMMA FromOneByte ==
  ASSUME NEW f \in [Byte -> Byte], NEW g \in [Byte -> Byte], \A b \in Byte : Fill(f, b) = g[b]
  PROVE  f = g
<1>1. ASSUME NEW b \in Byte PROVE f[b] = g[b]
  <2>1. ByteAt(g[b], 0) = g[b]
    <3>1. \A k \in 0..7 : 0 + k = k
      OBVIOUS
    <3>2. g[b] \in SUBSET (0..7)
      BY DEF Byte
    <3> QED
      BY <3>1, <3>2 DEF ByteAt
  <2> QED
    BY <2>1, OneByte
<1> QED
  BY <1>1

(* The two lanes of a register.                                             *)
LEMMA FillIs ==
  \A f, v : Fill(f, v) = {0 + k : k \in f[ByteAt(v, 0)]} \cup {8 + k : k \in f[ByteAt(v, 8)]}
BY DEF Fill, Lanes

(* So does the one by a permutation of nibbles.                             *)
LEMMA DoublePermBytes ==
  ASSUME NEW v \in Register
  PROVE  /\ DoublePerm(v) \in Register
         /\ \A l \in Lanes : ByteAt(DoublePerm(v), l) = Times2(ByteAt(v, l))
<1> DEFINE F(b) == Xor(gf_high[Number({k - 4 : k \in b \cap 4..7})], gf_low[Number(b \cap 0..3)])
           f == [b \in Byte |-> F(b)]
<1>1. f \in [Byte -> Byte]
  <2>1. ASSUME NEW n \in 0..15 PROVE gf_high[n] \in Byte /\ gf_low[n] \in Byte
    <3>1. \A i : Bits(i) \in Byte
      BY DEF Bits, Byte
    <3>2. Const1d \in Byte
      BY DEF Const1d, Byte
    <3>3. gf_low[n] = Bits(2 * n)
      BY DEF gf_low
    <3>4. gf_high[n] = Bits(32 * n) \/ gf_high[n] = Xor(Bits(32 * (n - 8)), Const1d)
      BY DEF gf_high
    <3> QED
      BY <3>1, <3>2, <3>3, <3>4, XorByte
  <2>2. ASSUME NEW b \in Byte PROVE F(b) \in Byte
    <3>1. {k - 4 : k \in b \cap 4..7} \in SUBSET (0..3) /\ b \cap 0..3 \in SUBSET (0..3)
      BY DEF Byte
    <3>2. Number({k - 4 : k \in b \cap 4..7}) \in 0..15 /\ Number(b \cap 0..3) \in 0..15
      BY <3>1, TablesAssumption DEF DoublingIsRight
    <3> QED
      BY <2>1, <3>2, XorByte
  <2> HIDE DEF F
  <2> QED
    BY <2>2
<1>2. ASSUME NEW w PROVE DoublePerm(w) = Fill(f, w)
  <2>1. DoublePerm(w) = {0 + k : k \in F(ByteAt(w, 0))} \cup {8 + k : k \in F(ByteAt(w, 8))}
    BY DEF DoublePerm, ByBytes, Lanes
  <2> HIDE DEF F
  <2>2. f[ByteAt(w, 0)] = F(ByteAt(w, 0)) /\ f[ByteAt(w, 8)] = F(ByteAt(w, 8))
    BY ByteAtIn
  <2> HIDE DEF f
  <2> QED
    BY <2>1, <2>2, FillIs
<1> HIDE DEF f
<1>3. f = Twofold
  <2>1. \A b \in Byte : Fill(f, b) = Twofold[b]
    BY <1>2, TablesAssumption DEF DoublingIsRight, Twofold
  <2>2. Twofold \in [Byte -> Byte]
    BY Times2In DEF Twofold
  <2> QED
    BY <1>1, <2>1, <2>2, FromOneByte
<1>4. \A l \in Lanes : Twofold[ByteAt(v, l)] = Times2(ByteAt(v, l))
  BY ByteAtIn DEF Twofold
<1> QED
  BY <1>1, <1>2, <1>3, <1>4, FillBytes

Isas == {"int", "perm", "simd", "neon"}

(* Doubling in any of the instruction sets doubles each byte.               *)
LEMMA TwiceBytes ==
  ASSUME NEW isa \in Isas, NEW v \in Register
  PROVE  /\ Twice(isa, v) \in Register
         /\ \A l \in Lanes : ByteAt(Twice(isa, v), l) = Times2(ByteAt(v, l))
<1>1. CASE isa = "int"
  BY <1>1, DoubleIntIsDouble, DoubleBytes DEF Twice
<1>2. CASE isa = "perm"
  BY <1>2, DoublePermBytes DEF Twice
<1>3. CASE isa \in {"simd", "neon"}
  BY <1>3, DoubleBytes DEF Twice
<1> QED
  BY <1>1, <1>2, <1>3 DEF Isas

(* NEON's multiplication by a power of 2 doubles as often as it says.       *)
TwofoldAgain(s) == [b \in Byte |-> CASE s = 1 -> Times2(b)
                                    [] s = 2 -> Times2(Times2(b))
                                    [] s = 3 -> Times2(Times2(Times2(b)))
                                    [] s = 4 -> Times2(Times2(Times2(Times2(b))))]

(* Doubling one to four times at once doubles each byte as often.           *)
LEMMA TimesPowerBytes ==
  ASSUME NEW v \in Register, NEW s \in 1..4
  PROVE  /\ TimesPower(v, s) \in Register
         /\ \A l \in Lanes : ByteAt(TimesPower(v, s), l) = TwofoldAgain(s)[ByteAt(v, l)]
<1> DEFINE F(b) == Xor({k + s : k \in {j \in b : j + s < 8}},
                       PMUL({k + s - 8 : k \in {j \in b : j + s >= 8}}, Const1d))
           f == [b \in Byte |-> F(b)]
<1>1. f \in [Byte -> Byte]
  <2>1. ASSUME NEW b \in Byte PROVE F(b) \in Byte
    <3>1. {k + s : k \in {j \in b : j + s < 8}} \in Byte
      BY DEF Byte
    <3>2. PMUL({k + s - 8 : k \in {j \in b : j + s >= 8}}, Const1d) \in Byte
      BY DEF PMUL, Byte
    <3> QED
      BY <3>1, <3>2, XorByte
  <2> HIDE DEF F
  <2> QED
    BY <2>1
<1>2. ASSUME NEW w PROVE TimesPower(w, s) = Fill(f, w)
  <2>1. TimesPower(w, s) = {0 + k : k \in F(ByteAt(w, 0))} \cup {8 + k : k \in F(ByteAt(w, 8))}
    BY DEF TimesPower, ByBytes, Lanes
  <2> HIDE DEF F
  <2>2. f[ByteAt(w, 0)] = F(ByteAt(w, 0)) /\ f[ByteAt(w, 8)] = F(ByteAt(w, 8))
    BY ByteAtIn
  <2> HIDE DEF f
  <2> QED
    BY <2>1, <2>2, FillIs
<1> HIDE DEF f
<1>3. f = TwofoldAgain(s)
  <2>1. ASSUME NEW b \in Byte PROVE Fill(f, b) = TwofoldAgain(s)[b]
    <3>1. CASE s = 1
      BY <1>2, <3>1, TablesAssumption DEF DoublingIsRight, TwofoldAgain
    <3>2. CASE s = 2
      BY <1>2, <3>2, TablesAssumption DEF DoublingIsRight, TwofoldAgain
    <3>3. CASE s = 3
      BY <1>2, <3>3, TablesAssumption DEF DoublingIsRight, TwofoldAgain
    <3>4. CASE s = 4
      BY <1>2, <3>4, TablesAssumption DEF DoublingIsRight, TwofoldAgain
    <3> QED
      BY <3>1, <3>2, <3>3, <3>4
  <2>2. TwofoldAgain(s) \in [Byte -> Byte]
    BY Times2In DEF TwofoldAgain
  <2> QED
    BY <1>1, <2>1, <2>2, FromOneByte
<1> QED
  BY <1>1, <1>2, <1>3, FillBytes

-----------------------------------------------------------------------------
(* The product is linear in its second argument.                            *)
IsMul(f, x, y) ==
  f = [k \in 0..8 |->
         IF k = 0 THEN [v |-> {}, a |-> x]
                  ELSE LET was == f[k - 1]
                       IN  [v |-> IF k - 1 \in y THEN Xor(was.v, was.a) ELSE was.v,
                            a |-> Times2(was.a)]]

MulAt(f, x, y) ==
  /\ f[0] = [v |-> {}, a |-> x]
  /\ \A k \in 0..8 : f[k].v \in Byte /\ f[k].a \in Byte
  /\ \A k \in 1..8 : /\ f[k].v = IF k - 1 \in y THEN Xor(f[k - 1].v, f[k - 1].a) ELSE f[k - 1].v
                     /\ f[k].a = Times2(f[k - 1].a)

(* The loop of gfmul() is a function, and ends with the product.            *)
LEMMA MulLoop ==
  ASSUME NEW x \in Byte, NEW y
  PROVE  \E f : IsMul(f, x, y) /\ MulAt(f, x, y) /\ gfmul(x, y) = f[8].v
<1> DEFINE V == [v : Byte, a : Byte]
           Step(k, was) == [v |-> IF k - 1 \in y THEN Xor(was.v, was.a) ELSE was.v,
                            a |-> Times2(was.a)]
           base == [v |-> {}, a |-> x]
           step == [p \in (1..8) \X V |-> Step(p[1], p[2])]
<1>1. step \in [(1..8) \X V -> V]
  <2>1. ASSUME NEW k \in 1..8, NEW was \in V PROVE Step(k, was) \in V
    BY XorByte, Times2In
  <2> HIDE DEF V, Step
  <2> QED
    BY <2>1
<1>2. base \in V
  BY DEF Byte
<1>3. PICK f : Recurs(f, 8, V, base, step)
  <2> HIDE DEF V, step, base
  <2> QED
    BY <1>1, <1>2, Recursion
<1>4. f \in [0..8 -> V] /\ f[0] = base
  BY <1>3 DEF Recurs
<1>5. ASSUME NEW k \in 1..8 PROVE f[k] = Step(k, f[k - 1])
  <2>1. f[k - 1] \in V
    BY <1>4
  <2>2. f[k] = step[<<k, f[k - 1]>>]
    BY <1>3 DEF Recurs
  <2> HIDE DEF V, Step
  <2> QED
    BY <2>1, <2>2
<1>6. IsMul(f, x, y)
  <2>1. f = [k \in 0..8 |-> IF k = 0 THEN base ELSE Step(k, f[k - 1])]
    <3> HIDE DEF V, Step, base
    <3> QED
      BY <1>4, <1>5
  <2> QED
    BY <2>1 DEF IsMul
<1> DEFINE g == CHOOSE h : IsMul(h, x, y)
<1>7. IsMul(g, x, y) /\ gfmul(x, y) = g[8].v
  BY <1>6 DEF gfmul, IsMul
<1> HIDE DEF g
<1>8. g[0] = base /\ \A k \in 1..8 : g[k] = Step(k, g[k - 1])
  BY <1>7 DEF IsMul
<1> DEFINE Good == {k \in 0..8 : g[k] \in V}
<1>9. 0..8 \subseteq Good
  <2>1. 0 \in Good
    BY <1>2, <1>8
  <2>2. ASSUME NEW k \in 1..8, k - 1 \in Good PROVE k \in Good
    <3>1. Step(k, g[k - 1]) \in V
      BY <2>2, XorByte, Times2In
    <3> HIDE DEF Step
    <3> QED
      BY <1>8, <3>1
  <2> HIDE DEF Good
  <2> QED
    BY <2>1, <2>2, UpTo
<1>10. MulAt(g, x, y)
  <2>1. \A k \in 0..8 : g[k].v \in Byte /\ g[k].a \in Byte
    BY <1>9
  <2> QED
    BY <1>8, <2>1 DEF MulAt
<1> QED
  BY <1>7, <1>10

(* A product is a byte.                                                     *)
LEMMA MulByteIn == \A x \in Byte : \A y : gfmul(x, y) \in Byte
<1> SUFFICES ASSUME NEW x \in Byte, NEW y PROVE gfmul(x, y) \in Byte
  OBVIOUS
<1>1. PICK f : MulAt(f, x, y) /\ gfmul(x, y) = f[8].v
  BY MulLoop
<1> QED
  BY <1>1 DEF MulAt

(* The product of a sum is the sum of the products.                         *)
LEMMA MulLinear ==
  ASSUME NEW x \in Byte, NEW y, NEW z
  PROVE  gfmul(x, Xor(y, z)) = Xor(gfmul(x, y), gfmul(x, z))
<1>1. PICK f : MulAt(f, x, y) /\ gfmul(x, y) = f[8].v
  BY MulLoop
<1>2. PICK g : MulAt(g, x, z) /\ gfmul(x, z) = g[8].v
  BY MulLoop
<1>3. PICK h : MulAt(h, x, Xor(y, z)) /\ gfmul(x, Xor(y, z)) = h[8].v
  BY MulLoop
<1> DEFINE Good == {k \in 0..8 : f[k].a = h[k].a /\ g[k].a = h[k].a /\ h[k].v = Xor(f[k].v, g[k].v)}
<1>4. 0 \in Good
  <2>1. f[0].a = x /\ g[0].a = x /\ h[0].a = x /\ f[0].v = {} /\ g[0].v = {} /\ h[0].v = {}
    BY <1>1, <1>2, <1>3 DEF MulAt
  <2>2. Xor({}, {}) = {}
    BY DEF Xor
  <2>3. h[0].v = Xor(f[0].v, g[0].v)
    BY ONLY <2>1, <2>2
  <2>4. f[0].a = h[0].a /\ g[0].a = h[0].a
    BY ONLY <2>1
  <2> QED
    BY <2>3, <2>4
<1>5. ASSUME NEW k \in 1..8, k - 1 \in Good PROVE k \in Good
  <2> DEFINE a == h[k - 1].a
             u == f[k - 1].v
             w == g[k - 1].v
  <2>1. f[k].a = Times2(a) /\ g[k].a = Times2(a) /\ h[k].a = Times2(a)
    BY <1>1, <1>2, <1>3, <1>5 DEF MulAt
  <2>2. /\ f[k].v = IF k - 1 \in y THEN Xor(u, a) ELSE u
        /\ g[k].v = IF k - 1 \in z THEN Xor(w, a) ELSE w
        /\ h[k].v = IF k - 1 \in Xor(y, z) THEN Xor(Xor(u, w), a) ELSE Xor(u, w)
    BY <1>1, <1>2, <1>3, <1>5 DEF MulAt
  <2> HIDE DEF a, u, w
  <2>3. k - 1 \in Xor(y, z) <=> ~(k - 1 \in y <=> k - 1 \in z)
    BY DEF Xor
  <2>4. /\ Xor(Xor(u, a), w) = Xor(Xor(u, w), a) /\ Xor(u, Xor(w, a)) = Xor(Xor(u, w), a)
        /\ Xor(Xor(u, a), Xor(w, a)) = Xor(u, w)
    BY DEF Xor
  <2>5. h[k].v = Xor(f[k].v, g[k].v)
    BY <2>2, <2>3, <2>4
  <2> QED
    BY <2>1, <2>5
<1>6. 0..8 \subseteq Good
  <2> HIDE DEF Good
  <2> QED
    BY <1>4, <1>5, UpTo
<1> QED
  BY <1>1, <1>2, <1>3, <1>6

(* Nothing times a byte is nothing.                                         *)
LEMMA MulZero == \A x \in Byte : gfmul(x, {}) = {}
<1> SUFFICES ASSUME NEW x \in Byte PROVE gfmul(x, {}) = {}
  OBVIOUS
<1>1. gfmul(x, Xor({}, {})) = Xor(gfmul(x, {}), gfmul(x, {}))
  BY MulLinear
<1> QED
  BY <1>1, XorFacts

(* What holds of {} and of single bits and of the sum of any two of which   *)
(* it holds, holds of every byte.                                           *)
LEMMA FromBits ==
  ASSUME NEW Good \in SUBSET Byte, {} \in Good, \A x \in Single : x \in Good,
         \A x, y \in Good : Xor(x, y) \in Good
  PROVE  Good = Byte
<1> SUFFICES ASSUME NEW b \in Byte PROVE b \in Good
  OBVIOUS
<1>5. \A i \in b : i \in 0..7
  BY DEF Byte
<1> DEFINE Fits == {k \in 0..8 : {i \in b : i < k} \in Good}
<1>1. 0 \in Fits
  <2>1. {i \in b : i < 0} = {}
    BY <1>5
  <2> QED
    BY <2>1
<1>2. ASSUME NEW k \in 1..8, k - 1 \in Fits PROVE k \in Fits
  <2> DEFINE c == {i \in b : i < k - 1}
  <2>1. CASE k - 1 \in b
    <3>1. {i \in b : i < k} = Xor(c, {k - 1})
      BY <1>5, <2>1 DEF Xor
    <3>2. c \in Good
      BY <1>2
    <3>3. {k - 1} \in Good
      <4>1. k - 1 \in 0..7
        OBVIOUS
      <4>2. {k - 1} \in Single
        BY <4>1 DEF Single
      <4> QED
        BY <4>2
    <3> HIDE DEF c
    <3> QED
      BY <3>1, <3>2, <3>3
  <2>2. CASE k - 1 \notin b
    <3>1. {i \in b : i < k} = c
      BY <1>5, <2>2
    <3> QED
      BY <1>2, <3>1
  <2> QED
    BY <2>1, <2>2
<1>3. 8 \in Fits
  <2> HIDE DEF Fits
  <2>1. 0..8 \subseteq Fits
    BY <1>1, <1>2, UpTo
  <2> QED
    BY <2>1
<1>4. {i \in b : i < 8} = b
  BY <1>5
<1> QED
  BY <1>3, <1>4

-----------------------------------------------------------------------------
(* Multiplying every byte of a register: Times by the definition of the     *)
(* code, Mul as the recovery routines do it.                                *)
Powers == 0..MaxData
Numbers == 0..MaxData-1

(* A power of 2 is a byte.                                                  *)
LEMMA PowerIn == \A n \in Powers : FieldExp(n) \in Byte
BY TablesAssumption DEF ProductsAreRight, Powers

(* Times multiplies each byte.                                              *)
LEMMA TimesBytes ==
  ASSUME NEW n \in Powers, NEW v \in Register
  PROVE  /\ Times(n, v) \in Register
         /\ \A l \in Lanes : ByteAt(Times(n, v), l) = gfmul(FieldExp(n), ByteAt(v, l))
<1> DEFINE F(b) == FieldMul(FieldExp(n), b)
           f == [b \in Byte |-> F(b)]
<1>1. ASSUME NEW b \in Byte PROVE F(b) \in Byte /\ F(b) = gfmul(FieldExp(n), b)
  <2>1. FieldExp(n) \in Byte
    BY PowerIn
  <2> QED
    BY <2>1, MulByteIn, TablesAssumption DEF TablesAreRight
<1>2. Times(n, v) = {0 + k : k \in F(ByteAt(v, 0))} \cup {8 + k : k \in F(ByteAt(v, 8))}
  BY DEF Times, ByBytes, Lanes
<1> HIDE DEF F
<1>3. f \in [Byte -> Byte] /\ \A l : f[ByteAt(v, l)] = F(ByteAt(v, l))
  BY <1>1, ByteAtIn
<1> HIDE DEF f
<1>4. Times(n, v) = Fill(f, v)
  BY <1>2, <1>3, FillIs
<1> QED
  BY <1>1, <1>3, <1>4, FillBytes, ByteAtIn

(* Times of a sum is the sum.                                               *)
LEMMA TimesXor ==
  ASSUME NEW n \in Powers, NEW u \in Register, NEW v \in Register
  PROVE  Times(n, Xor(u, v)) = Xor(Times(n, u), Times(n, v))
<1>1. Xor(u, v) \in Register /\ \A l \in Lanes : ByteAt(Xor(u, v), l) = Xor(ByteAt(u, l), ByteAt(v, l))
  BY XorBytes
<1>2. Times(n, Xor(u, v)) \in Register /\ Times(n, u) \in Register /\ Times(n, v) \in Register
  BY <1>1, TimesBytes
<1>3. Xor(Times(n, u), Times(n, v)) \in Register
  BY <1>2, XorBytes
<1>4. ASSUME NEW l \in Lanes
      PROVE  ByteAt(Times(n, Xor(u, v)), l) = ByteAt(Xor(Times(n, u), Times(n, v)), l)
  <2>1. FieldExp(n) \in Byte
    BY PowerIn
  <2>2. ByteAt(Times(n, Xor(u, v)), l) = gfmul(FieldExp(n), Xor(ByteAt(u, l), ByteAt(v, l)))
    BY <1>1, TimesBytes
  <2>3. ByteAt(Xor(Times(n, u), Times(n, v)), l)
        = Xor(gfmul(FieldExp(n), ByteAt(u, l)), gfmul(FieldExp(n), ByteAt(v, l)))
    BY <1>2, XorBytes, TimesBytes
  <2> QED
    BY <2>1, <2>2, <2>3, MulLinear
<1> QED
  BY <1>2, <1>3, <1>4, SameBytes

(* The next power of 2 is the power of the double.                          *)
LEMMA TimesTwice ==
  ASSUME NEW n \in Powers, n + 1 \in Powers, NEW isa \in Isas, NEW v \in Register
  PROVE  Times(n, Twice(isa, v)) = Times(n + 1, v)
<1>1. Twice(isa, v) \in Register /\ \A l \in Lanes : ByteAt(Twice(isa, v), l) = Times2(ByteAt(v, l))
  BY TwiceBytes
<1>2. Times(n, Twice(isa, v)) \in Register /\ Times(n + 1, v) \in Register
  BY <1>1, TimesBytes
<1>3. ASSUME NEW l \in Lanes PROVE ByteAt(Times(n, Twice(isa, v)), l) = ByteAt(Times(n + 1, v), l)
  <2> DEFINE b == ByteAt(v, l)
  <2>1. b \in Byte /\ Times2(b) \in Byte /\ FieldExp(n) \in Byte /\ FieldExp(n + 1) \in Byte
    BY ByteAtIn, Times2In, PowerIn
  <2>2. ByteAt(Times(n, Twice(isa, v)), l) = gfmul(FieldExp(n), Times2(b))
    BY <1>1, TimesBytes
  <2>3. ByteAt(Times(n + 1, v), l) = gfmul(FieldExp(n + 1), b)
    BY TimesBytes
  <2> HIDE DEF b
  <2>4. n \in 0..MaxData-1
    BY DEF Powers, MaxData
  <2>5. FieldMul(FieldExp(n), Times2(b)) = FieldMul(FieldExp(n + 1), b)
    BY <2>1, <2>4, TablesAssumption DEF ProductsAreRight
  <2>6. /\ gfmul(FieldExp(n), Times2(b)) = FieldMul(FieldExp(n), Times2(b))
        /\ gfmul(FieldExp(n + 1), b) = FieldMul(FieldExp(n + 1), b)
    BY <2>1, TablesAssumption DEF TablesAreRight
  <2> QED
    BY <2>2, <2>3, <2>5, <2>6
<1> QED
  BY <1>2, <1>3, SameBytes

(* The first data column counts once.                                       *)
LEMMA TimesOne ==
  ASSUME NEW v \in Register
  PROVE  Times(0, v) = v
<1>1. 0 \in Powers
  BY DEF Powers, MaxData
<1>2. ASSUME NEW l \in Lanes PROVE ByteAt(Times(0, v), l) = ByteAt(v, l)
  <2> DEFINE b == ByteAt(v, l)
  <2>1. ByteAt(Times(0, v), l) = gfmul(FieldExp(0), b)
    BY <1>1, TimesBytes
  <2>2. b \in Byte /\ FieldExp(0) \in Byte
    BY <1>1, ByteAtIn, PowerIn
  <2> HIDE DEF b
  <2>3. gfmul(FieldExp(0), b) = FieldMul(FieldExp(0), b)
    BY <2>2, TablesAssumption DEF TablesAreRight
  <2>4. FieldMul(FieldExp(0), b) = b
    BY <2>2, TablesAssumption DEF ProductsAreRight
  <2> QED
    BY <2>1, <2>3, <2>4 DEF b
<1> QED
  BY <1>1, <1>2, SameBytes, TimesBytes

(* The halves of the bytes of a register.                                   *)
LEMMA NibbleBytes ==
  ASSUME NEW v \in Register
  PROVE  /\ LowNibbles(v) \in Register /\ ShiftRight8(v) \in Register
         /\ LowNibbles(ShiftRight16(v)) = ShiftRight8(v)
         /\ \A l \in Lanes : /\ ByteAt(LowNibbles(v), l) = ByteAt(v, l) \cap 0..3
                             /\ ByteAt(ShiftRight8(v), l) = {k - 4 : k \in ByteAt(v, l) \cap 4..7}
<1>1. LowNibbles(v) \in Register
  BY DEF LowNibbles, Register
<1>2. ASSUME NEW l \in Lanes PROVE ByteAt(LowNibbles(v), l) = ByteAt(v, l) \cap 0..3
  <2>1. \A k \in 0..7 : l + k \in Each(0..3) <=> k \in 0..3
    BY DEF Each, Lanes
  <2> QED
    BY <2>1 DEF LowNibbles, ByteAt
<1> DEFINE f == [b \in Byte |-> {k - 4 : k \in b \cap 4..7}]
<1>3. f \in [Byte -> Byte] /\ \A l : f[ByteAt(v, l)] = {k - 4 : k \in ByteAt(v, l) \cap 4..7}
  <2>1. \A b \in Byte : {k - 4 : k \in b \cap 4..7} \in Byte
    BY DEF Byte
  <2> QED
    BY <2>1, ByteAtIn
<1>4. ShiftRight8(v) = {0 + k : k \in {i - 4 : i \in ByteAt(v, 0) \cap 4..7}}
                       \cup {8 + k : k \in {i - 4 : i \in ByteAt(v, 8) \cap 4..7}}
  BY DEF ShiftRight8, ByBytes, Lanes
<1> HIDE DEF f
<1>5. ShiftRight8(v) = Fill(f, v)
  BY <1>3, <1>4, FillIs
<1>6. LowNibbles(ShiftRight16(v)) = ShiftRight8(v)
  <2>1. \A i \in v : i \in 0..15
    BY DEF Register
  <2>2. ShiftRight8(v) = {i - 4 : i \in v \cap 4..7} \cup {i - 4 : i \in v \cap 12..15}
    <3>1. \A i \in 4..7 : i \in ByteAt(v, 0) <=> i \in v
      BY DEF ByteAt
    <3>2. \A i \in 12..15 : i - 8 \in ByteAt(v, 8) <=> i \in v
      BY DEF ByteAt
    <3>3. {0 + k : k \in {i - 4 : i \in ByteAt(v, 0) \cap 4..7}} = {i - 4 : i \in v \cap 4..7}
      <4>1. ByteAt(v, 0) \cap 4..7 = v \cap 4..7
        BY <3>1
      <4>2. \A i \in 4..7 : 0 + (i - 4) = i - 4
        OBVIOUS
      <4> QED
        BY <4>1, <4>2
    <3>4. {8 + k : k \in {i - 4 : i \in ByteAt(v, 8) \cap 4..7}} = {i - 4 : i \in v \cap 12..15}
      <4>1. \A i \in v \cap 12..15 : i - 8 \in ByteAt(v, 8) \cap 4..7 /\ i - 4 = 8 + ((i - 8) - 4)
        BY <3>2
      <4>2. \A i \in ByteAt(v, 8) \cap 4..7 : 8 + i \in v \cap 12..15 /\ 8 + (i - 4) = (8 + i) - 4
        BY DEF ByteAt
      <4> QED
        BY <4>1, <4>2
    <3> QED
      BY <1>4, <3>3, <3>4
  <2>3. \A j \in 0..15 : j \in Each(0..3) <=> j \in 0..3 \/ j \in 8..11
    BY DEF Each, Lanes
  <2>4. \A j : j \in ShiftRight16(v) \cap Each(0..3)
               <=> j \in {i - 4 : i \in v \cap 4..7} \/ j \in {i - 4 : i \in v \cap 12..15}
    BY <2>1, <2>3 DEF ShiftRight16
  <2> QED
    BY <2>2, <2>4 DEF LowNibbles
<1> QED
  BY <1>1, <1>2, <1>3, <1>5, <1>6, FillBytes

(* A table that is looked up by the halves of the bytes.                    *)
LEMMA ShuffleBytes ==
  ASSUME NEW a \in Byte, NEW half \in {0, 1}, NEW v \in Register,
         \A l \in Lanes : ByteAt(v, l) \in SUBSET (0..3)
  PROVE  /\ Shuffle(a, half, v) \in Register
         /\ \A l \in Lanes : ByteAt(Shuffle(a, half, v), l)
                             = gfmul(a, IF half = 0 THEN ByteAt(v, l) ELSE {k + 4 : k \in ByteAt(v, l)})
<1> DEFINE F(b) == IF 7 \in b THEN {} ELSE vgfmul(a, 16 * half + Number(b \cap 0..3))
           f == [b \in Byte |-> F(b)]
<1>1. ASSUME NEW b \in Byte PROVE F(b) \in Byte
  BY MulByteIn DEF vgfmul, Byte
<1>2. Shuffle(a, half, v) = {0 + k : k \in F(ByteAt(v, 0))} \cup {8 + k : k \in F(ByteAt(v, 8))}
  BY DEF Shuffle, ByBytes, Lanes
<1>3. ASSUME NEW l \in Lanes
      PROVE  F(ByteAt(v, l)) = gfmul(a, IF half = 0 THEN ByteAt(v, l) ELSE {k + 4 : k \in ByteAt(v, l)})
  <2> DEFINE b == ByteAt(v, l)
  <2>1. b \in SUBSET (0..3) /\ 7 \notin b /\ b \cap 0..3 = b
    OBVIOUS
  <2> HIDE DEF b
  <2>2. Number(b) \in 0..15 /\ Bits(Number(b)) = b
    BY <2>1, TablesAssumption DEF DoublingIsRight
  <2>3. CASE half = 0
    BY <2>1, <2>2, <2>3 DEF vgfmul, b
  <2>4. CASE half = 1
    <3>1. 16 * 1 + Number(b) >= 16 /\ 16 * 1 + Number(b) - 16 = Number(b)
      BY <2>2
    <3>2. vgfmul(a, 16 * 1 + Number(b)) = gfmul(a, {k + 4 : k \in b})
      BY <2>2, <3>1 DEF vgfmul
    <3> QED
      BY <2>1, <2>4, <3>2 DEF b
  <2> QED
    BY <2>3, <2>4
<1> HIDE DEF F
<1>4. f \in [Byte -> Byte] /\ \A l : f[ByteAt(v, l)] = F(ByteAt(v, l))
  BY <1>1, ByteAtIn
<1> HIDE DEF f
<1>5. Shuffle(a, half, v) = Fill(f, v)
  BY <1>2, <1>4, FillIs
<1> QED
  BY <1>3, <1>4, <1>5, FillBytes

(* Multiplication by the tables, as each recovery routine does it.          *)
Multipliers == {"bytes", "words", "nibbles"}

(* Whichever way a recovery multiplies, each byte is multiplied.            *)
LEMMA MulBytes ==
  ASSUME NEW isa \in Multipliers, NEW a \in Byte, NEW v \in Register
  PROVE  /\ Mul(isa, a, v) \in Register
         /\ \A l \in Lanes : ByteAt(Mul(isa, a, v), l) = gfmul(a, ByteAt(v, l))
<1>1. CASE isa = "bytes"
  <2> DEFINE f == [b \in Byte |-> gfmul(a, b)]
  <2>1. f \in [Byte -> Byte] /\ \A l : f[ByteAt(v, l)] = gfmul(a, ByteAt(v, l))
    BY MulByteIn, ByteAtIn
  <2>2. MulByte(a, v) = {0 + k : k \in gfmul(a, ByteAt(v, 0))} \cup {8 + k : k \in gfmul(a, ByteAt(v, 8))}
    BY DEF MulByte, ByBytes, Lanes
  <2> HIDE DEF f
  <2>3. Mul(isa, a, v) = Fill(f, v)
    BY <1>1, <2>1, <2>2, FillIs DEF Mul
  <2> QED
    BY <2>1, <2>3, FillBytes
<1>2. CASE isa \in {"words", "nibbles"}
  <2> DEFINE low == LowNibbles(v)
             high == ShiftRight8(v)
             sum == Xor(Shuffle(a, 0, low), Shuffle(a, 1, high))
  <2>1. Mul(isa, a, v) = sum
    BY <1>2, NibbleBytes DEF Mul, MulNibble, MulNibble8
  <2>2. /\ low \in Register /\ high \in Register
        /\ \A l \in Lanes : /\ ByteAt(low, l) = ByteAt(v, l) \cap 0..3
                            /\ ByteAt(high, l) = {k - 4 : k \in ByteAt(v, l) \cap 4..7}
    BY NibbleBytes
  <2> HIDE DEF low, high
  <2>3. /\ Shuffle(a, 0, low) \in Register
        /\ \A l \in Lanes : ByteAt(Shuffle(a, 0, low), l) = gfmul(a, ByteAt(low, l))
    <3>1. \A l \in Lanes : ByteAt(low, l) \in SUBSET (0..3)
      BY <2>2
    <3> QED
      BY <2>2, <3>1, ShuffleBytes
  <2>4. /\ Shuffle(a, 1, high) \in Register
        /\ \A l \in Lanes : ByteAt(Shuffle(a, 1, high), l) = gfmul(a, {k + 4 : k \in ByteAt(high, l)})
    <3>1. \A l \in Lanes : ByteAt(high, l) \in SUBSET (0..3)
      BY <2>2
    <3> QED
      BY <2>2, <3>1, ShuffleBytes
  <2>5. ASSUME NEW l \in Lanes PROVE ByteAt(sum, l) = gfmul(a, ByteAt(v, l))
    <3> DEFINE b == ByteAt(v, l)
               x == b \cap 0..3
               y == {k + 4 : k \in ByteAt(high, l)}
    <3>1. ByteAt(sum, l) = Xor(gfmul(a, x), gfmul(a, y))
      <4>1. ByteAt(sum, l) = Xor(ByteAt(Shuffle(a, 0, low), l), ByteAt(Shuffle(a, 1, high), l))
        BY <2>3, <2>4, XorBytes
      <4>2. ByteAt(low, l) = x
        BY <2>2
      <4> QED
        BY <2>3, <2>4, <4>1, <4>2
    <3>2. Xor(x, y) = b
      <4>1. b \in Byte /\ ByteAt(high, l) = {k - 4 : k \in b \cap 4..7}
        BY <2>2, ByteAtIn
      <4> HIDE DEF b
      <4>2. \A i \in b : i \in 0..3 \/ i \in 4..7
        BY <4>1 DEF Byte
      <4>3. \A i \in 4..7 : (i - 4) + 4 = i
        OBVIOUS
      <4>4. y = b \cap 4..7
        <5>1. y = {k + 4 : k \in {i - 4 : i \in b \cap 4..7}}
          BY <4>1
        <5> HIDE DEF y
        <5>2. \A j \in y : j \in b \cap 4..7
          BY <4>3, <5>1
        <5>3. \A j \in b \cap 4..7 : j - 4 \in {i - 4 : i \in b \cap 4..7} /\ j = (j - 4) + 4
          BY <4>3
        <5>4. \A j \in b \cap 4..7 : j \in y
          BY <5>1, <5>3
        <5> QED
          BY <5>2, <5>4
      <4>5. (b \cap 0..3) \cap (b \cap 4..7) = {} /\ (b \cap 0..3) \cup (b \cap 4..7) = b
        BY <4>2
      <4> QED
        BY <4>4, <4>5 DEF Xor
    <3> HIDE DEF b, x, y
    <3> QED
      BY <3>1, <3>2, MulLinear DEF b
  <2>6. sum \in Register
    BY <2>3, <2>4, XorBytes
  <2> QED
    BY <2>1, <2>5, <2>6
<1> QED
  BY <1>1, <1>2 DEF Multipliers

(* Two equations in the bytes of the lost disks a and b, and one.           *)
LEMMA SolveTwo ==
  ASSUME NEW b \in Numbers, NEW a \in 0..b-1, NEW x \in Byte
  PROVE  LET inv == raid6_gfinv[Xor(raid6_gfexp[a], raid6_gfexp[b])]
             exi == gfmul(raid6_gfexi[b - a], x)
         IN  /\ exi = gfmul(inv, gfmul(FieldExp(a), x))
             /\ Xor(exi, gfmul(inv, gfmul(FieldExp(b), x))) = x
<1> DEFINE inv == raid6_gfinv[Xor(raid6_gfexp[a], raid6_gfexp[b])]
           e == raid6_gfexi[b - a]
           p == FieldExp(a)
           q == FieldExp(b)
           Solved(y) == /\ gfmul(e, y) = gfmul(inv, gfmul(p, y))
                        /\ Xor(gfmul(e, y), gfmul(inv, gfmul(q, y))) = y
           Good == {y \in Byte : Solved(y)}
<1>1. a \in Numbers /\ b - a \in Numbers /\ b \in Numbers /\ a \in Powers /\ b \in Powers
  BY DEF Numbers, Powers, MaxData
<1>2. p \in Byte /\ q \in Byte /\ e \in Byte /\ inv \in Byte
  <2>1. p \in Byte /\ q \in Byte
    BY <1>1, PowerIn
  <2>2. Xor(raid6_gfexp[a], raid6_gfexp[b]) \in Byte
    BY <1>1, <2>1, XorByte, TablesAssumption DEF TablesAreRight, Numbers
  <2> QED
    BY <1>1, <2>1, <2>2, TablesAssumption DEF ProductsAreRight, Numbers
<1>3. ASSUME NEW y \in Single PROVE y \in Good
  <2>1. y \in Byte
    BY DEF Single, Byte
  <2>2. /\ gfmul(e, y) = gfmul(inv, FieldMul(p, y))
        /\ Xor(gfmul(e, y), gfmul(inv, FieldMul(q, y))) = y
    BY <1>1, TablesAssumption DEF ProductsAreRight, Numbers
  <2>3. FieldMul(p, y) = gfmul(p, y) /\ FieldMul(q, y) = gfmul(q, y)
    BY <1>2, <2>1, TablesAssumption DEF TablesAreRight
  <2> QED
    BY <2>1, <2>2, <2>3
<1> HIDE DEF inv, e, p, q
<1>4. {} \in Good
  <2>1. {} \in Byte
    BY DEF Byte
  <2>2. gfmul(e, {}) = {} /\ gfmul(p, {}) = {} /\ gfmul(q, {}) = {} /\ gfmul(inv, {}) = {}
    BY <1>2, MulZero
  <2>3. Xor({}, {}) = {}
    BY DEF Xor
  <2>4. Solved({})
    BY <2>2, <2>3
  <2> QED
    BY <2>1, <2>4
<1>5. ASSUME NEW y \in Good, NEW z \in Good PROVE Xor(y, z) \in Good
  <2>1. Xor(y, z) \in Byte
    BY XorByte
  <2>2. /\ gfmul(e, Xor(y, z)) = Xor(gfmul(e, y), gfmul(e, z))
        /\ gfmul(inv, gfmul(p, Xor(y, z))) = Xor(gfmul(inv, gfmul(p, y)), gfmul(inv, gfmul(p, z)))
        /\ gfmul(inv, gfmul(q, Xor(y, z))) = Xor(gfmul(inv, gfmul(q, y)), gfmul(inv, gfmul(q, z)))
    BY <1>2, MulLinear
  <2>3. \A u, v, w, t : Xor(Xor(u, v), Xor(w, t)) = Xor(Xor(u, w), Xor(v, t))
    BY DEF Xor
  <2>4. gfmul(e, Xor(y, z)) = gfmul(inv, gfmul(p, Xor(y, z)))
    BY <2>2
  <2>5. Xor(gfmul(e, Xor(y, z)), gfmul(inv, gfmul(q, Xor(y, z)))) = Xor(y, z)
    BY <2>2, <2>3
  <2> QED
    BY <2>1, <2>4, <2>5
<1>6. Good = Byte
  <2>1. Good \in SUBSET Byte
    OBVIOUS
  <2> HIDE DEF Good
  <2> QED
    BY <1>3, <1>4, <1>5, <2>1, FromBits
<1> QED
  BY <1>6 DEF inv, e, p, q

(* The inverse of a power takes it away again.                              *)
LEMMA SolveOne ==
  ASSUME NEW a \in Numbers, NEW x \in Byte
  PROVE  gfmul(raid6_gfinv[raid6_gfexp[a]], gfmul(FieldExp(a), x)) = x
<1> DEFINE inv == raid6_gfinv[raid6_gfexp[a]]
           p == FieldExp(a)
           Good == {y \in Byte : gfmul(inv, gfmul(p, y)) = y}
<1>1. p \in Byte /\ inv \in Byte
  <2>1. a \in Powers /\ a \in 0..MaxData-1
    BY DEF Powers, Numbers, MaxData
  <2>2. p \in Byte /\ raid6_gfexp[a] = p
    BY <2>1, PowerIn, TablesAssumption DEF TablesAreRight
  <2> QED
    BY <2>2, TablesAssumption DEF ProductsAreRight
<1>2. ASSUME NEW y \in Single PROVE y \in Good
  <2>1. y \in Byte
    BY DEF Single, Byte
  <2>2. gfmul(inv, FieldMul(p, y)) = y
    BY TablesAssumption DEF ProductsAreRight, Numbers
  <2>3. FieldMul(p, y) = gfmul(p, y)
    BY <1>1, <2>1, TablesAssumption DEF TablesAreRight
  <2> QED
    BY <2>1, <2>2, <2>3
<1> HIDE DEF inv, p
<1>3. {} \in Good
  BY <1>1, MulZero DEF Byte
<1>4. ASSUME NEW y \in Good, NEW z \in Good PROVE Xor(y, z) \in Good
  <2>1. gfmul(inv, gfmul(p, Xor(y, z))) = Xor(gfmul(inv, gfmul(p, y)), gfmul(inv, gfmul(p, z)))
    BY <1>1, MulLinear
  <2> QED
    BY <2>1, XorByte
<1>5. Good = Byte
  <2>1. Good \in SUBSET Byte
    OBVIOUS
  <2> HIDE DEF Good
  <2> QED
    BY <1>2, <1>3, <1>4, <2>1, FromBits
<1> QED
  BY <1>5 DEF inv, p

(* A multiplication of a sum, in each lane.                                 *)
LEMMA MulXor ==
  ASSUME NEW isa \in Multipliers, NEW c \in Byte, NEW u \in Register, NEW v \in Register, NEW l \in Lanes
  PROVE  ByteAt(Mul(isa, c, Xor(u, v)), l) = Xor(gfmul(c, ByteAt(u, l)), gfmul(c, ByteAt(v, l)))
<1>1. Xor(u, v) \in Register /\ ByteAt(Xor(u, v), l) = Xor(ByteAt(u, l), ByteAt(v, l))
  BY XorBytes
<1>2. ByteAt(Mul(isa, c, Xor(u, v)), l) = gfmul(c, Xor(ByteAt(u, l), ByteAt(v, l)))
  BY <1>1, MulBytes
<1> QED
  BY <1>2, MulLinear

(* What the compile-time tables hold are bytes.                             *)
LEMMA TableBytes ==
  /\ \A n \in Numbers : raid6_gfexi[n] \in Byte /\ raid6_gfexp[n] \in Byte /\ n \in Powers
  /\ \A x \in Byte : raid6_gfinv[x] \in Byte
<1>1. \A n \in Numbers : n \in Powers
  BY DEF Numbers, Powers, MaxData
<1> QED
  BY <1>1, PowerIn, TablesAssumption DEF TablesAreRight, ProductsAreRight, Numbers

(* The coefficients of raid6_2data_recov solve for the second column.       *)
LEMMA TwoRecovered ==
  ASSUME NEW isa \in Multipliers, NEW b \in Numbers, NEW a \in 0..b-1,
         NEW x \in Register, NEW y \in Register
  PROVE  Xor(Mul(isa, raid6_gfexi[b - a], Xor(x, y)),
             Mul(isa, raid6_gfinv[Xor(raid6_gfexp[a], raid6_gfexp[b])], Xor(Times(a, x), Times(b, y)))) = y
<1> DEFINE e == raid6_gfexi[b - a]
           inv == raid6_gfinv[Xor(raid6_gfexp[a], raid6_gfexp[b])]
           r == Mul(isa, e, Xor(x, y))
           s == Mul(isa, inv, Xor(Times(a, x), Times(b, y)))
<1>1. a \in Numbers /\ b - a \in Numbers /\ a \in Powers /\ b \in Powers
  BY DEF Numbers, Powers, MaxData
<1>2. e \in Byte /\ inv \in Byte
  BY <1>1, TableBytes, XorByte
<1>3. \A z \in Byte : /\ gfmul(e, z) = gfmul(inv, gfmul(FieldExp(a), z))
                      /\ Xor(gfmul(e, z), gfmul(inv, gfmul(FieldExp(b), z))) = z
  BY SolveTwo
<1> HIDE DEF e, inv
<1>4. Times(a, x) \in Register /\ Times(b, y) \in Register /\ Xor(x, y) \in Register
      /\ Xor(Times(a, x), Times(b, y)) \in Register
  BY <1>1, TimesBytes, XorBytes
<1>5. r \in Register /\ s \in Register
  BY <1>2, <1>4, MulBytes
<1>6. ASSUME NEW l \in Lanes PROVE ByteAt(Xor(r, s), l) = ByteAt(y, l)
  <2> DEFINE m == ByteAt(x, l)
             n == ByteAt(y, l)
  <2>1. ByteAt(Xor(r, s), l) = Xor(ByteAt(r, l), ByteAt(s, l))
    BY <1>5, XorBytes
  <2>2. ByteAt(r, l) = Xor(gfmul(e, m), gfmul(e, n))
    BY <1>2, MulXor
  <2>3. ByteAt(s, l) = Xor(gfmul(inv, ByteAt(Times(a, x), l)), gfmul(inv, ByteAt(Times(b, y), l)))
    BY <1>2, <1>4, MulXor
  <2>4. ByteAt(Times(a, x), l) = gfmul(FieldExp(a), m) /\ ByteAt(Times(b, y), l) = gfmul(FieldExp(b), n)
    BY <1>1, TimesBytes
  <2>5. m \in Byte /\ n \in Byte
    BY ByteAtIn
  <2> HIDE DEF m, n, r, s
  <2>6. \A t, u, v : Xor(Xor(t, u), Xor(t, v)) = Xor(u, v)
    BY DEF Xor
  <2> QED
    BY <1>3, <2>1, <2>2, <2>3, <2>4, <2>5, <2>6 DEF n
<1>7. Xor(r, s) = y
  <2> HIDE DEF r, s
  <2> QED
    BY <1>5, <1>6, SameBytes, XorBytes
<1> QED
  BY <1>7 DEF e, inv

(* The coefficient of raid6_datap_recov solves for the column.              *)
LEMMA OneRecovered ==
  ASSUME NEW isa \in Multipliers, NEW a \in Numbers, NEW x \in Register
  PROVE  Mul(isa, raid6_gfinv[raid6_gfexp[a]], Times(a, x)) = x
<1> DEFINE inv == raid6_gfinv[raid6_gfexp[a]]
<1>1. inv \in Byte /\ a \in Powers /\ \A z \in Byte : gfmul(inv, gfmul(FieldExp(a), z)) = z
  BY TableBytes, SolveOne
<1> HIDE DEF inv
<1>2. Times(a, x) \in Register /\ Mul(isa, inv, Times(a, x)) \in Register
  BY <1>1, TimesBytes, MulBytes
<1>3. ASSUME NEW l \in Lanes PROVE ByteAt(Mul(isa, inv, Times(a, x)), l) = ByteAt(x, l)
  <2>1. ByteAt(Mul(isa, inv, Times(a, x)), l) = gfmul(inv, ByteAt(Times(a, x), l))
    BY <1>1, <1>2, MulBytes
  <2>2. ByteAt(Times(a, x), l) = gfmul(FieldExp(a), ByteAt(x, l))
    BY <1>1, TimesBytes
  <2> QED
    BY <1>1, <2>1, <2>2, ByteAtIn
<1>4. Mul(isa, inv, Times(a, x)) = x
  BY <1>2, <1>3, SameBytes
<1> QED
  BY <1>4 DEF inv

-----------------------------------------------------------------------------
(* Sums of registers.                                                       *)
SumOf(f, n) ==
  LET sum[i \in 0..n] == IF i = 0 THEN {} ELSE Xor(sum[i - 1], f[i - 1])
  IN  sum[n]

IsSum(s, f, n) ==
  /\ s \in [0..n -> Register] /\ s[0] = {}
  /\ \A k \in 1..n : s[k] = Xor(s[k - 1], f[k - 1])

(* The sum of registers is a register.                                      *)
LEMMA XorRegister == \A u, v \in Register : Xor(u, v) \in Register
BY DEF Xor, Register

(* A sum is the last of its partial sums.                                   *)
LEMMA SumIs ==
  ASSUME NEW n \in Nat, NEW f \in [0..n-1 -> Register]
  PROVE  \E s : IsSum(s, f, n) /\ SumOf(f, n) = s[n]
<1> DEFINE Step(k, was) == Xor(was, f[k - 1])
           step == [p \in (1..n) \X Register |-> Step(p[1], p[2])]
           Rec(s) == s = [i \in 0..n |-> IF i = 0 THEN {} ELSE Xor(s[i - 1], f[i - 1])]
<1>1. step \in [(1..n) \X Register -> Register] /\ {} \in Register
  <2>1. ASSUME NEW k \in 1..n, NEW was \in Register PROVE Step(k, was) \in Register
    BY XorRegister
  <2> HIDE DEF Step
  <2> QED
    BY <2>1 DEF Register
<1>2. PICK s : Recurs(s, n, Register, {}, step)
  <2> HIDE DEF step
  <2> QED
    BY <1>1, Recursion
<1>3. s \in [0..n -> Register] /\ s[0] = {}
  BY <1>2 DEF Recurs
<1>4. ASSUME NEW k \in 1..n PROVE s[k] = Xor(s[k - 1], f[k - 1])
  <2>1. s[k] = step[<<k, s[k - 1]>>] /\ s[k - 1] \in Register
    <3>1. k - 1 \in 0..n
      OBVIOUS
    <3> HIDE DEF step
    <3> QED
      BY <1>2, <1>3, <3>1 DEF Recurs
  <2>2. step[<<k, s[k - 1]>>] = Step(k, s[k - 1])
    BY <2>1
  <2> QED
    BY <2>1, <2>2
<1>5. Rec(s)
  BY <1>3, <1>4
<1> DEFINE g == CHOOSE h : Rec(h)
<1>6. Rec(g) /\ SumOf(f, n) = g[n]
  BY <1>5 DEF SumOf
<1> HIDE DEF g
<1>7. g[0] = {} /\ \A k \in 1..n : g[k] = Xor(g[k - 1], f[k - 1])
  <2>1. 0 \in 0..n /\ \A k \in 1..n : k \in 0..n /\ k # 0
    OBVIOUS
  <2>2. \A i \in 0..n : g[i] = IF i = 0 THEN {} ELSE Xor(g[i - 1], f[i - 1])
    BY <1>6
  <2> QED
    BY <2>1, <2>2
<1> DEFINE Good == {k \in 0..n : g[k] \in Register}
<1>8. 0..n \subseteq Good
  <2>1. 0 \in Good
    <3>1. g[0] \in Register
      BY <1>7 DEF Register
    <3> QED
      BY <3>1
  <2>2. ASSUME NEW k \in 1..n, k - 1 \in Good PROVE k \in Good
    BY <1>7, <2>2, XorRegister
  <2> HIDE DEF Good
  <2> QED
    BY <2>1, <2>2, UpTo
<1>9. IsSum(g, f, n)
  <2>1. g = [i \in 0..n |-> IF i = 0 THEN {} ELSE Xor(g[i - 1], f[i - 1])]
    BY <1>6
  <2>2. g \in [0..n -> Register]
    BY <1>8, <2>1
  <2> QED
    BY <1>7, <2>2 DEF IsSum
<1> QED
  BY <1>6, <1>9

(* A sum is what any function with the same steps ends with.                *)
LEMMA SumSame ==
  ASSUME NEW n \in Nat, NEW s, NEW f, IsSum(s, f, n), NEW t, NEW g, IsSum(t, g, n),
         \A k \in 1..n : f[k - 1] = g[k - 1]
  PROVE  \A k \in 0..n : s[k] = t[k]
<1> DEFINE Good == {k \in 0..n : s[k] = t[k]}
<1>1. 0 \in Good
  <2>1. s[0] = t[0]
    BY DEF IsSum
  <2> QED
    BY <2>1
<1>2. ASSUME NEW k \in 1..n, k - 1 \in Good PROVE k \in Good
  BY <1>2 DEF IsSum
<1>3. 0..n \subseteq Good
  <2> HIDE DEF Good
  <2> QED
    BY <1>1, <1>2, UpTo
<1> QED
  BY <1>3

(* It changes by what one of its terms changes.                             *)
LEMMA SumChanges ==
  ASSUME NEW n \in Nat, NEW f \in [0..n-1 -> Register], NEW a \in 0..n-1, NEW x \in Register
  PROVE  SumOf([f EXCEPT ![a] = x], n) = Xor(SumOf(f, n), Xor(f[a], x))
<1> DEFINE g == [f EXCEPT ![a] = x]
           d == Xor(f[a], x)
<1>1. g \in [0..n-1 -> Register]
  OBVIOUS
<1>2. PICK s : IsSum(s, f, n) /\ SumOf(f, n) = s[n]
  BY SumIs
<1>3. PICK t : IsSum(t, g, n) /\ SumOf(g, n) = t[n]
  <2> HIDE DEF g
  <2> QED
    BY <1>1, SumIs
<1> DEFINE Good == {k \in 0..n : t[k] = IF k <= a THEN s[k] ELSE Xor(s[k], d)}
<1>4. 0 \in Good
  <2>1. s[0] = t[0]
    BY <1>2, <1>3 DEF IsSum
  <2> QED
    BY <2>1
<1>5. ASSUME NEW k \in 1..n, k - 1 \in Good PROVE k \in Good
  <2>1. /\ t[k] = Xor(t[k - 1], g[k - 1]) /\ s[k] = Xor(s[k - 1], f[k - 1]) /\ k - 1 \in 0..n-1
        /\ t[k - 1] = IF k - 1 <= a THEN s[k - 1] ELSE Xor(s[k - 1], d)
    BY <1>2, <1>3, <1>5 DEF IsSum
  <2>2. CASE k - 1 < a
    <3>1. g[k - 1] = f[k - 1] /\ k <= a
      BY <2>1, <2>2
    <3> QED
      BY <2>1, <2>2, <3>1
  <2>3. CASE k - 1 = a
    <3>1. g[k - 1] = x /\ f[k - 1] = f[a] /\ ~(k <= a) /\ t[k - 1] = s[k - 1]
      BY <2>1, <2>3
    <3>2. \A u, v, w : Xor(u, v) = Xor(Xor(u, w), Xor(w, v))
      BY DEF Xor
    <3> HIDE DEF g
    <3> QED
      BY <2>1, <3>1, <3>2
  <2>4. CASE k - 1 > a
    <3>1. g[k - 1] = f[k - 1] /\ ~(k <= a) /\ t[k - 1] = Xor(s[k - 1], d)
      BY <2>1, <2>4
    <3>2. \A u, v, w : Xor(Xor(u, v), w) = Xor(Xor(u, w), v)
      BY DEF Xor
    <3> HIDE DEF g, d
    <3> QED
      BY <2>1, <3>1, <3>2
  <2> QED
    BY <2>1, <2>2, <2>3, <2>4
<1>6. 0..n \subseteq Good
  <2> HIDE DEF Good
  <2> QED
    BY <1>4, <1>5, UpTo
<1> QED
  BY <1>2, <1>3, <1>6

-----------------------------------------------------------------------------
(* The loops over the columns, from the highest down.                       *)
LEMMA DownTo ==
  ASSUME NEW lo \in Int, NEW hi \in Int, lo <= hi, NEW Good, hi \in Good,
         \A k \in lo..hi-1 : k + 1 \in Good => k \in Good
  PROVE  lo..hi \subseteq Good
<1> DEFINE n == hi - lo
           Up == {i \in 0..n : hi - i \in Good}
<1>1. n \in Nat /\ 0 \in Up
  OBVIOUS
<1>2. ASSUME NEW i \in 1..n, i - 1 \in Up PROVE i \in Up
  <2>1. hi - i \in lo..hi-1 /\ (hi - i) + 1 = hi - (i - 1)
    OBVIOUS
  <2> QED
    BY <1>2, <2>1
<1>3. 0..n \subseteq Up
  <2> HIDE DEF Up, n
  <2> QED
    BY <1>1, <1>2, UpTo
<1>4. ASSUME NEW k \in lo..hi PROVE k \in Good
  <2>1. hi - k \in 0..n /\ hi - (hi - k) = k
    OBVIOUS
  <2> QED
    BY <1>3, <2>1
<1> QED
  BY <1>4

RecursDown(f, lo, hi, V, base, step) ==
  /\ f \in [lo..hi -> V] /\ f[hi] = base
  /\ \A z \in lo..hi-1 : f[z] = step[<<z, f[z + 1]>>]

(* There is a function that follows a recursion downwards.                  *)
LEMMA RecursionDown ==
  ASSUME NEW lo \in Int, NEW hi \in Int, lo <= hi, NEW V, NEW base \in V,
         NEW step \in [(lo..hi-1) \X V -> V]
  PROVE  \E f : RecursDown(f, lo, hi, V, base, step)
<1> DEFINE n == hi - lo
           up == [p \in (1..n) \X V |-> step[<<hi - p[1], p[2]>>]]
<1>1. n \in Nat /\ up \in [(1..n) \X V -> V]
  <2>1. \A i \in 1..n : hi - i \in lo..hi-1
    OBVIOUS
  <2>2. \A i \in 1..n, v \in V : step[<<hi - i, v>>] \in V
    BY <2>1
  <2> QED
    BY <2>2
<1>2. PICK g : Recurs(g, n, V, base, up)
  <2> HIDE DEF n, up
  <2> QED
    BY <1>1, Recursion
<1>3. g \in [0..n -> V] /\ g[0] = base
  BY <1>2 DEF Recurs
<1>4. ASSUME NEW i \in 1..n PROVE g[i] = step[<<hi - i, g[i - 1]>>]
  <2>1. g[i] = up[<<i, g[i - 1]>>]
    <3> HIDE DEF up
    <3> QED
      BY <1>2 DEF Recurs
  <2>2. g[i - 1] \in V
    BY <1>3
  <2>3. up[<<i, g[i - 1]>>] = step[<<hi - i, g[i - 1]>>]
    BY <2>2
  <2> QED
    BY <2>1, <2>3
<1> DEFINE f == [z \in lo..hi |-> g[hi - z]]
<1>5. f \in [lo..hi -> V] /\ f[hi] = base
  BY <1>3
<1>6. ASSUME NEW z \in lo..hi-1 PROVE f[z] = step[<<z, f[z + 1]>>]
  <2>1. hi - z \in 1..n /\ hi - (hi - z) = z /\ (hi - z) - 1 = hi - (z + 1)
    OBVIOUS
  <2>2. f[z] = g[hi - z] /\ f[z + 1] = g[hi - (z + 1)]
    OBVIOUS
  <2>3. g[hi - z] = step[<<hi - (hi - z), g[(hi - z) - 1]>>]
    BY <1>4, <2>1
  <2> HIDE DEF f
  <2> QED
    BY <2>1, <2>2, <2>3
<1>7. RecursDown(f, lo, hi, V, base, step)
  <2> HIDE DEF f
  <2> QED
    BY <1>5, <1>6 DEF RecursDown
<1> QED
  BY <1>7

(* What is left to add to an accumulator when the columns from z on are in  *)
(* it: the sums over the columns below z, and the powers it lacks.          *)
Acc == [p : Register, q : Register]
Weighted(f, n) == [i \in 0..n-1 |-> Times(i, f[i])]

Sums(s, t, f, n) == IsSum(s, f, n) /\ IsSum(t, Weighted(f, n), n)

Balance(s, t, z, acc, n) ==
  s[n] = Xor(s[z], acc.p) /\ t[n] = Xor(t[z], Times(z, acc.q))

(* Columns times their powers are registers.                                *)
LEMMA WeightedIn ==
  ASSUME NEW n \in Powers, NEW f \in [0..n-1 -> Register]
  PROVE  Weighted(f, n) \in [0..n-1 -> Register]
<1>1. ASSUME NEW i \in 0..n-1 PROVE Times(i, f[i]) \in Register
  <2>1. i \in Powers /\ f[i] \in Register
    BY DEF Powers, MaxData
  <2> QED
    BY <2>1, TimesBytes
<1> QED
  BY <1>1 DEF Weighted

(* An accumulator stays one when a column is added.                         *)
LEMMA AddIn ==
  ASSUME NEW acc \in Acc, NEW d \in Register, NEW isa \in Isas
  PROVE  Add(acc, d, isa) \in Acc
<1>1. acc.p \in Register /\ acc.q \in Register
  BY DEF Acc
<1>2. Twice(isa, acc.q) \in Register
  BY <1>1, TwiceBytes
<1> QED
  BY <1>1, <1>2, XorRegister DEF Acc, Add

(* Adding column z leaves the balance that the columns below it must make.  *)
LEMMA HornerStep ==
  ASSUME NEW n \in Powers, NEW f \in [0..n-1 -> Register], NEW s, NEW t, Sums(s, t, f, n),
         NEW z \in 0..n-1, NEW acc \in Acc, NEW isa \in Isas, Balance(s, t, z + 1, acc, n)
  PROVE  Balance(s, t, z, Add(acc, f[z], isa), n)
<1>1. n \in 0..MaxData /\ MaxData \in Nat /\ z + 1 \in 1..n /\ (z + 1) - 1 = z
  BY DEF Powers, MaxData
<1>2. z \in Powers /\ z + 1 \in Powers
  BY <1>1 DEF Powers
<1> DEFINE d == f[z]
           c == Add(acc, d, isa)
<1>3. /\ d \in Register /\ acc.p \in Register /\ acc.q \in Register
      /\ Twice(isa, acc.q) \in Register
      /\ c.p = Xor(acc.p, d) /\ c.q = Xor(Twice(isa, acc.q), d)
  BY TwiceBytes DEF Acc, Add
<1>4. s[z + 1] = Xor(s[z], d) /\ t[z + 1] = Xor(t[z], Times(z, d))
  <2>1. Weighted(f, n)[z] = Times(z, d)
    BY DEF Weighted
  <2> HIDE DEF d
  <2>2. t[z + 1] = Xor(t[(z + 1) - 1], Weighted(f, n)[(z + 1) - 1])
    BY <1>1 DEF Sums, IsSum
  <2>3. s[z + 1] = Xor(s[(z + 1) - 1], f[(z + 1) - 1])
    BY <1>1 DEF Sums, IsSum
  <2> QED
    BY <1>1, <2>1, <2>2, <2>3 DEF d
<1>5. Times(z, c.q) = Xor(Times(z + 1, acc.q), Times(z, d))
  <2> HIDE DEF c, d
  <2>1. Times(z, c.q) = Xor(Times(z, Twice(isa, acc.q)), Times(z, d))
    BY <1>2, <1>3, TimesXor
  <2>2. Times(z, Twice(isa, acc.q)) = Times(z + 1, acc.q)
    BY <1>2, <1>3, TimesTwice
  <2> QED
    BY <2>1, <2>2
<1>6. s[n] = Xor(s[z + 1], acc.p) /\ t[n] = Xor(t[z + 1], Times(z + 1, acc.q))
  BY DEF Balance
<1>7. \A u, v, w : Xor(Xor(u, v), w) = Xor(u, Xor(w, v))
  BY DEF Xor
<1>8. s[n] = Xor(s[z], c.p)
  <2> HIDE DEF c, d
  <2> QED
    BY <1>3, <1>4, <1>6, <1>7
<1>9. t[n] = Xor(t[z], Times(z, c.q))
  <2> HIDE DEF c, d
  <2> QED
    BY <1>4, <1>5, <1>6, <1>7
<1> QED
  BY <1>8, <1>9 DEF Balance

(* Nothing is in it yet, or the highest column alone.                       *)
LEMMA HornerNone ==
  ASSUME NEW n \in Powers, NEW f \in [0..n-1 -> Register], NEW s, NEW t, Sums(s, t, f, n)
  PROVE  Balance(s, t, n, [p |-> {}, q |-> {}], n) /\ [p |-> {}, q |-> {}] \in Acc
<1>1. {} \in Register
  BY DEF Register
<1>2. Times(n, {}) = {}
  <2>1. Times(n, Xor({}, {})) = Xor(Times(n, {}), Times(n, {}))
    BY <1>1, TimesXor
  <2> QED
    BY <2>1, XorFacts
<1>3. Xor(s[n], {}) = s[n] /\ Xor(t[n], {}) = t[n]
  BY XorFacts
<1> QED
  BY <1>1, <1>2, <1>3 DEF Balance, Acc

(* The highest column alone.                                                *)
LEMMA HornerTop ==
  ASSUME NEW n \in Powers \ {0}, NEW f \in [0..n-1 -> Register], NEW s, NEW t, Sums(s, t, f, n)
  PROVE  LET acc == [p |-> f[n - 1], q |-> f[n - 1]]
         IN  Balance(s, t, n - 1, acc, n) /\ acc \in Acc
<1>1. n \in 1..MaxData /\ MaxData \in Nat /\ n - 1 \in 0..n-1 /\ n \in 1..n
  BY DEF Powers, MaxData
<1>2. f[n - 1] \in Register
  BY <1>1
<1>3. s[n] = Xor(s[n - 1], f[n - 1])
  BY <1>1 DEF Sums, IsSum
<1>4. t[n] = Xor(t[n - 1], Times(n - 1, f[n - 1]))
  <2>1. Weighted(f, n)[n - 1] = Times(n - 1, f[n - 1])
    BY <1>1 DEF Weighted
  <2> QED
    BY <1>1, <2>1 DEF Sums, IsSum
<1> QED
  BY <1>2, <1>3, <1>4 DEF Balance, Acc

(* All columns are in it.                                                   *)
LEMMA HornerEnd ==
  ASSUME NEW n \in Powers, NEW f \in [0..n-1 -> Register], NEW s, NEW t, Sums(s, t, f, n),
         NEW acc \in Acc, Balance(s, t, 0, acc, n)
  PROVE  acc.p = s[n] /\ acc.q = t[n]
<1>1. s[0] = {} /\ t[0] = {}
  BY DEF Sums, IsSum
<1>2. acc.q \in Register
  BY DEF Acc
<1>3. Times(0, acc.q) = acc.q
  BY <1>2, TimesOne
<1>4. Xor({}, acc.p) = acc.p /\ Xor({}, acc.q) = acc.q
  BY XorFacts
<1> QED
  BY <1>1, <1>3, <1>4 DEF Balance

(* for (z = hi; z >= lo; z--)                                               *)
DownAt(down, acc, hi, lo, ptrs, w, isa) ==
  /\ down[hi + 1] = acc /\ \A z \in lo..hi+1 : down[z] \in Acc
  /\ \A z \in lo..hi : down[z] = Add(down[z + 1], ptrs[z][w], isa)

(* The loop over the columns is a function.                                 *)
LEMMA DownLoop ==
  ASSUME NEW acc \in Acc, NEW hi \in Int, NEW lo \in Int, lo <= hi + 1, NEW ptrs, NEW w, NEW isa \in Isas,
         \A z \in lo..hi : ptrs[z][w] \in Register
  PROVE  \E down : DownAt(down, acc, hi, lo, ptrs, w, isa) /\ Down(acc, hi, lo, ptrs, w, isa) = down[lo]
<1> DEFINE top == hi + 1
           Step(z, was) == Add(was, ptrs[z][w], isa)
           step == [p \in (lo..top-1) \X Acc |-> Step(p[1], p[2])]
           Rec(h) == h = [z \in lo..hi+1 |-> IF z = hi + 1 THEN acc ELSE Add(h[z + 1], ptrs[z][w], isa)]
<1>1. step \in [(lo..top-1) \X Acc -> Acc] /\ top \in Int /\ lo <= top
  <2>1. ASSUME NEW z \in lo..top-1, NEW was \in Acc PROVE Step(z, was) \in Acc
    <3>1. ptrs[z][w] \in Register
      OBVIOUS
    <3> QED
      BY <3>1, AddIn
  <2> HIDE DEF Step
  <2> QED
    BY <2>1
<1>2. PICK g : RecursDown(g, lo, top, Acc, acc, step)
  <2> HIDE DEF step, top
  <2> QED
    BY <1>1, RecursionDown
<1>3. g \in [lo..top -> Acc] /\ g[top] = acc
  BY <1>2 DEF RecursDown
<1>4. ASSUME NEW z \in lo..hi PROVE g[z] = Step(z, g[z + 1])
  <2>1. z + 1 \in lo..top /\ z \in lo..top-1
    OBVIOUS
  <2>2. g[z + 1] \in Acc
    BY <1>3, <2>1
  <2>3. g[z] = step[<<z, g[z + 1]>>]
    <3> HIDE DEF step, top
    <3> QED
      BY <1>2, <2>1 DEF RecursDown
  <2>4. step[<<z, g[z + 1]>>] = Step(z, g[z + 1])
    <3> HIDE DEF Step
    <3> QED
      BY <2>1, <2>2
  <2> QED
    BY <2>3, <2>4
<1>5. Rec(g)
  BY <1>3, <1>4
<1> DEFINE down == CHOOSE h : Rec(h)
<1>6. Rec(down) /\ Down(acc, hi, lo, ptrs, w, isa) = down[lo]
  BY <1>5 DEF Down
<1> HIDE DEF down
<1>7. down[hi + 1] = acc /\ \A z \in lo..hi : down[z] = Add(down[z + 1], ptrs[z][w], isa)
  <2>1. \A z \in lo..hi+1 : down[z] = IF z = hi + 1 THEN acc ELSE Add(down[z + 1], ptrs[z][w], isa)
    BY <1>6
  <2>2. hi + 1 \in lo..hi+1 /\ \A z \in lo..hi : z \in lo..hi+1 /\ z # hi + 1
    OBVIOUS
  <2> QED
    BY <2>1, <2>2
<1> DEFINE Good == {z \in lo..top : down[z] \in Acc}
<1>8. lo..top \subseteq Good
  <2>1. top \in Good
    BY <1>7
  <2>2. ASSUME NEW z \in lo..top-1, z + 1 \in Good PROVE z \in Good
    <3>1. z \in lo..hi /\ ptrs[z][w] \in Register /\ down[z + 1] \in Acc
      BY <2>2
    <3>2. down[z] = Add(down[z + 1], ptrs[z][w], isa)
      BY <1>7, <3>1
    <3> QED
      BY <3>1, <3>2, AddIn
  <2> HIDE DEF Good, top
  <2> QED
    BY <1>1, <2>1, <2>2, DownTo
<1>9. DownAt(down, acc, hi, lo, ptrs, w, isa)
  BY <1>7, <1>8 DEF DownAt
<1> QED
  BY <1>6, <1>9

(* The columns of ptrs at register w.                                       *)
Col(ptrs, n, w) == [i \in 0..n-1 |-> ptrs[i][w]]

(* The loop down to column 0 ends with both sums.                           *)
LEMMA DownBalance ==
  ASSUME NEW n \in Powers, NEW ptrs, NEW w, Col(ptrs, n, w) \in [0..n-1 -> Register],
         NEW s, NEW t, Sums(s, t, Col(ptrs, n, w), n), NEW isa \in Isas,
         NEW hi \in -1..n-1, NEW acc \in Acc, Balance(s, t, hi + 1, acc, n)
  PROVE  LET end == Down(acc, hi, 0, ptrs, w, isa) IN end.p = s[n] /\ end.q = t[n]
<1> DEFINE f == Col(ptrs, n, w)
<1>1. n \in Nat /\ hi \in Int /\ 0 <= hi + 1 /\ 0 \in Int /\ \A z \in 0..hi : z \in 0..n-1
  BY DEF Powers, MaxData
<1>2. \A z \in 0..n-1 : f[z] = ptrs[z][w] /\ ptrs[z][w] \in Register
  BY DEF Col
<1> HIDE DEF f
<1>3. PICK down : DownAt(down, acc, hi, 0, ptrs, w, isa) /\ Down(acc, hi, 0, ptrs, w, isa) = down[0]
  <2>1. \A z \in 0..hi : ptrs[z][w] \in Register
    BY <1>1, <1>2
  <2> QED
    BY <1>1, <2>1, DownLoop
<1> DEFINE Good == {z \in 0..hi+1 : Balance(s, t, z, down[z], n)}
<1>4. hi + 1 \in Good
  BY <1>1, <1>3 DEF DownAt
<1>5. ASSUME NEW z \in 0..(hi + 1) - 1, z + 1 \in Good PROVE z \in Good
  <2>1. z \in 0..hi /\ z + 1 \in 0..hi+1 /\ z \in 0..n-1
    BY <1>1
  <2>2. down[z] = Add(down[z + 1], f[z], isa) /\ down[z + 1] \in Acc
    BY <1>2, <1>3, <2>1 DEF DownAt
  <2>3. Balance(s, t, z + 1, down[z + 1], n)
    BY <1>5
  <2>4. Balance(s, t, z, down[z], n)
    BY <2>1, <2>2, <2>3, HornerStep DEF f
  <2> QED
    BY <2>1, <2>4
<1>6. 0..hi+1 \subseteq Good
  <2> DEFINE top == hi + 1
  <2>1. 0 \in Int /\ top \in Int /\ 0 <= top
    BY <1>1
  <2>2. top \in Good /\ \A z \in 0..top-1 : z + 1 \in Good => z \in Good
    BY <1>4, <1>5
  <2> HIDE DEF Good, top
  <2>3. 0..top \subseteq Good
    BY <2>1, <2>2, DownTo
  <2> QED
    BY <2>3 DEF top
<1>7. down[0] \in Acc /\ Balance(s, t, 0, down[0], n)
  BY <1>1, <1>3, <1>6 DEF DownAt
<1> QED
  BY <1>3, <1>7, HornerEnd

(* A routine that starts with the highest column computes both sums.        *)
LEMMA DirectSums ==
  ASSUME NEW n \in Powers \ {0}, NEW ptrs, NEW w, Col(ptrs, n, w) \in [0..n-1 -> Register],
         NEW s, NEW t, Sums(s, t, Col(ptrs, n, w), n), NEW r, r.isa \in Isas
  PROVE  LET end == GenDirect(r, n - 1, ptrs, w) IN end.p = s[n] /\ end.q = t[n]
<1> DEFINE acc == [p |-> ptrs[n - 1][w], q |-> ptrs[n - 1][w]]
<1>1. n \in Nat \ {0} /\ n - 1 \in 0..n-1 /\ (n - 1) - 1 \in -1..n-1 /\ ((n - 1) - 1) + 1 = n - 1
  BY DEF Powers, MaxData
<1>2. Col(ptrs, n, w)[n - 1] = ptrs[n - 1][w]
  BY <1>1 DEF Col
<1>3. Balance(s, t, n - 1, acc, n) /\ acc \in Acc
  BY <1>2, HornerTop
<1> HIDE DEF acc
<1>4. LET end == Down(acc, (n - 1) - 1, 0, ptrs, w, r.isa) IN end.p = s[n] /\ end.q = t[n]
  BY <1>1, <1>3, DownBalance
<1> QED
  BY <1>4 DEF GenDirect, acc

(* A routine that starts with zero computes both sums.                      *)
LEMMA ZeroedSums ==
  ASSUME NEW n \in Powers \ {0}, NEW ptrs, NEW w \in Nat, Col(ptrs, n, w) \in [0..n-1 -> Register],
         NEW s, NEW t, Sums(s, t, Col(ptrs, n, w), n), NEW r, r.isa \in Isas, r.n \in Nat \ {0}
  PROVE  LET end == GenZeroed(r, n - 1, ptrs, w) IN end.p = s[n] /\ end.q = t[n]
<1> DEFINE zero == [p |-> {}, q |-> {}]
           W(i) == (w % r.n) + (i * r.n)
           Rec(h) == h = [i \in 0..Turn(w, r.n) |->
                            Down(IF i = 0 THEN [p |-> {}, q |-> {}] ELSE AfterStore(h[i - 1]),
                                 n - 1, 0, ptrs, (w % r.n) + (i * r.n), r.isa)]
           g == [i \in 0..Turn(w, r.n) |-> Down(zero, n - 1, 0, ptrs, W(i), r.isa)]
           after == CHOOSE h : Rec(h)
<1>1. Rec(g)
  BY DEF AfterStore
<1>2. Rec(after) /\ GenZeroed(r, n - 1, ptrs, w) = after[Turn(w, r.n)]
  BY <1>1 DEF GenZeroed
<1> HIDE DEF after
<1>3. Turn(w, r.n) \in 0..Turn(w, r.n) /\ W(Turn(w, r.n)) = w
  <2> DEFINE m == r.n
  <2>1. m \in Nat \ {0} /\ w \div m \in Nat
    OBVIOUS
  <2> HIDE DEF m
  <2>2. (w % m) + ((w \div m) * m) = w
    BY <2>1
  <2> QED
    BY <2>1, <2>2 DEF Turn, m
<1>4. after[Turn(w, r.n)] = Down(zero, n - 1, 0, ptrs, w, r.isa)
  <2>1. after = g
    BY <1>2 DEF AfterStore
  <2> QED
    BY <1>3, <2>1
<1>5. n \in Nat \ {0} /\ n - 1 \in -1..n-1 /\ (n - 1) + 1 = n
  BY DEF Powers, MaxData
<1>6. Balance(s, t, n, zero, n) /\ zero \in Acc
  BY HornerNone
<1> HIDE DEF zero
<1>7. LET end == Down(zero, n - 1, 0, ptrs, w, r.isa) IN end.p = s[n] /\ end.q = t[n]
  BY <1>5, <1>6, DownBalance
<1> QED
  BY <1>2, <1>4, <1>7

(* A routine that loads a column ahead computes both sums.                  *)
LEMMA AheadSums ==
  ASSUME NEW n \in Powers \ {0, 1}, NEW ptrs, NEW w, Col(ptrs, n, w) \in [0..n-1 -> Register],
         NEW s, NEW t, Sums(s, t, Col(ptrs, n, w), n), NEW r, r.isa \in Isas
  PROVE  LET end == GenAhead(r, n - 1, ptrs, w) IN end.p = s[n] /\ end.q = t[n]
<1> DEFINE z0 == n - 1
           top == z0 - 1
           V == [sum : Acc, ahead : Register]
           base == [sum |-> [p |-> ptrs[z0][w], q |-> ptrs[z0][w]], ahead |-> ptrs[z0 - 1][w]]
           next(z) == IF z = -1 THEN {} ELSE ptrs[z][w]
           Step(z, was) == AddAhead(was, next(z), r.isa)
           step == [p \in (-1..top-1) \X V |-> Step(p[1], p[2])]
           Rec(h) == h = [z \in -1..z0-1 |->
                            IF z = z0 - 1
                            THEN [sum |-> [p |-> ptrs[z0][w], q |-> ptrs[z0][w]], ahead |-> ptrs[z0 - 1][w]]
                            ELSE AddAhead(h[z + 1], IF z = -1 THEN {} ELSE ptrs[z][w], r.isa)]
           f == Col(ptrs, n, w)
<1>1. /\ n \in Nat \ {0, 1} /\ top \in 0..n-1 /\ z0 \in 0..n-1 /\ top + 1 = n - 1 /\ -1 \in Int
      /\ top \in Int /\ -1 <= top
  BY DEF Powers, MaxData
<1>2. \A z \in 0..n-1 : f[z] = ptrs[z][w] /\ f[z] \in Register
  BY DEF Col
<1>3. \A z \in -1..top : next(z) \in Register
  <2>1. \A z \in -1..top : z = -1 \/ z \in 0..n-1
    BY <1>1
  <2>2. {} \in Register
    BY DEF Register
  <2> QED
    BY <1>2, <2>1, <2>2
<1>4. base \in V /\ Balance(s, t, top + 1, base.sum, n)
  <2>1. Balance(s, t, n - 1, [p |-> f[n - 1], q |-> f[n - 1]], n) /\ [p |-> f[n - 1], q |-> f[n - 1]] \in Acc
    BY HornerTop
  <2>2. f[n - 1] = ptrs[z0][w] /\ ptrs[z0 - 1][w] \in Register
    BY <1>1, <1>2
  <2> QED
    BY <1>1, <2>1, <2>2
<1>5. \A z \in -1..top-1, was \in V : Step(z, was) \in V
  <2> SUFFICES ASSUME NEW z \in -1..top-1, NEW was \in V PROVE Step(z, was) \in V
    OBVIOUS
  <2>1. next(z) \in Register
    BY <1>1, <1>3
  <2>2. Add(was.sum, was.ahead, r.isa) \in Acc
    BY AddIn
  <2> HIDE DEF next
  <2> QED
    BY <2>1, <2>2 DEF AddAhead
<1>6. PICK g : RecursDown(g, -1, top, V, base, step)
  <2>1. step \in [(-1..top-1) \X V -> V]
    <3> HIDE DEF Step, V, top
    <3> QED
      BY <1>5
  <2> HIDE DEF step, top, V, base
  <2> QED
    BY <1>1, <1>4, <2>1, RecursionDown
<1>7. g \in [-1..top -> V] /\ g[top] = base
  BY <1>6 DEF RecursDown
<1>8. ASSUME NEW z \in -1..top-1 PROVE g[z] = Step(z, g[z + 1])
  <2>1. z + 1 \in -1..top
    BY <1>1
  <2>2. g[z + 1] \in V
    BY <1>7, <2>1
  <2>3. g[z] = step[<<z, g[z + 1]>>]
    <3> HIDE DEF step, top
    <3> QED
      BY <1>6 DEF RecursDown
  <2>4. step[<<z, g[z + 1]>>] = Step(z, g[z + 1])
    <3> HIDE DEF Step, V
    <3> QED
      BY <2>2
  <2> QED
    BY <2>3, <2>4
<1>9. Rec(g)
  <2>1. \A z \in -1..top : g[z] = IF z = top THEN base ELSE Step(z, g[z + 1])
    <3>1. \A z \in -1..top : z = top \/ z \in -1..top-1
      BY <1>1
    <3> HIDE DEF top, base, Step
    <3> QED
      BY <1>7, <1>8, <3>1
  <2>2. g = [z \in -1..top |-> IF z = top THEN base ELSE Step(z, g[z + 1])]
    <3> HIDE DEF top, base, Step, V
    <3> QED
      BY <1>7, <2>1
  <2> QED
    BY <2>2
<1> DEFINE down == CHOOSE h : Rec(h)
<1>10. Rec(down) /\ GenAhead(r, n - 1, ptrs, w) = down[-1].sum
  BY <1>9 DEF GenAhead
<1> HIDE DEF down
<1>11. down[top] = base /\ \A z \in -1..top-1 : down[z] = Step(z, down[z + 1])
  <2>1. \A z \in -1..top : down[z] = IF z = top THEN base ELSE Step(z, down[z + 1])
    BY <1>10
  <2>2. top \in -1..top /\ \A z \in -1..top-1 : z \in -1..top /\ z # top
    BY <1>1
  <2> HIDE DEF base, Step, top
  <2> QED
    BY <2>1, <2>2
<1> DEFINE Ok(z) == /\ down[z] \in V /\ Balance(s, t, z + 1, down[z].sum, n)
                    /\ down[z].ahead = next(z)
           Good == {z \in -1..top : Ok(z)}
<1>12. top \in Good
  <2>1. next(top) = ptrs[top][w]
    BY <1>1
  <2> QED
    BY <1>1, <1>4, <1>11, <2>1
<1>13. ASSUME NEW z \in -1..top-1, z + 1 \in Good PROVE z \in Good
  <2>1. z + 1 \in 0..n-1 /\ z + 1 \in -1..top /\ z \in -1..top /\ z + 1 # -1
    BY <1>1
  <2>2. down[z] = Step(z, down[z + 1]) /\ down[z + 1] \in V /\ Balance(s, t, (z + 1) + 1, down[z + 1].sum, n)
        /\ down[z + 1].ahead = f[z + 1]
    <3>1. next(z + 1) = f[z + 1]
      BY <1>2, <2>1
    <3> HIDE DEF f, next
    <3> QED
      BY <1>11, <1>13, <3>1
  <2>3. down[z] \in V
    BY <1>5, <2>2
  <2>4. down[z].ahead = next(z) /\ down[z].sum = Add(down[z + 1].sum, f[z + 1], r.isa)
    BY <2>2 DEF AddAhead
  <2>5. down[z + 1].sum \in Acc
    BY <2>2
  <2>6. Balance(s, t, z + 1, down[z].sum, n)
    <3> DEFINE prev == down[z + 1].sum
               j == z + 1
    <3>1. prev \in Acc /\ j \in 0..n-1 /\ Balance(s, t, j + 1, prev, n)
      BY <2>1, <2>2, <2>5
    <3>2. down[z].sum = Add(prev, f[j], r.isa)
      BY <2>4
    <3> HIDE DEF prev, j, f
    <3>3. Balance(s, t, j, Add(prev, f[j], r.isa), n)
      BY <3>1, HornerStep DEF f
    <3> QED
      BY <3>2, <3>3 DEF j
  <2> QED
    BY <2>1, <2>3, <2>4, <2>6
<1>14. -1..top \subseteq Good
  <2> HIDE DEF Good, top
  <2> QED
    BY <1>1, <1>12, <1>13, DownTo
<1>15. down[-1].sum \in Acc /\ Balance(s, t, 0, down[-1].sum, n)
  <2>1. -1 \in Good
    BY <1>1, <1>14
  <2> QED
    BY <2>1
<1>16. down[-1].sum.p = s[n] /\ down[-1].sum.q = t[n]
  BY <1>15, HornerEnd
<1> QED
  BY <1>10, <1>16

-----------------------------------------------------------------------------
(* The routines of struct raid6_calls.                                      *)
LEMMA UnrolledIs ==
  ASSUME NEW name \in {"intx1", "intx2", "intx4", "intx8", "neonx1", "neonx2", "neonx4", "neonx8",
                       "altivecx1", "altivecx2", "altivecx4", "altivecx8",
                       "vpermxor1", "vpermxor2", "vpermxor4", "vpermxor8"}
  PROVE  Unrolled(name) \in {1, 2, 4, 8}
<1> DEFINE Names(n) == CASE n = 1 -> {"intx1", "neonx1", "altivecx1", "vpermxor1"}
              [] n = 2 -> {"intx2", "neonx2", "altivecx2", "vpermxor2"}
              [] n = 4 -> {"intx4", "neonx4", "altivecx4", "vpermxor4"}
              [] n = 8 -> {"intx8", "neonx8", "altivecx8", "vpermxor8"}
<1>1. \E n \in {1, 2, 4, 8} : name \in Names(n)
  <2>1. Names(1) = {"intx1", "neonx1", "altivecx1", "vpermxor1"}
    OBVIOUS
  <2>2. Names(2) = {"intx2", "neonx2", "altivecx2", "vpermxor2"}
    OBVIOUS
  <2>3. Names(4) = {"intx4", "neonx4", "altivecx4", "vpermxor4"}
    OBVIOUS
  <2>4. Names(8) = {"intx8", "neonx8", "altivecx8", "vpermxor8"}
    OBVIOUS
  <2> HIDE DEF Names
  <2>5. name \in Names(1) \/ name \in Names(2) \/ name \in Names(4) \/ name \in Names(8)
    BY <2>1, <2>2, <2>3, <2>4
  <2> QED
    BY <2>5
<1> QED
  BY <1>1 DEF Unrolled

Unrollings == {1, 2, 4, 8}

(* The instruction set, unrolling and shape of each generator.              *)
LEMMA GenRoutines ==
  ASSUME NEW name \in GenNames
  PROVE  LET r == GenOf(name)
         IN  /\ r.isa \in Isas /\ r.n \in Unrollings
             /\ r.shape \in {"direct", "ahead", "zeroed"} /\ (r.shape = "ahead" => name \in LoadsAhead)
<1>1. CASE name \in {"mmxx1", "mmxx2", "sse1x1", "sse1x2", "sse2x1", "sse2x2", "sse2x4"}
  BY <1>1 DEF GenOf, Loop, mmx1_gen, mmx2_gen, sse11_gen, sse12_gen, sse21_gen, sse22_gen, sse24_gen,
              Isas, Unrollings, LoadsAhead
<1>2. CASE name \in {"avx2x1", "avx2x2", "avx2x4", "avx512x1", "avx512x2", "avx512x4", "lsx", "lasx", "vx128x8"}
  BY <1>2 DEF GenOf, Loop, avx21_gen, avx22_gen, avx24_gen, avx5121_gen, avx5122_gen, avx5124_gen,
              lsx_gen, lasx_gen, s390vx8_gen, Isas, Unrollings, LoadsAhead
<1>3. CASE name \in {"intx1", "intx2", "intx4", "intx8"}
  <2>1. GenOf(name) = int_gen(Unrolled(name))
    BY <1>3 DEF GenOf
  <2> QED
    BY <1>3, <2>1, UnrolledIs DEF int_gen, Loop, Isas, Unrollings
<1>4. CASE name \in {"neonx1", "neonx2", "neonx4", "neonx8"}
  <2>1. GenOf(name) = neon_gen(Unrolled(name))
    BY <1>4 DEF GenOf
  <2> QED
    BY <1>4, <2>1, UnrolledIs DEF neon_gen, Loop, Isas, Unrollings
<1>5. CASE name \in {"altivecx1", "altivecx2", "altivecx4", "altivecx8"}
  <2>1. GenOf(name) = altivec_gen(Unrolled(name))
    BY <1>5 DEF GenOf
  <2> QED
    BY <1>5, <2>1, UnrolledIs DEF altivec_gen, Loop, Isas, Unrollings
<1>6. CASE name \in {"vpermxor1", "vpermxor2", "vpermxor4", "vpermxor8"}
  <2>1. GenOf(name) = vpermxor_gen(Unrolled(name))
    BY <1>6 DEF GenOf
  <2> QED
    BY <1>6, <2>1, UnrolledIs DEF vpermxor_gen, Loop, Isas, Unrollings
<1> QED
  BY <1>1, <1>2, <1>3, <1>4, <1>5, <1>6 DEF GenNames, XorNames

(* A block is a multiple of what any routine does in a turn.                *)
LEMMA AllReached ==
  ASSUME NEW n \in Unrollings
  PROVE  Reached(n) = 0..Words-1
<1>1. Words \in Nat /\ Words % 8 = 0
  BY WordsAssumption
<1>2. PICK q \in Nat : Words = 8 * q
  <2>1. Words \div 8 \in Nat /\ Words = 8 * (Words \div 8)
    BY <1>1
  <2> QED
    BY <2>1
<1>3. (Words \div n) * n = Words
  <2>1. CASE n = 1
    BY <1>1, <2>1
  <2>2. CASE n = 2
    <3>1. Words \div 2 = 4 * q
      BY <1>2
    <3> QED
      BY <1>2, <2>2, <3>1
  <2>3. CASE n = 4
    <3>1. Words \div 4 = 2 * q
      BY <1>2
    <3> QED
      BY <1>2, <2>3, <3>1
  <2>4. CASE n = 8
    <3>1. Words \div 8 = q
      BY <1>2
    <3> QED
      BY <1>2, <2>4, <3>1
  <2> QED
    BY <2>1, <2>2, <2>3, <2>4 DEF Unrollings
<1> QED
  BY <1>3 DEF Reached

(* The parities of the data columns, by the definition of the code.         *)
Block == [0..Words-1 -> Register]
Buffers(disks) == [0..disks-1 -> Block]

SumP(ptrs, n) == [w \in 0..Words-1 |-> SumOf(Col(ptrs, n, w), n)]
SumQ(ptrs, n) == [w \in 0..Words-1 |-> SumOf(Weighted(Col(ptrs, n, w), n), n)]

(* What the columns hold at register w.                                     *)
LEMMA ColIn ==
  ASSUME NEW n \in Nat, NEW disks \in Nat, n <= disks, NEW ptrs \in Buffers(disks), NEW w \in 0..Words-1
  PROVE  Col(ptrs, n, w) \in [0..n-1 -> Register]
<1>1. ASSUME NEW i \in 0..n-1 PROVE ptrs[i][w] \in Register
  <2>1. i \in 0..disks-1
    OBVIOUS
  <2> QED
    BY <2>1 DEF Buffers, Block
<1> QED
  BY <1>1 DEF Col

(* Both sums of the columns are the last of partial sums.                   *)
LEMMA SumsExist ==
  ASSUME NEW n \in Powers, NEW f \in [0..n-1 -> Register]
  PROVE  \E s, t : Sums(s, t, f, n) /\ SumOf(f, n) = s[n] /\ SumOf(Weighted(f, n), n) = t[n]
<1>1. n \in Nat
  BY DEF Powers, MaxData
<1>2. PICK s : IsSum(s, f, n) /\ SumOf(f, n) = s[n]
  BY <1>1, SumIs
<1>3. PICK t : IsSum(t, Weighted(f, n), n) /\ SumOf(Weighted(f, n), n) = t[n]
  BY <1>1, WeightedIn, SumIs
<1> QED
  BY <1>2, <1>3 DEF Sums

(* The parities of blocks are blocks.                                       *)
LEMMA SumPQIn ==
  ASSUME NEW n \in Powers, NEW disks \in Nat, n <= disks, NEW ptrs \in Buffers(disks)
  PROVE  SumP(ptrs, n) \in Block /\ SumQ(ptrs, n) \in Block
<1>1. n \in Nat
  BY DEF Powers, MaxData
<1>2. ASSUME NEW w \in 0..Words-1
      PROVE  SumOf(Col(ptrs, n, w), n) \in Register /\ SumOf(Weighted(Col(ptrs, n, w), n), n) \in Register
  <2>1. PICK s, t : /\ Sums(s, t, Col(ptrs, n, w), n) /\ SumOf(Col(ptrs, n, w), n) = s[n]
                    /\ SumOf(Weighted(Col(ptrs, n, w), n), n) = t[n]
    BY <1>1, ColIn, SumsExist
  <2> QED
    BY <1>1, <2>1 DEF Sums, IsSum
<1> QED
  BY <1>2 DEF SumP, SumQ, Block

Encoded(ptrs, disks) ==
  [ptrs EXCEPT ![disks - 2] = SumP(ptrs, disks - 2), ![disks - 1] = SumQ(ptrs, disks - 2)]

(* Every gen_syndrome() computes the two parities of the data columns.      *)
LEMMA GenEncodes ==
  ASSUME NEW name \in GenNames, NEW disks \in 3..MaxData+2, NEW ptrs \in Buffers(disks),
         name \in LoadsAhead => CanLoadAhead(disks)
  PROVE  gen_syndrome(name, disks, ptrs) = Encoded(ptrs, disks)
<1> DEFINE r == GenOf(name)
           n == disks - 2
           Turned(w) == CASE r.shape = "direct" -> GenDirect(r, disks - 3, ptrs, w)
                          [] r.shape = "ahead"  -> GenAhead(r, disks - 3, ptrs, w)
                          [] r.shape = "zeroed" -> GenZeroed(r, disks - 3, ptrs, w)
           acc == [w \in 0..Words-1 |-> Turned(w)]
<1>1. /\ r.isa \in Isas /\ r.n \in Unrollings /\ r.shape \in {"direct", "ahead", "zeroed"}
      /\ r.shape = "ahead" => name \in LoadsAhead
  BY GenRoutines
<1> HIDE DEF r
<1>2. /\ n \in Powers \ {0} /\ n \in Nat /\ n <= disks /\ disks \in Nat /\ n - 1 = disks - 3
      /\ n + 1 = disks - 1 /\ n \in 0..disks-1 /\ n + 1 \in 0..disks-1
  BY DEF Powers, MaxData
<1>3. ASSUME NEW w \in 0..Words-1
      PROVE  Turned(w).p = SumP(ptrs, n)[w] /\ Turned(w).q = SumQ(ptrs, n)[w]
  <2>1. Col(ptrs, n, w) \in [0..n-1 -> Register]
    BY <1>2, ColIn
  <2>2. PICK s, t : /\ Sums(s, t, Col(ptrs, n, w), n) /\ SumOf(Col(ptrs, n, w), n) = s[n]
                    /\ SumOf(Weighted(Col(ptrs, n, w), n), n) = t[n]
    BY <1>2, <2>1, SumsExist
  <2>3. Turned(w).p = s[n] /\ Turned(w).q = t[n]
    <3>1. CASE r.shape = "direct"
      <4>1. Turned(w) = GenDirect(r, n - 1, ptrs, w)
        BY <1>2, <3>1
      <4> HIDE DEF Turned, n
      <4>2. LET end == GenDirect(r, n - 1, ptrs, w) IN end.p = s[n] /\ end.q = t[n]
        BY <1>1, <1>2, <2>1, <2>2, DirectSums
      <4> QED
        BY <4>1, <4>2
    <3>2. CASE r.shape = "ahead"
      <4>1. Turned(w) = GenAhead(r, n - 1, ptrs, w)
        BY <1>2, <3>2
      <4>2. n # 1
        BY <1>1, <3>2 DEF CanLoadAhead
      <4> HIDE DEF Turned, n
      <4>3. LET end == GenAhead(r, n - 1, ptrs, w) IN end.p = s[n] /\ end.q = t[n]
        <5>1. n \in Powers \ {0, 1}
          BY <1>2, <4>2
        <5> QED
          BY <1>1, <5>1, <2>1, <2>2, AheadSums
      <4> QED
        BY <4>1, <4>3
    <3>3. CASE r.shape = "zeroed"
      <4>1. Turned(w) = GenZeroed(r, n - 1, ptrs, w)
        BY <1>2, <3>3
      <4>2. w \in Nat /\ r.n \in Nat \ {0}
        BY <1>1, WordsAssumption DEF Unrollings
      <4> HIDE DEF Turned, n
      <4>3. LET end == GenZeroed(r, n - 1, ptrs, w) IN end.p = s[n] /\ end.q = t[n]
        BY <1>1, <1>2, <4>2, <2>1, <2>2, ZeroedSums
      <4> QED
        BY <4>1, <4>3
    <3> QED
      BY <1>1, <3>1, <3>2, <3>3
  <2> HIDE DEF Turned, n
  <2> QED
    BY <2>2, <2>3 DEF SumP, SumQ
<1>4. gen_syndrome(name, disks, ptrs) = StorePQ(disks, ptrs, r.n, acc)
  BY DEF gen_syndrome, Gen, r
<1>5. DOMAIN (ptrs[n]) = 0..Words-1 /\ DOMAIN (ptrs[n + 1]) = 0..Words-1
  BY <1>2 DEF Buffers, Block
<1>6. Reached(r.n) = 0..Words-1
  BY <1>1, AllReached
<1> HIDE DEF Turned
<1>7. /\ [w \in DOMAIN (ptrs[n]) |-> IF w \in Reached(r.n) THEN acc[w].p ELSE ptrs[n][w]] = SumP(ptrs, n)
      /\ [w \in DOMAIN (ptrs[n + 1]) |-> IF w \in Reached(r.n) THEN acc[w].q ELSE ptrs[n + 1][w]] = SumQ(ptrs, n)
  <2> HIDE DEF n
  <2> QED
    BY <1>3, <1>5, <1>6 DEF SumP, SumQ
<1>8. StorePQ(disks, ptrs, r.n, acc)
      = [ptrs EXCEPT ![n] = [w \in DOMAIN (ptrs[n]) |-> IF w \in Reached(r.n) THEN acc[w].p ELSE ptrs[n][w]],
                     ![n + 1] = [w \in DOMAIN (ptrs[n + 1]) |-> IF w \in Reached(r.n) THEN acc[w].q ELSE ptrs[n + 1][w]]]
  <2> HIDE DEF acc
  <2> QED
    BY <1>2 DEF StorePQ
<1> HIDE DEF acc
<1> QED
  BY <1>2, <1>4, <1>7, <1>8 DEF Encoded

-----------------------------------------------------------------------------
(* xor_syndrome: the way past the columns before start multiplies by the    *)
(* power of start.                                                          *)
LEMMA PowerTwice ==
  ASSUME NEW n \in Powers, NEW s \in 1..4, n + s \in Powers, NEW v \in Register
  PROVE  TimesPower(v, s) \in Register /\ Times(n, TimesPower(v, s)) = Times(n + s, v)
<1> DEFINE D(u) == Twice("simd", u)
<1>1. "simd" \in Isas
  BY DEF Isas
<1>2. ASSUME NEW u \in Register
      PROVE  D(u) \in Register /\ \A l \in Lanes : ByteAt(D(u), l) = Times2(ByteAt(u, l))
  BY <1>1, TwiceBytes
<1>3. ASSUME NEW m \in Powers, m + 1 \in Powers, NEW u \in Register
      PROVE  Times(m, D(u)) = Times(m + 1, u)
  BY <1>1, <1>3, TimesTwice
<1>4. /\ TimesPower(v, s) \in Register
      /\ \A l \in Lanes : ByteAt(TimesPower(v, s), l) = TwofoldAgain(s)[ByteAt(v, l)]
  BY TimesPowerBytes
<1>5. ASSUME NEW u \in Register, \A l \in Lanes : ByteAt(u, l) = TwofoldAgain(s)[ByteAt(v, l)]
      PROVE  TimesPower(v, s) = u
  BY <1>4, <1>5, SameBytes
<1>6. \A l \in Lanes : ByteAt(v, l) \in Byte
  BY ByteAtIn
<1> HIDE DEF D
<1>7. n \in Nat /\ \A m \in Nat : m <= n + s => m \in Powers
  BY DEF Powers, MaxData
<1> DEFINE v2 == D(D(v))
           v3 == D(v2)
           v4 == D(v3)
<1>8. v2 \in Register /\ v3 \in Register /\ v4 \in Register
  BY <1>2
<1>9. CASE s = 1
  <2>1. TimesPower(v, s) = D(v)
    BY <1>2, <1>5, <1>6, <1>9 DEF TwofoldAgain
  <2> QED
    BY <1>3, <1>4, <1>9, <2>1
<1>10. CASE s = 2
  <2>1. TimesPower(v, s) = v2
    BY <1>2, <1>5, <1>6, <1>10 DEF TwofoldAgain
  <2>2. Times(n, v2) = Times(n + 1, D(v)) /\ Times(n + 1, D(v)) = Times((n + 1) + 1, v)
    BY <1>2, <1>3, <1>7, <1>10
  <2>3. (n + 1) + 1 = n + s
    BY <1>7, <1>10
  <2> QED
    BY <1>4, <2>1, <2>2, <2>3
<1>11. CASE s = 3
  <2>1. TimesPower(v, s) = v3
    <3>1. \A l \in Lanes : ByteAt(v3, l) = Times2(Times2(Times2(ByteAt(v, l))))
      BY <1>2
    <3> HIDE DEF v3
    <3> QED
      BY <1>5, <1>6, <1>8, <1>11, <3>1 DEF TwofoldAgain
  <2>2. Times(n, v3) = Times(n + 1, v2)
    BY <1>3, <1>7, <1>8, <1>11
  <2>3. Times(n + 1, v2) = Times((n + 1) + 1, D(v))
    BY <1>2, <1>3, <1>7, <1>11
  <2>4. Times((n + 1) + 1, D(v)) = Times(((n + 1) + 1) + 1, v)
    BY <1>3, <1>7, <1>11
  <2>5. ((n + 1) + 1) + 1 = n + s
    BY <1>7, <1>11
  <2> HIDE DEF v2, v3
  <2> QED
    BY <1>4, <2>1, <2>2, <2>3, <2>4, <2>5
<1>12. CASE s = 4
  <2>1. TimesPower(v, s) = v4
    <3>1. \A l \in Lanes : ByteAt(v4, l) = Times2(Times2(Times2(Times2(ByteAt(v, l)))))
      BY <1>2
    <3> HIDE DEF v4
    <3> QED
      BY <1>5, <1>6, <1>8, <1>12, <3>1 DEF TwofoldAgain
  <2>2. Times(n, v4) = Times(n + 1, v3)
    BY <1>3, <1>7, <1>8, <1>12
  <2>3. Times(n + 1, v3) = Times((n + 1) + 1, v2)
    BY <1>3, <1>7, <1>8, <1>12
  <2>4. Times((n + 1) + 1, v2) = Times(((n + 1) + 1) + 1, D(v))
    BY <1>2, <1>3, <1>7, <1>12
  <2>5. Times(((n + 1) + 1) + 1, D(v)) = Times((((n + 1) + 1) + 1) + 1, v)
    BY <1>3, <1>7, <1>12
  <2>6. (((n + 1) + 1) + 1) + 1 = n + s
    BY <1>7, <1>12
  <2> HIDE DEF v2, v3, v4
  <2> QED
    BY <1>4, <2>1, <2>2, <2>3, <2>4, <2>5, <2>6
<1> QED
  BY <1>9, <1>10, <1>11, <1>12

(* Doubling n times multiplies by the power.                                *)
LEMMA DoubleLoop ==
  ASSUME NEW n \in Powers, NEW v \in Register, NEW isa \in Isas
  PROVE  DoubleTimes(v, n, isa) = Times(n, v)
<1> DEFINE step == [p \in (1..n) \X Register |-> Twice(isa, p[2])]
           Rec(h) == h = [k \in 0..n |-> IF k = 0 THEN v ELSE Twice(isa, h[k - 1])]
<1>1. n \in Nat /\ \A k \in 0..n : n - k \in Powers
  BY DEF Powers, MaxData
<1>2. step \in [(1..n) \X Register -> Register]
  BY TwiceBytes
<1>3. PICK g : Recurs(g, n, Register, v, step)
  <2> HIDE DEF step
  <2> QED
    BY <1>1, <1>2, Recursion
<1>4. g \in [0..n -> Register] /\ g[0] = v
  BY <1>3 DEF Recurs
<1>5. ASSUME NEW k \in 1..n PROVE g[k] = Twice(isa, g[k - 1])
  <2>1. k - 1 \in 0..n
    BY <1>1
  <2>2. g[k - 1] \in Register
    BY <1>4, <2>1
  <2>3. g[k] = step[<<k, g[k - 1]>>]
    <3> HIDE DEF step
    <3> QED
      BY <1>3 DEF Recurs
  <2> QED
    BY <2>2, <2>3
<1>6. Rec(g)
  BY <1>1, <1>4, <1>5
<1> DEFINE times == CHOOSE h : Rec(h)
<1>7. Rec(times) /\ DoubleTimes(v, n, isa) = times[n]
  BY <1>6 DEF DoubleTimes
<1> HIDE DEF times
<1>8. times[0] = v /\ \A k \in 1..n : times[k] = Twice(isa, times[k - 1])
  <2>1. \A k \in 0..n : times[k] = IF k = 0 THEN v ELSE Twice(isa, times[k - 1])
    BY <1>7
  <2>2. 0 \in 0..n /\ \A k \in 1..n : k \in 0..n /\ k # 0
    BY <1>1
  <2> QED
    BY <2>1, <2>2
<1> DEFINE Good == {k \in 0..n : times[k] \in Register /\ Times(n - k, times[k]) = Times(n, v)}
<1>9. 0 \in Good
  BY <1>1, <1>8
<1>10. ASSUME NEW k \in 1..n, k - 1 \in Good PROVE k \in Good
  <2> DEFINE u == times[k - 1]
  <2>1. u \in Register /\ Times(n - (k - 1), u) = Times(n, v) /\ times[k] = Twice(isa, u)
    BY <1>8, <1>10
  <2>2. n - k \in Powers /\ (n - k) + 1 = n - (k - 1) /\ (n - k) + 1 \in Powers /\ k \in 0..n
    BY <1>1
  <2> HIDE DEF u
  <2>3. Times(n - k, Twice(isa, u)) = Times((n - k) + 1, u) /\ Twice(isa, u) \in Register
    BY <2>1, <2>2, TimesTwice, TwiceBytes
  <2> QED
    BY <2>1, <2>2, <2>3
<1>11. n \in Good
  <2> HIDE DEF Good
  <2>1. 0..n \subseteq Good
    BY <1>1, <1>9, <1>10, UpTo
  <2> QED
    BY <1>1, <2>1
<1>12. times[n] \in Register /\ Times(0, times[n]) = Times(n, v)
  BY <1>1, <1>11
<1> QED
  BY <1>7, <1>12, TimesOne

(* NEON's loop, four at a time and then the rest, does so too.              *)
LEMMA NeonLoop ==
  ASSUME NEW n \in Powers, NEW v \in Register
  PROVE  LeftNeon(v, n) = Times(n, v)
<1> DEFINE m == n \div 4
           step == [p \in (1..m) \X Register |-> TimesPower(p[2], 4)]
           Rec(h) == h = [k \in 0..n \div 4 |-> IF k = 0 THEN v ELSE TimesPower(h[k - 1], 4)]
<1>1. n \in Nat /\ m \in Nat /\ n = (4 * m) + (n % 4) /\ n % 4 \in 0..3 /\ \A k \in 0..m : n - 4 * k \in Powers
  <2>1. n \in 0..28 /\ m \in Nat /\ n = (4 * m) + (n % 4) /\ n % 4 \in 0..3
    BY DEF Powers, MaxData
  <2> HIDE DEF m
  <2>2. ASSUME NEW k \in 0..m PROVE n - 4 * k \in 0..28
    BY <2>1
  <2> QED
    BY <2>1, <2>2 DEF Powers, MaxData
<1>2. step \in [(1..m) \X Register -> Register]
  <2>1. \A u \in Register : TimesPower(u, 4) \in Register
    BY TimesPowerBytes
  <2> QED
    BY <2>1
<1> HIDE DEF m
<1>3. PICK g : Recurs(g, m, Register, v, step)
  <2> HIDE DEF step
  <2> QED
    BY <1>1, <1>2, Recursion
<1>4. g \in [0..m -> Register] /\ g[0] = v
  BY <1>3 DEF Recurs
<1>5. ASSUME NEW k \in 1..m PROVE g[k] = TimesPower(g[k - 1], 4)
  <2>1. k - 1 \in 0..m
    BY <1>1
  <2>2. g[k - 1] \in Register
    BY <1>4, <2>1
  <2>3. g[k] = step[<<k, g[k - 1]>>]
    <3> HIDE DEF step
    <3> QED
      BY <1>3 DEF Recurs
  <2> QED
    BY <2>2, <2>3
<1>6. Rec(g)
  BY <1>1, <1>4, <1>5 DEF m
<1> DEFINE fours == CHOOSE h : Rec(h)
<1>7. Rec(fours)
  BY <1>6
<1>8. LeftNeon(v, n) = CASE n % 4 = 0 -> fours[m]
                         [] n % 4 = 1 -> Double(fours[m])
                         [] OTHER -> TimesPower(fours[m], n % 4)
  BY DEF LeftNeon, m
<1> HIDE DEF fours
<1>9. fours[0] = v /\ \A k \in 1..m : fours[k] = TimesPower(fours[k - 1], 4)
  <2>1. \A k \in 0..m : fours[k] = IF k = 0 THEN v ELSE TimesPower(fours[k - 1], 4)
    BY <1>7 DEF m
  <2>2. 0 \in 0..m /\ \A k \in 1..m : k \in 0..m /\ k # 0
    BY <1>1
  <2> QED
    BY <2>1, <2>2
<1> DEFINE Good == {k \in 0..m : fours[k] \in Register /\ Times(n - 4 * k, fours[k]) = Times(n, v)}
<1>10. 0 \in Good
  BY <1>1, <1>9
<1>11. ASSUME NEW k \in 1..m, k - 1 \in Good PROVE k \in Good
  <2> DEFINE u == fours[k - 1]
             j == n - 4 * k
  <2>1. u \in Register /\ Times(n - 4 * (k - 1), u) = Times(n, v) /\ fours[k] = TimesPower(u, 4)
    BY <1>9, <1>11
  <2>2. j \in Powers /\ j + 4 = n - 4 * (k - 1) /\ j + 4 \in Powers /\ k \in 0..m
    <3>1. k \in 0..m /\ k - 1 \in 0..m /\ j + 4 = n - 4 * (k - 1)
      BY <1>1
    <3>2. j \in Powers /\ n - 4 * (k - 1) \in Powers
      BY <1>1, <3>1
    <3> QED
      BY <3>1, <3>2
  <2> HIDE DEF u, j
  <2>3. Times(j, TimesPower(u, 4)) = Times(j + 4, u) /\ TimesPower(u, 4) \in Register
    BY <2>1, <2>2, PowerTwice
  <2> QED
    BY <2>1, <2>2, <2>3 DEF j
<1>12. m \in Good
  <2> HIDE DEF Good
  <2>1. 0..m \subseteq Good
    BY <1>1, <1>10, <1>11, UpTo
  <2> QED
    BY <1>1, <2>1
<1> DEFINE u == fours[m]
           s == n % 4
<1>13. u \in Register /\ s \in Powers /\ Times(s, u) = Times(n, v)
  <2>1. n - 4 * m = s /\ s \in Powers
    BY <1>1 DEF Powers, MaxData
  <2> QED
    BY <1>12, <2>1
<1>14. 0 \in Powers
  BY DEF Powers, MaxData
<1>15. CASE s = 0
  <2>1. LeftNeon(v, n) = u
    BY <1>8, <1>15
  <2> HIDE DEF u
  <2> QED
    BY <1>13, <1>15, <2>1, TimesOne
<1>16. CASE s = 1
  <2>1. LeftNeon(v, n) = Double(u)
    BY <1>8, <1>16
  <2>2. Double(u) = Twice("simd", u) /\ "simd" \in Isas
    BY DEF Twice, Isas
  <2> HIDE DEF u
  <2>3. Double(u) \in Register /\ Times(0, Double(u)) = Times(0 + 1, u)
    BY <1>13, <1>14, <1>16, <2>2, TimesTwice, TwiceBytes
  <2> QED
    BY <1>13, <1>16, <2>1, <2>3, TimesOne
<1>17. CASE s \in 2..3
  <2>1. LeftNeon(v, n) = TimesPower(u, s)
    BY <1>8, <1>17
  <2> HIDE DEF u, s
  <2>2. s \in 1..4 /\ 0 + s \in Powers
    BY <1>13, <1>17
  <2>3. TimesPower(u, s) \in Register /\ Times(0, TimesPower(u, s)) = Times(0 + s, u)
    BY <1>13, <1>14, <2>2, PowerTwice
  <2>4. Times(0 + s, u) = Times(s, u)
    BY <1>17
  <2> QED
    BY <1>13, <2>1, <2>3, <2>4, TimesOne
<1> QED
  BY <1>1, <1>15, <1>16, <1>17

(* The left part of an xor_syndrome() multiplies by the power.              *)
LEMMA LeftIsTimes ==
  ASSUME NEW n \in Powers, NEW v \in Register, NEW isa \in Isas
  PROVE  Left(isa, v, n) = Times(n, v)
BY DoubleLoop, NeonLoop DEF Left

(* The instruction set and the unrolling of each xor_syndrome().            *)
LEMMA XorRoutines ==
  ASSUME NEW name \in XorNames
  PROVE  XorOf(name).isa \in Isas /\ XorOf(name).n \in Unrollings
<1>1. CASE name \in {"sse2x1", "sse2x2", "sse2x4", "avx2x1", "avx2x2", "avx2x4"}
  BY <1>1 DEF XorOf, Loop, sse21_xor, sse22_xor, sse24_xor, avx21_xor, avx22_xor, avx24_xor,
              Isas, Unrollings
<1>2. CASE name \in {"avx512x1", "avx512x2", "avx512x4", "lsx", "lasx", "vx128x8"}
  BY <1>2 DEF XorOf, Loop, avx5121_xor, avx5122_xor, avx5124_xor, lsx_xor, lasx_xor, s390vx8_xor,
              Isas, Unrollings
<1>3. CASE name \in {"intx1", "intx2", "intx4", "intx8"}
  <2>1. XorOf(name) = int_xor(Unrolled(name))
    BY <1>3 DEF XorOf
  <2> QED
    BY <1>3, <2>1, UnrolledIs DEF int_xor, Loop, Isas, Unrollings
<1>4. CASE name \in {"neonx1", "neonx2", "neonx4", "neonx8"}
  <2>1. XorOf(name) = neon_xor(Unrolled(name))
    BY <1>4 DEF XorOf
  <2> QED
    BY <1>4, <2>1, UnrolledIs DEF neon_xor, Loop, Isas, Unrollings
<1> QED
  BY <1>1, <1>2, <1>3, <1>4 DEF XorNames

TimesBlock(i, x) == [w \in 0..Words-1 |-> Times(i, x[w])]

Moved(ptrs, disks, i) ==
  [ptrs EXCEPT ![disks - 2] = XorBlock(ptrs[disks - 2], ptrs[i]),
               ![disks - 1] = XorBlock(ptrs[disks - 1], TimesBlock(i, ptrs[i]))]

(* Every xor_syndrome() adds the column, times its power, to the parities.  *)
LEMMA XorMoves ==
  ASSUME NEW name \in XorNames, NEW disks \in 3..MaxData+2, NEW ptrs \in Buffers(disks), NEW i \in 0..disks-3
  PROVE  xor_syndrome(name, disks, i, i, ptrs) = Moved(ptrs, disks, i)
<1> DEFINE r == XorOf(name)
           n == disks - 2
           sum(w) == Down([p |-> ptrs[i][w], q |-> ptrs[i][w]], i - 1, i, ptrs, w, r.isa)
           acc == [w \in 0..Words-1 |->
                     [p |-> Xor(ptrs[disks - 2][w], sum(w).p),
                      q |-> Xor(ptrs[disks - 1][w], Left(r.isa, sum(w).q, i))]]
<1>1. r.isa \in Isas /\ r.n \in Unrollings
  BY XorRoutines
<1> HIDE DEF r
<1>2. /\ i \in Powers /\ i \in Nat /\ i \in 0..disks-1 /\ n + 1 = disks - 1
      /\ n \in 0..disks-1 /\ n + 1 \in 0..disks-1
  BY DEF Powers, MaxData
<1>3. ASSUME NEW w \in 0..Words-1
      PROVE  /\ acc[w].p = XorBlock(ptrs[n], ptrs[i])[w]
             /\ acc[w].q = XorBlock(ptrs[n + 1], TimesBlock(i, ptrs[i]))[w]
  <2> DEFINE x == ptrs[i][w]
             top == [p |-> x, q |-> x]
  <2>1. x \in Register
    BY <1>2 DEF Buffers, Block
  <2>2. sum(w) = top
    <3>1. top \in Acc /\ i - 1 \in Int /\ i \in Int /\ i <= (i - 1) + 1
      BY <1>2, <2>1 DEF Acc
    <3>2. \A z \in i..i-1 : ptrs[z][w] \in Register
      BY <1>2
    <3> HIDE DEF top
    <3>3. PICK down : DownAt(down, top, i - 1, i, ptrs, w, r.isa) /\ Down(top, i - 1, i, ptrs, w, r.isa) = down[i]
      BY <1>1, <3>1, <3>2, DownLoop
    <3>4. down[i] = top
      <4>1. (i - 1) + 1 = i
        BY <1>2
      <4> QED
        BY <3>3, <4>1 DEF DownAt
    <3> QED
      BY <3>3, <3>4 DEF top
  <2>3. sum(w).p = x /\ sum(w).q = x
    BY <2>2
  <2>4. Left(r.isa, x, i) = Times(i, x)
    BY <1>1, <1>2, <2>1, LeftIsTimes
  <2> HIDE DEF sum
  <2>5. acc[w].p = Xor(ptrs[n][w], x) /\ acc[w].q = Xor(ptrs[n + 1][w], Times(i, x))
    BY <1>2, <2>3, <2>4
  <2> QED
    BY <2>5 DEF XorBlock, TimesBlock
<1>4. xor_syndrome(name, disks, i, i, ptrs) = StorePQ(disks, ptrs, r.n, acc)
  BY DEF xor_syndrome, XorSyndrome, r
<1>5. DOMAIN (ptrs[n]) = 0..Words-1 /\ DOMAIN (ptrs[n + 1]) = 0..Words-1
  BY <1>2 DEF Buffers, Block
<1>6. Reached(r.n) = 0..Words-1
  BY <1>1, AllReached
<1> HIDE DEF acc
<1>7. /\ [w \in DOMAIN (ptrs[n]) |-> IF w \in Reached(r.n) THEN acc[w].p ELSE ptrs[n][w]]
         = XorBlock(ptrs[n], ptrs[i])
      /\ [w \in DOMAIN (ptrs[n + 1]) |-> IF w \in Reached(r.n) THEN acc[w].q ELSE ptrs[n + 1][w]]
         = XorBlock(ptrs[n + 1], TimesBlock(i, ptrs[i]))
  <2> HIDE DEF n
  <2> QED
    BY <1>3, <1>5, <1>6 DEF XorBlock
<1>8. StorePQ(disks, ptrs, r.n, acc)
      = [ptrs EXCEPT ![n] = [w \in DOMAIN (ptrs[n]) |-> IF w \in Reached(r.n) THEN acc[w].p ELSE ptrs[n][w]],
                     ![n + 1] = [w \in DOMAIN (ptrs[n + 1]) |-> IF w \in Reached(r.n) THEN acc[w].q ELSE ptrs[n + 1][w]]]
  BY <1>2 DEF StorePQ
<1> QED
  BY <1>2, <1>4, <1>7, <1>8 DEF Moved

-----------------------------------------------------------------------------
(* What changes in the parities with one column; the recovery of columns.   *)
LEMMA XorBlockIn ==
  /\ \A x, y \in Block : XorBlock(x, y) \in Block
  /\ \A x, y : \A w \in 0..Words-1 : XorBlock(x, y)[w] = Xor(x[w], y[w])
  /\ Zero \in Block /\ \A w \in 0..Words-1 : Zero[w] = {}
<1>1. ASSUME NEW x \in Block, NEW y \in Block PROVE XorBlock(x, y) \in Block
  BY XorRegister DEF XorBlock, Block
<1>2. \A x, y : \A w \in 0..Words-1 : XorBlock(x, y)[w] = Xor(x[w], y[w])
  BY DEF XorBlock
<1>3. Zero \in Block /\ \A w \in 0..Words-1 : Zero[w] = {}
  BY DEF Zero, Block, Register
<1> QED
  BY <1>1, <1>2, <1>3

(* Blocks with the same registers are the same.                             *)
LEMMA SameBlock ==
  ASSUME NEW x \in Block, NEW y \in Block, \A w \in 0..Words-1 : x[w] = y[w]
  PROVE  x = y
<1>1. x = [w \in 0..Words-1 |-> x[w]] /\ y = [w \in 0..Words-1 |-> y[w]]
  BY DEF Block
<1>2. [w \in 0..Words-1 |-> x[w]] = [w \in 0..Words-1 |-> y[w]]
  OBVIOUS
<1> QED
  BY <1>1, <1>2

(* A block is multiplied register by register.                              *)
LEMMA TimesBlockIn ==
  ASSUME NEW i \in Powers, NEW x \in Block
  PROVE  TimesBlock(i, x) \in Block /\ \A w \in 0..Words-1 : TimesBlock(i, x)[w] = Times(i, x[w])
<1>1. \A w \in 0..Words-1 : Times(i, x[w]) \in Register
  BY TimesBytes DEF Block
<1> QED
  BY <1>1 DEF TimesBlock, Block

(* The parities change by what the changed column does, times its power in  *)
(* Q.                                                                       *)
LEMMA SumMoves ==
  ASSUME NEW n \in Powers, NEW c \in Buffers(n), NEW i \in 0..n-1, NEW x \in Block
  PROVE  LET d == [c EXCEPT ![i] = x]
         IN  /\ d \in Buffers(n)
             /\ SumP(d, n) = XorBlock(SumP(c, n), XorBlock(c[i], x))
             /\ SumQ(d, n) = XorBlock(SumQ(c, n), TimesBlock(i, XorBlock(c[i], x)))
<1> DEFINE d == [c EXCEPT ![i] = x]
<1>1. n \in Nat /\ i \in Powers /\ c[i] \in Block
  BY DEF Powers, MaxData, Buffers
<1>2. d \in Buffers(n)
  BY DEF Buffers
<1>3. ASSUME NEW w \in 0..Words-1
      PROVE  /\ SumOf(Col(d, n, w), n) = Xor(SumOf(Col(c, n, w), n), Xor(c[i][w], x[w]))
             /\ SumOf(Weighted(Col(d, n, w), n), n)
                = Xor(SumOf(Weighted(Col(c, n, w), n), n), Times(i, Xor(c[i][w], x[w])))
  <2> DEFINE f == Col(c, n, w)
             g == Weighted(f, n)
  <2>1. f \in [0..n-1 -> Register] /\ f[i] = c[i][w]
    <3>1. f[i] = c[i][w]
      BY DEF Col
    <3>2. n <= n /\ c \in Buffers(n) /\ w \in 0..Words-1
      BY <1>1
    <3>3. Col(c, n, w) \in [0..n-1 -> Register]
      BY ONLY <1>1, <3>2, ColIn
    <3> QED
      BY <3>1, <3>3
  <2>2. x[w] \in Register /\ c[i][w] \in Register
    BY <1>1 DEF Block
  <2>3. Col(d, n, w) = [f EXCEPT ![i] = x[w]]
    BY DEF Buffers, Col
  <2>4. g \in [0..n-1 -> Register] /\ g[i] = Times(i, c[i][w])
    <3>1. g[i] = Times(i, f[i])
      BY DEF Weighted
    <3> HIDE DEF f
    <3> QED
      BY <2>1, <3>1, WeightedIn
  <2>5. Weighted(Col(d, n, w), n) = [g EXCEPT ![i] = Times(i, x[w])]
    <3> HIDE DEF f
    <3>1. Weighted([f EXCEPT ![i] = x[w]], n) = [g EXCEPT ![i] = Times(i, x[w])]
      BY <2>1 DEF Weighted
    <3> QED
      BY <2>3, <3>1
  <2>6. Times(i, x[w]) \in Register
    BY <1>1, <2>2, TimesBytes
  <2>7. Xor(Times(i, c[i][w]), Times(i, x[w])) = Times(i, Xor(c[i][w], x[w]))
    BY <1>1, <2>2, TimesXor
  <2> HIDE DEF f, g, d
  <2>8. SumOf([f EXCEPT ![i] = x[w]], n) = Xor(SumOf(f, n), Xor(f[i], x[w]))
    BY <1>1, <2>1, <2>2, SumChanges
  <2>9. SumOf([g EXCEPT ![i] = Times(i, x[w])], n) = Xor(SumOf(g, n), Xor(g[i], Times(i, x[w])))
    BY <1>1, <2>4, <2>6, SumChanges
  <2> QED
    BY <2>1, <2>3, <2>4, <2>5, <2>7, <2>8, <2>9 DEF f, g
<1> HIDE DEF d
<1>4. \A w \in 0..Words-1 : TimesBlock(i, XorBlock(c[i], x))[w] = Times(i, Xor(c[i][w], x[w]))
  BY DEF TimesBlock, XorBlock
<1>5. SumP(d, n) = XorBlock(SumP(c, n), XorBlock(c[i], x))
  BY <1>3 DEF SumP, XorBlock
<1>6. SumQ(d, n) = XorBlock(SumQ(c, n), TimesBlock(i, XorBlock(c[i], x)))
  BY <1>3, <1>4 DEF SumQ, XorBlock
<1> QED
  BY <1>2, <1>5, <1>6 DEF d

(* All the columns of a stripe whose data is c.                             *)
Word(c, disks) ==
  [i \in 0..disks-1 |-> IF i < disks - 2 THEN c[i]
                        ELSE IF i = disks - 2 THEN SumP(c, disks - 2) ELSE SumQ(c, disks - 2)]

(* The parities depend on the data columns alone.                           *)
LEMMA SumOnly ==
  ASSUME NEW n \in Nat, NEW b, NEW c, \A i \in 0..n-1 : b[i] = c[i]
  PROVE  SumP(b, n) = SumP(c, n) /\ SumQ(b, n) = SumQ(c, n)
<1>1. \A w : Col(b, n, w) = Col(c, n, w)
  BY DEF Col
<1> QED
  BY <1>1 DEF SumP, SumQ

(* The columns of a stripe that fits the data c are c and its parities.     *)
LEMMA WordIn ==
  ASSUME NEW disks \in 3..MaxData+2, NEW c \in Buffers(disks - 2)
  PROVE  /\ Word(c, disks) \in Buffers(disks)
         /\ \A i \in 0..disks-3 : Word(c, disks)[i] = c[i]
         /\ Word(c, disks)[disks - 2] = SumP(c, disks - 2)
         /\ Word(c, disks)[disks - 1] = SumQ(c, disks - 2)
<1> DEFINE n == disks - 2
<1>1. n \in Powers /\ n \in Nat /\ n <= n /\ n + 1 = disks - 1 /\ n - 1 = disks - 3
  BY DEF Powers, MaxData
<1>2. SumP(c, n) \in Block /\ SumQ(c, n) \in Block
  <2> HIDE DEF n
  <2>1. c \in Buffers(n)
    BY DEF n
  <2> QED
    BY <1>1, <2>1, SumPQIn
<1>3. \A i \in 0..disks-3 : c[i] \in Block
  BY <1>1 DEF Buffers
<1>4. \A i \in 0..disks-1 : Word(c, disks)[i] \in Block
  <2>1. \A i \in 0..disks-1 : i < disks - 2 => i \in 0..disks-3
    OBVIOUS
  <2> QED
    BY <1>2, <1>3, <2>1 DEF Word
<1>5. Word(c, disks) \in Buffers(disks)
  BY <1>4 DEF Word, Buffers
<1>6. \A i \in 0..disks-3 : Word(c, disks)[i] = c[i]
  BY DEF Word
<1>7. Word(c, disks)[disks - 2] = SumP(c, disks - 2) /\ Word(c, disks)[disks - 1] = SumQ(c, disks - 2)
  BY DEF Word
<1> QED
  BY <1>5, <1>6, <1>7

Fits(srcs, c, disks, cols) == \A i \in cols : srcs[i] = Word(c, disks)[i]

(* The multiplier and the unrolling of each recovery, and what it calls.    *)
LEMMA RecovRoutines ==
  ASSUME NEW name \in RecovNames
  PROVE  /\ Data2Of(name).isa \in Multipliers /\ Data2Of(name).n \in Unrollings
         /\ DataPOf(name).isa \in Multipliers /\ DataPOf(name).n \in Unrollings
         /\ \A call \in GenNames : CallFor(name, call) \in GenNames
<1>1. Data2Of(name).isa \in Multipliers /\ Data2Of(name).n \in Unrollings
  <2>1. ASSUME NEW n \in {1, 2}, Data2Of(name) = Loop("data2", n, "words")
        PROVE  Data2Of(name).isa \in Multipliers /\ Data2Of(name).n \in Unrollings
    BY <2>1 DEF Loop, Multipliers, Unrollings
  <2>2. CASE name \in {"avx512x1", "avx2x1", "ssse3x1"}
    <3>1. Data2Of(name) = Loop("data2", 1, "words")
      BY <2>2 DEF Data2Of, ssse3_data2, avx2_data2, avx512_data2
    <3> QED
      BY <2>1, <3>1
  <2>3. CASE name \in {"avx512x2", "avx2x2", "ssse3x2"}
    <3>1. Data2Of(name) = Loop("data2", 2, "words")
      BY <2>3 DEF Data2Of, ssse3_data2, avx2_data2, avx512_data2
    <3> QED
      BY <2>1, <3>1
  <2>4. CASE name \in {"s390xc", "neon", "lasx", "lsx", "intx1"}
    <3>1. Data2Of(name) \in {Loop("data2", 1, "bytes"), Loop("data2", 1, "nibbles"),
                            Loop("data2", 2, "nibbles"), Loop("data2", 4, "nibbles")}
      BY <2>4 DEF Data2Of, intx1_data2, s390xc_data2, lsx_data2, lasx_data2, neon_inner_data2
    <3> QED
      BY <3>1 DEF Loop, Multipliers, Unrollings
  <2> QED
    BY <2>2, <2>3, <2>4 DEF RecovNames
<1>2. DataPOf(name).isa \in Multipliers /\ DataPOf(name).n \in Unrollings
  <2>1. ASSUME NEW n \in {1, 2}, DataPOf(name) = Loop("datap", n, "words")
        PROVE  DataPOf(name).isa \in Multipliers /\ DataPOf(name).n \in Unrollings
    BY <2>1 DEF Loop, Multipliers, Unrollings
  <2>2. CASE name \in {"avx512x1", "avx2x1", "ssse3x1"}
    <3>1. DataPOf(name) = Loop("datap", 1, "words")
      BY <2>2 DEF DataPOf, ssse3_datap, avx2_datap, avx512_datap
    <3> QED
      BY <2>1, <3>1
  <2>3. CASE name \in {"avx512x2", "avx2x2", "ssse3x2"}
    <3>1. DataPOf(name) = Loop("datap", 2, "words")
      BY <2>3 DEF DataPOf, ssse3_datap, avx2_datap, avx512_datap
    <3> QED
      BY <2>1, <3>1
  <2>4. CASE name \in {"s390xc", "neon", "lasx", "lsx", "intx1"}
    <3>1. DataPOf(name) \in {Loop("datap", 1, "bytes"), Loop("datap", 1, "nibbles"),
                            Loop("datap", 2, "nibbles"), Loop("datap", 4, "nibbles")}
      BY <2>4 DEF DataPOf, intx1_datap, s390xc_datap, lsx_datap, lasx_datap, neon_inner_datap
    <3> QED
      BY <3>1 DEF Loop, Multipliers, Unrollings
  <2> QED
    BY <2>2, <2>3, <2>4 DEF RecovNames
<1>3. "intx8" \in GenNames
  BY DEF GenNames, XorNames
<1> QED
  BY <1>1, <1>2, <1>3 DEF CallFor, KernelCall

(* A routine stores whole blocks.                                           *)
LEMMA StoredAll ==
  ASSUME NEW n \in Unrollings, NEW done \in Block, NEW left
  PROVE  Stored(n, done, left) = done
<1>1. Stored(n, done, left) = [w \in 0..Words-1 |-> done[w]]
  BY AllReached DEF Stored
<1> QED
  BY <1>1 DEF Block

Placed(ptrs, i, x) == [ptrs EXCEPT ![i] = x]

(* Two lost data columns are what both parities say they are, whatever was  *)
(* in their buffers.                                                        *)
LEMMA TwoRebuilt ==
  ASSUME NEW name \in RecovNames, NEW call \in GenNames, NEW disks \in 4..MaxData+2,
         NEW b \in 0..disks-3, NEW a \in 0..b-1, NEW ptrs \in Buffers(disks),
         NEW c \in Buffers(disks - 2), Fits(ptrs, c, disks, (0..disks-1) \ {a, b})
  PROVE  data2_recov(name, call, disks, a, b, ptrs) = Placed(Placed(ptrs, b, c[b]), a, c[a])
<1> DEFINE n == disks - 2
           r == Data2Of(name)
           p0 == [ptrs EXCEPT ![a] = Zero, ![n] = ptrs[a], ![b] = Zero, ![n + 1] = ptrs[b]]
           d == Encoded(p0, disks)
           c1 == [c EXCEPT ![a] = Zero]
           c2 == [c1 EXCEPT ![b] = Zero]
           sum == XorBlock(c[a], c[b])
           weighted == XorBlock(TimesBlock(a, c[a]), TimesBlock(b, c[b]))
<1>1. /\ n \in Powers /\ n \in Nat /\ n <= n /\ n <= disks /\ n - 1 = disks - 3 /\ n + 1 = disks - 1 /\ n = disks - 2
      /\ n + 1 \in 0..disks-1 /\ n \in 0..disks-1 /\ a \in 0..n-1 /\ b \in 0..n-1 /\ a # b
      /\ a \in 0..disks-1 /\ b \in 0..disks-1 /\ a \in Powers /\ b \in Powers /\ b \in Numbers
      /\ disks \in 3..MaxData+2 /\ disks > 3 /\ n + 1 # n /\ a \in Numbers
  BY DEF Powers, Numbers, MaxData
<1>2. r.isa \in Multipliers /\ r.n \in Unrollings /\ CallFor(name, call) \in GenNames
  BY RecovRoutines
<1> HIDE DEF r, n
<1>3. c \in Buffers(n) /\ c[a] \in Block /\ c[b] \in Block
  BY <1>1 DEF Buffers
<1>4. ptrs[a] \in Block /\ ptrs[b] \in Block /\ Zero \in Block
  BY <1>1, XorBlockIn DEF Buffers
<1>5. p0 \in Buffers(disks)
  BY <1>4 DEF Buffers
<1>6. gen_syndrome(CallFor(name, call), disks, p0) = d
  <2>1. CanLoadAhead(disks)
    BY <1>1 DEF CanLoadAhead
  <2> HIDE DEF p0
  <2> QED
    BY <1>1, <1>2, <1>5, <2>1, GenEncodes
<1>7. /\ c1 \in Buffers(n)
      /\ SumP(c1, n) = XorBlock(SumP(c, n), XorBlock(c[a], Zero))
      /\ SumQ(c1, n) = XorBlock(SumQ(c, n), TimesBlock(a, XorBlock(c[a], Zero)))
  <2> QED
    BY <1>1, <1>3, <1>4, SumMoves
<1>8. /\ c2 \in Buffers(n)
      /\ SumP(c2, n) = XorBlock(SumP(c1, n), XorBlock(c[b], Zero))
      /\ SumQ(c2, n) = XorBlock(SumQ(c1, n), TimesBlock(b, XorBlock(c[b], Zero)))
  <2>1. c1[b] = c[b]
    BY <1>1, <1>3 DEF Buffers
  <2> HIDE DEF c1
  <2>2. /\ c2 \in Buffers(n)
        /\ SumP(c2, n) = XorBlock(SumP(c1, n), XorBlock(c1[b], Zero))
        /\ SumQ(c2, n) = XorBlock(SumQ(c1, n), TimesBlock(b, XorBlock(c1[b], Zero)))
    BY <1>1, <1>4, <1>7, SumMoves
  <2> QED
    BY <2>1, <2>2
<1>9. \A x \in Block : XorBlock(x, Zero) = x
  <2> SUFFICES ASSUME NEW x \in Block PROVE XorBlock(x, Zero) = x
    OBVIOUS
  <2>1. XorBlock(x, Zero) \in Block
    BY XorBlockIn
  <2>2. ASSUME NEW w \in 0..Words-1 PROVE XorBlock(x, Zero)[w] = x[w]
    <3>1. XorBlock(x, Zero)[w] = Xor(x[w], {})
      BY DEF XorBlock, Zero
    <3> QED
      BY <3>1, XorFacts
  <2> QED
    BY <2>1, <2>2, SameBlock
<1>10. d[n] = SumP(c2, n) /\ d[n + 1] = SumQ(c2, n)
  <2>1. \A i \in 0..n-1 : p0[i] = c2[i]
    <3> SUFFICES ASSUME NEW i \in 0..n-1 PROVE p0[i] = c2[i]
      OBVIOUS
    <3>1. i \in 0..disks-1 /\ i # n /\ i # n + 1 /\ i \in 0..disks-3
      BY <1>1
    <3>2. CASE i = a \/ i = b
      BY <1>1, <1>3, <3>1, <3>2 DEF Buffers
    <3>3. CASE i # a /\ i # b
      <4>1. p0[i] = ptrs[i] /\ c2[i] = c[i]
        BY <1>3, <3>1, <3>3 DEF Buffers
      <4>2. ptrs[i] = c[i]
        BY <3>1, <3>3, <1>1, <1>3, WordIn DEF Fits
      <4> QED
        BY <4>1, <4>2
    <3> QED
      BY <3>2, <3>3
  <2> HIDE DEF p0, c2
  <2>2. SumP(p0, n) = SumP(c2, n) /\ SumQ(p0, n) = SumQ(c2, n)
    BY <1>1, <2>1, SumOnly
  <2> QED
    BY <1>1, <1>5, <2>2 DEF Encoded, Buffers
<1>11. ptrs[n] = SumP(c, n) /\ ptrs[n + 1] = SumQ(c, n)
  BY <1>1, <1>3, WordIn DEF Fits
<1>12. SumP(c, n) \in Block /\ SumQ(c, n) \in Block
  BY <1>1, <1>3, SumPQIn
<1> HIDE DEF p0, c1, c2
<1>13. XorBlock(ptrs[n], d[n]) = sum
  <2>1. SumP(c2, n) = XorBlock(XorBlock(SumP(c, n), c[a]), c[b])
    BY <1>3, <1>7, <1>8, <1>9
  <2>2. \A u, v, w : Xor(u, Xor(Xor(u, v), w)) = Xor(v, w)
    BY DEF Xor
  <2> QED
    BY <1>10, <1>11, <2>1, <2>2 DEF XorBlock
<1>14. XorBlock(ptrs[n + 1], d[n + 1]) = weighted
  <2>1. SumQ(c2, n) = XorBlock(XorBlock(SumQ(c, n), TimesBlock(a, c[a])), TimesBlock(b, c[b]))
    BY <1>3, <1>7, <1>8, <1>9
  <2>2. \A u, v, w : Xor(u, Xor(Xor(u, v), w)) = Xor(v, w)
    BY DEF Xor
  <2> QED
    BY <1>10, <1>11, <2>1, <2>2 DEF XorBlock
<1> DEFINE exi == raid6_gfexi[b - a]
           inv == raid6_gfinv[Xor(raid6_gfexp[a], raid6_gfexp[b])]
           db == [w \in 0..Words-1 |-> Xor(Mul(r.isa, exi, sum[w]), Mul(r.isa, inv, weighted[w]))]
<1>15. db = c[b]
  <2>1. ASSUME NEW w \in 0..Words-1 PROVE db[w] = c[b][w]
    <3> DEFINE x == c[a][w]
               y == c[b][w]
    <3>1. x \in Register /\ y \in Register
      BY <1>3 DEF Block
    <3>2. sum[w] = Xor(x, y) /\ weighted[w] = Xor(Times(a, x), Times(b, y))
      BY DEF XorBlock, TimesBlock
    <3> HIDE DEF x, y, sum, weighted
    <3>3. Xor(Mul(r.isa, exi, Xor(x, y)), Mul(r.isa, inv, Xor(Times(a, x), Times(b, y)))) = y
      BY <1>1, <1>2, <3>1, TwoRecovered
    <3> HIDE DEF exi, inv
    <3> QED
      BY <3>2, <3>3 DEF y
  <2>2. db = [w \in 0..Words-1 |-> c[b][w]]
    <3>1. db = [w \in 0..Words-1 |-> db[w]]
      OBVIOUS
    <3> HIDE DEF db
    <3> QED
      BY <2>1, <3>1
  <2> QED
    BY <1>3, <2>2 DEF Block
<1>16. XorBlock(c[b], sum) = c[a]
  <2>1. \A u, v : Xor(v, Xor(u, v)) = u
    BY DEF Xor
  <2>2. XorBlock(c[b], sum) = [w \in 0..Words-1 |-> c[a][w]]
    BY <2>1 DEF XorBlock
  <2> QED
    BY <1>3, <2>2 DEF Block
<1>17. data2_recov(name, call, disks, a, b, ptrs)
       = Data2Loop(r, a, b, ptrs, sum, weighted, d[n], d[n + 1])
  <2> HIDE DEF d, sum, weighted
  <2>1. disks - 2 = n /\ disks - 1 = n + 1
    BY <1>1
  <2> QED
    BY <2>1, <1>6, <1>13, <1>14 DEF data2_recov, Data2, p0, r
<1> HIDE DEF d, sum, weighted
<1>18. Data2Loop(r, a, b, ptrs, sum, weighted, d[n], d[n + 1])
       = [ptrs EXCEPT ![b] = Stored(r.n, db, d[n + 1]), ![a] = Stored(r.n, XorBlock(db, sum), d[n])]
  BY DEF Data2Loop
<1> HIDE DEF db
<1>19. Stored(r.n, db, d[n + 1]) = c[b] /\ Stored(r.n, XorBlock(db, sum), d[n]) = c[a]
  <2>1. \A done \in Block : \A left : Stored(r.n, done, left) = done
    BY <1>2, StoredAll
  <2> QED
    BY <1>3, <1>15, <1>16, <2>1
<1> QED
  BY <1>17, <1>18, <1>19 DEF Placed

(* A lost data column and P are what Q says they are.                       *)
LEMMA OneRebuilt ==
  ASSUME NEW name \in RecovNames, NEW call \in GenNames, NEW disks \in 4..MaxData+2,
         NEW a \in 0..disks-3, NEW ptrs \in Buffers(disks),
         NEW c \in Buffers(disks - 2), Fits(ptrs, c, disks, (0..disks-1) \ {a, disks - 2})
  PROVE  datap_recov(name, call, disks, a, ptrs)
         = Placed(Placed(ptrs, a, c[a]), disks - 2, Word(c, disks)[disks - 2])
<1> DEFINE n == disks - 2
           r == DataPOf(name)
           p0 == [ptrs EXCEPT ![a] = Zero, ![n + 1] = ptrs[a]]
           d == Encoded(p0, disks)
           c1 == [c EXCEPT ![a] = Zero]
           weighted == TimesBlock(a, c[a])
<1>1. /\ n \in Powers /\ n \in Nat /\ n <= n /\ n <= disks /\ n - 1 = disks - 3 /\ n + 1 = disks - 1 /\ n = disks - 2
      /\ n + 1 \in 0..disks-1 /\ n \in 0..disks-1 /\ a \in 0..n-1
      /\ a \in 0..disks-1 /\ a \in Powers /\ a \in Numbers
      /\ disks \in 3..MaxData+2 /\ disks > 3 /\ n + 1 # n /\ a # n
  BY DEF Powers, Numbers, MaxData
<1>2. r.isa \in Multipliers /\ r.n \in Unrollings /\ CallFor(name, call) \in GenNames
  BY RecovRoutines
<1> HIDE DEF r, n
<1>3. c \in Buffers(n) /\ c[a] \in Block
  BY <1>1 DEF Buffers
<1>4. ptrs[a] \in Block /\ Zero \in Block
  BY <1>1, XorBlockIn DEF Buffers
<1>5. p0 \in Buffers(disks)
  BY <1>4 DEF Buffers
<1>6. gen_syndrome(CallFor(name, call), disks, p0) = d
  <2>1. CanLoadAhead(disks)
    BY <1>1 DEF CanLoadAhead
  <2> HIDE DEF p0
  <2> QED
    BY <1>1, <1>2, <1>5, <2>1, GenEncodes
<1>7. /\ c1 \in Buffers(n)
      /\ SumP(c1, n) = XorBlock(SumP(c, n), XorBlock(c[a], Zero))
      /\ SumQ(c1, n) = XorBlock(SumQ(c, n), TimesBlock(a, XorBlock(c[a], Zero)))
  BY <1>1, <1>3, <1>4, SumMoves
<1>8. XorBlock(c[a], Zero) = c[a]
  <2>1. XorBlock(c[a], Zero) = [w \in 0..Words-1 |-> c[a][w]]
    BY XorFacts DEF XorBlock, Zero
  <2> QED
    BY <1>3, <2>1 DEF Block
<1>9. d[n] = SumP(c1, n) /\ d[n + 1] = SumQ(c1, n)
  <2>1. \A i \in 0..n-1 : p0[i] = c1[i]
    <3> SUFFICES ASSUME NEW i \in 0..n-1 PROVE p0[i] = c1[i]
      OBVIOUS
    <3>1. i \in 0..disks-1 /\ i # n /\ i # n + 1 /\ i \in 0..disks-3
      BY <1>1
    <3>2. CASE i = a
      BY <1>1, <1>3, <3>1, <3>2 DEF Buffers
    <3>3. CASE i # a
      <4>1. p0[i] = ptrs[i] /\ c1[i] = c[i]
        BY <1>3, <3>1, <3>3 DEF Buffers
      <4>2. ptrs[i] = c[i]
        BY <3>1, <3>3, <1>1, <1>3, WordIn DEF Fits
      <4> QED
        BY <4>1, <4>2
    <3> QED
      BY <3>2, <3>3
  <2> HIDE DEF p0, c1
  <2>2. SumP(p0, n) = SumP(c1, n) /\ SumQ(p0, n) = SumQ(c1, n)
    BY <1>1, <2>1, SumOnly
  <2> QED
    BY <1>1, <1>5, <2>2 DEF Encoded, Buffers
<1>10. ptrs[n + 1] = SumQ(c, n) /\ Word(c, disks)[n] = SumP(c, n)
  BY <1>1, <1>3, WordIn DEF Fits
<1>11. SumP(c, n) \in Block /\ SumQ(c, n) \in Block
  BY <1>1, <1>3, SumPQIn
<1> HIDE DEF p0, c1
<1>12. XorBlock(ptrs[n + 1], d[n + 1]) = weighted
  <2>1. SumQ(c1, n) = XorBlock(SumQ(c, n), TimesBlock(a, c[a]))
    BY <1>7, <1>8
  <2>2. \A u, v : Xor(u, Xor(u, v)) = v
    BY DEF Xor
  <2>3. XorBlock(SumQ(c, n), XorBlock(SumQ(c, n), weighted)) = [w \in 0..Words-1 |-> weighted[w]]
    BY <2>2 DEF XorBlock
  <2>4. weighted = [w \in 0..Words-1 |-> weighted[w]]
    BY DEF TimesBlock
  <2> QED
    BY <1>9, <1>10, <2>1, <2>3, <2>4
<1> DEFINE inv == raid6_gfinv[raid6_gfexp[a]]
           dq == [w \in 0..Words-1 |-> Mul(r.isa, inv, weighted[w])]
<1>13. dq = c[a]
  <2>1. ASSUME NEW w \in 0..Words-1 PROVE dq[w] = c[a][w]
    <3> DEFINE x == c[a][w]
    <3>1. x \in Register
      BY <1>3 DEF Block
    <3>2. weighted[w] = Times(a, x)
      BY DEF TimesBlock
    <3> HIDE DEF x, weighted
    <3>3. Mul(r.isa, inv, Times(a, x)) = x
      BY <1>1, <1>2, <3>1, OneRecovered
    <3> HIDE DEF inv
    <3> QED
      BY <3>2, <3>3 DEF x
  <2>2. dq = [w \in 0..Words-1 |-> c[a][w]]
    <3>1. dq = [w \in 0..Words-1 |-> dq[w]]
      OBVIOUS
    <3> HIDE DEF dq
    <3> QED
      BY <2>1, <3>1
  <2> QED
    BY <1>3, <2>2 DEF Block
<1>14. XorBlock(d[n], c[a]) = SumP(c, n)
  <2>1. d[n] = XorBlock(SumP(c, n), c[a])
    BY <1>7, <1>8, <1>9
  <2>2. \A u, v : Xor(Xor(u, v), v) = u
    BY DEF Xor
  <2>3. XorBlock(XorBlock(SumP(c, n), c[a]), c[a]) = [w \in 0..Words-1 |-> SumP(c, n)[w]]
    BY <2>2 DEF XorBlock
  <2> QED
    BY <1>11, <2>1, <2>3 DEF Block
<1>15. datap_recov(name, call, disks, a, ptrs) = DataPLoop(r, a, n, ptrs, weighted, d[n], d[n + 1])
  <2> HIDE DEF d, weighted
  <2>1. disks - 2 = n /\ disks - 1 = n + 1
    BY <1>1
  <2> QED
    BY <2>1, <1>6, <1>12 DEF datap_recov, DataP, p0, r
<1> HIDE DEF d, weighted
<1>16. DataPLoop(r, a, n, ptrs, weighted, d[n], d[n + 1])
       = [ptrs EXCEPT ![a] = Stored(r.n, dq, d[n + 1]), ![n] = Stored(r.n, XorBlock(d[n], dq), d[n])]
  BY DEF DataPLoop
<1> HIDE DEF dq
<1>17. Stored(r.n, dq, d[n + 1]) = c[a] /\ Stored(r.n, XorBlock(d[n], dq), d[n]) = SumP(c, n)
  <2>1. \A done \in Block : \A left : Stored(r.n, done, left) = done
    BY <1>2, StoredAll
  <2> QED
    BY <1>3, <1>11, <1>13, <1>14, <2>1
<1> QED
  BY <1>1, <1>10, <1>15, <1>16, <1>17 DEF Placed

-----------------------------------------------------------------------------
(* xor_blocks(), and the columns that are collected for it.                 *)
LEMMA SumLast ==
  ASSUME NEW n \in Nat, NEW f \in [0..n -> Register], NEW g \in [0..n-1 -> Register],
         \A k \in 0..n-1 : f[k] = g[k]
  PROVE  SumOf(f, n + 1) = Xor(SumOf(g, n), f[n])
<1> DEFINE m == n + 1
<1>1. m \in Nat /\ f \in [0..m-1 -> Register] /\ m - 1 = n /\ m \in 1..m
  OBVIOUS
<1>2. PICK s : IsSum(s, f, m) /\ SumOf(f, m) = s[m]
  <2> HIDE DEF m
  <2> QED
    BY <1>1, SumIs
<1>3. PICK t : IsSum(t, g, n) /\ SumOf(g, n) = t[n]
  BY SumIs
<1>4. IsSum([k \in 0..n |-> s[k]], f, n)
  <2>1. [k \in 0..n |-> s[k]] \in [0..n -> Register]
    BY <1>2 DEF IsSum
  <2>2. \A k \in 1..n : k \in 1..m /\ k - 1 \in 0..n /\ k \in 0..n
    OBVIOUS
  <2> QED
    BY <1>2, <2>1, <2>2 DEF IsSum
<1>5. \A k \in 0..n : [j \in 0..n |-> s[j]][k] = t[k]
  <2> DEFINE r == [k \in 0..n |-> s[k]]
  <2>1. \A k \in 1..n : f[k - 1] = g[k - 1]
    OBVIOUS
  <2>2. IsSum(r, f, n)
    BY <1>4
  <2> HIDE DEF r
  <2>3. \A k \in 0..n : r[k] = t[k]
    BY <1>3, <2>1, <2>2, SumSame
  <2> QED
    BY <2>3 DEF r
<1>6. s[n] = t[n]
  BY <1>5
<1>7. s[m] = Xor(s[m - 1], f[m - 1])
  BY <1>1, <1>2 DEF IsSum
<1> QED
  BY <1>1, <1>2, <1>3, <1>6, <1>7

Listed(srcs, p, w) == [k \in 0..Len(p)-1 |-> srcs[p[k + 1]][w]]

(* The registers of the columns listed in ptr[].                            *)
LEMMA ListedIn ==
  ASSUME NEW disks \in Nat, NEW srcs \in Buffers(disks), NEW p \in Seq(0..disks-1), NEW w \in 0..Words-1
  PROVE  Listed(srcs, p, w) \in [0..Len(p)-1 -> Register] /\ Len(p) \in Nat
<1>1. Len(p) \in Nat
  OBVIOUS
<1>2. ASSUME NEW k \in 0..Len(p)-1 PROVE srcs[p[k + 1]][w] \in Register
  <2>1. p[k + 1] \in 0..disks-1
    OBVIOUS
  <2>2. srcs[p[k + 1]] \in Block
    BY <2>1 DEF Buffers
  <2> QED
    BY <2>2 DEF Block
<1> QED
  BY <1>1, <1>2 DEF Listed

(* xor_blocks() adds the sum of its sources to what it is given.            *)
LEMMA XorBlocksIs ==
  ASSUME NEW disks \in Nat, NEW srcs \in Buffers(disks), NEW p \in Seq(0..disks-1), NEW dest \in Block
  PROVE  xor_blocks(dest, srcs, p) = [w \in 0..Words-1 |-> Xor(dest[w], SumOf(Listed(srcs, p, w), Len(p)))]
<1> DEFINE Rec(h, w) == h = [k \in 0..Len(p) |-> IF k = 0 THEN dest[w] ELSE Xor(h[k - 1], srcs[p[k]][w])]
           sum(w) == CHOOSE h : Rec(h, w)
<1>1. xor_blocks(dest, srcs, p) = [w \in 0..Words-1 |-> sum(w)[Len(p)]]
  BY DEF xor_blocks
<1>2. ASSUME NEW w \in 0..Words-1 PROVE sum(w)[Len(p)] = Xor(dest[w], SumOf(Listed(srcs, p, w), Len(p)))
  <2> DEFINE n == Len(p)
             f == Listed(srcs, p, w)
  <2>1. n \in Nat /\ f \in [0..n-1 -> Register]
    BY ListedIn
  <2>2. \A k \in 1..n : f[k - 1] = srcs[p[k]][w]
    BY <2>1 DEF Listed
  <2>3. PICK s : IsSum(s, f, n) /\ SumOf(f, n) = s[n]
    <3> HIDE DEF n, f
    <3> QED
      BY <2>1, SumIs
  <2> DEFINE g == [k \in 0..n |-> Xor(dest[w], s[k])]
  <2>4. \A u, v, x : Xor(u, Xor(v, x)) = Xor(Xor(u, v), x)
    BY DEF Xor
  <2>5. Rec(g, w)
    <3>1. g[0] = dest[w]
      <4>1. s[0] = {} /\ 0 \in 0..n
        BY <2>1, <2>3 DEF IsSum
      <4>2. g[0] = Xor(dest[w], s[0])
        BY <4>1
      <4> QED
        BY <4>1, <4>2, XorFacts
    <3>2. ASSUME NEW k \in 1..n PROVE g[k] = Xor(g[k - 1], srcs[p[k]][w])
      <4>1. s[k] = Xor(s[k - 1], f[k - 1]) /\ k \in 0..n /\ k - 1 \in 0..n
        BY <2>1, <2>3 DEF IsSum
      <4> HIDE DEF n, f
      <4> QED
        BY <2>2, <2>4, <4>1
    <3>3. \A k \in 0..n : g[k] = IF k = 0 THEN dest[w] ELSE Xor(g[k - 1], srcs[p[k]][w])
      <4>1. \A k \in 0..n : k = 0 \/ k \in 1..n
        BY <2>1
      <4> HIDE DEF g, n
      <4> QED
        BY <3>1, <3>2, <4>1
    <3>4. g = [k \in 0..n |-> g[k]]
      OBVIOUS
    <3> HIDE DEF g
    <3> QED
      BY <3>3, <3>4
  <2> DEFINE h == sum(w)
  <2>6. Rec(h, w)
    BY <2>5
  <2> HIDE DEF h
  <2>7. h[0] = dest[w] /\ \A k \in 1..n : h[k] = Xor(h[k - 1], f[k - 1])
    <3>1. \A k \in 0..n : h[k] = IF k = 0 THEN dest[w] ELSE Xor(h[k - 1], srcs[p[k]][w])
      BY <2>6
    <3>2. 0 \in 0..n /\ \A k \in 1..n : k \in 0..n /\ k # 0
      BY <2>1
    <3> HIDE DEF n, f
    <3> QED
      BY <2>2, <3>1, <3>2
  <2> DEFINE Good == {k \in 0..n : h[k] = Xor(dest[w], s[k])}
  <2>8. 0 \in Good
    <3>1. h[0] = Xor(dest[w], s[0]) /\ 0 \in 0..n
      BY <2>1, <2>3, <2>7, XorFacts DEF IsSum
    <3> QED
      BY <3>1
  <2>9. ASSUME NEW k \in 1..n, k - 1 \in Good PROVE k \in Good
    <3>1. s[k] = Xor(s[k - 1], f[k - 1]) /\ k \in 0..n /\ h[k] = Xor(h[k - 1], f[k - 1])
          /\ h[k - 1] = Xor(dest[w], s[k - 1])
      BY <2>1, <2>3, <2>7, <2>9 DEF IsSum
    <3> HIDE DEF n, f
    <3> QED
      BY <2>4, <3>1
  <2>10. n \in Good
    <3> HIDE DEF Good, n
    <3>1. 0..n \subseteq Good
      BY <2>1, <2>8, <2>9, UpTo
    <3> QED
      BY <2>1, <3>1
  <2> QED
    BY <2>3, <2>10 DEF h
<1> HIDE DEF sum
<1> QED
  BY <1>1, <1>2

(* One source more adds that source.                                        *)
LEMMA XorBlocksAppend ==
  ASSUME NEW disks \in Nat, NEW srcs \in Buffers(disks), NEW p \in Seq(0..disks-1), NEW dest \in Block
  PROVE  /\ xor_blocks(dest, srcs, p) \in Block
         /\ xor_blocks(dest, srcs, <<>>) = dest
         /\ \A c \in 0..disks-1 : xor_blocks(dest, srcs, Append(p, c)) = XorBlock(xor_blocks(dest, srcs, p), srcs[c])
<1>1. xor_blocks(dest, srcs, p) \in Block
  <2>1. ASSUME NEW w \in 0..Words-1 PROVE Xor(dest[w], SumOf(Listed(srcs, p, w), Len(p))) \in Register
    <3> DEFINE n == Len(p)
               f == Listed(srcs, p, w)
    <3>1. n \in Nat /\ f \in [0..n-1 -> Register]
      BY ListedIn
    <3> HIDE DEF n, f
    <3>2. PICK s : IsSum(s, f, n) /\ SumOf(f, n) = s[n]
      BY <3>1, SumIs
    <3>3. SumOf(f, n) \in Register /\ dest[w] \in Register
      BY <3>1, <3>2 DEF IsSum, Block
    <3> QED
      BY <3>3, XorRegister DEF n, f
  <2>2. xor_blocks(dest, srcs, p) = [w \in 0..Words-1 |-> Xor(dest[w], SumOf(Listed(srcs, p, w), Len(p)))]
    BY XorBlocksIs
  <2> QED
    BY <2>1, <2>2 DEF Block
<1>2. xor_blocks(dest, srcs, <<>>) = dest
  <2>1. <<>> \in Seq(0..disks-1) /\ Len(<<>>) = 0
    OBVIOUS
  <2>2. ASSUME NEW w \in 0..Words-1 PROVE Xor(dest[w], SumOf(Listed(srcs, <<>>, w), 0)) = dest[w]
    <3> DEFINE f == Listed(srcs, <<>>, w)
    <3>1. f \in [0..0-1 -> Register]
      BY <2>1 DEF Listed
    <3> HIDE DEF f
    <3>2. PICK s : IsSum(s, f, 0) /\ SumOf(f, 0) = s[0]
      BY <3>1, SumIs
    <3> QED
      BY <3>2, XorFacts DEF IsSum, f
  <2>3. xor_blocks(dest, srcs, <<>>) = [w \in 0..Words-1 |-> dest[w]]
    <3>1. xor_blocks(dest, srcs, <<>>) = [w \in 0..Words-1 |-> Xor(dest[w], SumOf(Listed(srcs, <<>>, w), Len(<<>>)))]
      BY <2>1, XorBlocksIs
    <3> QED
      BY <2>1, <2>2, <3>1
  <2> QED
    BY <2>3 DEF Block
<1>3. ASSUME NEW c \in 0..disks-1
      PROVE  xor_blocks(dest, srcs, Append(p, c)) = XorBlock(xor_blocks(dest, srcs, p), srcs[c])
  <2> DEFINE q == Append(p, c)
             n == Len(p)
  <2>1. q \in Seq(0..disks-1) /\ Len(q) = n + 1 /\ n \in Nat /\ q[n + 1] = c /\ \A k \in 1..n : q[k] = p[k]
    OBVIOUS
  <2>2. ASSUME NEW w \in 0..Words-1
        PROVE  SumOf(Listed(srcs, q, w), Len(q)) = Xor(SumOf(Listed(srcs, p, w), n), srcs[c][w])
    <3> DEFINE f == Listed(srcs, q, w)
               g == Listed(srcs, p, w)
    <3>1. g \in [0..n-1 -> Register]
      BY ListedIn
    <3>2. f \in [0..n -> Register]
      <4> HIDE DEF q
      <4>1. f \in [0..Len(q)-1 -> Register]
        BY <2>1, ListedIn
      <4> QED
        BY <2>1, <4>1
    <3>3. (\A k \in 0..n-1 : f[k] = g[k]) /\ f[n] = srcs[c][w]
      <4>1. \A k \in 0..n-1 : k \in 0..Len(q)-1 /\ k + 1 \in 1..n
        BY <2>1
      <4>2. n \in 0..Len(q)-1
        BY <2>1
      <4> HIDE DEF q
      <4> QED
        BY <2>1, <4>1, <4>2 DEF Listed
    <3> HIDE DEF f, g, n, q
    <3>4. SumOf(f, n + 1) = Xor(SumOf(g, n), f[n])
      BY <2>1, <3>1, <3>2, <3>3, SumLast
    <3> QED
      BY <2>1, <3>3, <3>4 DEF f, g
  <2>3. \A u, v, x : Xor(u, Xor(v, x)) = Xor(Xor(u, v), x)
    BY DEF Xor
  <2> HIDE DEF q
  <2>4. xor_blocks(dest, srcs, q) = [w \in 0..Words-1 |-> Xor(dest[w], SumOf(Listed(srcs, q, w), Len(q)))]
    BY <2>1, XorBlocksIs
  <2>5. xor_blocks(dest, srcs, p) = [w \in 0..Words-1 |-> Xor(dest[w], SumOf(Listed(srcs, p, w), n))]
    BY <2>1, XorBlocksIs
  <2>6. xor_blocks(dest, srcs, q) = XorBlock(xor_blocks(dest, srcs, p), srcs[c])
    BY <2>2, <2>3, <2>4, <2>5 DEF XorBlock
  <2> QED
    BY <2>6 DEF q
<1> QED
  BY <1>1, <1>2, <1>3

(* The sum of the columns in cols.                                          *)
Picked(srcs, cols, w, disks) == [i \in 0..disks-1 |-> IF i \in cols THEN srcs[i][w] ELSE {}]
SumSet(srcs, cols, disks) == [w \in 0..Words-1 |-> SumOf(Picked(srcs, cols, w, disks), disks)]

(* The registers of the columns of a set, nothing for the others.           *)
LEMMA PickedIn ==
  ASSUME NEW disks \in Nat, NEW srcs \in Buffers(disks), NEW cols, NEW w \in 0..Words-1
  PROVE  Picked(srcs, cols, w, disks) \in [0..disks-1 -> Register]
<1>1. ASSUME NEW i \in 0..disks-1 PROVE srcs[i][w] \in Register /\ {} \in Register
  BY DEF Buffers, Block, Register
<1> QED
  BY <1>1 DEF Picked

(* Their sum is a block.                                                    *)
LEMMA SumSetIn ==
  ASSUME NEW disks \in Nat, NEW srcs \in Buffers(disks), NEW cols
  PROVE  SumSet(srcs, cols, disks) \in Block
<1>1. ASSUME NEW w \in 0..Words-1 PROVE SumOf(Picked(srcs, cols, w, disks), disks) \in Register
  <2> DEFINE f == Picked(srcs, cols, w, disks)
  <2>1. f \in [0..disks-1 -> Register]
    BY PickedIn
  <2> HIDE DEF f
  <2>2. PICK s : IsSum(s, f, disks) /\ SumOf(f, disks) = s[disks]
    BY <2>1, SumIs
  <2> QED
    BY <2>2 DEF IsSum, f
<1> QED
  BY <1>1 DEF SumSet, Block

(* A column more in the set adds that column.                               *)
LEMMA SumSetAdds ==
  ASSUME NEW disks \in Nat, NEW srcs \in Buffers(disks), NEW cols, NEW c \in (0..disks-1) \ cols
  PROVE  SumSet(srcs, cols \cup {c}, disks) = XorBlock(SumSet(srcs, cols, disks), srcs[c])
<1>1. ASSUME NEW w \in 0..Words-1
      PROVE  SumOf(Picked(srcs, cols \cup {c}, w, disks), disks)
             = Xor(SumOf(Picked(srcs, cols, w, disks), disks), srcs[c][w])
  <2> DEFINE f == Picked(srcs, cols, w, disks)
             x == srcs[c][w]
  <2>1. f \in [0..disks-1 -> Register] /\ f[c] = {}
    <3>1. f[c] = {}
      BY DEF Picked
    <3> QED
      BY <3>1, PickedIn
  <2>2. x \in Register
    BY DEF Buffers, Block
  <2>3. Picked(srcs, cols \cup {c}, w, disks) = [f EXCEPT ![c] = x]
    BY DEF Picked
  <2> HIDE DEF f, x
  <2>4. SumOf([f EXCEPT ![c] = x], disks) = Xor(SumOf(f, disks), Xor(f[c], x))
    BY <2>1, <2>2, SumChanges
  <2>5. Xor(f[c], x) = x
    BY <2>1, XorFacts
  <2> QED
    BY <2>3, <2>4, <2>5 DEF f, x
<1> QED
  BY <1>1 DEF SumSet, XorBlock

(* The sum of no columns.                                                   *)
LEMMA SumSetNone ==
  ASSUME NEW disks \in Nat, NEW srcs \in Buffers(disks)
  PROVE  SumSet(srcs, {}, disks) = Zero
<1>1. ASSUME NEW w \in 0..Words-1 PROVE SumOf(Picked(srcs, {}, w, disks), disks) = {}
  <2> DEFINE f == Picked(srcs, {}, w, disks)
  <2>1. f \in [0..disks-1 -> Register] /\ \A i \in 0..disks-1 : f[i] = {}
    <3>1. \A i \in 0..disks-1 : f[i] = {}
      BY DEF Picked
    <3> QED
      BY <3>1, PickedIn
  <2> HIDE DEF f
  <2>2. PICK s : IsSum(s, f, disks) /\ SumOf(f, disks) = s[disks]
    BY <2>1, SumIs
  <2> DEFINE Good == {k \in 0..disks : s[k] = {}}
  <2>3. 0 \in Good
    BY <2>2 DEF IsSum
  <2>4. ASSUME NEW k \in 1..disks, k - 1 \in Good PROVE k \in Good
    <3>1. k - 1 \in 0..disks-1 /\ k \in 0..disks
      OBVIOUS
    <3>2. s[k] = Xor(s[k - 1], f[k - 1]) /\ s[k - 1] = {} /\ f[k - 1] = {}
      BY <2>1, <2>2, <2>4, <3>1 DEF IsSum
    <3> QED
      BY <3>1, <3>2, XorFacts
  <2>5. disks \in Good
    <3> HIDE DEF Good
    <3>1. 0..disks \subseteq Good
      BY <2>3, <2>4, UpTo
    <3> QED
      BY <3>1
  <2> QED
    BY <2>2, <2>5 DEF f
<1> QED
  BY <1>1 DEF SumSet, Zero

(* The sum of all data columns is P.                                        *)
LEMMA SumSetData ==
  ASSUME NEW disks \in Nat \ {0, 1}, NEW srcs \in Buffers(disks)
  PROVE  SumSet(srcs, 0..disks-3, disks) = SumP(srcs, disks - 2)
<1> DEFINE n == disks - 2
<1>1. n \in Nat /\ n + 1 \in Nat /\ (n + 1) + 1 = disks /\ n - 1 = disks - 3 /\ n <= disks
  OBVIOUS
<1>2. ASSUME NEW w \in 0..Words-1
      PROVE  SumOf(Picked(srcs, 0..disks-3, w, disks), disks) = SumOf(Col(srcs, n, w), n)
  <2> DEFINE f == Picked(srcs, 0..disks-3, w, disks)
             g == [i \in 0..n |-> f[i]]
             h == Col(srcs, n, w)
  <2>1. f \in [0..disks-1 -> Register] /\ f[n] = {} /\ f[n + 1] = {} /\ \A i \in 0..n-1 : f[i] = srcs[i][w]
    <3>1. f[n] = {} /\ f[n + 1] = {} /\ \A i \in 0..n-1 : f[i] = srcs[i][w]
      BY DEF Picked
    <3> QED
      BY <3>1, PickedIn
  <2>2. h \in [0..n-1 -> Register] /\ \A i \in 0..n-1 : h[i] = srcs[i][w]
    <3>1. \A i \in 0..n-1 : h[i] = srcs[i][w]
      BY DEF Col
    <3> HIDE DEF n
    <3> QED
      BY <1>1, <3>1, ColIn
  <2> HIDE DEF f, h
  <2>3. f \in [0..n+1 -> Register] /\ g \in [0..n -> Register]
    BY <1>1, <2>1
  <2>4. (\A i \in 0..(n+1)-1 : f[i] = g[i]) /\ (\A i \in 0..n-1 : g[i] = h[i]) /\ g[n] = {}
    BY <1>1, <2>1, <2>2
  <2> HIDE DEF g, n
  <2>5. SumOf(f, (n + 1) + 1) = Xor(SumOf(g, n + 1), f[n + 1])
    <3> DEFINE m == n + 1
    <3>1. m \in Nat /\ f \in [0..m -> Register] /\ g \in [0..m-1 -> Register] /\ \A i \in 0..m-1 : f[i] = g[i]
      <4>1. m - 1 = n /\ m = n + 1 /\ m \in Nat
        BY <1>1
      <4> HIDE DEF m
      <4> QED
        BY <2>3, <2>4, <4>1
    <3> HIDE DEF m
    <3>2. SumOf(f, m + 1) = Xor(SumOf(g, m), f[m])
      BY <3>1, SumLast
    <3> QED
      BY <3>2 DEF m
  <2>6. SumOf(g, n + 1) = Xor(SumOf(h, n), g[n])
    BY <1>1, <2>2, <2>3, <2>4, SumLast
  <2> QED
    BY <1>1, <2>1, <2>4, <2>5, <2>6, XorFacts DEF f, h
<1> QED
  BY <1>2 DEF SumSet, SumP

(* XorColumns() adds the columns, however many of them ptr[] holds.         *)
LEMMA ColumnsAdded ==
  ASSUME N \in Nat, NEW srcs \in Buffers(N), NEW cols, NEW dest \in Block
  PROVE  XorColumns(dest, srcs, cols) = XorBlock(dest, SumSet(srcs, cols, N))
<1> DEFINE V == [dest : Block, ptr : Seq(0..N-1)]
           base == [dest |-> dest, ptr |-> <<>>]
           Step(i, was) == Collected(was, srcs, IF i - 1 \in cols THEN Append(was.ptr, i - 1) ELSE was.ptr)
           step == [p \in (1..N) \X V |-> Step(p[1], p[2])]
           Rec(h) == h = [i \in 0..N |->
                            IF i = 0 THEN [dest |-> dest, ptr |-> <<>>]
                            ELSE Collected(h[i - 1], srcs,
                                   IF i - 1 \in cols THEN Append(h[i - 1].ptr, i - 1) ELSE h[i - 1].ptr)]
           Total(was) == xor_blocks(was.dest, srcs, was.ptr)
           f(w) == Picked(srcs, cols, w, N)
<1> HIDE DEF N
<1>1. base \in V
  OBVIOUS
<1>2. ASSUME NEW i \in 1..N, NEW was \in V
      PROVE  /\ Step(i, was) \in V
             /\ Total(Step(i, was)) = IF i - 1 \in cols THEN XorBlock(Total(was), srcs[i - 1]) ELSE Total(was)
  <2> DEFINE q == IF i - 1 \in cols THEN Append(was.ptr, i - 1) ELSE was.ptr
  <2>1. i - 1 \in 0..N-1 /\ was.dest \in Block /\ was.ptr \in Seq(0..N-1)
    OBVIOUS
  <2>2. q \in Seq(0..N-1)
    <3>1. Append(was.ptr, i - 1) \in Seq(0..N-1)
      BY <2>1
    <3> QED
      BY <2>1, <3>1
  <2>3. /\ xor_blocks(was.dest, srcs, q) \in Block
        /\ xor_blocks(was.dest, srcs, q) = IF i - 1 \in cols THEN XorBlock(Total(was), srcs[i - 1]) ELSE Total(was)
    <3>1. xor_blocks(was.dest, srcs, q) \in Block
      <4> HIDE DEF q
      <4> QED
        BY <2>1, <2>2, XorBlocksAppend
    <3>2. xor_blocks(was.dest, srcs, Append(was.ptr, i - 1)) = XorBlock(Total(was), srcs[i - 1])
      BY <2>1, XorBlocksAppend
    <3> QED
      BY <3>1, <3>2
  <2> HIDE DEF q
  <2>4. Step(i, was) = Collected(was, srcs, q)
    BY DEF q
  <2>5. Step(i, was) = IF Len(q) = MaxXorBlocks THEN [dest |-> xor_blocks(was.dest, srcs, q), ptr |-> <<>>]
                       ELSE [dest |-> was.dest, ptr |-> q]
    BY <2>4 DEF Collected
  <2> HIDE DEF Step
  <2>6. CASE Len(q) = MaxXorBlocks
    <3> DEFINE sum == xor_blocks(was.dest, srcs, q)
    <3>1. Step(i, was) = [dest |-> sum, ptr |-> <<>>] /\ sum \in Block /\ <<>> \in Seq(0..N-1)
      BY <2>3, <2>5, <2>6
    <3> HIDE DEF sum
    <3>2. xor_blocks(sum, srcs, <<>>) = sum
      BY <3>1, XorBlocksAppend
    <3> QED
      BY <2>3, <3>1, <3>2 DEF sum
  <2>7. CASE Len(q) # MaxXorBlocks
    <3>1. Step(i, was) = [dest |-> was.dest, ptr |-> q]
      BY <2>5, <2>7
    <3> QED
      BY <2>1, <2>2, <2>3, <3>1
  <2> QED
    BY <2>6, <2>7
<1>3. PICK g : Recurs(g, N, V, base, step)
  <2>1. step \in [(1..N) \X V -> V]
    <3> HIDE DEF Step, V
    <3> QED
      BY <1>2
  <2> HIDE DEF step, V, base
  <2> QED
    BY <1>1, <2>1, Recursion
<1>4. g \in [0..N -> V] /\ g[0] = base
  BY <1>3 DEF Recurs
<1>5. ASSUME NEW i \in 1..N PROVE g[i] = Step(i, g[i - 1])
  <2>1. i - 1 \in 0..N
    OBVIOUS
  <2>2. g[i - 1] \in V
    BY <1>4, <2>1
  <2>3. g[i] = step[<<i, g[i - 1]>>]
    <3> HIDE DEF step
    <3> QED
      BY <1>3 DEF Recurs
  <2> HIDE DEF Step, V
  <2> QED
    BY <2>2, <2>3
<1>6. Rec(g)
  <2>1. \A i \in 0..N : g[i] = IF i = 0 THEN base ELSE Step(i, g[i - 1])
    <3>1. \A i \in 0..N : i = 0 \/ i \in 1..N
      OBVIOUS
    <3> HIDE DEF base, Step
    <3> QED
      BY <1>4, <1>5, <3>1
  <2>2. g = [i \in 0..N |-> IF i = 0 THEN base ELSE Step(i, g[i - 1])]
    <3> HIDE DEF base, Step, V
    <3> QED
      BY <1>4, <2>1
  <2> QED
    BY <2>2
<1> DEFINE h == CHOOSE h : Rec(h)
<1>7. Rec(h)
  BY <1>6
<1>8. XorColumns(dest, srcs, cols) = Total(h[N])
  BY DEF XorColumns
<1> HIDE DEF h
<1>9. h[0] = base /\ \A i \in 1..N : h[i] = Step(i, h[i - 1])
  <2>1. \A i \in 0..N : h[i] = IF i = 0 THEN base ELSE Step(i, h[i - 1])
    BY <1>7
  <2>2. 0 \in 0..N /\ \A i \in 1..N : i \in 0..N /\ i # 0
    OBVIOUS
  <2> HIDE DEF base, Step
  <2> QED
    BY <2>1, <2>2
<1> DEFINE Ok(i) == /\ h[i] \in V
                    /\ \A w \in 0..Words-1 : \A s : IsSum(s, f(w), N) => Total(h[i])[w] = Xor(dest[w], s[i])
           Good == {i \in 0..N : Ok(i)}
<1>10. 0 \in Good
  <2>1. Total(base) = dest
    BY XorBlocksAppend, <1>1
  <2>2. \A w \in 0..Words-1 : \A s : IsSum(s, f(w), N) => dest[w] = Xor(dest[w], s[0])
    BY XorFacts DEF IsSum
  <2> HIDE DEF base, f, Total, V
  <2> QED
    BY <1>1, <1>9, <2>1, <2>2
<1>11. ASSUME NEW i \in 1..N, i - 1 \in Good PROVE i \in Good
  <2>1. h[i] = Step(i, h[i - 1]) /\ h[i - 1] \in V /\ i - 1 \in 0..N-1 /\ i \in 0..N
    BY <1>9, <1>11
  <2> HIDE DEF Step, V, Total
  <2>2. h[i] \in V
    BY <1>2, <2>1
  <2>3. Total(h[i]) = IF i - 1 \in cols THEN XorBlock(Total(h[i - 1]), srcs[i - 1]) ELSE Total(h[i - 1])
    BY <1>2, <2>1
  <2>4. ASSUME NEW w \in 0..Words-1, NEW s, IsSum(s, f(w), N) PROVE Total(h[i])[w] = Xor(dest[w], s[i])
    <3>1. s[i] = Xor(s[i - 1], f(w)[i - 1])
      <4> HIDE DEF f
      <4> QED
        BY <2>4 DEF IsSum
    <3>2. f(w)[i - 1] = IF i - 1 \in cols THEN srcs[i - 1][w] ELSE {}
      BY <2>1 DEF Picked
    <3>3. Total(h[i - 1])[w] = Xor(dest[w], s[i - 1])
      <4> HIDE DEF f
      <4> QED
        BY <1>11, <2>4
    <3>4. Total(h[i])[w] = IF i - 1 \in cols THEN Xor(Total(h[i - 1])[w], srcs[i - 1][w]) ELSE Total(h[i - 1])[w]
      BY <2>3 DEF XorBlock
    <3> HIDE DEF f
    <3> QED
      BY <3>1, <3>2, <3>3, <3>4, XorFacts
  <2> HIDE DEF f
  <2> QED
    BY <2>1, <2>2, <2>4
<1>12. Ok(N)
  <2> HIDE DEF Ok
  <2>1. 0..N \subseteq Good
    <3> HIDE DEF Good
    <3> QED
      BY <1>10, <1>11, UpTo
  <2> QED
    BY <2>1
<1>13. ASSUME NEW w \in 0..Words-1 PROVE Total(h[N])[w] = XorBlock(dest, SumSet(srcs, cols, N))[w]
  <2> DEFINE p == f(w)
  <2>1. p \in [0..N-1 -> Register]
    BY PickedIn
  <2> HIDE DEF p
  <2>2. PICK s : IsSum(s, p, N) /\ SumOf(p, N) = s[N]
    BY <2>1, SumIs
  <2>3. Total(h[N])[w] = Xor(dest[w], s[N])
    <3> HIDE DEF Total, V, f
    <3> QED
      BY <1>12, <2>2 DEF p
  <2>4. SumSet(srcs, cols, N)[w] = s[N]
    BY <2>2 DEF SumSet, p
  <2> QED
    BY <2>3, <2>4 DEF XorBlock
<1>14. Total(h[N]) \in Block
  <2>1. h[N].dest \in Block /\ h[N].ptr \in Seq(0..N-1)
    BY <1>12
  <2> QED
    BY <2>1, XorBlocksAppend
<1>15. XorBlock(dest, SumSet(srcs, cols, N)) \in Block
  BY SumSetIn, XorBlockIn
<1> HIDE DEF Total
<1> QED
  BY <1>8, <1>13, <1>14, <1>15, SameBlock

-----------------------------------------------------------------------------
(* The operations of handle_stripe() on the buffers of a stripe whose data  *)
(* is c.                                                                    *)
Handles == [srcs : Buffers(N), locked : SUBSET (0..N-1), error : SUBSET (0..N-1)]

Rows == Named /\ N \in 3..MaxData+2

(* What an operation puts in the buffers of a stripe.                       *)
PutDone(sh, cols, srcs) ==
  LET r == Put(sh, cols, srcs)
  IN  r \in Handles /\ r.srcs = srcs /\ r.locked = sh.locked \cup cols /\ r.error = sh.error

LEMMA PutIs ==
  ASSUME NEW sh \in Handles, NEW cols \in SUBSET (0..N-1), NEW srcs \in Buffers(N)
  PROVE  LET r == Put(sh, cols, srcs)
         IN  r \in Handles /\ r.srcs = srcs /\ r.locked = sh.locked \cup cols /\ r.error = sh.error
<1> DEFINE r == Put(sh, cols, srcs)
<1>1. sh.locked \in SUBSET (0..N-1) /\ sh.error \in SUBSET (0..N-1)
  BY DEF Handles
<1>2. sh.locked \cup cols \in SUBSET (0..N-1)
  BY <1>1
<1>3. r.srcs = srcs /\ r.locked = sh.locked \cup cols /\ r.error = sh.error
  BY DEF Put, Handles
<1>4. r \in Handles
  BY <1>2 DEF Put, Handles
<1> QED
  BY <1>3, <1>4

(* The same, named for a leaf where only its name is wanted.               *)
LEMMA PutPlaces ==
  ASSUME NEW sh \in Handles, NEW cols \in SUBSET (0..N-1), NEW srcs \in Buffers(N)
  PROVE  PutDone(sh, cols, srcs)
  BY PutIs DEF PutDone

(* With one data disk both parities are copies of it.                       *)
LEMMA OneColumn ==
  ASSUME NEW n, n = 1, NEW c \in Buffers(n)
  PROVE  SumP(c, n) = c[0] /\ SumQ(c, n) = c[0]
<1>1. c[0] \in Block /\ n \in Powers /\ 0 \in Powers /\ n \in Nat /\ n <= n /\ 0 \in 0..n-1 /\ n \in 1..n /\ n - 1 = 0
  BY DEF Buffers, Powers, MaxData
<1>2. ASSUME NEW f \in [0..n-1 -> Register], NEW x, f[0] = x PROVE SumOf(f, n) = x
  <2>1. PICK s : IsSum(s, f, n) /\ SumOf(f, n) = s[n]
    BY <1>1, SumIs
  <2>2. s[n] = Xor(s[n - 1], f[n - 1]) /\ s[0] = {}
    BY <1>1, <2>1 DEF IsSum
  <2> QED
    BY <1>1, <1>2, <2>1, <2>2, XorFacts
<1>3. ASSUME NEW w \in 0..Words-1
      PROVE  SumOf(Col(c, n, w), n) = c[0][w] /\ SumOf(Weighted(Col(c, n, w), n), n) = c[0][w]
  <2> DEFINE f == Col(c, n, w)
             g == Weighted(f, n)
  <2>1. f \in [0..n-1 -> Register]
    BY <1>1, ColIn
  <2>2. f[0] = c[0][w] /\ c[0][w] \in Register
    BY <1>1 DEF Col, Block
  <2>3. g[0] = Times(0, f[0])
    BY <1>1 DEF Weighted
  <2> HIDE DEF f
  <2>4. g \in [0..n-1 -> Register]
    BY <1>1, <2>1, WeightedIn
  <2> HIDE DEF g
  <2>5. g[0] = c[0][w]
    BY <2>2, <2>3, TimesOne
  <2>6. SumOf(f, n) = c[0][w] /\ SumOf(g, n) = c[0][w]
    BY <1>2, <2>1, <2>2, <2>4, <2>5
  <2> QED
    BY <2>6 DEF f, g
<1>4. c[0] = [w \in 0..Words-1 |-> c[0][w]]
  BY <1>1 DEF Block
<1>5. SumP(c, n) = [w \in 0..Words-1 |-> c[0][w]] /\ SumQ(c, n) = [w \in 0..Words-1 |-> c[0][w]]
  BY <1>3 DEF SumP, SumQ
<1> QED
  BY <1>4, <1>5

(* What the columns are, by their numbers.                                  *)
LEMMA Columns ==
  ASSUME N \in 3..MaxData+2
  PROVE  /\ N \in Nat /\ N - 2 \in Powers /\ N - 2 \in Nat /\ N - 2 >= 1
         /\ PD = N - 2 /\ QD = N - 1 /\ Data = 0..N-3 /\ PD # QD /\ PD \in 0..N-1 /\ QD \in 0..N-1
         /\ Data \subseteq 0..N-1 /\ PD \notin Data /\ QD \notin Data
         /\ 0..N-1 = Data \cup {PD, QD} /\ 0..PD = Data \cup {PD}
         /\ \A i \in Data : i \in Powers /\ i \in Nat
<1> HIDE DEF N
<1>1. N \in 3..30 /\ Powers = 0..28 /\ PD = N - 2 /\ QD = N - 1 /\ Data = 0..(N-2)-1 /\ (N - 2) - 1 = N - 3
  BY DEF Powers, MaxData, PD, QD, Data
<1>2. Data = 0..N-3
  BY <1>1
<1> QED
  BY <1>1, <1>2

(* The same, by the names the columns have in a stripe.                     *)
LEMMA WordIs ==
  ASSUME N \in 3..MaxData+2, NEW c \in Buffers(N - 2)
  PROVE  /\ Word(c, N) \in Buffers(N) /\ \A i \in Data : Word(c, N)[i] = c[i] /\ c[i] \in Block
         /\ Word(c, N)[PD] = SumP(c, N - 2) /\ Word(c, N)[QD] = SumQ(c, N - 2)
         /\ \A i \in 0..N-1 : Word(c, N)[i] \in Block
<1>1. /\ PD = N - 2 /\ QD = N - 1 /\ Data = 0..N-3 /\ (N - 2) - 1 = N - 3
  BY Columns
<1> HIDE DEF N
<1>2. /\ Word(c, N) \in Buffers(N)
      /\ \A i \in 0..N-3 : Word(c, N)[i] = c[i]
      /\ Word(c, N)[N - 2] = SumP(c, N - 2)
      /\ Word(c, N)[N - 1] = SumQ(c, N - 2)
  BY WordIn
<1>3. \A i \in 0..N-3 : c[i] \in Block
  BY <1>1 DEF Buffers
<1> QED
  BY <1>1, <1>2, <1>3 DEF Buffers

(* raid6_generate_pq() makes the parities of the data in the buffers.       *)
LEMMA PQGenerated ==
  ASSUME Rows, NEW sh \in Handles, NEW c \in Buffers(N - 2), Fits(sh.srcs, c, N, Data),
         NEW cols \in SUBSET {PD, QD}
  PROVE  LET r == raid6_generate_pq(sh, cols)
         IN  /\ r \in Handles /\ r.locked = sh.locked \cup cols /\ r.error = sh.error
             /\ Fits(r.srcs, c, N, Data \cup cols)
<1>1. /\ N \in 3..MaxData+2 /\ N \in Nat /\ PD = N - 2 /\ QD = N - 1 /\ PD \in 0..N-1 /\ QD \in 0..N-1 /\ PD # QD
      /\ Data \subseteq 0..N-1 /\ PD \notin Data /\ QD \notin Data /\ cols \in SUBSET (0..N-1) /\ Data = 0..N-3
  BY Columns DEF Rows
<1>2. sh.srcs \in Buffers(N)
  BY DEF Handles
<1>3. /\ Word(c, N) \in Buffers(N) /\ \A i \in Data : Word(c, N)[i] = c[i]
      /\ Word(c, N)[PD] = SumP(c, N - 2) /\ Word(c, N)[QD] = SumQ(c, N - 2)
  BY <1>1, WordIs
<1> DEFINE made == IF N = 3 THEN Copy(sh, 0, cols) ELSE gen_syndrome(algs.gen, N, sh.srcs)
<1>4. made \in Buffers(N) /\ Fits(made, c, N, Data \cup cols)
  <2> HIDE DEF N, PD, QD, Data
  <2>1. CASE N = 3
    <3>1. 0 \in Data /\ Data = {0}
      BY <1>1, <2>1
    <3>2. sh.srcs[0] = c[0]
      BY <1>3, <3>1 DEF Fits
    <3>3. Word(c, N)[PD] = c[0] /\ Word(c, N)[QD] = c[0]
      <4> DEFINE n == N - 2
      <4>1. n = 1 /\ c \in Buffers(n)
        BY <2>1
      <4> HIDE DEF n
      <4>2. SumP(c, n) = c[0] /\ SumQ(c, n) = c[0]
        BY <4>1, OneColumn
      <4> QED
        BY <1>3, <4>2 DEF n
    <3>4. DOMAIN sh.srcs = 0..N-1 /\ \A i \in 0..N-1 : sh.srcs[i] \in Block
      BY <1>2 DEF Buffers
    <3>5. made = [i \in 0..N-1 |-> IF i \in cols THEN sh.srcs[0] ELSE sh.srcs[i]]
      BY <2>1, <3>4 DEF Copy
    <3>6. made \in Buffers(N)
      <4>1. 0 \in 0..N-1
        BY <1>1
      <4> QED
        BY <3>4, <3>5, <4>1 DEF Buffers
    <3>7. ASSUME NEW i \in Data \cup cols PROVE made[i] = Word(c, N)[i]
      <4>1. i \in 0..N-1
        BY <1>1
      <4>2. CASE i \in cols
        BY <3>2, <3>3, <3>5, <4>1, <4>2
      <4>3. CASE i \notin cols
        BY <3>5, <4>1, <4>3 DEF Fits
      <4> QED
        BY <4>2, <4>3
    <3> QED
      BY <3>6, <3>7 DEF Fits
  <2>2. CASE N # 3
    <3>1. algs.gen \in GenNames /\ CanLoadAhead(N)
      BY <1>1, <2>2 DEF Rows, Named, CanLoadAhead
    <3>2. made = Encoded(sh.srcs, N)
      BY <1>1, <1>2, <2>2, <3>1, GenEncodes
    <3>3. SumP(sh.srcs, N - 2) = SumP(c, N - 2) /\ SumQ(sh.srcs, N - 2) = SumQ(c, N - 2)
      <4> DEFINE n == N - 2
      <4>1. n \in Nat /\ n - 1 = N - 3
        BY <1>1
      <4>2. \A i \in 0..n-1 : sh.srcs[i] = c[i]
        BY <1>1, <1>3, <4>1 DEF Fits
      <4> HIDE DEF n
      <4>3. SumP(sh.srcs, n) = SumP(c, n) /\ SumQ(sh.srcs, n) = SumQ(c, n)
        BY <4>1, <4>2, SumOnly
      <4> QED
        BY <4>3 DEF n
    <3> HIDE DEF made
    <3>4. made = [sh.srcs EXCEPT ![PD] = Word(c, N)[PD], ![QD] = Word(c, N)[QD]]
      BY <1>1, <1>3, <3>2, <3>3 DEF Encoded
    <3>5. Word(c, N)[PD] \in Block /\ Word(c, N)[QD] \in Block
      BY <1>1, <1>3 DEF Buffers
    <3>6. made \in Buffers(N)
      BY <1>2, <3>4, <3>5 DEF Buffers
    <3>7. ASSUME NEW i \in Data \cup cols PROVE made[i] = Word(c, N)[i]
      <4>1. i \in 0..N-1 /\ DOMAIN sh.srcs = 0..N-1 /\ (i = PD \/ i = QD \/ (i \in Data /\ i # PD /\ i # QD))
        BY <1>1, <1>2 DEF Buffers
      <4>2. i \in Data => sh.srcs[i] = Word(c, N)[i]
        BY DEF Fits
      <4> QED
        BY <1>1, <3>4, <4>1, <4>2
    <3> QED
      BY <3>6, <3>7 DEF Fits
  <2> QED
    BY <2>1, <2>2
<1> HIDE DEF made
<1>5. raid6_generate_pq(sh, cols) = Put(sh, cols, made)
  BY DEF raid6_generate_pq, made
<1> DEFINE r == Put(sh, cols, made)
<1>6. r \in Handles /\ r.srcs = made /\ r.locked = sh.locked \cup cols /\ r.error = sh.error
  BY <1>1, <1>4, PutIs
<1> HIDE DEF r
<1> QED
  BY <1>4, <1>5, <1>6 DEF r

(* r is sh with cols made what they must be.                                *)
Makes(r, sh, c, cols) ==
  /\ r \in Handles /\ r.locked = sh.locked \cup cols /\ r.error = sh.error
  /\ \A i \in 0..N-1 : r.srcs[i] = IF i \in cols THEN Word(c, N)[i] ELSE sh.srcs[i]

(* raid6_generate_dd() makes two lost data columns from the others.         *)
LEMMA TwoGenerated ==
  ASSUME Rows, NEW sh \in Handles, NEW c \in Buffers(N - 2), NEW b \in Data, NEW a \in 0..b-1,
         Fits(sh.srcs, c, N, (0..N-1) \ {a, b})
  PROVE  Makes(raid6_generate_dd(sh, a, b), sh, c, {a, b})
<1>1. /\ N \in 4..MaxData+2 /\ b \in 0..N-3 /\ a \in Data /\ Data \subseteq 0..N-1
  BY Columns DEF Rows, MaxData
<1>2. sh.srcs \in Buffers(N) /\ c[a] \in Block /\ c[b] \in Block
  BY <1>1, WordIs DEF Handles, Rows
<1> DEFINE made == [sh.srcs EXCEPT ![b] = c[b], ![a] = c[a]]
           r == Put(sh, {a, b}, made)
<1>3. made \in Buffers(N) /\ \A i \in 0..N-1 : made[i] = IF i \in {a, b} THEN c[i] ELSE sh.srcs[i]
  BY <1>1, <1>2 DEF Buffers
<1> HIDE DEF made
<1>4. data2_recov(algs.recov, algs.gen, N, a, b, sh.srcs) = made
  <2>1. algs.recov \in RecovNames /\ algs.gen \in GenNames
    BY DEF Rows, Named
  <2>2. ASSUME NEW n, n = N
        PROVE  data2_recov(algs.recov, algs.gen, n, a, b, sh.srcs) = Placed(Placed(sh.srcs, b, c[b]), a, c[a])
    <3>1. /\ n \in 4..MaxData+2 /\ b \in 0..n-3 /\ sh.srcs \in Buffers(n) /\ c \in Buffers(n - 2)
          /\ Fits(sh.srcs, c, n, (0..n-1) \ {a, b})
      BY <1>1, <1>2, <2>2
    <3> QED
      BY <2>1, <3>1, TwoRebuilt
  <2> QED
    BY <2>2 DEF made, Placed
<1>5. raid6_generate_dd(sh, a, b) = r
  BY <1>4 DEF raid6_generate_dd
<1>6. r \in Handles /\ r.srcs = made /\ r.locked = sh.locked \cup {a, b} /\ r.error = sh.error
  <2> DEFINE cols == {a, b}
  <2>1. cols \in SUBSET (0..N-1)
    BY <1>1
  <2> HIDE DEF cols
  <2>2. LET t == Put(sh, cols, made)
        IN  t \in Handles /\ t.srcs = made /\ t.locked = sh.locked \cup cols /\ t.error = sh.error
    <3>1. sh \in Handles
      OBVIOUS
    <3> QED
      BY ONLY <1>3, <2>1, <3>1, PutIs
  <2> QED
    BY <2>2 DEF cols
<1> HIDE DEF r
<1>7. c[a] = Word(c, N)[a] /\ c[b] = Word(c, N)[b]
  BY <1>1, WordIs DEF Rows
<1>8. \A i \in 0..N-1 : r.srcs[i] = IF i \in {a, b} THEN Word(c, N)[i] ELSE sh.srcs[i]
  BY <1>3, <1>6, <1>7
<1> QED
  BY <1>5, <1>6, <1>8 DEF Makes

(* raid6_generate_dp() makes a lost data column and P from the others.      *)
LEMMA OneGenerated ==
  ASSUME Rows, NEW sh \in Handles, NEW c \in Buffers(N - 2), NEW a \in Data,
         Fits(sh.srcs, c, N, (0..N-1) \ {a, PD})
  PROVE  Makes(raid6_generate_dp(sh, a), sh, c, {a, PD})
<1>1. /\ N \in 3..MaxData+2 /\ N \in Nat /\ PD = N - 2 /\ QD = N - 1 /\ PD \in 0..N-1 /\ QD \in 0..N-1 /\ PD # QD
      /\ Data \subseteq 0..N-1 /\ PD \notin Data /\ QD \notin Data /\ Data = 0..N-3 /\ a \in 0..N-1
  BY Columns DEF Rows
<1>2. sh.srcs \in Buffers(N) /\ c[a] \in Block /\ Word(c, N)[PD] \in Block
  BY <1>1, WordIs DEF Handles, Rows
<1> DEFINE word == Word(c, N)
           made == [sh.srcs EXCEPT ![a] = c[a], ![PD] = word[PD]]
           rebuilt == IF N = 3 THEN Copy(sh, QD, {0, PD}) ELSE datap_recov(algs.recov, algs.gen, N, a, sh.srcs)
           r == Put(sh, {a, PD}, made)
<1> HIDE DEF word
<1>3. made \in Buffers(N) /\ \A i \in 0..N-1 : made[i] = IF i \in {a, PD} THEN word[i] ELSE sh.srcs[i]
  <2>1. word[a] = c[a]
    BY <1>1, WordIs DEF word
  <2> QED
    BY <1>1, <1>2, <2>1 DEF Buffers, word
<1>4. rebuilt = made
  <2>1. CASE N = 3
    <3>1. a = 0 /\ QD \notin {a, PD}
      BY <1>1, <2>1
    <3>2. word[PD] = c[0] /\ word[QD] = c[0]
      <4> DEFINE n == N - 2
      <4>1. n = 1 /\ c \in Buffers(n)
        BY <2>1
      <4> HIDE DEF n
      <4>2. SumP(c, n) = c[0] /\ SumQ(c, n) = c[0]
        BY <4>1, OneColumn
      <4>3. word[PD] = SumP(c, N - 2) /\ word[QD] = SumQ(c, N - 2)
        BY <1>1, WordIs DEF word
      <4> QED
        BY <4>2, <4>3 DEF n
    <3>3. sh.srcs[QD] = c[0]
      BY <1>1, <3>1, <3>2 DEF Fits, word
    <3>4. DOMAIN sh.srcs = 0..N-1
      BY <1>2 DEF Buffers
    <3>5. rebuilt = [i \in 0..N-1 |-> IF i \in {0, PD} THEN c[0] ELSE sh.srcs[i]]
      BY <2>1, <3>3, <3>4 DEF Copy
    <3> HIDE DEF rebuilt
    <3>6. made = [i \in 0..N-1 |-> IF i \in {0, PD} THEN c[0] ELSE sh.srcs[i]]
      BY <1>1, <3>1, <3>2, <3>4
    <3> QED
      BY <3>5, <3>6
  <2>2. CASE N # 3
    <3>1. N \in 4..MaxData+2 /\ a \in 0..N-3
      BY <1>1, <2>2
    <3>2. algs.recov \in RecovNames /\ algs.gen \in GenNames
      BY DEF Rows, Named
    <3>3. ASSUME NEW n, n = N
          PROVE  datap_recov(algs.recov, algs.gen, n, a, sh.srcs)
                 = Placed(Placed(sh.srcs, a, c[a]), n - 2, Word(c, n)[n - 2])
      <4>1. /\ n \in 4..MaxData+2 /\ a \in 0..n-3 /\ sh.srcs \in Buffers(n) /\ c \in Buffers(n - 2)
            /\ Fits(sh.srcs, c, n, (0..n-1) \ {a, n - 2})
        BY <1>1, <1>2, <3>1, <3>3
      <4> QED
        BY <3>2, <4>1, OneRebuilt
    <3>4. datap_recov(algs.recov, algs.gen, N, a, sh.srcs) = [sh.srcs EXCEPT ![a] = c[a], ![N - 2] = word[N - 2]]
      BY <3>3 DEF word, Placed
    <3> QED
      BY <1>1, <2>2, <3>4
  <2> QED
    BY <2>1, <2>2
<1>5. raid6_generate_dp(sh, a) = r
  BY <1>4 DEF raid6_generate_dp
<1> HIDE DEF made
<1>6. r \in Handles /\ r.srcs = made /\ r.locked = sh.locked \cup {a, PD} /\ r.error = sh.error
  <2> DEFINE cols == {a, PD}
  <2>1. cols \in SUBSET (0..N-1)
    BY <1>1
  <2> HIDE DEF cols
  <2>2. LET t == Put(sh, cols, made)
        IN  t \in Handles /\ t.srcs = made /\ t.locked = sh.locked \cup cols /\ t.error = sh.error
    <3>1. sh \in Handles
      OBVIOUS
    <3> QED
      BY ONLY <1>3, <2>1, <3>1, PutIs
  <2> QED
    BY <2>2 DEF cols
<1> HIDE DEF r
<1>7. \A i \in 0..N-1 : r.srcs[i] = IF i \in {a, PD} THEN Word(c, N)[i] ELSE sh.srcs[i]
  BY <1>3, <1>6 DEF word
<1> QED
  BY <1>5, <1>6, <1>7 DEF Makes

(* The sum of the data, and of all but one column of data and P.            *)
LEMMA DataSum ==
  ASSUME N \in 3..MaxData+2, NEW c \in Buffers(N - 2), NEW srcs \in Buffers(N), Fits(srcs, c, N, Data)
  PROVE  SumSet(srcs, Data, N) = Word(c, N)[PD]
<1>1. /\ N \in Nat /\ N - 2 \in Nat /\ PD = N - 2 /\ Data = 0..N-3 /\ N \in Nat \ {0, 1} /\ (N - 2) - 1 = N - 3
  BY Columns
<1>2. SumSet(srcs, 0..N-3, N) = SumP(srcs, N - 2)
  BY <1>1, SumSetData
<1>3. SumP(srcs, N - 2) = SumP(c, N - 2)
  <2> DEFINE n == N - 2
  <2>1. \A i \in 0..n-1 : srcs[i] = c[i]
    BY <1>1, WordIs DEF Fits
  <2> HIDE DEF n
  <2>2. SumP(srcs, n) = SumP(c, n)
    BY <1>1, <2>1, SumOnly DEF n
  <2> QED
    BY <2>2 DEF n
<1> QED
  BY <1>1, <1>2, <1>3, WordIs

(* Adding blocks is a group in which each is its own inverse.               *)
LEMMA XorBlockFacts ==
  /\ \A x, y, z \in Block : XorBlock(XorBlock(x, y), z) = XorBlock(x, XorBlock(y, z))
  /\ \A x, y \in Block : XorBlock(x, y) = XorBlock(y, x)
  /\ \A x \in Block : XorBlock(x, x) = Zero /\ XorBlock(x, Zero) = x /\ XorBlock(Zero, x) = x
<1>1. \A x, y, z : XorBlock(XorBlock(x, y), z) = XorBlock(x, XorBlock(y, z))
  BY XorFacts DEF XorBlock
<1>2. \A x, y : XorBlock(x, y) = XorBlock(y, x)
  BY XorFacts DEF XorBlock
<1>3. ASSUME NEW x \in Block PROVE XorBlock(x, x) = Zero /\ XorBlock(x, Zero) = x /\ XorBlock(Zero, x) = x
  <2>1. x = [w \in 0..Words-1 |-> x[w]]
    BY DEF Block
  <2>2. XorBlock(x, x) = Zero
    BY XorFacts DEF XorBlock, Zero
  <2>3. XorBlock(x, Zero) = [w \in 0..Words-1 |-> x[w]]
    BY XorFacts DEF XorBlock, Zero
  <2> QED
    BY <1>2, <2>1, <2>2, <2>3
<1> QED
  BY <1>1, <1>2, <1>3

(* The sum of all of data and P but one column is that column.              *)
LEMMA OneMissing ==
  ASSUME N \in 3..MaxData+2, NEW c \in Buffers(N - 2), NEW srcs \in Buffers(N), NEW dd \in 0..PD,
         Fits(srcs, c, N, (0..PD) \ {dd})
  PROVE  XorColumns(Zero, srcs, (0..PD) \ {dd}) = Word(c, N)[dd]
<1> DEFINE word == Word(c, N)
           all == (0..PD) \ {dd}
<1>1. /\ N \in Nat /\ PD \in 0..N-1 /\ Data \subseteq 0..N-1 /\ PD \notin Data /\ 0..PD = Data \cup {PD} /\ dd \in 0..N-1
      /\ PD = N - 2 /\ Data = 0..N-3 /\ N - 2 \in Powers /\ N - 2 \in Nat /\ (N - 2) - 1 = N - 3
  BY Columns
<1>2. XorColumns(Zero, srcs, all) = SumSet(srcs, all, N)
  <2>1. XorColumns(Zero, srcs, all) = XorBlock(Zero, SumSet(srcs, all, N))
    <3> HIDE DEF all
    <3> QED
      BY <1>1, XorBlockIn, ColumnsAdded
  <2>2. SumSet(srcs, all, N) \in Block
    <3> HIDE DEF all
    <3> QED
      BY <1>1, SumSetIn
  <2> HIDE DEF all
  <2> QED
    BY <2>1, <2>2, XorBlockFacts
<1>3. CASE dd = PD
  <2>1. all = Data
    BY <1>1, <1>3
  <2>2. Fits(srcs, c, N, Data)
    BY <2>1
  <2> HIDE DEF all
  <2>3. SumSet(srcs, Data, N) = Word(c, N)[PD]
    BY <2>2, DataSum
  <2> QED
    BY <1>2, <1>3, <2>1, <2>3 DEF all
<1>4. CASE dd \in Data
  <2> DEFINE x == word[dd]
             b == [c EXCEPT ![dd] = srcs[dd]]
  <2>1. /\ word \in Buffers(N) /\ \A i \in Data : word[i] = c[i] /\ c[i] \in Block
        /\ word[PD] \in Block /\ word[PD] = SumP(c, N - 2)
    BY <1>1, WordIs
  <2>2. srcs[dd] \in Block /\ srcs[PD] = word[PD]
    BY <1>1, <1>4 DEF Buffers, Fits
  <2>3. b \in Buffers(N - 2) /\ SumP(b, N - 2) = XorBlock(SumP(c, N - 2), XorBlock(c[dd], srcs[dd]))
    <3> DEFINE n == N - 2
    <3>1. n \in Powers /\ c \in Buffers(n) /\ dd \in 0..n-1
      BY <1>1, <1>4
    <3> HIDE DEF n
    <3>2. b \in Buffers(n) /\ SumP(b, n) = XorBlock(SumP(c, n), XorBlock(c[dd], srcs[dd]))
      BY <2>2, <3>1, SumMoves
    <3> QED
      BY <3>2 DEF n
  <2>4. SumSet(srcs, Data, N) = SumP(b, N - 2)
    <3>1. Fits(srcs, b, N, Data)
      <4> SUFFICES ASSUME NEW i \in Data PROVE srcs[i] = Word(b, N)[i]
        BY DEF Fits
      <4>1. Word(b, N)[i] = b[i]
        BY <2>3, WordIs
      <4>2. CASE i = dd
        BY <1>1, <1>4, <4>1, <4>2 DEF Buffers
      <4>3. CASE i # dd
        <5>1. b[i] = c[i]
          BY <1>1, <4>3 DEF Buffers
        <5>2. srcs[i] = c[i]
          BY <1>1, <2>1, <4>3 DEF Fits
        <5> QED
          BY <4>1, <5>1, <5>2
      <4> QED
        BY <4>2, <4>3
    <3> HIDE DEF b
    <3>2. SumSet(srcs, Data, N) = Word(b, N)[PD]
      BY <2>3, <3>1, DataSum
    <3> QED
      BY <2>3, <3>2, WordIs
  <2>5. SumSet(srcs, all, N) \in Block
    <3> HIDE DEF all
    <3> QED
      BY <1>1, SumSetIn
  <2>6. SumSet(srcs, all \cup {dd}, N) = XorBlock(SumSet(srcs, all, N), srcs[dd])
    <3>1. dd \in (0..N-1) \ all
      BY <1>1
    <3> HIDE DEF all
    <3> QED
      BY <1>1, <3>1, SumSetAdds
  <2>7. SumSet(srcs, Data \cup {PD}, N) = XorBlock(SumSet(srcs, Data, N), srcs[PD])
    <3> DEFINE cols == Data
    <3>1. PD \in (0..N-1) \ cols
      BY <1>1
    <3> HIDE DEF cols
    <3>2. SumSet(srcs, cols \cup {PD}, N) = XorBlock(SumSet(srcs, cols, N), srcs[PD])
      BY <1>1, <3>1, SumSetAdds
    <3> QED
      BY <3>2 DEF cols
  <2>8. all \cup {dd} = Data \cup {PD}
    BY <1>1
  <2> HIDE DEF all, b
  <2>9. XorBlock(SumSet(srcs, all, N), srcs[dd])
        = XorBlock(XorBlock(word[PD], XorBlock(c[dd], srcs[dd])), word[PD])
    BY <2>1, <2>2, <2>3, <2>4, <2>6, <2>7, <2>8
  <2>10. ASSUME NEW s \in Block, NEW t \in Block, NEW y \in Block, NEW p \in Block,
                XorBlock(s, y) = XorBlock(XorBlock(p, XorBlock(t, y)), p)
         PROVE  s = t
    <3>1. ASSUME NEW w \in 0..Words-1 PROVE s[w] = t[w]
      <4>1. XorBlock(s, y)[w] = XorBlock(XorBlock(p, XorBlock(t, y)), p)[w]
        BY <2>10
      <4>2. Xor(s[w], y[w]) = Xor(Xor(p[w], Xor(t[w], y[w])), p[w])
        BY <4>1 DEF XorBlock
      <4>3. \A d, e, u, v : Xor(d, u) = Xor(Xor(v, Xor(e, u)), v) => d = e
        <5>1. \A v, z : Xor(Xor(v, z), v) = z
          BY DEF Xor
        <5>2. \A d, e, u : Xor(d, u) = Xor(e, u) => d = e
          BY DEF Xor
        <5> QED
          BY <5>1, <5>2
      <4> QED
        BY <4>2, <4>3
    <3> QED
      BY <3>1, SameBlock
  <2>11. SumSet(srcs, all, N) = c[dd]
    <3> DEFINE sum == SumSet(srcs, all, N)
    <3> HIDE DEF sum
    <3> QED
      BY <1>4, <2>1, <2>2, <2>5, <2>9, <2>10 DEF sum
  <2> QED
    BY <1>2, <1>4, <2>1, <2>11 DEF all
<1> QED
  BY <1>1, <1>3, <1>4

-----------------------------------------------------------------------------
(* raid5_generate_d() makes a data column or P from the others.             *)
LEMMA DGenerated ==
  ASSUME Rows, NEW sh \in Handles, NEW c \in Buffers(N - 2), NEW dd \in 0..PD,
         Fits(sh.srcs, c, N, (0..PD) \ {dd})
  PROVE  Makes(raid5_generate_d(sh, dd), sh, c, {dd})
<1>1. N \in 3..MaxData+2 /\ 0..PD \subseteq 0..N-1
  BY Columns DEF Rows
<1>2. sh.srcs \in Buffers(N) /\ Word(c, N)[dd] \in Block
  BY <1>1, WordIs DEF Handles
<1> DEFINE x == Word(c, N)[dd]
           made == [sh.srcs EXCEPT ![dd] = x]
           cols == {dd}
           r == Put(sh, cols, made)
<1>3. XorColumns(Zero, sh.srcs, (0..PD) \ {dd}) = x
  BY <1>1, <1>2, OneMissing
<1>4. raid5_generate_d(sh, dd) = r
  BY <1>3 DEF raid5_generate_d
<1> HIDE DEF x
<1>5. /\ made \in Buffers(N) /\ cols \in SUBSET (0..N-1)
      /\ \A i \in 0..N-1 : made[i] = IF i = dd THEN x ELSE sh.srcs[i]
  BY <1>1, <1>2 DEF Buffers, x
<1> HIDE DEF made, cols
<1>6. r \in Handles /\ r.srcs = made /\ r.locked = sh.locked \cup cols /\ r.error = sh.error
  <2>1. sh \in Handles /\ cols \in SUBSET (0..N-1) /\ made \in Buffers(N)
    BY <1>5
  <2>2. PutDone(sh, cols, made)
    BY ONLY <2>1, PutPlaces
  <2> QED
    BY ONLY <2>2 DEF PutDone
<1> HIDE DEF r
<1>7. \A i \in 0..N-1 : r.srcs[i] = IF i \in cols THEN Word(c, N)[i] ELSE sh.srcs[i]
  BY <1>5, <1>6 DEF x, cols
<1> QED
  BY <1>4, <1>6, <1>7 DEF Makes, cols

(* copy_write_data() puts the new block in its buffer.                      *)
LEMMA Copied ==
  ASSUME Rows, NEW sh \in Handles, NEW i \in 0..N-1, NEW block \in Block
  PROVE  LET r == copy_write_data(sh, i, block)
         IN  /\ r \in Handles /\ r.locked = sh.locked \cup {i} /\ r.error = sh.error
             /\ \A j \in 0..N-1 : r.srcs[j] = IF j = i THEN block ELSE sh.srcs[j]
<1> DEFINE made == [sh.srcs EXCEPT ![i] = block]
           cols == {i}
           r == Put(sh, cols, made)
<1>1. copy_write_data(sh, i, block) = r
  BY DEF copy_write_data
<1>2. /\ made \in Buffers(N) /\ cols \in SUBSET (0..N-1)
      /\ \A j \in 0..N-1 : made[j] = IF j = i THEN block ELSE sh.srcs[j]
  BY DEF Handles, Buffers
<1> HIDE DEF made, cols
<1>3. r \in Handles /\ r.srcs = made /\ r.locked = sh.locked \cup cols /\ r.error = sh.error
  BY <1>2, PutIs
<1> HIDE DEF r
<1> QED
  BY <1>1, <1>2, <1>3 DEF cols

(* The data with a new block in column i, and its parities.                 *)
LEMMA WordMoves ==
  ASSUME Rows, NEW c \in Buffers(N - 2), NEW i \in Data, NEW block \in Block
  PROVE  LET d == [c EXCEPT ![i] = block]
         IN  /\ d \in Buffers(N - 2)
             /\ Word(d, N)[i] = block
             /\ \A j \in Data \ {i} : Word(d, N)[j] = Word(c, N)[j]
             /\ Word(d, N)[PD] = XorBlock(Word(c, N)[PD], XorBlock(c[i], block))
             /\ Word(d, N)[QD] = XorBlock(Word(c, N)[QD], TimesBlock(i, XorBlock(c[i], block)))
<1> DEFINE n == N - 2
           d == [c EXCEPT ![i] = block]
<1>1. n \in Powers /\ c \in Buffers(n) /\ i \in 0..n-1 /\ Data = 0..n-1
  <2>1. N - 2 \in Powers /\ Data = 0..N-3 /\ (N - 2) - 1 = N - 3
    BY Columns DEF Rows
  <2> QED
    BY <2>1
<1> HIDE DEF n
<1>2. /\ d \in Buffers(n)
      /\ SumP(d, n) = XorBlock(SumP(c, n), XorBlock(c[i], block))
      /\ SumQ(d, n) = XorBlock(SumQ(c, n), TimesBlock(i, XorBlock(c[i], block)))
  BY <1>1, SumMoves
<1>3. d[i] = block /\ \A j \in Data \ {i} : d[j] = c[j]
  BY <1>1 DEF Buffers
<1> HIDE DEF d
<1>4. ASSUME NEW b \in Buffers(N - 2)
      PROVE  /\ \A j \in Data : Word(b, N)[j] = b[j]
             /\ Word(b, N)[PD] = SumP(b, N - 2) /\ Word(b, N)[QD] = SumQ(b, N - 2)
  BY WordIs DEF Rows
<1>5. d \in Buffers(N - 2)
  BY <1>2 DEF n
<1>6. /\ \A j \in Data : Word(d, N)[j] = d[j] /\ Word(c, N)[j] = c[j]
      /\ Word(d, N)[PD] = SumP(d, n) /\ Word(d, N)[QD] = SumQ(d, n)
      /\ Word(c, N)[PD] = SumP(c, n) /\ Word(c, N)[QD] = SumQ(c, n)
  BY <1>4, <1>5 DEF n
<1>7. /\ Word(d, N)[i] = block /\ \A j \in Data \ {i} : Word(d, N)[j] = Word(c, N)[j]
      /\ Word(d, N)[PD] = XorBlock(Word(c, N)[PD], XorBlock(c[i], block))
      /\ Word(d, N)[QD] = XorBlock(Word(c, N)[QD], TimesBlock(i, XorBlock(c[i], block)))
  BY <1>2, <1>3, <1>6
<1> QED
  BY <1>5, <1>7 DEF d

(* The same, named for a leaf where only its name is wanted.               *)
Reworded(c, i, block) ==
  LET d == [c EXCEPT ![i] = block]
  IN  /\ d \in Buffers(N - 2)
      /\ Word(d, N)[i] = block
      /\ \A j \in Data \ {i} : Word(d, N)[j] = Word(c, N)[j]
      /\ Word(d, N)[PD] = XorBlock(Word(c, N)[PD], XorBlock(c[i], block))
      /\ Word(d, N)[QD] = XorBlock(Word(c, N)[QD], TimesBlock(i, XorBlock(c[i], block)))

LEMMA WordRewords ==
  ASSUME Rows, NEW c \in Buffers(N - 2), NEW i \in Data, NEW block \in Block
  PROVE  Reworded(c, i, block)
  BY WordMoves DEF Reworded

(* Adding the columns of a set of one adds that one.                        *)
LEMMA XorOne ==
  ASSUME N \in Nat, NEW srcs \in Buffers(N), NEW i \in 0..N-1, NEW dest \in Block
  PROVE  XorColumns(dest, srcs, {i}) = XorBlock(dest, srcs[i])
<1> DEFINE none == {}
           cols == {i}
<1>1. i \in (0..N-1) \ none /\ none \cup {i} = cols /\ srcs[i] \in Block
  BY DEF Buffers
<1>2. SumSet(srcs, none, N) = Zero
  BY SumSetNone
<1> HIDE DEF none, cols
<1>3. SumSet(srcs, cols, N) = XorBlock(SumSet(srcs, none, N), srcs[i])
  <2>1. SumSet(srcs, none \cup {i}, N) = XorBlock(SumSet(srcs, none, N), srcs[i])
    BY <1>1, SumSetAdds
  <2> QED
    BY <1>1, <2>1
<1>4. SumSet(srcs, cols, N) = srcs[i]
  BY <1>1, <1>2, <1>3, XorBlockFacts
<1>5. XorColumns(dest, srcs, cols) = XorBlock(dest, srcs[i])
  BY <1>4, ColumnsAdded
<1> QED
  BY <1>5 DEF cols

Moves(r, sh, c, i, block, cols) ==
  /\ r \in Handles /\ r.locked = sh.locked \cup cols /\ r.error = sh.error
  /\ Fits(r.srcs, [c EXCEPT ![i] = block], N, cols)

(* rmw5_write_data() moves P to the parity of the new data.                 *)
LEMMA RmwFive ==
  ASSUME Rows, NEW sh \in Handles, NEW c \in Buffers(N - 2), NEW i \in Data, NEW block \in Block,
         Fits(sh.srcs, c, N, {i, PD})
  PROVE  Moves(rmw5_write_data(sh, i, block), sh, c, i, block, {i, PD})
<1> DEFINE srcs == sh.srcs
           d == [c EXCEPT ![i] = block]
           moved(s) == [s EXCEPT ![PD] = XorColumns(s[PD], s, {i})]
           Rec(h) == h = [k \in 0..2 |-> IF k = 0 THEN srcs
                                         ELSE moved(IF k = 1 THEN h[0] ELSE [h[1] EXCEPT ![i] = block])]
           cols == {i, PD}
<1>1. /\ N \in Nat /\ PD \in 0..N-1 /\ i \in 0..N-1 /\ i # PD /\ N \in 3..MaxData+2 /\ cols \in SUBSET (0..N-1)
  BY Columns DEF Rows
<1>2. srcs \in Buffers(N) /\ DOMAIN srcs = 0..N-1 /\ srcs[i] \in Block /\ srcs[PD] \in Block
  BY <1>1 DEF Handles, Buffers
<1>3. ASSUME NEW s \in Buffers(N)
      PROVE  moved(s) = [s EXCEPT ![PD] = XorBlock(s[PD], s[i])] /\ moved(s) \in Buffers(N)
  <2>1. s[PD] \in Block /\ s[i] \in Block
    BY <1>1 DEF Buffers
  <2>2. XorColumns(s[PD], s, {i}) = XorBlock(s[PD], s[i])
    BY <1>1, <2>1, XorOne
  <2>3. XorBlock(s[PD], s[i]) \in Block
    BY <2>1, XorBlockIn
  <2> QED
    BY <2>2, <2>3 DEF Buffers
<1>4. PICK h : Rec(h) /\ rmw5_write_data(sh, i, block) = Put(sh, cols, h[2])
  <2> DEFINE s1 == moved(srcs)
             s2 == moved([s1 EXCEPT ![i] = block])
             g == [k \in 0..2 |-> IF k = 0 THEN srcs ELSE IF k = 1 THEN s1 ELSE s2]
  <2>1. g[0] = srcs /\ g[1] = s1 /\ g[2] = s2
    OBVIOUS
  <2>2. \A k \in 0..2 : g[k] = IF k = 0 THEN srcs
                               ELSE moved(IF k = 1 THEN g[0] ELSE [g[1] EXCEPT ![i] = block])
    BY <2>1
  <2>3. Rec(g)
    <3>1. g = [k \in 0..2 |-> g[k]]
      OBVIOUS
    <3> HIDE DEF g, moved
    <3> QED
      BY <2>2, <3>1
  <2> HIDE DEF g, moved
  <2>4. PICK h : h = (CHOOSE e : Rec(e))
    OBVIOUS
  <2>5. Rec(h)
    BY <2>3, <2>4
  <2>6. rmw5_write_data(sh, i, block) = Put(sh, cols, h[2])
    BY <2>4 DEF rmw5_write_data, moved
  <2> QED
    BY <2>5, <2>6
<1> HIDE DEF moved, cols
<1>5. h[0] = srcs /\ h[1] = moved(srcs) /\ h[2] = moved([h[1] EXCEPT ![i] = block])
  BY <1>4
<1> DEFINE t == [h[1] EXCEPT ![i] = block]
<1>6. h[1] = [srcs EXCEPT ![PD] = XorBlock(srcs[PD], srcs[i])] /\ h[1] \in Buffers(N)
  BY <1>2, <1>3, <1>5
<1>7. t \in Buffers(N) /\ t[i] = block /\ t[PD] = XorBlock(srcs[PD], srcs[i]) /\ DOMAIN t = 0..N-1
  BY <1>1, <1>2, <1>6 DEF Buffers
<1>8. h[2] = [t EXCEPT ![PD] = XorBlock(t[PD], t[i])] /\ h[2] \in Buffers(N)
  <2>1. h[2] = moved(t)
    BY <1>5
  <2> HIDE DEF t
  <2> QED
    BY <1>3, <1>7, <2>1
<1> HIDE DEF t
<1>9. h[2][i] = block /\ h[2][PD] = XorBlock(XorBlock(srcs[PD], srcs[i]), block)
  BY <1>1, <1>7, <1>8
<1>10. Word(c, N)[i] = c[i] /\ c[i] \in Block /\ Word(c, N)[PD] \in Block
  BY <1>1, WordIs
<1>11. srcs[i] = c[i] /\ srcs[PD] = Word(c, N)[PD]
  BY <1>10 DEF Fits
<1>12. /\ Word(d, N)[i] = block
       /\ Word(d, N)[PD] = XorBlock(Word(c, N)[PD], XorBlock(c[i], block))
  BY WordMoves
<1>13. Fits(h[2], d, N, cols)
  <2>1. XorBlock(XorBlock(Word(c, N)[PD], c[i]), block) = XorBlock(Word(c, N)[PD], XorBlock(c[i], block))
    BY <1>10, XorBlockFacts
  <2> QED
    BY <1>9, <1>11, <1>12, <2>1 DEF Fits, cols
<1> DEFINE out == h[2]
           r == Put(sh, cols, out)
<1>14. r \in Handles /\ r.srcs = out /\ r.locked = sh.locked \cup cols /\ r.error = sh.error
  <2>1. cols \in SUBSET (0..N-1) /\ out \in Buffers(N)
    BY <1>1, <1>8
  <2> HIDE DEF out
  <2>2. sh \in Handles
    OBVIOUS
  <2>3. r \in Handles
    BY ONLY <2>1, <2>2, PutIs
  <2>4. r.srcs = out /\ r.locked = sh.locked \cup cols /\ r.error = sh.error
    BY ONLY <2>1, <2>2, PutIs
  <2> QED
    BY <2>3, <2>4
<1> HIDE DEF r
<1>15. Fits(r.srcs, d, N, cols)
  BY <1>13, <1>14
<1>16. Moves(r, sh, c, i, block, cols)
  BY <1>14, <1>15 DEF Moves
<1> QED
  BY <1>4, <1>16 DEF cols, r

(* Times of a sum of blocks is the sum.                                     *)
LEMMA TimesXorBlock ==
  ASSUME NEW i \in Powers, NEW x \in Block, NEW y \in Block
  PROVE  XorBlock(TimesBlock(i, x), TimesBlock(i, y)) = TimesBlock(i, XorBlock(x, y))
<1>1. ASSUME NEW w \in 0..Words-1
      PROVE  Xor(TimesBlock(i, x)[w], TimesBlock(i, y)[w]) = Times(i, XorBlock(x, y)[w])
  <2>1. x[w] \in Register /\ y[w] \in Register
    BY DEF Block
  <2>2. XorBlock(x, y)[w] = Xor(x[w], y[w]) /\ TimesBlock(i, x)[w] = Times(i, x[w]) /\ TimesBlock(i, y)[w] = Times(i, y[w])
    BY XorBlockIn, TimesBlockIn
  <2> QED
    BY <2>1, <2>2, TimesXor
<1>2. /\ XorBlock(TimesBlock(i, x), TimesBlock(i, y)) = [w \in 0..Words-1 |-> Xor(TimesBlock(i, x)[w], TimesBlock(i, y)[w])]
      /\ TimesBlock(i, XorBlock(x, y)) = [w \in 0..Words-1 |-> Times(i, XorBlock(x, y)[w])]
  BY DEF XorBlock, TimesBlock
<1> QED
  BY <1>1, <1>2

(* rmw6_write_data() moves Q, and P where it is there, to the parity of the *)
(* new data.                                                                *)
LEMMA RmwSix ==
  ASSUME Rows, NEW sh \in Handles, NEW c \in Buffers(N - 2), NEW i \in Data, NEW block \in Block,
         NEW pd_uptodate \in BOOLEAN, Fits(sh.srcs, c, N, {i, QD}),
         pd_uptodate => Fits(sh.srcs, c, N, {PD})
  PROVE  Moves(rmw6_write_data(sh, i, block, pd_uptodate), sh, c, i, block,
               {i, QD} \cup (IF pd_uptodate THEN {PD} ELSE {}))
<1> DEFINE srcs == sh.srcs
           d == [c EXCEPT ![i] = block]
           moved(s) == xor_syndrome(algs.xor, N, i, i, s)
           Rec(h) == h = [k \in 0..2 |-> IF k = 0 THEN srcs
                                         ELSE xor_syndrome(algs.xor, N, i, i,
                                                IF k = 1 THEN h[0] ELSE [h[1] EXCEPT ![i] = block])]
           cols == {i, QD} \cup (IF pd_uptodate THEN {PD} ELSE {})
<1>1. /\ N \in Nat /\ PD \in 0..N-1 /\ QD \in 0..N-1 /\ i \in 0..N-1 /\ i # PD /\ i # QD /\ PD # QD
      /\ N \in 3..MaxData+2 /\ i \in 0..N-3 /\ cols \in SUBSET (0..N-1) /\ PD = N - 2 /\ QD = N - 1 /\ i \in Powers
  BY Columns DEF Rows
<1>2. /\ srcs \in Buffers(N) /\ DOMAIN srcs = 0..N-1 /\ srcs[i] \in Block
      /\ srcs[PD] \in Block /\ srcs[QD] \in Block
  BY <1>1 DEF Handles, Buffers
<1>3. ASSUME NEW s \in Buffers(N)
      PROVE  /\ moved(s) = [s EXCEPT ![PD] = XorBlock(s[PD], s[i]),
                                     ![QD] = XorBlock(s[QD], TimesBlock(i, s[i]))]
             /\ moved(s) \in Buffers(N)
  <2>1. s[PD] \in Block /\ s[i] \in Block /\ s[QD] \in Block
    BY <1>1 DEF Buffers
  <2>2. moved(s) = Moved(s, N, i)
    BY <1>1, XorMoves DEF Rows, Named
  <2>3. XorBlock(s[PD], s[i]) \in Block /\ XorBlock(s[QD], TimesBlock(i, s[i])) \in Block
    BY <1>1, <2>1, XorBlockIn, TimesBlockIn
  <2>4. moved(s) = [s EXCEPT ![PD] = XorBlock(s[PD], s[i]), ![QD] = XorBlock(s[QD], TimesBlock(i, s[i]))]
    BY <1>1, <2>2 DEF Moved
  <2> HIDE DEF moved
  <2> QED
    BY <2>3, <2>4 DEF Buffers
<1>4. PICK h : Rec(h) /\ rmw6_write_data(sh, i, block, pd_uptodate) = Put(sh, cols, h[2])
  <2> DEFINE s1 == moved(srcs)
             s2 == moved([s1 EXCEPT ![i] = block])
             g == [k \in 0..2 |-> IF k = 0 THEN srcs ELSE IF k = 1 THEN s1 ELSE s2]
  <2>1. g[0] = srcs /\ g[1] = s1 /\ g[2] = s2
    OBVIOUS
  <2>2. \A k \in 0..2 : g[k] = IF k = 0 THEN srcs
                               ELSE moved(IF k = 1 THEN g[0] ELSE [g[1] EXCEPT ![i] = block])
    BY <2>1
  <2>3. Rec(g)
    <3>1. g = [k \in 0..2 |-> g[k]]
      OBVIOUS
    <3> HIDE DEF g
    <3> QED
      BY <2>2, <3>1
  <2> HIDE DEF g, moved
  <2>4. PICK h : h = (CHOOSE e : Rec(e))
    OBVIOUS
  <2>5. Rec(h)
    BY <2>3, <2>4
  <2>6. rmw6_write_data(sh, i, block, pd_uptodate) = Put(sh, cols, h[2])
    BY <2>4 DEF rmw6_write_data
  <2> QED
    BY <2>5, <2>6
<1> HIDE DEF cols
<1>5. h[0] = srcs /\ h[1] = moved(srcs) /\ h[2] = moved([h[1] EXCEPT ![i] = block])
  BY <1>4
<1> HIDE DEF moved
<1> DEFINE t == [h[1] EXCEPT ![i] = block]
<1>6. /\ h[1] = [srcs EXCEPT ![PD] = XorBlock(srcs[PD], srcs[i]),
                             ![QD] = XorBlock(srcs[QD], TimesBlock(i, srcs[i]))]
      /\ h[1] \in Buffers(N)
  BY <1>2, <1>3, <1>5
<1>7. /\ t \in Buffers(N) /\ t[i] = block /\ DOMAIN t = 0..N-1
      /\ t[PD] = XorBlock(srcs[PD], srcs[i]) /\ t[QD] = XorBlock(srcs[QD], TimesBlock(i, srcs[i]))
  BY <1>1, <1>2, <1>6 DEF Buffers
<1>8. /\ h[2] = [t EXCEPT ![PD] = XorBlock(t[PD], t[i]), ![QD] = XorBlock(t[QD], TimesBlock(i, t[i]))]
      /\ h[2] \in Buffers(N)
  <2>1. h[2] = moved(t)
    BY <1>5
  <2> HIDE DEF t
  <2> QED
    BY <1>3, <1>7, <2>1
<1> HIDE DEF t
<1>9. /\ h[2][i] = block /\ h[2][PD] = XorBlock(XorBlock(srcs[PD], srcs[i]), block)
      /\ h[2][QD] = XorBlock(XorBlock(srcs[QD], TimesBlock(i, srcs[i])), TimesBlock(i, block))
  BY <1>1, <1>7, <1>8
<1>10. /\ Word(c, N)[i] = c[i] /\ c[i] \in Block /\ Word(c, N)[PD] \in Block /\ Word(c, N)[QD] \in Block
       /\ TimesBlock(i, c[i]) \in Block /\ TimesBlock(i, block) \in Block
  BY <1>1, WordIs, TimesBlockIn
<1>11. srcs[i] = c[i] /\ srcs[QD] = Word(c, N)[QD] /\ (pd_uptodate => srcs[PD] = Word(c, N)[PD])
  BY <1>10 DEF Fits
<1>12. /\ Word(d, N)[i] = block
       /\ Word(d, N)[PD] = XorBlock(Word(c, N)[PD], XorBlock(c[i], block))
       /\ Word(d, N)[QD] = XorBlock(Word(c, N)[QD], TimesBlock(i, XorBlock(c[i], block)))
  BY WordMoves
<1>13. Fits(h[2], d, N, cols)
  <2>1. XorBlock(XorBlock(Word(c, N)[PD], c[i]), block) = XorBlock(Word(c, N)[PD], XorBlock(c[i], block))
    BY <1>10, XorBlockFacts
  <2>2. XorBlock(XorBlock(Word(c, N)[QD], TimesBlock(i, c[i])), TimesBlock(i, block))
        = XorBlock(Word(c, N)[QD], XorBlock(TimesBlock(i, c[i]), TimesBlock(i, block)))
    BY <1>10, XorBlockFacts
  <2>3. XorBlock(TimesBlock(i, c[i]), TimesBlock(i, block)) = TimesBlock(i, XorBlock(c[i], block))
    BY <1>1, <1>10, TimesXorBlock
  <2>4. h[2][i] = Word(d, N)[i] /\ h[2][QD] = Word(d, N)[QD] /\ (pd_uptodate => h[2][PD] = Word(d, N)[PD])
    BY <1>9, <1>11, <1>12, <2>1, <2>2, <2>3
  <2> HIDE DEF d
  <2> QED
    BY <2>4 DEF Fits, cols
<1> DEFINE out == h[2]
           r == Put(sh, cols, out)
<1>14. r \in Handles /\ r.srcs = out /\ r.locked = sh.locked \cup cols /\ r.error = sh.error
  <2>1. cols \in SUBSET (0..N-1) /\ out \in Buffers(N)
    BY <1>1, <1>8
  <2> HIDE DEF out
  <2> QED
    BY <2>1, PutIs
<1> HIDE DEF r
<1>15. Fits(r.srcs, d, N, cols)
  BY <1>13, <1>14
<1>16. Moves(r, sh, c, i, block, cols)
  BY <1>14, <1>15 DEF Moves
<1> QED
  BY <1>4, <1>16 DEF cols, r

(* The comparison of a block with itself, one word on, finds zero and       *)
(* nothing else.                                                            *)
LEMMA AllZeroIs ==
  ASSUME NEW dest \in Block
  PROVE  AllZero(dest) <=> dest = Zero
<1>1. Words \in Nat /\ Words > 0 /\ Words - 1 \in Nat
  BY WordsAssumption
<1>2. ASSUME AllZero(dest) PROVE dest = Zero
  <2> DEFINE n == Words - 1
             Good == {w \in 0..n : dest[w] = {}}
  <2>1. dest[0] = {} /\ \A w \in 1..n : dest[w - 1] = dest[w]
    BY <1>2 DEF AllZero
  <2>2. n \in Nat
    BY <1>1
  <2> HIDE DEF n
  <2>3. 0 \in Good
    BY <2>1, <2>2
  <2>4. \A k \in 1..n : k - 1 \in Good => k \in Good
    BY <2>1, <2>2
  <2> HIDE DEF Good
  <2>5. 0..n \subseteq Good
    BY <2>2, <2>3, <2>4, UpTo
  <2>6. \A w \in 0..Words-1 : dest[w] = Zero[w]
    BY <2>5, XorBlockIn DEF Good, n
  <2> QED
    BY <2>6, XorBlockIn, SameBlock
<1>3. ASSUME dest = Zero PROVE AllZero(dest)
  <2>1. \A w \in 0..Words-1 : dest[w] = {}
    BY <1>3, XorBlockIn
  <2>2. 0 \in 0..Words-1 /\ \A w \in 1..Words-1 : w \in 0..Words-1 /\ w - 1 \in 0..Words-1
    BY <1>1
  <2> QED
    BY <2>1, <2>2 DEF AllZero
<1> QED
  BY <1>2, <1>3

(* check_parity5() reports P when it is not the parity of the data.         *)
LEMMA CheckFive ==
  ASSUME Rows, NEW sh \in Handles, NEW c \in Buffers(N - 2), Fits(sh.srcs, c, N, Data)
  PROVE  LET r == check_parity5(sh)
         IN  /\ r \in Handles /\ r.srcs = sh.srcs /\ r.locked = sh.locked
             /\ r.error = IF sh.srcs[PD] = Word(c, N)[PD] THEN {} ELSE {PD}
<1> DEFINE p == sh.srcs[PD]
           word == Word(c, N)[PD]
           sum == XorColumns(p, sh.srcs, Data)
<1>1. N \in Nat /\ N \in 3..MaxData+2 /\ PD \in 0..N-1
  BY Columns DEF Rows
<1>2. sh.srcs \in Buffers(N) /\ p \in Block /\ word \in Block
  BY <1>1, WordIs DEF Handles, Buffers
<1>3. sum = XorBlock(p, word)
  <2>1. SumSet(sh.srcs, Data, N) = word
    BY <1>1, <1>2, DataSum
  <2>2. sum = XorBlock(p, SumSet(sh.srcs, Data, N))
    <3> DEFINE cols == Data
    <3> HIDE DEF cols, p
    <3>1. XorColumns(p, sh.srcs, cols) = XorBlock(p, SumSet(sh.srcs, cols, N))
      BY <1>1, <1>2, ColumnsAdded
    <3> QED
      BY <3>1 DEF cols, p
  <2> QED
    BY <2>1, <2>2
<1> HIDE DEF sum
<1>4. sum \in Block /\ (sum = Zero <=> p = word)
  <2> HIDE DEF p, word
  <2>1. sum \in Block
    BY <1>2, <1>3, XorBlockIn
  <2>2. p = word => sum = Zero
    BY <1>2, <1>3, XorBlockFacts
  <2>3. ASSUME sum = Zero PROVE p = word
    <3>1. XorBlock(sum, word) = XorBlock(p, XorBlock(word, word))
      BY <1>2, <1>3, XorBlockFacts
    <3> QED
      BY <1>2, <2>3, <3>1, XorBlockFacts
  <2> QED
    BY <2>1, <2>2, <2>3
<1>5. AllZero(sum) <=> p = word
  BY <1>4, AllZeroIs
<1>6. check_parity5(sh) = [sh EXCEPT !.error = IF p = word THEN {} ELSE {PD}]
  BY <1>5 DEF check_parity5, sum
<1> QED
  BY <1>1, <1>6 DEF Handles

Compared(r, sh, c, checked, recover) ==
  /\ r \in Handles /\ r.error = {p \in checked : sh.srcs[p] # Word(c, N)[p]}
  /\ r.locked = sh.locked \cup (IF recover THEN r.error ELSE {})
  /\ r.srcs = [i \in 0..N-1 |-> IF recover /\ i \in r.error THEN Word(c, N)[i] ELSE sh.srcs[i]]

(* check_parity() reports the parities that differ, and corrects those.     *)
LEMMA CheckBoth ==
  ASSUME Rows, NEW sh \in Handles, NEW c \in Buffers(N - 2), Fits(sh.srcs, c, N, Data),
         NEW checked \in SUBSET {PD, QD}, NEW recover \in BOOLEAN,
         algs.gen \in LoadsAhead => CanLoadAhead(N)
  PROVE  Compared(check_parity(sh, checked, recover), sh, c, checked, recover)
<1> DEFINE word == Word(c, N)
           scribble == gen_syndrome(algs.gen, N, sh.srcs)
           error == {p \in checked : sh.srcs[p] # word[p]}
           fixed == [i \in 0..N-1 |-> IF recover /\ i \in error THEN word[i] ELSE sh.srcs[i]]
           cols == IF recover THEN error ELSE {}
<1>1. /\ N \in Nat /\ N \in 3..MaxData+2 /\ PD \in 0..N-1 /\ QD \in 0..N-1 /\ PD # QD /\ PD = N - 2 /\ QD = N - 1
      /\ N - 2 \in Nat /\ Data = 0..N-3 /\ (N - 2) - 1 = N - 3
  BY Columns DEF Rows
<1>2. /\ sh.srcs \in Buffers(N) /\ word[PD] = SumP(c, N - 2) /\ word[QD] = SumQ(c, N - 2)
      /\ \A i \in Data : word[i] = c[i]
      /\ \A j \in 0..N-1 : word[j] \in Block
  BY <1>1, WordIs DEF Handles
<1>3. scribble[PD] = word[PD] /\ scribble[QD] = word[QD]
  <2>1. scribble = Encoded(sh.srcs, N)
    BY <1>1, <1>2, GenEncodes DEF Rows, Named
  <2>2. SumP(sh.srcs, N - 2) = SumP(c, N - 2) /\ SumQ(sh.srcs, N - 2) = SumQ(c, N - 2)
    <3> DEFINE n == N - 2
    <3>1. n \in Nat /\ n - 1 = N - 3
      BY <1>1
    <3>2. \A i \in 0..n-1 : sh.srcs[i] = c[i]
      BY <1>1, <1>2, <3>1 DEF Fits
    <3> HIDE DEF n
    <3>3. SumP(sh.srcs, n) = SumP(c, n) /\ SumQ(sh.srcs, n) = SumQ(c, n)
      BY <3>1, <3>2, SumOnly
    <3> QED
      BY <3>3 DEF n
  <2> HIDE DEF word, scribble
  <2>3. scribble = [sh.srcs EXCEPT ![PD] = word[PD], ![QD] = word[QD]]
    BY <1>1, <1>2, <2>1, <2>2 DEF Encoded
  <2> QED
    BY <1>1, <1>2, <2>3 DEF Buffers
<1> HIDE DEF scribble
<1>4. {p \in checked : sh.srcs[p] # scribble[p]} = error
  BY <1>3
<1>5. error \subseteq checked /\ error \in SUBSET (0..N-1) /\ cols \in SUBSET (0..N-1)
  BY <1>1
<1>6. \A i \in error : scribble[i] = word[i]
  BY <1>3, <1>5
<1> HIDE DEF error
<1>7. [i \in 0..N-1 |-> IF recover /\ i \in error THEN scribble[i] ELSE sh.srcs[i]] = fixed
  BY <1>6
<1> DEFINE t == Put(sh, cols, fixed)
<1>8. check_parity(sh, checked, recover) = [t EXCEPT !.error = error]
  BY <1>4, <1>7 DEF check_parity, scribble
<1>9. fixed \in Buffers(N)
  <2>1. \A i \in 0..N-1 : sh.srcs[i] \in Block
    BY <1>2 DEF Buffers
  <2>2. \A i \in 0..N-1 : (IF recover /\ i \in error THEN word[i] ELSE sh.srcs[i]) \in Block
    BY <1>2, <2>1
  <2> QED
    BY <2>2 DEF Buffers
<1> HIDE DEF fixed, cols
<1>10. t \in Handles /\ t.srcs = fixed /\ t.locked = sh.locked \cup cols
  <2>1. sh \in Handles /\ cols \in SUBSET (0..N-1)
    BY <1>5
  <2>2. t \in Handles
    BY ONLY <1>9, <2>1, PutIs
  <2>3. t.srcs = fixed /\ t.locked = sh.locked \cup cols
    BY ONLY <1>9, <2>1, PutIs
  <2> QED
    BY <2>2, <2>3
<1> HIDE DEF t
<1> DEFINE r == [t EXCEPT !.error = error]
<1>11. r \in Handles /\ r.error = error /\ r.locked = sh.locked \cup cols /\ r.srcs = fixed
  BY <1>5, <1>10 DEF Handles
<1> HIDE DEF r
<1>12. Compared(r, sh, c, checked, recover)
  BY <1>11 DEF Compared, fixed, cols, error
<1> QED
  BY <1>8, <1>12 DEF r

-----------------------------------------------------------------------------
(* Which operations handle_stripe() runs, and what they leave.              *)
LEMMA LowestHighest ==
  /\ \A x \in Int : Lowest({x}) = x /\ Highest({x}) = x
  /\ \A a, b \in Int : a < b => Lowest({a, b}) = a /\ Highest({a, b}) = b
<1>1. ASSUME NEW x \in Int PROVE Lowest({x}) = x /\ Highest({x}) = x
  BY DEF Lowest, Highest
<1>2. ASSUME NEW a \in Int, NEW b \in Int, a < b PROVE Lowest({a, b}) = a /\ Highest({a, b}) = b
  <2> DEFINE Low(i) == \A j \in {a, b} : i <= j
             High(i) == \A j \in {a, b} : i >= j
  <2>1. Low(a) /\ High(b) /\ ~ Low(b) /\ ~ High(a)
    BY <1>2
  <2>2. Lowest({a, b}) = CHOOSE i \in {a, b} : Low(i)
    BY DEF Lowest
  <2>3. Highest({a, b}) = CHOOSE i \in {a, b} : High(i)
    BY DEF Highest
  <2> HIDE DEF Low, High
  <2> QED
    BY <2>1, <2>2, <2>3
<1> QED
  BY <1>1, <1>2

(* What Do runs for each operation.                                         *)
LEMMA DoEach ==
  ASSUME NEW sh, NEW cols
  PROVE  /\ Do(sh, Op("dd", cols)) = raid6_generate_dd(sh, Lowest(cols), Highest(cols))
         /\ Do(sh, Op("dp", cols)) = raid6_generate_dp(sh, Lowest(cols))
         /\ Do(sh, Op("pq", cols)) = raid6_generate_pq(sh, cols)
         /\ Do(sh, Op("d", cols)) = raid5_generate_d(sh, Lowest(cols))
         /\ Do(sh, Op("recover", cols)) = IF sh.error = {} THEN sh ELSE raid5_generate_d(sh, Lowest(cols))
         /\ \A recover : /\ Do(sh, CheckOp("check5", cols, recover)) = check_parity5(sh)
                         /\ Do(sh, CheckOp("check", cols, recover)) = check_parity(sh, cols, recover)
<1>1. Do(sh, Op("dd", cols)) = raid6_generate_dd(sh, Lowest(cols), Highest(cols))
  BY DEF Do, Op
<1>2. Do(sh, Op("dp", cols)) = raid6_generate_dp(sh, Lowest(cols))
  BY DEF Do, Op
<1>3. Do(sh, Op("pq", cols)) = raid6_generate_pq(sh, cols)
  BY DEF Do, Op
<1>4. Do(sh, Op("d", cols)) = raid5_generate_d(sh, Lowest(cols))
  BY DEF Do, Op
<1>5. Do(sh, Op("recover", cols)) = IF sh.error = {} THEN sh ELSE raid5_generate_d(sh, Lowest(cols))
  BY DEF Do, Op
<1>6. ASSUME NEW recover
      PROVE  /\ Do(sh, CheckOp("check5", cols, recover)) = check_parity5(sh)
             /\ Do(sh, CheckOp("check", cols, recover)) = check_parity(sh, cols, recover)
  BY DEF Do, CheckOp
<1> QED
  BY <1>1, <1>2, <1>3, <1>4, <1>5, <1>6

(* What it runs for each way to write.                                      *)
LEMMA DoWrites ==
  ASSUME NEW sh, NEW i \in Int, NEW v
  PROVE  /\ Do(sh, WriteOp("copy", i, v)) = copy_write_data(sh, i, Contents(i, v))
         /\ Do(sh, WriteOp("rmw5", i, v)) = rmw5_write_data(sh, i, Contents(i, v))
         /\ Do(sh, WriteOp("rmw6", i, v)) = rmw6_write_data(sh, i, Contents(i, v), PD \notin lost)
<1> DEFINE cols == {i}
<1>1. Lowest(cols) = i
  BY LowestHighest
<1> HIDE DEF cols
<1>2. \A name : LET o == WriteOp(name, i, v) IN o.op = name /\ o.cols = cols /\ o.block = Contents(i, v)
  BY DEF WriteOp, cols
<1>3. Do(sh, WriteOp("copy", i, v)) = copy_write_data(sh, i, Contents(i, v))
  BY <1>1, <1>2 DEF Do
<1>4. Do(sh, WriteOp("rmw5", i, v)) = rmw5_write_data(sh, i, Contents(i, v))
  BY <1>1, <1>2 DEF Do
<1>5. Do(sh, WriteOp("rmw6", i, v)) = rmw6_write_data(sh, i, Contents(i, v), PD \notin lost)
  BY <1>1, <1>2 DEF Do
<1> QED
  BY <1>3, <1>4, <1>5

(* handle_stripe() runs three of them at most.                              *)
DoneBy(h, cols, ops) ==
  /\ h[0] = ReadIn(cols) /\ Done(cols, ops) = h[Len(ops)]
  /\ \A k \in 1..Len(ops) : h[k] = Do(h[k - 1], ops[k])

(* The loop over at most three operations is a function.                    *)
LEMMA DoneIs ==
  ASSUME NEW cols, NEW ops, Len(ops) \in 0..3
  PROVE  \E h : DoneBy(h, cols, ops)
<1> DEFINE n == Len(ops)
           s0 == ReadIn(cols)
           s1 == Do(s0, ops[1])
           s2 == Do(s1, ops[2])
           s3 == Do(s2, ops[3])
           Rec(h) == h = [k \in 0..n |-> IF k = 0 THEN ReadIn(cols) ELSE Do(h[k - 1], ops[k])]
           g == [k \in 0..n |-> IF k = 0 THEN s0 ELSE IF k = 1 THEN s1 ELSE IF k = 2 THEN s2 ELSE s3]
<1>1. \A k \in 0..n : g[k] = IF k = 0 THEN ReadIn(cols) ELSE Do(g[k - 1], ops[k])
  <2> SUFFICES ASSUME NEW k \in 0..n PROVE g[k] = IF k = 0 THEN ReadIn(cols) ELSE Do(g[k - 1], ops[k])
    OBVIOUS
  <2>1. g[0] = s0 /\ (k >= 1 => g[1] = s1) /\ (k >= 2 => g[2] = s2) /\ (k >= 3 => g[3] = s3)
    OBVIOUS
  <2>2. k = 0 \/ k = 1 \/ k = 2 \/ k = 3
    <3>1. n \in 0..3
      OBVIOUS
    <3> HIDE DEF n
    <3> QED
      BY <3>1
  <2> HIDE DEF g
  <2> QED
    BY <2>1, <2>2
<1>2. Rec(g)
  <2>1. g = [k \in 0..n |-> g[k]]
    OBVIOUS
  <2> HIDE DEF g
  <2> QED
    BY <1>1, <2>1
<1> HIDE DEF g
<1>3. PICK h : h = (CHOOSE e : Rec(e))
  OBVIOUS
<1>4. Rec(h)
  BY <1>2, <1>3
<1>5. Done(cols, ops) = h[n]
  BY <1>3 DEF Done
<1>6. h[0] = ReadIn(cols) /\ \A k \in 1..n : h[k] = Do(h[k - 1], ops[k])
  BY <1>4
<1> QED
  BY <1>5, <1>6 DEF DoneBy

(* What up to three operations leave, one after the other.                  *)
LEMMA DoneShort ==
  ASSUME NEW cols
  PROVE  /\ Done(cols, <<>>) = ReadIn(cols)
         /\ \A o : Done(cols, <<o>>) = Do(ReadIn(cols), o)
         /\ \A o, p : Done(cols, <<o, p>>) = Do(Do(ReadIn(cols), o), p)
         /\ \A o, p, q : Done(cols, <<o, p, q>>) = Do(Do(Do(ReadIn(cols), o), p), q)
<1>1. Done(cols, <<>>) = ReadIn(cols)
  BY DoneIs DEF DoneBy
<1>2. ASSUME NEW o PROVE Done(cols, <<o>>) = Do(ReadIn(cols), o)
  BY DoneIs DEF DoneBy
<1>3. ASSUME NEW o, NEW p PROVE Done(cols, <<o, p>>) = Do(Do(ReadIn(cols), o), p)
  BY DoneIs DEF DoneBy
<1>4. ASSUME NEW o, NEW p, NEW q PROVE Done(cols, <<o, p, q>>) = Do(Do(Do(ReadIn(cols), o), p), q)
  <2> DEFINE ops == <<o, p, q>>
  <2>1. Len(ops) = 3 /\ Len(ops) \in 0..3 /\ ops[1] = o /\ ops[2] = p /\ ops[3] = q
    OBVIOUS
  <2> HIDE DEF ops
  <2>2. PICK h : DoneBy(h, cols, ops)
    BY <2>1, DoneIs
  <2>3. h[1] = Do(h[0], ops[1]) /\ h[2] = Do(h[1], ops[2]) /\ h[3] = Do(h[2], ops[3])
    <3>1. \A k \in 1..3 : h[k] = Do(h[k - 1], ops[k])
      BY <2>1, <2>2 DEF DoneBy
    <3>2. 1 \in 1..3 /\ 1 - 1 = 0 /\ 2 \in 1..3 /\ 2 - 1 = 1 /\ 3 \in 1..3 /\ 3 - 1 = 2
      OBVIOUS
    <3>3. h[1] = Do(h[1 - 1], ops[1]) /\ h[2] = Do(h[2 - 1], ops[2]) /\ h[3] = Do(h[3 - 1], ops[3])
      BY <3>1, <3>2
    <3> QED
      BY <3>2, <3>3
  <2> QED
    BY <2>1, <2>2, <2>3 DEF ops, DoneBy
<1> QED
  BY <1>1, <1>2, <1>3, <1>4

(* Never more than two columns are lost.                                    *)
Few(cols) == \E x, y : cols \in {{}, {x}, {x, y}}

(* Sets of none, one and two.                                               *)
LEMMA CardFew ==
  /\ Cardinality({}) = 0 /\ \A x : Cardinality({x}) = 1
  /\ \A x, y : x # y => Cardinality({x, y}) = 2
<1>1. Cardinality({}) = 0 /\ \A x : Cardinality({x}) = 1 /\ IsFiniteSet({x})
  BY FS_EmptySet, FS_Singleton
<1>2. ASSUME NEW x, NEW y, x # y PROVE Cardinality({x, y}) = 2
  <2> DEFINE s == {x}
  <2>1. IsFiniteSet(s) /\ Cardinality(s) = 1 /\ y \notin s /\ s \cup {y} = {x, y}
    BY <1>1, <1>2
  <2> HIDE DEF s
  <2>2. Cardinality(s \cup {y}) = 1 + 1
    BY <2>1, FS_AddElement
  <2> QED
    BY <2>1, <2>2
<1> QED
  BY <1>1, <1>2

Coded(c) ==
  /\ disk \in Buffers(N) /\ Few(lost) /\ lost \subseteq 0..N-1
  /\ bad \subseteq {PD, QD} \ lost
  /\ PD \in bad => lost \cap Data = {}
  /\ bad # {} => CanCheck
  /\ Fits(disk, c, N, Valid \ bad)
  /\ \A p \in bad : disk[p] # Word(c, N)[p]

(* The buffers after the reads.                                             *)
LEMMA ReadInIs ==
  ASSUME Rows, disk \in Buffers(N), NEW cols
  PROVE  /\ ReadIn(cols) \in Handles /\ ReadIn(cols).locked = {} /\ ReadIn(cols).error = {}
         /\ \A i \in cols \cap (0..N-1) : ReadIn(cols).srcs[i] = disk[i]
<1> DEFINE srcs == [i \in 0..N-1 |-> IF i \in cols THEN disk[i] ELSE Stale]
<1>1. Stale \in Block
  BY DEF Stale, Block, Register
<1>2. srcs \in Buffers(N)
  <2>1. \A i \in 0..N-1 : disk[i] \in Block
    BY DEF Buffers
  <2> HIDE DEF Block
  <2> QED
    BY <1>1, <2>1 DEF Buffers
<1>3. \A i \in cols \cap (0..N-1) : srcs[i] = disk[i]
  OBVIOUS
<1> HIDE DEF srcs
<1>4. ReadIn(cols) = [srcs |-> srcs, locked |-> {}, error |-> {}]
  BY DEF ReadIn, srcs
<1> QED
  BY <1>2, <1>3, <1>4 DEF Handles

(* The data columns that are lost, and how they are computed.               *)
RebuildsBy ==
  \/ lost \cap Data = {} /\ Rebuilt = <<>>
  \/ \E a \in Data : lost = {a, PD} /\ Rebuilt = <<Op("dp", {a})>>
  \/ \E a \in Data : a \in lost /\ lost \subseteq {a, QD} /\ Rebuilt = <<Op("d", {a})>>
  \/ \E b \in Data, a \in Data : a < b /\ lost = {a, b} /\ Rebuilt = <<Op("dd", {a, b})>>

(* Which operation computes the data columns that are lost, by what is      *)
(* lost.                                                                    *)
LEMMA RebuiltCases ==
  ASSUME Rows, Few(lost), lost \subseteq 0..N-1
  PROVE  RebuildsBy
<1> DEFINE d == lost \cap Data
<1>1. /\ 0..N-1 = Data \cup {PD, QD} /\ PD \notin Data /\ QD \notin Data /\ PD # QD
      /\ \A i \in Data : i \in Nat
  BY Columns DEF Rows
<1>2. \/ Cardinality(d) = 2 /\ Rebuilt = <<Op("dd", d)>>
      \/ Cardinality(d) = 1 /\ PD \in lost /\ Rebuilt = <<Op("dp", d)>>
      \/ Cardinality(d) = 1 /\ PD \notin lost /\ Rebuilt = <<Op("d", d)>>
      \/ Cardinality(d) # 2 /\ Cardinality(d) # 1 /\ Rebuilt = <<>>
  <2> DEFINE k == Cardinality(d)
             none == <<>>
  <2>1. Rebuilt = CASE k = 2 -> <<Op("dd", d)>>
                    [] k = 1 /\ PD \in lost -> <<Op("dp", d)>>
                    [] k = 1 /\ PD \notin lost -> <<Op("d", d)>>
                    [] OTHER -> none
    BY DEF Rebuilt
  <2> HIDE DEF k, d, none
  <2>2. \/ k = 2 /\ Rebuilt = <<Op("dd", d)>>
        \/ k = 1 /\ PD \in lost /\ Rebuilt = <<Op("dp", d)>>
        \/ k = 1 /\ PD \notin lost /\ Rebuilt = <<Op("d", d)>>
        \/ k # 2 /\ k # 1 /\ Rebuilt = none
    BY <2>1
  <2> QED
    BY <2>2 DEF k, none
<1>3. PICK x, y : lost \in {{}, {x}, {x, y}}
  BY DEF Few
<1>4. CASE d = {}
  BY <1>2, <1>4, CardFew DEF RebuildsBy
<1>5. CASE \E a, b : a # b /\ d = {a, b}
  <2>1. PICK a, b : a # b /\ d = {a, b}
    BY <1>5
  <2>2. a \in Data /\ b \in Data /\ lost = {a, b}
    <3>1. a \in d /\ b \in d
      BY <2>1
    <3> QED
      BY <1>3, <2>1, <3>1
  <2>3. Cardinality(d) = 2
    <3> DEFINE e == {a, b}
    <3>1. Cardinality(e) = 2 /\ d = e
      BY <2>1, CardFew
    <3> HIDE DEF e, d
    <3> QED
      BY <3>1
  <2>4. Rebuilt = <<Op("dd", d)>>
    BY <1>2, <2>3
  <2>5. a < b \/ b < a
    BY <1>1, <2>1, <2>2
  <2>6. {a, b} = {b, a}
    OBVIOUS
  <2> HIDE DEF d
  <2> QED
    BY <2>1, <2>2, <2>4, <2>5, <2>6 DEF RebuildsBy
<1>6. CASE \E a : d = {a}
  <2>1. PICK a : d = {a}
    BY <1>6
  <2>2. a \in Data /\ a \in lost
    BY <2>1
  <2>3. Cardinality(d) = 1
    BY <2>1, CardFew
  <2>4. PD \in lost => lost = {a, PD} /\ Rebuilt = <<Op("dp", {a})>>
    BY <1>1, <1>2, <1>3, <2>1, <2>2, <2>3
  <2>5. PD \notin lost => lost \subseteq {a, QD} /\ Rebuilt = <<Op("d", {a})>>
    BY <1>1, <1>2, <2>1, <2>3
  <2> QED
    BY <2>2, <2>4, <2>5 DEF RebuildsBy
<1>7. d = {} \/ (\E a, b : a # b /\ d = {a, b}) \/ (\E a : d = {a})
  <2>1. \A z \in d : z = x \/ z = y
    BY <1>3
  <2> HIDE DEF d
  <2>2. CASE x \in d /\ y \in d /\ x # y
    <3>1. d = {x, y}
      BY <2>1, <2>2
    <3> QED
      BY <2>2, <3>1
  <2>3. CASE x \in d /\ (y \notin d \/ x = y)
    <3>1. d = {x}
      BY <2>1, <2>3
    <3> QED
      BY <3>1
  <2>4. CASE x \notin d /\ y \in d
    <3>1. d = {y}
      BY <2>1, <2>4
    <3> QED
      BY <3>1
  <2>5. CASE x \notin d /\ y \notin d
    BY <2>1, <2>5
  <2> QED
    BY <2>2, <2>3, <2>4, <2>5
<1> QED
  BY <1>4, <1>5, <1>6, <1>7

Begun(sh, c) ==
  /\ sh \in Handles /\ sh.error = {} /\ \A i \in Valid : sh.srcs[i] = disk[i]
  /\ sh.locked = IF lost \cap Data = {} THEN {} ELSE lost \ {QD}
  /\ Fits(sh.srcs, c, N, Data) /\ Fits(sh.srcs, c, N, sh.locked)

(* After it the buffers fit the data, lost columns included.                *)
LEMMA RebuiltDone ==
  ASSUME Rows, NEW c \in Buffers(N - 2), Coded(c)
  PROVE  Begun(Done(Valid, Rebuilt), c)
<1> SUFFICES ASSUME NEW sh, sh = Done(Valid, Rebuilt) PROVE Begun(sh, c)
  OBVIOUS
<1> DEFINE s0 == ReadIn(Valid)
           word == Word(c, N)
<1>1. /\ 0..N-1 = Data \cup {PD, QD} /\ PD \notin Data /\ QD \notin Data /\ PD # QD /\ 0..PD = Data \cup {PD}
      /\ N \in 3..MaxData+2 /\ \A i \in Data : i \in Nat
  BY Columns DEF Rows
<1>2. /\ s0 \in Handles /\ s0.locked = {} /\ s0.error = {} /\ \A i \in Valid : s0.srcs[i] = disk[i]
  <2>1. Valid \cap (0..N-1) = Valid /\ disk \in Buffers(N)
    BY DEF Valid, Coded
  <2> DEFINE cols == Valid
  <2> HIDE DEF cols
  <2>2. /\ ReadIn(cols) \in Handles /\ ReadIn(cols).locked = {} /\ ReadIn(cols).error = {}
        /\ \A i \in cols \cap (0..N-1) : ReadIn(cols).srcs[i] = disk[i]
    BY <2>1, ReadInIs
  <2> QED
    BY <2>1, <2>2 DEF cols
<1> HIDE DEF s0
<1>3. \A i \in Valid \ bad : s0.srcs[i] = word[i]
  BY <1>2 DEF Coded, Fits
<1>4. s0.srcs \in Buffers(N) /\ DOMAIN s0.srcs = 0..N-1
  BY <1>2 DEF Handles, Buffers
<1>5. \A i \in Data : word[i] = c[i] /\ word[PD] = SumP(c, N - 2)
  BY <1>1, WordIs
<1>6. lost \subseteq 0..N-1 /\ bad \subseteq {PD, QD} \ lost /\ (bad # {} => Cardinality(lost) <= 1)
      /\ (PD \in bad => lost \cap Data = {}) /\ Few(lost)
  BY DEF Coded, CanCheck
<1>7. CASE lost \cap Data = {} /\ Rebuilt = <<>>
  <2>1. sh = s0
    BY <1>7, DoneShort DEF s0
  <2>2. Fits(s0.srcs, c, N, Data)
    BY <1>1, <1>3, <1>6, <1>7 DEF Fits, Valid
  <2>3. Fits(s0.srcs, c, N, s0.locked)
    BY <1>2 DEF Fits
  <2> QED
    BY <1>2, <1>7, <2>1, <2>2, <2>3 DEF Begun
<1>8. ASSUME NEW a \in Data, lost = {a, PD}, Rebuilt = <<Op("dp", {a})>>
      PROVE  Begun(sh, c)
  <2>1. sh = raid6_generate_dp(s0, a)
    <3> DEFINE cols == {a}
    <3>1. Lowest(cols) = a
      BY <1>1, LowestHighest
    <3> HIDE DEF cols
    <3>2. sh = Do(s0, Op("dp", cols))
      BY <1>8, DoneShort DEF s0, cols
    <3> QED
      BY <3>1, <3>2, DoEach
  <2>2. bad = {}
    <3> DEFINE x == PD
               e == {a, x}
    <3>1. a # x
      BY <1>1
    <3> HIDE DEF x
    <3>2. Cardinality(e) = 2
      BY <3>1, CardFew
    <3> HIDE DEF e
    <3>3. lost = e
      BY <1>8 DEF e, x
    <3> QED
      BY <1>6, <3>2, <3>3
  <2>3. Fits(s0.srcs, c, N, (0..N-1) \ {a, PD})
    BY <1>3, <1>8, <2>2 DEF Fits, Valid
  <2>4. Makes(sh, s0, c, {a, PD})
    BY <1>2, <2>1, <2>3, OneGenerated
  <2>6. \A i \in 0..N-1 : sh.srcs[i] = word[i]
    BY <2>3, <2>4 DEF Fits, Makes
  <2>7. \A i \in Valid : sh.srcs[i] = disk[i]
    BY <1>2, <1>3, <2>2, <2>6 DEF Valid
  <2>8. sh.locked = {a, PD} /\ lost \cap Data # {} /\ lost \ {QD} = {a, PD}
    BY <1>1, <1>2, <1>8, <2>4 DEF Makes
  <2>9. Fits(sh.srcs, c, N, Data) /\ Fits(sh.srcs, c, N, sh.locked)
    BY <1>1, <2>6, <2>8 DEF Fits
  <2> QED
    BY <1>2, <2>4, <2>7, <2>8, <2>9 DEF Begun, Makes
<1>9. ASSUME NEW a \in Data, a \in lost, lost \subseteq {a, QD}, Rebuilt = <<Op("d", {a})>>
      PROVE  Begun(sh, c)
  <2>1. sh = raid5_generate_d(s0, a)
    <3> DEFINE cols == {a}
    <3>1. Lowest(cols) = a
      BY <1>1, LowestHighest
    <3> HIDE DEF cols
    <3>2. sh = Do(s0, Op("d", cols))
      BY <1>9, DoneShort DEF s0, cols
    <3> QED
      BY <3>1, <3>2, DoEach
  <2>2. PD \notin bad /\ PD \notin lost
    BY <1>1, <1>6, <1>9
  <2>3. Fits(s0.srcs, c, N, (0..PD) \ {a})
    BY <1>1, <1>3, <1>6, <1>9, <2>2 DEF Fits, Valid
  <2>4. Makes(sh, s0, c, {a})
    <3>1. a \in 0..PD
      BY <1>1
    <3> QED
      BY <1>2, <2>1, <2>3, <3>1, DGenerated
  <2>6. \A i \in Data : sh.srcs[i] = word[i]
    BY <1>1, <2>3, <2>4 DEF Fits, Makes
  <2>7. \A i \in Valid : sh.srcs[i] = disk[i]
    BY <1>2, <1>9, <2>4 DEF Valid, Makes
  <2>8. sh.locked = {a} /\ lost \cap Data # {} /\ lost \ {QD} = {a}
    BY <1>1, <1>2, <1>9, <2>4 DEF Makes
  <2>9. Fits(sh.srcs, c, N, Data) /\ Fits(sh.srcs, c, N, sh.locked)
    BY <2>6, <2>8 DEF Fits
  <2> QED
    BY <1>2, <2>4, <2>7, <2>8, <2>9 DEF Begun, Makes
<1>10. ASSUME NEW b \in Data, NEW a \in Data, a < b, lost = {a, b}, Rebuilt = <<Op("dd", {a, b})>>
       PROVE  Begun(sh, c)
  <2>1. sh = raid6_generate_dd(s0, a, b)
    <3> DEFINE cols == {a, b}
    <3>1. Lowest(cols) = a /\ Highest(cols) = b
      BY <1>1, <1>10, LowestHighest
    <3> HIDE DEF cols
    <3>2. sh = Do(s0, Op("dd", cols))
      BY <1>10, DoneShort DEF s0, cols
    <3> QED
      BY <3>1, <3>2, DoEach
  <2>2. bad = {}
    <3> DEFINE e == {a, b}
    <3>1. a # b
      BY <1>1, <1>10
    <3>2. Cardinality(e) = 2
      BY <3>1, CardFew
    <3> HIDE DEF e
    <3>3. lost = e
      BY <1>10 DEF e
    <3> QED
      BY <1>6, <3>2, <3>3
  <2>3. Fits(s0.srcs, c, N, (0..N-1) \ {a, b})
    BY <1>3, <1>10, <2>2 DEF Fits, Valid
  <2>4. Makes(sh, s0, c, {a, b})
    <3>1. a \in 0..b-1
      BY <1>1, <1>10
    <3> QED
      BY <1>2, <2>1, <2>3, <3>1, TwoGenerated
  <2>6. \A i \in 0..N-1 : sh.srcs[i] = word[i]
    BY <2>3, <2>4 DEF Fits, Makes
  <2>7. \A i \in Valid : sh.srcs[i] = disk[i]
    BY <1>2, <1>3, <2>2, <2>6 DEF Valid
  <2>8. sh.locked = {a, b} /\ lost \cap Data # {} /\ lost \ {QD} = {a, b}
    BY <1>1, <1>2, <1>10, <2>4 DEF Makes
  <2>9. Fits(sh.srcs, c, N, Data) /\ Fits(sh.srcs, c, N, sh.locked)
    BY <1>1, <2>6, <2>8 DEF Fits
  <2> QED
    BY <1>2, <2>4, <2>7, <2>8, <2>9 DEF Begun, Makes
<1>11. RebuildsBy
  BY <1>6, RebuiltCases
<1> QED
  BY <1>7, <1>8, <1>9, <1>10, <1>11 DEF RebuildsBy

(* Short sequences put together.                                            *)
LEMMA Joined ==
  ASSUME NEW o, NEW p, NEW q
  PROVE  /\ <<>> \o <<o>> = <<o>> /\ <<o>> \o <<>> = <<o>> /\ <<o>> \o <<p>> = <<o, p>>
         /\ <<o, p>> \o <<>> = <<o, p>> /\ <<o, p>> \o <<q>> = <<o, p, q>>
<1>1. <<>> \o <<o>> = <<o>> /\ <<o>> \o <<>> = <<o>>
  OBVIOUS
<1> DEFINE S == {o, p, q}
           one == <<o>>
           two == <<o, p>>
           three == <<o, p, q>>
           last == <<p>>
           end == <<q>>
<1>4. /\ one \in Seq(S) /\ two \in Seq(S) /\ three \in Seq(S) /\ last \in Seq(S) /\ end \in Seq(S)
      /\ Len(one) = 1 /\ Len(two) = 2 /\ Len(three) = 3 /\ Len(last) = 1 /\ Len(end) = 1
      /\ one[1] = o /\ two[1] = o /\ two[2] = p /\ three[1] = o /\ three[2] = p /\ three[3] = q
      /\ last[1] = p /\ end[1] = q
  OBVIOUS
<1> HIDE DEF S, one, two, three, last, end
<1>5. ASSUME NEW s \in Seq(S), NEW t \in Seq(S), NEW u \in Seq(S), Len(s) \in Nat, Len(t) \in Nat, Len(u) \in Nat,
             Len(u) = Len(s) + Len(t),
             \A i \in 1..Len(u) : u[i] = IF i <= Len(s) THEN s[i] ELSE t[i - Len(s)]
      PROVE  s \o t = u
  <2> DEFINE v == s \o t
  <2>1. v \in Seq(S) /\ Len(v) = Len(u) /\ \A i \in 1..Len(v) : v[i] = u[i]
    <3>1. /\ s \o t \in Seq(S) /\ Len(s \o t) = Len(s) + Len(t)
          /\ \A i \in 1..Len(s) + Len(t) : (s \o t)[i] = IF i <= Len(s) THEN s[i] ELSE t[i - Len(s)]
      BY ConcatProperties
    <3> QED
      BY <1>5, <3>1
  <2> HIDE DEF v
  <2>2. v = u
    BY <2>1, SeqEqual
  <2> QED
    BY <2>2 DEF v
<1>2. <<o>> \o <<p>> = <<o, p>>
  <2>1. one \o last = two
    <3>1. 1 - 0 = 1 /\ 2 - 1 = 1 /\ 1..2 = {1, 2}
      OBVIOUS
    <3>2. \A i \in 1..Len(two) : two[i] = IF i <= Len(one) THEN one[i] ELSE last[i - Len(one)]
      BY <1>4, <3>1
    <3>3. Len(two) = Len(one) + Len(last) /\ Len(one) \in Nat /\ Len(last) \in Nat /\ Len(two) \in Nat
      BY <1>4
    <3> QED
      BY <1>4, <1>5, <3>2, <3>3
  <2> QED
    BY <2>1 DEF one, last, two
<1>3. <<o, p>> \o <<>> = <<o, p>> /\ <<o, p>> \o <<q>> = <<o, p, q>>
  <2>1. two \o end = three
    <3>1. 3 - 2 = 1 /\ 1..3 = {1, 2, 3}
      OBVIOUS
    <3>2. \A i \in 1..Len(three) : three[i] = IF i <= Len(two) THEN two[i] ELSE end[i - Len(two)]
      BY <1>4, <3>1
    <3>3. Len(three) = Len(two) + Len(end) /\ Len(two) \in Nat /\ Len(end) \in Nat /\ Len(three) \in Nat
      BY <1>4
    <3> QED
      BY <1>4, <1>5, <3>2, <3>3
  <2>2. two \o <<>> = two
    BY <1>4, ConcatEmptySeq
  <2> QED
    BY <2>1, <2>2 DEF two, end, three
<1> QED
  BY <1>1, <1>2, <1>3

(* No operation, or one.                                                    *)
AtMostOne(ops) == ops = <<>> \/ \E o : ops = <<o>>
Then(sh, ops) == IF ops = <<>> THEN sh ELSE Do(sh, ops[1])

(* Operations in three parts: at most one, one, at most one.                *)
LEMMA DoneThen ==
  ASSUME NEW cols, NEW pre, AtMostOne(pre), NEW post, AtMostOne(post)
  PROVE  /\ Done(cols, pre) = Then(ReadIn(cols), pre)
         /\ Done(cols, pre \o post) = Then(Done(cols, pre), post)
         /\ \A o : Done(cols, pre \o <<o>> \o post) = Then(Do(Done(cols, pre), o), post)
<1> SUFFICES ASSUME NEW o
             PROVE  /\ Done(cols, pre) = Then(ReadIn(cols), pre)
                    /\ Done(cols, pre \o post) = Then(Done(cols, pre), post)
                    /\ Done(cols, pre \o <<o>> \o post) = Then(Do(Done(cols, pre), o), post)
  OBVIOUS
<1> DEFINE s0 == ReadIn(cols)
<1>1. ASSUME NEW x PROVE <<x>> # <<>> /\ Then(x, <<>>) = x /\ \A sh : Then(sh, <<x>>) = Do(sh, x)
  BY DEF Then
<1>2. ASSUME NEW sh PROVE Then(sh, <<>>) = sh
  BY DEF Then
<1>3. CASE pre = <<>> /\ post = <<>>
  <2>1. pre \o post = <<>> /\ pre \o <<o>> \o post = <<o>>
    BY <1>3, Joined
  <2>2. Done(cols, <<>>) = s0 /\ Done(cols, <<o>>) = Do(s0, o)
    BY DoneShort
  <2> QED
    BY <1>2, <1>3, <2>1, <2>2
<1>4. ASSUME NEW x, pre = <<x>>, post = <<>>
      PROVE  /\ Done(cols, pre) = Then(s0, pre)
             /\ Done(cols, pre \o post) = Then(Done(cols, pre), post)
             /\ Done(cols, pre \o <<o>> \o post) = Then(Do(Done(cols, pre), o), post)
  <2>1. pre \o post = <<x>> /\ pre \o <<o>> \o post = <<x, o>>
    BY <1>4, Joined
  <2>2. Done(cols, <<x>>) = Do(s0, x) /\ Done(cols, <<x, o>>) = Do(Do(s0, x), o)
    BY DoneShort
  <2> QED
    BY <1>1, <1>2, <1>4, <2>1, <2>2
<1>5. ASSUME NEW y, pre = <<>>, post = <<y>>
      PROVE  /\ Done(cols, pre) = Then(s0, pre)
             /\ Done(cols, pre \o post) = Then(Done(cols, pre), post)
             /\ Done(cols, pre \o <<o>> \o post) = Then(Do(Done(cols, pre), o), post)
  <2>1. pre \o post = <<y>> /\ pre \o <<o>> \o post = <<o, y>>
    BY <1>5, Joined
  <2>2. Done(cols, <<>>) = s0 /\ Done(cols, <<y>>) = Do(s0, y) /\ Done(cols, <<o, y>>) = Do(Do(s0, o), y)
    BY DoneShort
  <2>3. Done(cols, pre) = Then(s0, pre)
    BY <1>2, <1>5, <2>2
  <2>4. Done(cols, pre \o post) = Then(Done(cols, pre), post)
    BY <1>1, <1>5, <2>1, <2>2
  <2>5. Done(cols, pre \o <<o>> \o post) = Then(Do(Done(cols, pre), o), post)
    BY <1>1, <1>5, <2>1, <2>2
  <2> QED
    BY <2>3, <2>4, <2>5
<1>6. ASSUME NEW x, NEW y, pre = <<x>>, post = <<y>>
      PROVE  /\ Done(cols, pre) = Then(s0, pre)
             /\ Done(cols, pre \o post) = Then(Done(cols, pre), post)
             /\ Done(cols, pre \o <<o>> \o post) = Then(Do(Done(cols, pre), o), post)
  <2>1. pre \o post = <<x, y>> /\ pre \o <<o>> \o post = <<x, o, y>>
    BY <1>6, Joined
  <2>2. Done(cols, <<x>>) = Do(s0, x) /\ Done(cols, <<x, y>>) = Do(Do(s0, x), y)
        /\ Done(cols, <<x, o, y>>) = Do(Do(Do(s0, x), o), y)
    BY DoneShort
  <2>3. Done(cols, pre) = Then(s0, pre)
    BY <1>1, <1>6, <2>2
  <2>4. Done(cols, pre \o post) = Then(Done(cols, pre), post)
    BY <1>1, <1>6, <2>1, <2>2
  <2>5. Done(cols, pre \o <<o>> \o post) = Then(Do(Done(cols, pre), o), post)
    BY <1>1, <1>6, <2>1, <2>2
  <2> QED
    BY <2>3, <2>4, <2>5
<1> QED
  BY <1>3, <1>4, <1>5, <1>6 DEF AtMostOne

(* The parities of the disks that are there, after the data.                *)
ReencodesBy ==
  \/ {PD, QD} \subseteq lost /\ Reconstructed = <<>>
  \/ QD \in lost /\ PD \notin lost /\ Reconstructed = <<Op("d", {PD})>>
  \/ PD \in lost /\ QD \notin lost /\ Reconstructed = <<Op("pq", {QD})>>
  \/ QD \notin lost /\ Reconstructed = <<Op("pq", {PD, QD})>>

(* Which operation makes the parities, by what is lost.                     *)
LEMMA ReconstructedCases ==
  ReencodesBy /\ AtMostOne(Reconstructed)
<1>1. \/ {PD, QD} \subseteq lost /\ Reconstructed = <<>>
      \/ QD \in lost /\ PD \notin lost /\ Reconstructed = raid5_generate_p
      \/ PD \in lost /\ QD \notin lost /\ Reconstructed = raid6_generate_q
      \/ QD \notin lost /\ Reconstructed = <<Op("pq", {PD, QD})>>
  BY DEF Reconstructed
<1>2. raid5_generate_p = <<Op("d", {PD})>> /\ raid6_generate_q = <<Op("pq", {QD})>>
  BY DEF raid5_generate_p, raid6_generate_q
<1>3. ReencodesBy
  BY <1>1, <1>2 DEF ReencodesBy
<1> QED
  BY <1>3 DEF ReencodesBy, AtMostOne

Reencoded(r, sh, c) ==
  /\ r \in Handles /\ r.error = sh.error
  /\ sh.locked \cup ({PD, QD} \ lost) \subseteq r.locked
  /\ r.locked \subseteq sh.locked \cup {PD, QD}
  /\ Fits(r.srcs, c, N, Data \cup ({PD, QD} \ lost))

(* It makes those of the disks that are there.                              *)
LEMMA ReconstructedThen ==
  ASSUME Rows, NEW sh \in Handles, NEW c \in Buffers(N - 2), Fits(sh.srcs, c, N, Data)
  PROVE  Reencoded(Then(sh, Reconstructed), sh, c)
<1> SUFFICES ASSUME NEW r, r = Then(sh, Reconstructed) PROVE Reencoded(r, sh, c)
  OBVIOUS
<1>1. /\ 0..N-1 = Data \cup {PD, QD} /\ PD \notin Data /\ QD \notin Data /\ PD # QD /\ 0..PD = Data \cup {PD}
      /\ N \in 3..MaxData+2 /\ PD \in Int /\ Data \subseteq 0..N-1
  BY Columns DEF Rows
<1>2. \A o : Then(sh, <<o>>) = Do(sh, o) /\ Then(sh, <<>>) = sh
  BY DEF Then
<1>3. CASE {PD, QD} \subseteq lost /\ Reconstructed = <<>>
  <2>1. r = sh
    BY <1>2, <1>3
  <2>2. {PD, QD} \ lost = {}
    BY <1>3
  <2> QED
    BY <2>1, <2>2 DEF Reencoded
<1>4. CASE QD \in lost /\ PD \notin lost /\ Reconstructed = <<Op("d", {PD})>>
  <2>1. r = raid5_generate_d(sh, PD)
    <3> DEFINE cols == {PD}
    <3>1. Lowest(cols) = PD
      BY <1>1, LowestHighest
    <3> HIDE DEF cols
    <3>2. r = Do(sh, Op("d", cols))
      BY <1>2, <1>4 DEF cols
    <3> QED
      BY <3>1, <3>2, DoEach
  <2>2. Makes(r, sh, c, {PD})
    <3>1. Fits(sh.srcs, c, N, (0..PD) \ {PD}) /\ PD \in 0..PD
      BY <1>1 DEF Fits
    <3> QED
      BY <2>1, <3>1, DGenerated
  <2>3. {PD, QD} \ lost = {PD}
    BY <1>4
  <2>4. Fits(r.srcs, c, N, Data \cup {PD})
    BY <1>1, <2>2 DEF Fits, Makes
  <2> QED
    BY <2>2, <2>3, <2>4 DEF Reencoded, Makes
<1>5. ASSUME NEW cols \in SUBSET {PD, QD}, Reconstructed = <<Op("pq", cols)>>, {PD, QD} \ lost \subseteq cols
      PROVE  Reencoded(r, sh, c)
  <2>1. r = raid6_generate_pq(sh, cols)
    BY <1>2, <1>5, DoEach
  <2>2. r \in Handles /\ r.locked = sh.locked \cup cols /\ r.error = sh.error
        /\ Fits(r.srcs, c, N, Data \cup cols)
    BY <2>1, PQGenerated
  <2>3. Fits(r.srcs, c, N, Data \cup ({PD, QD} \ lost))
    BY <1>5, <2>2 DEF Fits
  <2> QED
    BY <1>5, <2>2, <2>3 DEF Reencoded
<1>6. CASE PD \in lost /\ QD \notin lost /\ Reconstructed = <<Op("pq", {QD})>>
  <2> DEFINE cols == {QD}
  <2>1. cols \in SUBSET {PD, QD} /\ {PD, QD} \ lost \subseteq cols /\ Reconstructed = <<Op("pq", cols)>>
    BY <1>6
  <2> HIDE DEF cols
  <2> QED
    BY <1>5, <2>1
<1>7. CASE QD \notin lost /\ Reconstructed = <<Op("pq", {PD, QD})>>
  <2> DEFINE cols == {PD, QD}
  <2>1. cols \in SUBSET {PD, QD} /\ {PD, QD} \ lost \subseteq cols /\ Reconstructed = <<Op("pq", cols)>>
    BY <1>7
  <2> HIDE DEF cols
  <2> QED
    BY <1>5, <2>1
<1> QED
  BY <1>3, <1>4, <1>6, <1>7, ReconstructedCases DEF ReencodesBy

-----------------------------------------------------------------------------
(* What an operation leaves on the disks.                                   *)
Updates(sh, disabled, c) ==
  /\ sh \in Handles
  /\ \A j \in (0..N-1) \ disabled : (IF j \in sh.locked THEN sh.srcs[j] ELSE disk[j]) = Word(c, N)[j]

(* When what is locked fits, the disks fit after schedule_writes().         *)
LEMMA WrittenOutFits ==
  ASSUME Rows, disk \in Buffers(N), NEW sh, NEW disabled, NEW c, Updates(sh, disabled, c)
  PROVE  /\ WrittenOut(sh, disabled) \in Buffers(N)
         /\ Fits(WrittenOut(sh, disabled), c, N, (0..N-1) \ disabled)
<1> DEFINE out == WrittenOut(sh, disabled)
           srcs == sh.srcs
<1>1. out = [j \in 0..N-1 |-> IF j \in sh.locked \ disabled THEN srcs[j] ELSE disk[j]]
  BY DEF WrittenOut
<1>2. srcs \in Buffers(N)
  BY DEF Updates, Handles
<1> HIDE DEF out, srcs
<1>3. out \in Buffers(N)
  <2>1. \A j \in 0..N-1 : srcs[j] \in Block /\ disk[j] \in Block
    BY <1>2 DEF Buffers
  <2> HIDE DEF Block
  <2> QED
    BY <1>1, <2>1 DEF Buffers
<1>4. Fits(out, c, N, (0..N-1) \ disabled)
  BY <1>1 DEF Fits, Updates, srcs
<1> QED
  BY <1>3, <1>4 DEF out

(* A read-modify-write leaves the new data and its parities.                *)
LEMMA ModifyUpdates ==
  ASSUME Rows, NEW c \in Buffers(N - 2), Coded(c), bad = {}, NEW i \in Data, NEW v, Contents(i, v) \in Block,
         i \notin lost, ~ ({PD, QD} \subseteq lost)
  PROVE  LET todo == Modify(i, v)
         IN  Updates(Done(todo.cols, todo.ops), lost, [c EXCEPT ![i] = Contents(i, v)])
<1> DEFINE block == Contents(i, v)
           d == [c EXCEPT ![i] = block]
<1>1. /\ 0..N-1 = Data \cup {PD, QD} /\ PD \notin Data /\ QD \notin Data /\ PD # QD
      /\ N \in 3..MaxData+2 /\ i \in Int /\ i \in 0..N-1
  BY Columns DEF Rows
<1>2. disk \in Buffers(N) /\ \A j \in Valid : disk[j] = Word(c, N)[j]
  BY DEF Coded, Fits
<1>3. \A j \in Data \ {i} : Word(d, N)[j] = Word(c, N)[j]
  BY WordMoves
<1>4. CASE QD \in lost
  <2> DEFINE cols == {i, PD}
             s0 == ReadIn(cols)
             r == rmw5_write_data(s0, i, block)
  <2>1. Modify(i, v).cols = cols /\ Modify(i, v).ops = <<WriteOp("rmw5", i, v)>>
    BY <1>4 DEF Modify
  <2>2. cols \subseteq Valid /\ cols \cap (0..N-1) = cols
    BY <1>1, <1>4 DEF Valid
  <2> HIDE DEF cols
  <2>3. s0 \in Handles /\ s0.locked = {} /\ s0.error = {} /\ \A j \in cols : s0.srcs[j] = disk[j]
    BY <1>2, <2>2, ReadInIs
  <2>4. Done(cols, <<WriteOp("rmw5", i, v)>>) = r
    BY <1>1, DoneShort, DoWrites
  <2> HIDE DEF s0
  <2>5. Fits(s0.srcs, c, N, {i, PD})
    BY <1>2, <2>2, <2>3 DEF Fits, cols
  <2>6. r \in Handles /\ r.locked = s0.locked \cup {i, PD} /\ Fits(r.srcs, d, N, {i, PD})
    <3> HIDE DEF block
    <3>1. block \in Block
      BY DEF block
    <3>2. Moves(r, s0, c, i, block, {i, PD})
      BY <2>3, <2>5, <3>1, RmwFive
    <3> HIDE DEF r
    <3> QED
      BY <3>2 DEF Moves
  <2> HIDE DEF r, d
  <2>7. Updates(r, lost, d)
    <3>1. ASSUME NEW j \in (0..N-1) \ lost
          PROVE  (IF j \in r.locked THEN r.srcs[j] ELSE disk[j]) = Word(d, N)[j]
      <4>1. j \in Data \cup {PD} /\ j \in Valid
        BY <1>1, <1>4, <3>1 DEF Valid
      <4>2. CASE j \in {i, PD}
        BY <2>3, <2>6, <4>2 DEF Fits
      <4>3. CASE j \notin {i, PD}
        BY <1>2, <1>3, <2>3, <2>6, <4>1, <4>3
      <4> QED
        BY <4>2, <4>3
    <3> QED
      BY <2>6, <3>1 DEF Updates
  <2> QED
    BY <2>1, <2>4, <2>7 DEF d
<1>5. CASE QD \notin lost
  <2> DEFINE cols == {i, PD, QD} \ lost
             p == PD \notin lost
             s0 == ReadIn(cols)
             r == rmw6_write_data(s0, i, block, p)
  <2>1. Modify(i, v).cols = cols /\ Modify(i, v).ops = <<WriteOp("rmw6", i, v)>>
    BY <1>5 DEF Modify
  <2>2. cols \subseteq Valid /\ cols \cap (0..N-1) = cols /\ i \in cols /\ QD \in cols /\ (p => PD \in cols)
    BY <1>1, <1>5 DEF Valid
  <2> HIDE DEF cols
  <2>3. s0 \in Handles /\ s0.locked = {} /\ s0.error = {} /\ \A j \in cols : s0.srcs[j] = disk[j]
    BY <1>2, <2>2, ReadInIs
  <2>4. Done(cols, <<WriteOp("rmw6", i, v)>>) = r
    BY <1>1, DoneShort, DoWrites
  <2> HIDE DEF s0
  <2>5. Fits(s0.srcs, c, N, {i, QD}) /\ (p => Fits(s0.srcs, c, N, {PD}))
    BY <1>2, <2>2, <2>3 DEF Fits
  <2>6. /\ r \in Handles /\ r.locked = s0.locked \cup ({i, QD} \cup (IF p THEN {PD} ELSE {}))
        /\ Fits(r.srcs, d, N, {i, QD} \cup (IF p THEN {PD} ELSE {}))
    <3>1. block \in Block /\ p \in BOOLEAN
      OBVIOUS
    <3> HIDE DEF block, p
    <3>2. Moves(r, s0, c, i, block, {i, QD} \cup (IF p THEN {PD} ELSE {}))
      BY <2>3, <2>5, <3>1, RmwSix
    <3> HIDE DEF r
    <3> QED
      BY <3>2 DEF Moves
  <2> HIDE DEF r, d
  <2>7. Updates(r, lost, d)
    <3>1. ASSUME NEW j \in (0..N-1) \ lost
          PROVE  (IF j \in r.locked THEN r.srcs[j] ELSE disk[j]) = Word(d, N)[j]
      <4>1. j \in Data \cup {PD, QD} /\ j \in Valid /\ (j = PD => p)
        BY <1>1, <3>1 DEF Valid
      <4>2. CASE j \in {i, QD} \cup (IF p THEN {PD} ELSE {})
        BY <2>3, <2>6, <4>2 DEF Fits
      <4>3. CASE j \notin {i, QD} \cup (IF p THEN {PD} ELSE {})
        BY <1>2, <1>3, <2>3, <2>6, <4>1, <4>3
      <4> QED
        BY <4>2, <4>3
    <3> QED
      BY <2>6, <3>1 DEF Updates
  <2> QED
    BY <2>1, <2>4, <2>7 DEF d
<1> QED
  BY <1>4, <1>5

(* So do the copy of the new block and the parities after it.               *)
LEMMA CopyUpdates ==
  ASSUME Rows, NEW c \in Buffers(N - 2), Fits(disk, c, N, Valid), NEW i \in Data, NEW block \in Block,
         NEW s0 \in Handles, Fits(s0.srcs, c, N, Data \ {i})
  PROVE  Updates(Then(copy_write_data(s0, i, block), Reconstructed), lost, [c EXCEPT ![i] = block])
<1> DEFINE d == [c EXCEPT ![i] = block]
           s1 == copy_write_data(s0, i, block)
           r == Then(s1, Reconstructed)
<1>1. /\ 0..N-1 = Data \cup {PD, QD} /\ PD \notin Data /\ QD \notin Data /\ i \in 0..N-1
  BY Columns DEF Rows
<1>2. /\ s1 \in Handles /\ s1.locked = s0.locked \cup {i}
      /\ \A j \in 0..N-1 : s1.srcs[j] = IF j = i THEN block ELSE s0.srcs[j]
  <2>1. Rows /\ s0 \in Handles /\ i \in 0..N-1 /\ block \in Block
    BY <1>1
  <2>2. \A b \in Block :
           /\ copy_write_data(s0, i, b) \in Handles /\ copy_write_data(s0, i, b).locked = s0.locked \cup {i}
           /\ \A j \in 0..N-1 : copy_write_data(s0, i, b).srcs[j] = IF j = i THEN b ELSE s0.srcs[j]
    BY ONLY <2>1, Copied
  <2> QED
    BY ONLY <2>1, <2>2
<1>3. d \in Buffers(N - 2) /\ Word(d, N)[i] = block /\ \A j \in Data \ {i} : Word(d, N)[j] = Word(c, N)[j]
  <2>1. Rows /\ c \in Buffers(N - 2) /\ i \in Data /\ block \in Block
    OBVIOUS
  <2>2. Reworded(c, i, block)
    BY ONLY <2>1, WordRewords
  <2> QED
    BY ONLY <2>2 DEF Reworded
<1> HIDE DEF d, s1
<1>4. Fits(s1.srcs, d, N, Data)
  BY <1>1, <1>2, <1>3 DEF Fits
<1>5. Reencoded(r, s1, d)
  BY <1>2, <1>3, <1>4, ReconstructedThen
<1> HIDE DEF r
<1>6. ASSUME NEW j \in (0..N-1) \ lost
      PROVE  (IF j \in r.locked THEN r.srcs[j] ELSE disk[j]) = Word(d, N)[j]
  <2>1. CASE j \in r.locked
    <3>1. j \in Data \cup ({PD, QD} \ lost)
      BY <1>1, <1>6
    <3> QED
      BY <1>5, <2>1, <3>1 DEF Reencoded, Fits
  <2>2. CASE j \notin r.locked
    <3>1. j \in Data \ {i} /\ j \in Valid
      BY <1>1, <1>2, <1>5, <1>6, <2>2 DEF Reencoded, Valid
    <3> QED
      BY <1>3, <2>2, <3>1 DEF Fits
  <2> QED
    BY <2>1, <2>2
<1>7. Updates(r, lost, d)
  BY <1>5, <1>6 DEF Updates, Reencoded
<1> QED
  BY <1>7 DEF r, s1, d

(* So does a reconstruct-write, whatever is lost.                           *)
LEMMA ReconstructUpdates ==
  ASSUME Rows, NEW c \in Buffers(N - 2), Coded(c), bad = {}, NEW i \in Data, NEW v, Contents(i, v) \in Block
  PROVE  LET todo == Reconstruct(i, v)
         IN  Updates(Done(todo.cols, todo.ops), lost, [c EXCEPT ![i] = Contents(i, v)])
<1> DEFINE block == Contents(i, v)
           d == [c EXCEPT ![i] = block]
           o == WriteOp("copy", i, v)
           After(s) == Then(copy_write_data(s, i, block), Reconstructed)
<1>1. /\ 0..N-1 = Data \cup {PD, QD} /\ i \in Int /\ Data \subseteq 0..N-1
  BY Columns DEF Rows
<1>2. disk \in Buffers(N) /\ Fits(disk, c, N, Valid) /\ Few(lost) /\ lost \subseteq 0..N-1
  BY DEF Coded, Fits
<1>3. AtMostOne(Reconstructed) /\ AtMostOne(Rebuilt)
  <2>1. RebuildsBy
    BY <1>2, RebuiltCases
  <2>2. AtMostOne(Rebuilt)
    BY <2>1 DEF RebuildsBy, AtMostOne
  <2> QED
    BY <2>2, ReconstructedCases
<1>4. \A s : Do(s, o) = copy_write_data(s, i, block)
  BY <1>1, DoWrites
<1>5. ASSUME NEW s0 \in Handles, Fits(s0.srcs, c, N, Data \ {i})
      PROVE  Updates(After(s0), lost, d)
  <2>1. block \in Block
    OBVIOUS
  <2> HIDE DEF block
  <2> QED
    BY <1>2, <1>5, <2>1, CopyUpdates
<1>6. CASE lost \cap Data \subseteq {i} /\ Cardinality(lost) < 2
  <2> DEFINE cols == Data \ {i}
             s0 == ReadIn(cols)
  <2>1. Reconstruct(i, v).cols = cols /\ Reconstruct(i, v).ops = <<o>> \o Reconstructed
    BY <1>6 DEF Reconstruct
  <2>2. cols \subseteq Valid /\ cols \cap (0..N-1) = cols
    BY <1>1, <1>6 DEF Valid
  <2> HIDE DEF cols
  <2>3. s0 \in Handles /\ \A j \in cols : s0.srcs[j] = disk[j]
    BY <1>2, <2>2, ReadInIs
  <2>4. Done(cols, <<o>> \o Reconstructed) = After(s0)
    <3> DEFINE pre == <<o>>
    <3>1. AtMostOne(pre)
      BY DEF AtMostOne
    <3>2. Done(cols, pre) = Do(s0, o)
      BY DoneShort
    <3> HIDE DEF pre, o
    <3>3. Done(cols, pre \o Reconstructed) = Then(Done(cols, pre), Reconstructed)
      BY <1>3, <3>1, DoneThen
    <3>4. Done(cols, pre \o Reconstructed) = After(s0)
      BY <1>4, <3>2, <3>3
    <3> QED
      BY <3>4 DEF pre
  <2> HIDE DEF s0
  <2>5. Fits(s0.srcs, c, N, Data \ {i})
    BY <1>2, <2>2, <2>3 DEF Fits, cols
  <2> HIDE DEF After, d
  <2>6. Updates(After(s0), lost, d)
    BY <1>5, <2>3, <2>5
  <2> QED
    BY <2>1, <2>4, <2>6 DEF d
<1>7. CASE ~ (lost \cap Data \subseteq {i} /\ Cardinality(lost) < 2)
  <2> DEFINE s0 == Done(Valid, Rebuilt)
             todo == Reconstruct(i, v)
  <2>1. Reconstruct(i, v).cols = Valid /\ Reconstruct(i, v).ops = Rebuilt \o <<o>> \o Reconstructed
    BY <1>7 DEF Reconstruct
  <2>2. Begun(s0, c)
    BY RebuiltDone
  <2>3. Done(Valid, Rebuilt \o <<o>> \o Reconstructed) = After(s0)
    <3> DEFINE pre == Rebuilt
               cols == Valid
    <3> HIDE DEF o, pre, cols
    <3>1. Done(cols, pre \o <<o>> \o Reconstructed) = Then(Do(Done(cols, pre), o), Reconstructed)
      BY <1>3, DoneThen DEF pre
    <3> QED
      BY <1>4, <3>1 DEF pre, cols
  <2> HIDE DEF s0
  <2>4. s0 \in Handles /\ Fits(s0.srcs, c, N, Data \ {i})
    BY <2>2 DEF Begun, Fits
  <2> HIDE DEF After, d
  <2>5. Updates(After(s0), lost, d)
    BY <1>5, <2>4
  <2> QED
    BY <2>1, <2>3, <2>5 DEF d
<1> QED
  BY <1>6, <1>7

(* What is computed when some of the lost disks have been replaced.         *)
ReconsBy(replaced) ==
  \/ /\ PD \in replaced /\ QD \notin replaced /\ lost \subseteq {PD, QD}
     /\ Recon(replaced) = <<Op("d", {PD})>>
  \/ /\ QD \in replaced /\ PD \notin replaced /\ lost \subseteq {PD, QD}
     /\ Recon(replaced) = <<Op("pq", {QD})>>
  \/ /\ lost = {PD, QD} /\ lost = replaced
     /\ Recon(replaced) = <<Op("pq", {PD, QD})>>
  \/ /\ lost \cap Data # {} /\ QD \in replaced
     /\ Recon(replaced) = Rebuilt \o <<Op("pq", {QD})>>
  \/ /\ lost \cap Data # {} /\ QD \notin replaced
     /\ Recon(replaced) = Rebuilt

(* Which operations make the columns of the replaced disks.                 *)
LEMMA ReconCases ==
  ASSUME Rows, lost \subseteq 0..N-1, NEW replaced \in SUBSET lost, replaced # {}
  PROVE  ReconsBy(replaced)
<1> DEFINE p == lost = {PD} \/ (lost = {PD, QD} /\ QD \notin replaced)
           q == lost = {QD} \/ (lost = {PD, QD} /\ PD \notin replaced)
           pq == lost = {PD, QD} /\ lost = replaced
           dq == lost \cap Data # {} /\ QD \in replaced
           d == lost \cap Data # {} /\ QD \notin replaced
<1>1. /\ 0..N-1 = Data \cup {PD, QD} /\ PD \notin Data /\ QD \notin Data /\ PD # QD
  BY Columns DEF Rows
<1>2. p \/ q \/ pq \/ dq \/ d
  BY <1>1
<1>3. Recon(replaced) = CASE p -> raid5_generate_p [] q -> raid6_generate_q [] pq -> <<Op("pq", {PD, QD})>>
                          [] dq -> Rebuilt \o raid6_generate_q [] d -> Rebuilt
  BY DEF Recon
<1>4. /\ p => PD \in replaced /\ QD \notin replaced /\ lost \subseteq {PD, QD}
      /\ q => QD \in replaced /\ PD \notin replaced /\ lost \subseteq {PD, QD}
  BY <1>1
<1> HIDE DEF p, q, pq, dq, d
<1>5. \/ p /\ Recon(replaced) = raid5_generate_p
      \/ q /\ Recon(replaced) = raid6_generate_q
      \/ pq /\ Recon(replaced) = <<Op("pq", {PD, QD})>>
      \/ dq /\ Recon(replaced) = Rebuilt \o raid6_generate_q
      \/ d /\ Recon(replaced) = Rebuilt
  BY <1>2, <1>3
<1>6. raid5_generate_p = <<Op("d", {PD})>> /\ raid6_generate_q = <<Op("pq", {QD})>>
  BY DEF raid5_generate_p, raid6_generate_q
<1>7. CASE p /\ Recon(replaced) = raid5_generate_p
  BY <1>4, <1>6, <1>7 DEF ReconsBy
<1>8. CASE q /\ Recon(replaced) = raid6_generate_q
  BY <1>4, <1>6, <1>8 DEF ReconsBy
<1>9. CASE pq /\ Recon(replaced) = <<Op("pq", {PD, QD})>>
  BY <1>9 DEF ReconsBy, pq
<1>10. CASE dq /\ Recon(replaced) = Rebuilt \o raid6_generate_q
  BY <1>6, <1>10 DEF ReconsBy, dq
<1>11. CASE d /\ Recon(replaced) = Rebuilt
  BY <1>11 DEF ReconsBy, d
<1> QED
  BY <1>5, <1>7, <1>8, <1>9, <1>10, <1>11

(* A sync makes them, and the others stay as they are.                      *)
LEMMA ReconUpdates ==
  ASSUME Rows, NEW c \in Buffers(N - 2), Coded(c), bad = {}, NEW replaced \in SUBSET lost, replaced # {}
  PROVE  Updates(Done(Valid, Recon(replaced)), lost \ replaced, c)
<1> SUFFICES ASSUME NEW r, r = Done(Valid, Recon(replaced)) PROVE Updates(r, lost \ replaced, c)
  OBVIOUS
<1> DEFINE s0 == ReadIn(Valid)
           s1 == Done(Valid, Rebuilt)
           Right(j) == (IF j \in r.locked THEN r.srcs[j] ELSE disk[j]) = Word(c, N)[j]
<1>1. /\ 0..N-1 = Data \cup {PD, QD} /\ PD \notin Data /\ QD \notin Data /\ PD # QD
      /\ 0..PD = Data \cup {PD} /\ PD \in Int
  BY Columns DEF Rows
<1>2. disk \in Buffers(N) /\ (\A j \in Valid : disk[j] = Word(c, N)[j]) /\ Few(lost) /\ lost \subseteq 0..N-1
  BY DEF Coded, Fits
<1>3. ASSUME r \in Handles, \A j \in Valid : Right(j), \A j \in replaced : Right(j)
      PROVE  Updates(r, lost \ replaced, c)
  BY <1>3 DEF Updates, Valid
<1>4. s0 \in Handles /\ s0.locked = {} /\ \A j \in Valid : s0.srcs[j] = Word(c, N)[j]
  <2> DEFINE cols == Valid
  <2>1. cols \cap (0..N-1) = cols
    BY DEF Valid
  <2> HIDE DEF cols
  <2>2. s0 \in Handles /\ s0.locked = {} /\ \A j \in cols : s0.srcs[j] = disk[j]
    <3>1. /\ ReadIn(cols) \in Handles /\ ReadIn(cols).locked = {}
          /\ \A i \in cols \cap (0..N-1) : ReadIn(cols).srcs[i] = disk[i]
      BY <1>2, ReadInIs
    <3> QED
      BY <2>1, <3>1 DEF cols
  <2> QED
    BY <1>2, <2>2 DEF cols
<1>5. Begun(s1, c)
  BY RebuiltDone
<1>6. RebuildsBy /\ AtMostOne(Rebuilt)
  <2>1. RebuildsBy
    BY <1>2, RebuiltCases
  <2>2. AtMostOne(Rebuilt)
    BY <2>1 DEF RebuildsBy, AtMostOne
  <2> QED
    BY <2>1, <2>2
<1>7. CASE /\ PD \in replaced /\ QD \notin replaced /\ lost \subseteq {PD, QD}
           /\ Recon(replaced) = <<Op("d", {PD})>>
  <2>1. r = raid5_generate_d(s0, PD)
    <3> DEFINE cols == {PD}
    <3>1. Lowest(cols) = PD
      BY <1>1, LowestHighest
    <3> HIDE DEF cols
    <3>2. r = Do(s0, Op("d", cols))
      BY <1>7, DoneShort DEF cols
    <3> QED
      BY <3>1, <3>2, DoEach
  <2> HIDE DEF s0
  <2>2. Fits(s0.srcs, c, N, (0..PD) \ {PD}) /\ PD \in 0..PD
    BY <1>1, <1>4, <1>7 DEF Fits, Valid
  <2>3. Makes(r, s0, c, {PD})
    BY <1>4, <2>1, <2>2, DGenerated
  <2>4. r \in Handles /\ r.locked = {PD} /\ r.srcs[PD] = Word(c, N)[PD]
    BY <1>1, <1>4, <2>3 DEF Makes
  <2>5. (\A j \in Valid : j # PD) /\ \A j \in replaced : j = PD
    BY <1>7 DEF Valid
  <2> QED
    BY <1>2, <1>3, <2>4, <2>5
<1>8. ASSUME lost \subseteq {PD, QD}, Recon(replaced) = <<Op("pq", replaced)>>
      PROVE  Updates(r, lost \ replaced, c)
  <2>1. r = raid6_generate_pq(s0, replaced)
    <3>1. r = Do(s0, Op("pq", replaced))
      BY <1>8, DoneShort
    <3> QED
      BY <3>1, DoEach
  <2> HIDE DEF s0
  <2>2. Fits(s0.srcs, c, N, Data) /\ replaced \in SUBSET {PD, QD}
    BY <1>1, <1>4, <1>8 DEF Fits, Valid
  <2>3. r \in Handles /\ r.locked = replaced /\ Fits(r.srcs, c, N, Data \cup replaced)
    <3>1. r \in Handles /\ r.locked = s0.locked \cup replaced /\ Fits(r.srcs, c, N, Data \cup replaced)
      BY <1>4, <2>1, <2>2, PQGenerated
    <3> QED
      BY <1>4, <3>1
  <2>4. \A j \in Valid : j \notin replaced
    BY DEF Valid
  <2> QED
    BY <1>2, <1>3, <2>3, <2>4 DEF Fits
<1>9. CASE /\ QD \in replaced /\ PD \notin replaced /\ lost \subseteq {PD, QD}
           /\ Recon(replaced) = <<Op("pq", {QD})>>
  <2> DEFINE cols == {QD}
  <2>1. replaced = cols /\ Recon(replaced) = <<Op("pq", cols)>>
    BY <1>9
  <2> HIDE DEF cols
  <2> QED
    BY <1>8, <1>9, <2>1
<1>10. CASE lost = {PD, QD} /\ lost = replaced /\ Recon(replaced) = <<Op("pq", {PD, QD})>>
  <2> DEFINE cols == {PD, QD}
  <2>1. replaced = cols /\ Recon(replaced) = <<Op("pq", cols)>> /\ lost \subseteq {PD, QD}
    BY <1>10
  <2> HIDE DEF cols
  <2> QED
    BY <1>8, <2>1
<1>11. CASE lost \cap Data # {} /\ QD \in replaced /\ Recon(replaced) = Rebuilt \o <<Op("pq", {QD})>>
  <2> DEFINE cols == {QD}
             ops == <<Op("pq", cols)>>
  <2>1. cols \in SUBSET {PD, QD} /\ Recon(replaced) = Rebuilt \o ops
    BY <1>11
  <2>2. AtMostOne(ops)
    BY DEF AtMostOne
  <2>3. \A s : Then(s, ops) = Do(s, Op("pq", cols))
    BY DEF Then
  <2> HIDE DEF cols, ops
  <2>4. r = raid6_generate_pq(s1, cols)
    <3>1. r = Then(s1, ops)
      <4> DEFINE all == Valid
      <4> HIDE DEF all
      <4>1. Done(all, Rebuilt \o ops) = Then(Done(all, Rebuilt), ops)
        BY <1>6, <2>2, DoneThen
      <4> QED
        BY <2>1, <4>1 DEF all
    <3> QED
      BY <2>3, <3>1, DoEach
  <2> HIDE DEF s1
  <2>5. /\ s1 \in Handles /\ s1.locked = lost \ {QD} /\ Fits(s1.srcs, c, N, Data)
    BY <1>5, <1>11 DEF Begun
  <2>6. r \in Handles /\ r.locked = s1.locked \cup cols /\ Fits(r.srcs, c, N, Data \cup cols)
    <3>1. Rows /\ c \in Buffers(N - 2) /\ cols \in SUBSET {PD, QD}
      BY <2>1
    <3> QED
      BY ONLY <2>4, <2>5, <3>1, PQGenerated
  <2>7. r.locked = lost /\ lost \subseteq Data \cup {QD}
    BY <1>1, <1>6, <1>11, <2>5, <2>6 DEF RebuildsBy, cols
  <2>8. \A j \in replaced : Right(j)
    BY <2>6, <2>7 DEF Fits, cols
  <2>9. \A j \in Valid : Right(j)
    BY <1>2, <2>7 DEF Valid
  <2> QED
    BY <1>3, <2>6, <2>8, <2>9
<1>12. CASE lost \cap Data # {} /\ QD \notin replaced /\ Recon(replaced) = Rebuilt
  <2>1. r = s1
    BY <1>12
  <2> HIDE DEF s1
  <2>2. /\ r \in Handles /\ r.locked = lost \ {QD} /\ Fits(r.srcs, c, N, r.locked)
    BY <1>5, <1>12, <2>1 DEF Begun
  <2>3. \A j \in replaced : Right(j)
    BY <1>12, <2>2 DEF Fits
  <2>4. \A j \in Valid : Right(j)
    BY <1>2, <2>2 DEF Valid
  <2> QED
    BY <1>3, <2>2, <2>3, <2>4
<1>13. ReconsBy(replaced)
  BY <1>2, ReconCases
<1> QED
  BY <1>7, <1>9, <1>10, <1>11, <1>12, <1>13 DEF ReconsBy

(* None or one is lost when there are not two.                              *)
LEMMA OneLost ==
  ASSUME Few(lost), Cardinality(lost) # 2
  PROVE  lost = {} \/ \E x : lost = {x}
<1>1. PICK x, y : lost \in {{}, {x}, {x, y}}
  BY DEF Few
<1>2. CASE x = y
  <2>1. {x, y} = {x}
    BY <1>2
  <2> QED
    BY <1>1, <2>1
<1>3. CASE x # y
  <2> DEFINE e == {x, y}
  <2>1. Cardinality(e) = 2
    BY <1>3, CardFew
  <2>2. lost = e \/ lost = {x} \/ lost = {}
    BY <1>1
  <2> HIDE DEF e
  <2>3. lost # e
    BY <2>1
  <2> QED
    BY <2>2, <2>3
<1> QED
  BY <1>2, <1>3

(* What a check reports, and what it writes.                                *)
Checks(r, recover, c) ==
  /\ r \in Handles /\ r.error = bad
  /\ IF recover THEN Updates(r, lost, c) ELSE r.locked \subseteq lost

(* A check reports bad, and what it writes repairs it.                      *)
LEMMA CheckRight ==
  ASSUME Rows, NEW c \in Buffers(N - 2), Coded(c), CanCheck, NEW recover \in BOOLEAN
  PROVE  Checks(Done(Valid, Checked(recover)), recover, c)
<1> SUFFICES ASSUME NEW r, r = Done(Valid, Checked(recover)) PROVE Checks(r, recover, c)
  OBVIOUS
<1> DEFINE s0 == ReadIn(Valid)
           s1 == Done(Valid, Rebuilt)
           word == Word(c, N)
           Right(j) == (IF j \in r.locked THEN r.srcs[j] ELSE disk[j]) = Word(c, N)[j]
<1>1. /\ 0..N-1 = Data \cup {PD, QD} /\ PD \notin Data /\ QD \notin Data /\ PD # QD
      /\ 0..PD = Data \cup {PD} /\ PD \in Int
  BY Columns DEF Rows
<1>2. /\ disk \in Buffers(N) /\ lost \subseteq 0..N-1 /\ bad \subseteq {PD, QD} \ lost
      /\ (\A j \in Valid \ bad : disk[j] = word[j]) /\ (\A p \in bad : disk[p] # word[p])
      /\ (PD \in bad => lost \cap Data = {}) /\ Few(lost)
  BY DEF Coded, Fits
<1>3. lost = {} \/ \E x : lost = {x}
  <2>1. Cardinality(lost) # 2
    BY DEF CanCheck
  <2> QED
    BY <1>2, <2>1, OneLost
<1>4. ASSUME r \in Handles, \A j \in Valid : Right(j) PROVE Updates(r, lost, c)
  BY <1>4 DEF Updates, Valid
<1>5. CASE lost = {QD}
  <2> DEFINE t == check_parity5(s0)
             o == CheckOp("check5", {PD}, recover)
             p == Op("recover", {PD})
  <2>1. s0 \in Handles /\ s0.locked = {} /\ s0.error = {} /\ \A j \in Valid : s0.srcs[j] = disk[j]
    <3> DEFINE cols == Valid
    <3>1. cols \cap (0..N-1) = cols
      BY DEF Valid
    <3> HIDE DEF cols
    <3>2. /\ ReadIn(cols) \in Handles /\ ReadIn(cols).locked = {} /\ ReadIn(cols).error = {}
          /\ \A i \in cols \cap (0..N-1) : ReadIn(cols).srcs[i] = disk[i]
      BY <1>2, ReadInIs
    <3> QED
      BY <3>1, <3>2 DEF cols
  <2>2. Checked(recover) = <<o>> \o IF recover THEN <<p>> ELSE <<>>
    BY <1>5 DEF Checked
  <2>3. r = IF recover THEN Do(t, p) ELSE t
    <3>1. Do(s0, o) = t
      BY DoEach
    <3> HIDE DEF s0, t, o, p
    <3>2. CASE recover
      <4>1. Checked(recover) = <<o, p>>
        BY <2>2, <3>2, Joined
      <4>2. Done(Valid, <<o, p>>) = Do(Do(s0, o), p)
        BY DoneShort DEF s0
      <4> QED
        BY <3>1, <3>2, <4>1, <4>2
    <3>3. CASE ~ recover
      <4>1. Checked(recover) = <<o>>
        BY <2>2, <3>3, Joined
      <4>2. Done(Valid, <<o>>) = Do(s0, o)
        BY DoneShort DEF s0
      <4> QED
        BY <3>1, <3>3, <4>1, <4>2
    <3> QED
      BY <3>2, <3>3
  <2> HIDE DEF s0, o
  <2>4. bad = {} \/ bad = {PD}
    BY <1>2, <1>5
  <2>5. PD \in Valid /\ Data \subseteq Valid \ bad /\ Valid = Data \cup {PD}
    BY <1>1, <1>5, <2>4 DEF Valid
  <2>6. Fits(s0.srcs, c, N, Data) /\ s0.srcs[PD] = disk[PD] /\ (disk[PD] = word[PD] <=> bad = {})
    BY <1>2, <2>1, <2>4, <2>5 DEF Fits
  <2>7. t \in Handles /\ t.srcs = s0.srcs /\ t.locked = {} /\ t.error = bad
    <3>1. /\ t \in Handles /\ t.srcs = s0.srcs /\ t.locked = s0.locked
          /\ t.error = IF s0.srcs[PD] = word[PD] THEN {} ELSE {PD}
      BY <2>1, <2>6, CheckFive
    <3> QED
      BY <2>1, <2>4, <2>6, <3>1
  <2> HIDE DEF t, word
  <2>8. CASE ~ recover
    BY <2>3, <2>7, <2>8 DEF Checks
  <2>9. CASE recover /\ bad = {}
    <3>1. r = t
      BY <2>3, <2>7, <2>9, DoEach
    <3>2. \A j \in Valid : Right(j)
      BY <1>2, <2>7, <2>9, <3>1 DEF word
    <3> QED
      BY <1>4, <2>7, <2>9, <3>1, <3>2 DEF Checks
  <2>10. CASE recover /\ bad = {PD}
    <3>1. r = raid5_generate_d(t, PD)
      <4> DEFINE cols == {PD}
      <4>1. Lowest(cols) = PD /\ t.error # {}
        BY <1>1, <2>7, <2>10, LowestHighest
      <4> HIDE DEF cols
      <4>2. r = Do(t, Op("recover", cols))
        BY <2>3, <2>10 DEF cols
      <4> QED
        BY <4>1, <4>2, DoEach
    <3>2. Fits(t.srcs, c, N, (0..PD) \ {PD}) /\ PD \in 0..PD
      BY <1>1, <2>6, <2>7 DEF Fits
    <3>3. Makes(r, t, c, {PD})
      BY <2>7, <3>1, <3>2, DGenerated
    <3>4. r \in Handles /\ r.locked = {PD} /\ r.error = bad /\ r.srcs[PD] = Word(c, N)[PD]
      BY <1>1, <2>7, <3>3 DEF Makes
    <3>5. \A j \in Valid : Right(j)
      BY <1>2, <2>5, <3>4 DEF word
    <3> QED
      BY <1>4, <2>10, <3>4, <3>5 DEF Checks
  <2> QED
    BY <2>4, <2>8, <2>9, <2>10
<1>6. CASE lost # {QD}
  <2> DEFINE checked == IF lost = {} THEN {PD, QD} ELSE {QD}
             o == CheckOp("check", checked, recover)
             error == {p \in checked : s1.srcs[p] # word[p]}
  <2>1. Checked(recover) = Rebuilt \o <<o>>
    BY <1>6 DEF Checked
  <2>2. Begun(s1, c)
    BY RebuiltDone
  <2>3. r = check_parity(s1, checked, recover)
    <3> DEFINE ops == <<o>>
               all == Valid
    <3>1. AtMostOne(ops) /\ AtMostOne(Rebuilt) /\ \A s : Then(s, ops) = Do(s, o)
      <4>1. RebuildsBy
        BY <1>2, RebuiltCases
      <4> QED
        BY <4>1 DEF RebuildsBy, AtMostOne, Then
    <3>2. \A s : Do(s, o) = check_parity(s, checked, recover)
      BY DoEach
    <3> HIDE DEF ops, all, o
    <3>3. Done(all, Rebuilt \o ops) = Then(Done(all, Rebuilt), ops)
      BY <3>1, DoneThen
    <3>4. r = Then(s1, ops)
      BY <2>1, <3>3 DEF all, ops
    <3> QED
      BY <3>1, <3>2, <3>4
  <2> HIDE DEF s1, o
  <2>4. /\ s1 \in Handles /\ s1.error = {} /\ (\A j \in Valid : s1.srcs[j] = disk[j])
        /\ s1.locked \subseteq lost /\ Fits(s1.srcs, c, N, Data)
    BY <2>2 DEF Begun
  <2>5. checked \in SUBSET {PD, QD} /\ checked \subseteq Valid /\ bad \subseteq checked
    BY <1>1, <1>2, <1>3, <1>6 DEF Valid
  <2> HIDE DEF checked
  <2>6. /\ r \in Handles /\ r.error = error
        /\ r.locked = s1.locked \cup (IF recover THEN r.error ELSE {})
        /\ r.srcs = [i \in 0..N-1 |-> IF recover /\ i \in r.error THEN word[i] ELSE s1.srcs[i]]
    <3>1. algs.gen \in LoadsAhead => CanLoadAhead(N)
      BY <1>6 DEF CanCheck
    <3>2. Compared(check_parity(s1, checked, recover), s1, c, checked, recover)
      BY <2>4, <2>5, <3>1, CheckBoth
    <3> QED
      BY <2>3, <3>2 DEF Compared
  <2>7. error = bad
    <3>1. \A p \in checked : p \in error <=> disk[p] # word[p]
      BY <2>4, <2>5
    <3>2. \A p \in checked : disk[p] # word[p] <=> p \in bad
      BY <1>2, <2>5
    <3>3. error \subseteq checked
      OBVIOUS
    <3> HIDE DEF error
    <3> QED
      BY <2>5, <3>1, <3>2, <3>3
  <2> HIDE DEF error
  <2>8. CASE ~ recover
    BY <2>4, <2>6, <2>7, <2>8 DEF Checks
  <2>9. CASE recover
    <3>1. ASSUME NEW j \in Valid PROVE Right(j)
      <4>1. j \in 0..N-1 /\ j \notin lost
        BY DEF Valid
      <4>2. CASE j \in bad
        BY <2>6, <2>7, <2>9, <4>1, <4>2
      <4>3. CASE j \notin bad
        <5>1. j \notin r.locked
          BY <2>4, <2>6, <2>7, <2>9, <4>1, <4>3
        <5> QED
          BY <1>2, <4>3, <5>1
      <4> QED
        BY <4>2, <4>3
    <3> QED
      BY <1>4, <2>6, <2>7, <2>9, <3>1 DEF Checks
  <2> QED
    BY <2>8, <2>9
<1> QED
  BY <1>5, <1>6

-----------------------------------------------------------------------------
(* What the disks hold between two operations.                              *)
RowState == N \in Disks /\ data \in [Data -> Versions] /\ Coded(Content)

RowInv ==
  /\ phase \in {"ready", "answered"} => RowState
  /\ phase \notin {"ready", "answered"} => bad = {}
  /\ phase # "answered" => got = <<>>
  /\ CheckExact /\ RecoveredRight

(* What the users wrote are blocks.                                         *)
LEMMA ContentIn ==
  ASSUME N \in Disks, data \in [Data -> Versions]
  PROVE  /\ N \in 3..MaxData+2 /\ Content \in Buffers(N - 2)
         /\ \A i \in Data : \A v \in Versions : Contents(i, v) \in Block
<1>1. /\ N \in 3..MaxData+2
      /\ \A i \in 0..N-3, v \in Versions : Contents(i, v) \in [0..Words-1 -> Register]
  BY Raid6Assumption
<1>2. Data = 0..N-3 /\ (N - 2) - 1 = N - 3
  BY <1>1, Columns
<1>3. \A i \in Data : \A v \in Versions : Contents(i, v) \in Block
  BY <1>1, <1>2 DEF Block
<1>4. Content \in [Data -> Block]
  BY <1>3 DEF Content
<1> QED
  BY <1>1, <1>2, <1>3, <1>4 DEF Buffers

(* No operation changes the number of columns.                              *)
LEMMA SameColumns ==
  ASSUME disk \in Buffers(N), disk' \in Buffers(N)
  PROVE  N' = N /\ PD' = PD /\ QD' = QD /\ Data' = Data
<1>1. DOMAIN disk' = DOMAIN disk
  BY DEF Buffers
<1>2. N' = N
  BY <1>1 DEF N
<1>3. PD' = PD /\ QD' = QD
  BY <1>2 DEF PD, QD
<1> QED
  BY <1>2, <1>3 DEF Data

(* What a step has to leave for the disks to fit the data.                  *)
LEMMA CodedNext ==
  ASSUME N \in 3..MaxData+2, disk \in Buffers(N), disk' \in Buffers(N), NEW c, Content' = c,
         Few(lost'), lost' \subseteq 0..N-1, bad' \subseteq {PD, QD} \ lost',
         PD \in bad' => lost' \cap Data = {}, bad' # {} => CanCheck',
         \A j \in (0..N-1) \ (lost' \cup bad') : disk'[j] = Word(c, N)[j],
         \A p \in bad' : disk'[p] # Word(c, N)[p]
  PROVE  Coded(Content)'
<1>1. N' = N /\ PD' = PD /\ QD' = QD /\ Data' = Data
  BY SameColumns
<1>2. Valid' = (0..N-1) \ lost'
  BY <1>1 DEF Valid
<1> HIDE DEF N, PD, QD, Data, Valid, Content, CanCheck
<1>3. Fits(disk, Content, N, Valid \ bad)'
  BY <1>1, <1>2 DEF Fits
<1>4. (\A p \in bad : disk[p] # Word(Content, N)[p])'
  BY <1>1
<1> QED
  BY <1>1, <1>2, <1>3, <1>4 DEF Coded

(* One disk more may fail when two are not lost yet.                        *)
LEMMA LostCases ==
  ASSUME Few(lost), Cardinality(lost) < 2
  PROVE  \A c : Few(lost \cup {c})
<1>1. lost = {} \/ \E x : lost = {x}
  <2>1. Cardinality(lost) # 2
    OBVIOUS
  <2> QED
    BY <2>1, OneLost
<1> QED
  BY <1>1 DEF Few

(* Replaced disks are no longer lost.                                       *)
LEMMA LostFewer ==
  ASSUME Few(lost)
  PROVE  \A cols : Few(lost \ cols)
<1>1. PICK x, y : lost = {} \/ lost = {x} \/ lost = {x, y}
  BY DEF Few
<1>2. ASSUME NEW cols PROVE lost \ cols \in {{}, {x}, {y}, {x, y}}
  BY <1>1
<1> QED
  BY <1>2 DEF Few

(* Each operation keeps what the disks hold.                                *)
LEMMA BootRow ==
  ASSUME RowInv, Boot
  PROVE  RowInv'
<1>1. PICK n \in Disks :
        /\ data' = [i \in 0..n-3 |-> CHOOSE v \in Versions : TRUE]
        /\ disk' = [i \in 0..n-1 |-> IF i < n - 2 THEN Contents(i, data'[i]) ELSE Stale]
        /\ lost' = {n - 2, n - 1}
  BY DEF Boot
<1>2. phase = "chosen" /\ phase' = "ready" /\ bad = {} /\ bad' = {} /\ got' = <<>> /\ said' = said
  BY DEF Boot, RowInv
<1>3. n \in 3..MaxData+2 /\ n \in Nat /\ n > 2
  <2>1. n \in 3..MaxData+2
    BY Raid6Assumption
  <2> QED
    BY <2>1 DEF MaxData
<1>4. N' = n
  <2>1. DOMAIN disk' = 0..n-1
    BY <1>1
  <2>2. Cardinality(0..n-1) = n
    BY <1>3, FS_Interval
  <2> QED
    BY <2>1, <2>2 DEF N
<1>5. PD' = n - 2 /\ QD' = n - 1 /\ Data' = 0..n-3 /\ (n - 2) - 1 = n - 3
  BY <1>3, <1>4 DEF PD, QD, Data
<1>6. (CHOOSE v \in Versions : TRUE) \in Versions
  BY Raid6Assumption
<1>7. data' \in [0..n-3 -> Versions]
  BY <1>1, <1>6
<1>8. \A i \in 0..n-3, v \in Versions : Contents(i, v) \in Block
  BY Raid6Assumption DEF Block
<1>9. Stale \in Block
  BY DEF Stale, Block, Register
<1>10. disk' \in Buffers(n)
  <2>1. \A i \in 0..n-1 : (IF i < n - 2 THEN Contents(i, data'[i]) ELSE Stale) \in Block
    BY <1>3, <1>7, <1>8, <1>9
  <2> QED
    BY <1>1, <2>1 DEF Buffers
<1>11. Content' = [i \in 0..n-3 |-> Contents(i, data'[i])]
  BY <1>5 DEF Content
<1>12. Content' \in Buffers(n - 2)
  BY <1>5, <1>7, <1>8, <1>11 DEF Buffers
<1>13. \A j \in 0..n-3 : disk'[j] = Word(Content', n)[j]
  <2> DEFINE c == Content'
  <2>1. c \in Buffers(n - 2) /\ \A j \in 0..n-3 : c[j] = Contents(j, data'[j])
    BY <1>11, <1>12
  <2> HIDE DEF c
  <2>2. \A j \in 0..n-3 : Word(c, n)[j] = c[j]
    BY <1>3, <2>1, WordIn
  <2>3. \A j \in 0..n-3 : disk'[j] = Contents(j, data'[j])
    BY <1>1, <1>3
  <2> QED
    BY <2>1, <2>2, <2>3 DEF c
<1>14. Coded(Content)'
  <2>1. Few(lost') /\ lost' \subseteq 0..n-1
    <3>1. lost' \subseteq 0..n-1
      BY <1>1, <1>3
    <3>2. ASSUME NEW x, NEW y PROVE Few({x, y})
      BY DEF Few
    <3> QED
      BY <1>1, <3>1, <3>2
  <2>2. Valid' \ bad' = 0..n-3
    BY <1>1, <1>2, <1>3, <1>4 DEF Valid
  <2> HIDE DEF N, PD, QD, Data, Valid, Content, CanCheck
  <2>3. Fits(disk, Content, N, Valid \ bad)'
    BY <1>4, <1>13, <2>2 DEF Fits
  <2> QED
    BY <1>2, <1>4, <1>10, <2>1, <2>3 DEF Coded
<1>15. RowState'
  BY <1>4, <1>5, <1>7, <1>14 DEF RowState
<1>16. CheckExact' /\ RecoveredRight'
  BY <1>2 DEF RowInv, CheckExact, RecoveredRight
<1> QED
  BY <1>2, <1>15, <1>16 DEF RowInv

(* A read answers with the data and writes nothing.                         *)
LEMMA ReadRow ==
  ASSUME RowInv, Named, Read
  PROVE  RowInv'
<1> DEFINE sh == Done(Valid, Rebuilt)
           c == Content
<1>1. /\ phase = "ready" /\ bad = {} /\ phase' = "answered"
      /\ got' = [i \in lost \cap Data |-> sh.srcs[i]]
      /\ UNCHANGED <<algs, data, disk, lost, bad, said>>
  BY DEF Read
<1>2. N \in Disks /\ data \in [Data -> Versions] /\ Coded(c)
  BY <1>1 DEF RowInv, RowState
<1>3. Rows /\ c \in Buffers(N - 2) /\ N \in 3..MaxData+2
  BY <1>2, ContentIn DEF Rows
<1>4. Begun(sh, c)
  BY <1>2, <1>3, RebuiltDone
<1>5. \A i \in Data : sh.srcs[i] = c[i]
  <2> HIDE DEF sh, c
  <2>1. \A i \in Data : Word(c, N)[i] = c[i]
    BY <1>3, WordIs
  <2> QED
    BY <1>4, <2>1 DEF Begun, Fits
<1>6. /\ N' = N /\ PD' = PD /\ QD' = QD /\ Data' = Data /\ Content' = Content /\ Valid' = Valid
      /\ CanCheck' = CanCheck
  BY <1>1 DEF N, PD, QD, Data, Content, Valid, CanCheck
<1>7. RowState'
  <2> HIDE DEF N, PD, QD, Data, Content, Valid, CanCheck
  <2> QED
    BY <1>1, <1>2, <1>6 DEF RowState, Coded
<1>8. RecoveredRight'
  <2>1. \A i \in DOMAIN got' : got'[i] = Content[i]
    BY <1>1, <1>5
  <2> QED
    BY <1>6, <2>1 DEF RecoveredRight
<1> QED
  BY <1>1, <1>7, <1>8 DEF RowInv, CheckExact

(* An answer leaves the disks alone.                                        *)
LEMMA AnsweredRow ==
  ASSUME RowInv, Answered
  PROVE  RowInv'
<1>1. /\ phase = "answered" /\ phase' = "ready" /\ got' = <<>> /\ said' = Nothing
      /\ UNCHANGED <<algs, data, disk, lost, bad>>
  BY DEF Answered
<1>2. /\ N' = N /\ PD' = PD /\ QD' = QD /\ Data' = Data /\ Content' = Content /\ Valid' = Valid
      /\ CanCheck' = CanCheck
  BY <1>1 DEF N, PD, QD, Data, Content, Valid, CanCheck
<1>3. RowState'
  <2> HIDE DEF N, PD, QD, Data, Content, Valid, CanCheck
  <2> QED
    BY <1>1, <1>2 DEF RowInv, RowState, Coded
<1> QED
  BY <1>1, <1>3 DEF RowInv, CheckExact, RecoveredRight, Nothing

(* A write leaves the new data and its parities on the disks.               *)
LEMMA WriteRow ==
  ASSUME RowInv, Named, NEW i \in Written(N), NEW v \in Versions, NEW rmw \in BOOLEAN, Write(i, v, rmw)
  PROVE  RowInv'
<1> DEFINE todo == IF rmw /\ N > 3 /\ i \notin lost /\ ~ ({PD, QD} \subseteq lost)
                   THEN Modify(i, v) ELSE Reconstruct(i, v)
           sh == Done(todo.cols, todo.ops)
           c == [Content EXCEPT ![i] = Contents(i, v)]
<1>1. /\ phase = "ready" /\ bad = {} /\ disk' = WrittenOut(sh, lost)
      /\ data' = [data EXCEPT ![i] = v]
      /\ UNCHANGED <<phase, algs, lost, bad, got, said>>
  BY DEF Write, selection
<1>2. N \in Disks /\ data \in [Data -> Versions] /\ Coded(Content)
  BY <1>1 DEF RowInv, RowState
<1>3. /\ Rows /\ Content \in Buffers(N - 2) /\ N \in 3..MaxData+2 /\ disk \in Buffers(N)
      /\ Few(lost) /\ lost \subseteq 0..N-1
  BY <1>2, ContentIn DEF Rows, Coded
<1>4. i \in Data /\ Contents(i, v) \in Block
  <2>1. i \in 0..N-3
    BY <1>2, Raid6Assumption
  <2>2. i \in Data
    BY <1>3, <2>1, Columns
  <2> QED
    BY <1>2, <2>2, ContentIn
<1>5. Updates(sh, lost, c)
  <2>1. CASE rmw /\ N > 3 /\ i \notin lost /\ ~ ({PD, QD} \subseteq lost)
    <3>1. todo = Modify(i, v)
      BY <2>1
    <3> QED
      BY <1>1, <1>2, <1>3, <1>4, <2>1, <3>1, ModifyUpdates
  <2>2. CASE ~ (rmw /\ N > 3 /\ i \notin lost /\ ~ ({PD, QD} \subseteq lost))
    <3>1. todo = Reconstruct(i, v)
      BY <2>2
    <3> QED
      BY <1>1, <1>2, <1>3, <1>4, <3>1, ReconstructUpdates
  <2> QED
    BY <2>1, <2>2
<1> HIDE DEF sh
<1>6. disk' \in Buffers(N) /\ Fits(disk', c, N, (0..N-1) \ lost)
  BY <1>1, <1>3, <1>5, WrittenOutFits
<1>7. N' = N /\ Data' = Data
  BY <1>3, <1>6, SameColumns
<1>8. Content' = c
  <2>1. \A j \in Data : data'[j] = IF j = i THEN v ELSE data[j]
    BY <1>1, <1>2, <1>4
  <2>2. Content' = [j \in Data |-> Contents(j, data'[j])]
    BY <1>7 DEF Content
  <2>3. c = [j \in Data |-> IF j = i THEN Contents(i, v) ELSE Contents(j, data[j])]
    BY DEF Content
  <2> QED
    BY <2>1, <2>2, <2>3
<1>9. Coded(Content)'
  <2>1. \A j \in (0..N-1) \ (lost' \cup bad') : disk'[j] = Word(c, N)[j]
    BY <1>1, <1>6 DEF Fits
  <2> HIDE DEF c
  <2> QED
    BY <1>1, <1>3, <1>6, <1>8, <2>1, CodedNext
<1>10. RowState'
  <2>1. data' \in [Data -> Versions]
    BY <1>1, <1>2
  <2> QED
    BY <1>2, <1>7, <1>9, <2>1 DEF RowState
<1>11. RecoveredRight'
  BY <1>1 DEF RowInv, RecoveredRight
<1> QED
  BY <1>1, <1>10, <1>11 DEF RowInv, CheckExact

(* A sync leaves the replaced disks as the data says.                       *)
LEMMA RebuildRow ==
  ASSUME RowInv, Named, NEW replaced \in (SUBSET lost) \ {{}}, Rebuild(replaced)
  PROVE  RowInv'
<1> DEFINE sh == Done(Valid, Recon(replaced))
           c == Content
<1>1. /\ phase = "ready" /\ bad = {} /\ disk' = WrittenOut(sh, lost \ replaced) /\ lost' = lost \ replaced
      /\ UNCHANGED <<phase, algs, data, bad, got, said>>
  BY DEF Rebuild, selection
<1>2. N \in Disks /\ data \in [Data -> Versions] /\ Coded(c)
  BY <1>1 DEF RowInv, RowState
<1>3. /\ Rows /\ c \in Buffers(N - 2) /\ N \in 3..MaxData+2 /\ disk \in Buffers(N)
      /\ Few(lost) /\ lost \subseteq 0..N-1
  BY <1>2, ContentIn DEF Rows, Coded
<1> HIDE DEF c
<1>4. Updates(sh, lost \ replaced, c)
  BY <1>1, <1>2, <1>3, ReconUpdates
<1> HIDE DEF sh
<1>5. disk' \in Buffers(N) /\ Fits(disk', c, N, (0..N-1) \ (lost \ replaced))
  BY <1>1, <1>3, <1>4, WrittenOutFits
<1>6. N' = N /\ Data' = Data
  BY <1>3, <1>5, SameColumns
<1>7. Content' = c
  BY <1>1, <1>6 DEF Content, c
<1>8. Coded(Content)'
  <2>1. \A j \in (0..N-1) \ (lost' \cup bad') : disk'[j] = Word(c, N)[j]
    BY <1>1, <1>5 DEF Fits
  <2>2. Few(lost') /\ lost' \subseteq 0..N-1
    BY <1>1, <1>3, LostFewer
  <2> QED
    BY <1>1, <1>3, <1>5, <1>7, <2>1, <2>2, CodedNext
<1>9. RowState'
  BY <1>1, <1>2, <1>6, <1>8 DEF RowState
<1>10. RecoveredRight'
  BY <1>1 DEF RowInv, RecoveredRight
<1> QED
  BY <1>1, <1>9, <1>10 DEF RowInv, CheckExact

(* A disk that fails takes nothing of the others with it.                   *)
LEMMA FailRow ==
  ASSUME RowInv, NEW x \in Failing(N), Fail(x)
  PROVE  RowInv'
<1> DEFINE c == Content
<1>1. /\ phase = "ready" /\ bad = {} /\ x \notin lost /\ Cardinality(lost) < 2
      /\ disk' = [disk EXCEPT ![x] = Stale] /\ lost' = lost \cup {x}
      /\ UNCHANGED <<phase, algs, data, bad, got, said>>
  BY DEF Fail, selection
<1>2. N \in Disks /\ data \in [Data -> Versions] /\ Coded(c)
  BY <1>1 DEF RowInv, RowState
<1>3. /\ N \in 3..MaxData+2 /\ disk \in Buffers(N)
      /\ Few(lost) /\ lost \subseteq 0..N-1 /\ Fits(disk, c, N, Valid)
  BY <1>1, <1>2, ContentIn DEF Coded
<1> HIDE DEF c
<1>4. x \in 0..N-1
  BY <1>2, Raid6Assumption
<1>5. Stale \in Block
  BY DEF Stale, Block, Register
<1>6. disk' \in Buffers(N)
  BY <1>1, <1>3, <1>5 DEF Buffers
<1>7. N' = N /\ Data' = Data
  BY <1>3, <1>6, SameColumns
<1>8. Content' = c
  BY <1>1, <1>7 DEF Content, c
<1>9. Coded(Content)'
  <2>1. ASSUME NEW j \in (0..N-1) \ (lost' \cup bad') PROVE disk'[j] = Word(c, N)[j]
    <3>1. j \in Valid /\ j # x
      BY <1>1 DEF Valid
    <3> QED
      BY <1>1, <1>3, <3>1 DEF Fits, Buffers
  <2>2. Few(lost') /\ lost' \subseteq 0..N-1
    BY <1>1, <1>3, <1>4, LostCases
  <2> QED
    BY <1>1, <1>3, <1>6, <1>8, <2>1, <2>2, CodedNext
<1>10. RowState'
  BY <1>1, <1>2, <1>7, <1>9 DEF RowState
<1>11. RecoveredRight'
  BY <1>1 DEF RowInv, RecoveredRight
<1> QED
  BY <1>1, <1>10, <1>11 DEF RowInv, CheckExact

(* A spoiled parity no longer fits, and the others do.                      *)
LEMMA CorruptRow ==
  ASSUME RowInv, NEW x \in {PD, QD}, NEW w \in {0, Words - 1}, Corrupt(x, w)
  PROVE  RowInv'
<1> DEFINE c == Content
<1>1. /\ phase = "ready" /\ x \notin lost /\ x \notin bad /\ CanCheck /\ (x = PD => lost \cap Data = {})
      /\ disk' = [disk EXCEPT ![x] = [disk[x] EXCEPT ![w] = Xor(disk[x][w], {9})]] /\ bad' = bad \cup {x}
      /\ UNCHANGED <<phase, algs, data, lost, got, said>>
  BY DEF Corrupt, selection
<1>2. N \in Disks /\ data \in [Data -> Versions] /\ Coded(c)
  BY <1>1 DEF RowInv, RowState
<1>3. /\ N \in 3..MaxData+2 /\ disk \in Buffers(N) /\ c \in Buffers(N - 2)
      /\ Few(lost) /\ lost \subseteq 0..N-1 /\ bad \subseteq {PD, QD} \ lost
      /\ (PD \in bad => lost \cap Data = {})
      /\ Fits(disk, c, N, Valid \ bad) /\ \A p \in bad : disk[p] # Word(c, N)[p]
  BY <1>2, ContentIn DEF Coded
<1> HIDE DEF c
<1>4. PD # QD /\ PD \in 0..N-1 /\ QD \in 0..N-1
  BY <1>3, Columns
<1>5. w \in 0..Words-1
  BY WordsAssumption
<1>6. disk[x] \in Block /\ disk[x] = Word(c, N)[x]
  BY <1>1, <1>3, <1>4 DEF Buffers, Fits, Valid
<1> DEFINE changed == [disk[x] EXCEPT ![w] = Xor(disk[x][w], {9})]
<1>7. changed \in Block /\ changed # disk[x]
  <2>1. disk[x][w] \in Register
    BY <1>5, <1>6 DEF Block
  <2>2. Xor(disk[x][w], {9}) \in Register /\ Xor(disk[x][w], {9}) # disk[x][w]
    <3>1. Xor(disk[x][w], {9}) \in Register
      BY <2>1, XorRegister DEF Register
    <3>2. 9 \in Xor(disk[x][w], {9}) <=> 9 \notin disk[x][w]
      BY DEF Xor
    <3> QED
      BY <3>1, <3>2
  <2>3. changed[w] = Xor(disk[x][w], {9})
    BY <1>5, <1>6 DEF Block
  <2>4. changed \in Block
    BY <1>6, <2>2 DEF Block
  <2> QED
    BY <2>2, <2>3, <2>4
<1>8. disk' = [disk EXCEPT ![x] = changed]
  BY <1>1
<1> HIDE DEF changed
<1>9. disk' \in Buffers(N) /\ disk'[x] = changed /\ \A j \in (0..N-1) \ {x} : disk'[j] = disk[j]
  BY <1>3, <1>4, <1>7, <1>8 DEF Buffers
<1>10. N' = N /\ Data' = Data
  BY <1>3, <1>9, SameColumns
<1>11. Content' = c
  BY <1>1, <1>10 DEF Content, c
<1>12. Coded(Content)'
  <2>1. CanCheck'
    BY <1>1, <1>3, <1>9, <1>10, SameColumns DEF CanCheck
  <2>2. bad' \subseteq {PD, QD} \ lost' /\ (PD \in bad' => lost' \cap Data = {})
    BY <1>1, <1>3
  <2>3. \A j \in (0..N-1) \ (lost' \cup bad') : disk'[j] = Word(c, N)[j]
    BY <1>1, <1>3, <1>9 DEF Fits, Valid
  <2>4. \A p \in bad' : disk'[p] # Word(c, N)[p]
    BY <1>1, <1>3, <1>4, <1>6, <1>7, <1>9
  <2> QED
    BY <1>1, <1>3, <1>9, <1>11, <2>1, <2>2, <2>3, <2>4, CodedNext
<1>13. RowState'
  BY <1>1, <1>2, <1>10, <1>12 DEF RowState
<1>14. RecoveredRight'
  BY <1>1 DEF RowInv, RecoveredRight
<1> QED
  BY <1>1, <1>13, <1>14 DEF RowInv, CheckExact

(* A check says what is bad, and a correcting one repairs it.               *)
LEMMA CheckRow ==
  ASSUME RowInv, Named, NEW recover \in BOOLEAN, Check(recover)
  PROVE  RowInv'
<1> DEFINE sh == Done(Valid, Checked(recover))
           c == Content
<1>1. /\ phase = "ready" /\ phase' = "answered" /\ CanCheck
      /\ said' = [error |-> sh.error, bad |-> bad] /\ disk' = WrittenOut(sh, lost)
      /\ bad' = IF recover THEN {} ELSE bad
      /\ UNCHANGED <<algs, data, lost, got>>
  BY DEF Check
<1>2. N \in Disks /\ data \in [Data -> Versions] /\ Coded(c)
  BY <1>1 DEF RowInv, RowState
<1>3. /\ Rows /\ c \in Buffers(N - 2) /\ N \in 3..MaxData+2 /\ disk \in Buffers(N)
      /\ Few(lost) /\ lost \subseteq 0..N-1
  BY <1>2, ContentIn DEF Rows, Coded
<1> HIDE DEF c
<1>4. Checks(sh, recover, c)
  BY <1>1, <1>2, <1>3, CheckRight
<1> HIDE DEF sh
<1>5. said' = [error |-> bad, bad |-> bad] /\ got' = <<>>
  BY <1>1, <1>4 DEF Checks, RowInv
<1>6. RowState'
  <2>1. CASE recover
    <3>1. Updates(sh, lost, c)
      BY <1>4, <2>1 DEF Checks
    <3>2. disk' \in Buffers(N) /\ Fits(disk', c, N, (0..N-1) \ lost)
      BY <1>1, <1>3, <3>1, WrittenOutFits
    <3>3. N' = N /\ Data' = Data
      BY <1>3, <3>2, SameColumns
    <3>4. Content' = c
      BY <1>1, <3>3 DEF Content, c
    <3>5. \A j \in (0..N-1) \ (lost' \cup bad') : disk'[j] = Word(c, N)[j]
      BY <1>1, <3>2 DEF Fits
    <3>6. Coded(Content)'
      BY <1>1, <1>3, <2>1, <3>2, <3>4, <3>5, CodedNext
    <3> QED
      BY <1>1, <1>2, <3>3, <3>6 DEF RowState
  <2>2. CASE ~ recover
    <3>1. sh.locked \subseteq lost
      BY <1>4, <2>2 DEF Checks
    <3>2. disk' = disk
      <4>1. disk = [i \in 0..N-1 |-> disk[i]]
        BY <1>3 DEF Buffers
      <4>2. WrittenOut(sh, lost) = [i \in 0..N-1 |-> disk[i]]
        BY <3>1 DEF WrittenOut
      <4> QED
        BY <1>1, <4>1, <4>2
    <3>3. bad' = bad
      BY <1>1, <2>2
    <3>4. /\ N' = N /\ PD' = PD /\ QD' = QD /\ Data' = Data /\ Content' = Content /\ Valid' = Valid
          /\ CanCheck' = CanCheck
      BY <1>1, <3>2 DEF N, PD, QD, Data, Content, Valid, CanCheck
    <3> HIDE DEF N, PD, QD, Data, Content, Valid, CanCheck
    <3> QED
      BY <1>1, <1>2, <3>2, <3>3, <3>4 DEF RowState, Coded, c
  <2> QED
    BY <2>1, <2>2
<1>7. CheckExact' /\ RecoveredRight'
  BY <1>5 DEF CheckExact, RecoveredRight
<1> QED
  BY <1>1, <1>6, <1>7 DEF RowInv

(* The selection of the routines leaves the disks alone.                    *)
LEMMA SelectRow ==
  ASSUME RowInv, Select
  PROVE  RowInv'
<1>1. /\ phase \notin {"ready", "answered"} /\ phase' \notin {"ready", "answered"}
      /\ bad' = bad /\ got' = got /\ said' = said
  BY DEF Select, Load, Skip, TakeFirst, GenChosen, XorChosen, ChooseRecov, Measure, array
<1>2. got = <<>> /\ bad = {} /\ CheckExact
  BY <1>1 DEF RowInv
<1> QED
  BY <1>1, <1>2 DEF RowInv, CheckExact, RecoveredRight

(* The stripe's invariant holds at first.                                   *)
LEMMA RowInit == Init => RowInv
BY DEF Init, RowInv, CheckExact, RecoveredRight, Nothing

(* Every step keeps the stripe's invariant.                                 *)
LEMMA RowNext ==
  ASSUME SelectionInv, RowInv, [Next]_vars
  PROVE  RowInv'
<1>1. phase \in {"ready", "answered"} => Named
  BY DEF SelectionInv
<1>2. CASE Select
  BY <1>2, SelectRow
<1>3. CASE Boot
  BY <1>3, BootRow
<1>4. CASE Read
  <2>1. Named
    BY <1>1, <1>4 DEF Read
  <2> QED
    BY <1>4, <2>1, ReadRow
<1>5. CASE Answered
  BY <1>5, AnsweredRow
<1>6. ASSUME NEW i \in Written(N), NEW v \in Versions, NEW rmw \in BOOLEAN, Write(i, v, rmw)
      PROVE  RowInv'
  <2>1. Named
    BY <1>1, <1>6 DEF Write
  <2> QED
    BY <1>6, <2>1, WriteRow
<1>7. ASSUME NEW replaced \in (SUBSET lost) \ {{}}, Rebuild(replaced) PROVE RowInv'
  <2>1. Named
    BY <1>1, <1>7 DEF Rebuild
  <2> QED
    BY <1>7, <2>1, RebuildRow
<1>8. ASSUME NEW x \in Failing(N), Fail(x) PROVE RowInv'
  BY <1>8, FailRow
<1>9. ASSUME NEW x \in {PD, QD}, NEW w \in {0, Words - 1}, Corrupt(x, w) PROVE RowInv'
  BY <1>9, CorruptRow
<1>10. ASSUME NEW recover \in BOOLEAN, Check(recover) PROVE RowInv'
  <2>1. Named
    BY <1>1, <1>10 DEF Check
  <2> QED
    BY <1>10, <2>1, CheckRow
<1>11. CASE UNCHANGED vars
  <2>1. UNCHANGED <<phase, algs, data, disk, lost, bad, got, said>>
    BY <1>11 DEF vars, selection, array
  <2>2. /\ N' = N /\ PD' = PD /\ QD' = QD /\ Data' = Data /\ Content' = Content /\ Valid' = Valid
        /\ CanCheck' = CanCheck
    BY <2>1 DEF N, PD, QD, Data, Content, Valid, CanCheck
  <2> HIDE DEF N, PD, QD, Data, Content, Valid, CanCheck
  <2> QED
    BY <2>1, <2>2 DEF RowInv, RowState, Coded, CheckExact, RecoveredRight
<1> QED
  BY <1>2, <1>3, <1>4, <1>5, <1>6, <1>7, <1>8, <1>9, <1>10, <1>11 DEF Next

(* The definition of the code in Raid6 is the one the routines compute.     *)
LEMMA CodeSums ==
  ASSUME N \in Disks, data \in [Data -> Versions], NEW w \in 0..Words-1
  PROVE  CodeP(w) = SumP(Content, N - 2)[w] /\ CodeQ(w) = SumQ(Content, N - 2)[w]
<1> DEFINE n == N - 2
           f == Col(Content, n, w)
           g == Weighted(f, n)
           IsP(s) == s = [i \in 0..n |-> IF i = 0 THEN {} ELSE Xor(s[i - 1], Content[i - 1][w])]
           IsQ(s) == s = [i \in 0..n |-> IF i = 0 THEN {} ELSE Xor(s[i - 1], Times(i - 1, Content[i - 1][w]))]
           SumAt(h, s) == s = [i \in 0..n |-> IF i = 0 THEN {} ELSE Xor(s[i - 1], h[i - 1])]
<1>1. PD = n /\ n \in Powers /\ n \in Nat /\ Content \in Buffers(n)
  BY ContentIn, Columns
<1>2. CodeP(w) = (CHOOSE s : IsP(s))[n] /\ CodeQ(w) = (CHOOSE s : IsQ(s))[n]
  BY <1>1 DEF CodeP, CodeQ
<1>3. SumP(Content, n)[w] = SumOf(f, n) /\ SumQ(Content, n)[w] = SumOf(g, n)
  BY DEF SumP, SumQ
<1>4. SumOf(f, n) = (CHOOSE s : SumAt(f, s))[n] /\ SumOf(g, n) = (CHOOSE s : SumAt(g, s))[n]
  BY DEF SumOf
<1>5. \A i \in 0..n : i # 0 => f[i - 1] = Content[i - 1][w] /\ g[i - 1] = Times(i - 1, Content[i - 1][w])
  BY <1>1 DEF Col, Weighted
<1>6. ASSUME NEW s PROVE SumAt(f, s) <=> IsP(s)
  <2>1. \A i \in 0..n : (IF i = 0 THEN {} ELSE Xor(s[i - 1], f[i - 1]))
                        = (IF i = 0 THEN {} ELSE Xor(s[i - 1], Content[i - 1][w]))
    BY <1>5
  <2> HIDE DEF f
  <2> QED
    BY <2>1
<1>7. ASSUME NEW s PROVE SumAt(g, s) <=> IsQ(s)
  <2>1. \A i \in 0..n : (IF i = 0 THEN {} ELSE Xor(s[i - 1], g[i - 1]))
                        = (IF i = 0 THEN {} ELSE Xor(s[i - 1], Times(i - 1, Content[i - 1][w])))
    BY <1>5
  <2> HIDE DEF g
  <2> QED
    BY <2>1
<1> HIDE DEF IsP, IsQ, f, g, SumAt, n
<1>8. (CHOOSE s : SumAt(f, s)) = (CHOOSE s : IsP(s)) /\ (CHOOSE s : SumAt(g, s)) = (CHOOSE s : IsQ(s))
  BY <1>6, <1>7
<1> QED
  BY <1>2, <1>3, <1>4, <1>8 DEF n

(* Both invariants of a stripe at once; the selection's names the routines. *)
LEMMA RowSafe == Spec => [](SelectionInv /\ RowInv)
BY SelectionInit, SelectionNext, RowInit, RowNext, PTL DEF Spec

(* Whatever was written, rebuilt or checked, with whichever routines and    *)
(* whatever disks missing, the disks hold the data and its code             *)
(* (handle_stripe(), raid6_generate_pq() and the rest).                     *)
THEOREM AlwaysCoded == Spec => []ParityCoded
<1>1. ASSUME RowInv PROVE ParityCoded
  <2> SUFFICES ASSUME phase \in {"ready", "answered"}
               PROVE  /\ \A i \in Data \ lost : disk[i] = Content[i]
                      /\ PD \notin lost \cup bad => \A w \in 0..Words-1 : disk[PD][w] = CodeP(w)
                      /\ QD \notin lost \cup bad => \A w \in 0..Words-1 : disk[QD][w] = CodeQ(w)
    BY DEF ParityCoded
  <2> DEFINE c == Content
  <2>1. N \in Disks /\ data \in [Data -> Versions] /\ Coded(c)
    BY <1>1 DEF RowInv, RowState
  <2>2. N \in 3..MaxData+2 /\ c \in Buffers(N - 2)
    BY <2>1, ContentIn
  <2>3. \A w \in 0..Words-1 : CodeP(w) = SumP(c, N - 2)[w] /\ CodeQ(w) = SumQ(c, N - 2)[w]
    BY <2>1, CodeSums
  <2> HIDE DEF c
  <2>4. /\ \A i \in Data : Word(c, N)[i] = c[i]
        /\ Word(c, N)[PD] = SumP(c, N - 2) /\ Word(c, N)[QD] = SumQ(c, N - 2)
    BY <2>2, WordIs
  <2>5. /\ Data \subseteq 0..N-1 /\ PD \notin Data /\ QD \notin Data /\ PD # QD
        /\ PD \in 0..N-1 /\ QD \in 0..N-1
    BY <2>2, Columns
  <2>6. Fits(disk, c, N, Valid \ bad) /\ bad \subseteq {PD, QD}
    BY <2>1 DEF Coded
  <2>7. \A i \in Data \ lost : disk[i] = c[i]
    BY <2>4, <2>5, <2>6 DEF Fits, Valid
  <2>8. PD \notin lost \cup bad => disk[PD] = SumP(c, N - 2)
    BY <2>4, <2>5, <2>6 DEF Fits, Valid
  <2>9. QD \notin lost \cup bad => disk[QD] = SumQ(c, N - 2)
    BY <2>4, <2>5, <2>6 DEF Fits, Valid
  <2> QED
    BY <2>3, <2>7, <2>8, <2>9 DEF c
<1> QED
  BY <1>1, RowSafe, PTL

(* A read of a lost column gets what was last written to it, whichever two  *)
(* disks are missing (raid6_2data_recov, raid6_datap_recov and              *)
(* raid5_generate_d()).                                                     *)
THEOREM AlwaysRecovered == Spec => []RecoveredRight
<1>1. ASSUME RowInv PROVE RecoveredRight
  BY <1>1 DEF RowInv
<1> QED
  BY <1>1, RowSafe, PTL

(* A check reports the parities that do not fit, and no others              *)
(* (check_parity() and check_parity5()).                                    *)
THEOREM AlwaysExact == Spec => []CheckExact
<1>1. ASSUME RowInv PROVE CheckExact
  BY <1>1 DEF RowInv
<1> QED
  BY <1>1, RowSafe, PTL
=============================================================================
