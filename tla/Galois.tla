------------------------------- MODULE Galois -------------------------------
(***************************************************************************)
(* The field the second parity disk computes in, and the tables that       *)
(* src/raid6/mktables.c writes at compile time.                            *)
(*                                                                         *)
(* A byte is the set of its bits that are one, so that XOR is the          *)
(* symmetric difference, AND the intersection and a shift moves every      *)
(* element.  The same set read as a polynomial over GF(2) is what the      *)
(* reference definitions at the end work with.                             *)
(***************************************************************************)
EXTENDS Integers, FiniteSets

Byte == SUBSET (0..7)
Xor(a, b) == (a \ b) \cup (b \ a)

One   == {0}                        \* 0x01
Two   == {1}                        \* 0x02
Const1d == {0, 2, 3, 4}             \* 0x1d

(* A byte as a number, for the entries that a table is indexed by.         *)
Bits(n) == {k \in 0..7 : (n \div (2 ^ k)) % 2 = 1}

(* (a << 1) in a u8, with 0x1d added when the bit shifted out was one.     *)
Times2(a) == Xor({k + 1 : k \in a \ {7}}, IF 7 \in a THEN Const1d ELSE {})

(* while (b) { if (b & 1) v ^= a; a = 2a; b >>= 1; }                       *)
gfmul(x, y) ==
  LET loop[k \in 0..8] ==
        IF k = 0 THEN [v |-> {}, a |-> x]
                 ELSE LET was == loop[k - 1]
                      IN  [v |-> IF k - 1 \in y THEN Xor(was.v, was.a) ELSE was.v,
                           a |-> Times2(was.a)]
  IN  loop[8].v

(* Square and multiply over the bits of the exponent, taken modulo 255.    *)
gfpow(x, n) ==
  LET loop[k \in 0..8] ==
        IF k = 0 THEN [v |-> One, a |-> x]
                 ELSE LET was == loop[k - 1]
                      IN  [v |-> IF k - 1 \in Bits(n % 255) THEN gfmul(was.v, was.a) ELSE was.v,
                           a |-> gfmul(was.a, was.a)]
  IN  loop[8].v

(* The tables.  gfexp's entry 255 is set to 0, "not a real entry".         *)
gfexp(n) ==
  LET loop[k \in 0..n] ==
        IF k = 0 THEN One
                 ELSE LET v == gfmul(loop[k - 1], Two) IN IF v = One THEN {} ELSE v
  IN  loop[n]

gfinv(a) == gfpow(a, 254)
gfexi(n) == gfinv(Xor(gfexp(n), One))

(* Numbers of data disks: MD_SB_DISKS is 30, two of them are parity.       *)
MaxData == 28

(* The tables that are printed, as far as an array can index them.         *)
raid6_gfexp == [n \in 0..MaxData-1 |-> gfexp(n)]
raid6_gfinv == [a \in Byte |-> gfinv(a)]
raid6_gfexi == [n \in 0..MaxData-1 |-> gfexi(n)]

(* 32 entries for each multiplier: the products with the 16 low nibbles,   *)
(* then with the 16 high ones.                                             *)
vgfmul(a, n) == gfmul(a, IF n < 16 THEN Bits(n) ELSE {k + 4 : k \in Bits(n - 16)})

-----------------------------------------------------------------------------
(* Reference: polynomials over GF(2) modulo x^8 + x^4 + x^3 + x^2 + 1.      *)
Product(a, b) ==
  {k \in 0..14 : Cardinality({i \in a : k - i \in b}) % 2 = 1}

Modulus == {0, 2, 3, 4, 8}

Reduced(a) ==
  LET cleared[k \in 8..15] ==       \* the degrees from k upwards are gone
        IF k = 15 THEN a
                  ELSE LET was == cleared[k + 1]
                       IN  IF k \in was THEN Xor(was, {j + k - 8 : j \in Modulus}) ELSE was
  IN  cleared[8]

FieldMul(a, b) == Reduced(Product(a, b))

FieldExp(n) == LET power[k \in 0..n] == IF k = 0 THEN One ELSE FieldMul(power[k - 1], Two)
               IN  power[n]

(* What the parity code needs of the tables: the product is the field's,   *)
(* an inverse is one, the powers of 2 that stand for the disks are all     *)
(* different and gfexi(n) inverts 2^n + 1, for the disks an array can have.*)
TablesAreRight ==
  /\ \A a \in Byte, b \in Byte : gfmul(a, b) = FieldMul(a, b)
  /\ \A a \in Byte, n \in 0..15 :
       /\ vgfmul(a, n) = FieldMul(a, Bits(n))
       /\ vgfmul(a, 16 + n) = FieldMul(a, {k + 4 : k \in Bits(n)})
  /\ \A a \in Byte \ {{}} : FieldMul(a, raid6_gfinv[a]) = One
  /\ \A n \in 0..MaxData-1 : raid6_gfexp[n] = FieldExp(n)
  /\ Cardinality({raid6_gfexp[n] : n \in 0..MaxData-1}) = MaxData
  /\ \A n \in 1..MaxData-1 : FieldMul(raid6_gfexi[n], Xor(FieldExp(n), One)) = One

(* Doubling a byte before it is multiplied by a power of 2 gives the next   *)
(* power, the entries of the tables are bytes, and for two disks a < b      *)
(* what the tables hold solves the two equations of the parities: the one  *)
(* of disk a is cancelled, that of disk b left alone.  Products are sums    *)
(* of those with single bits.                                              *)
Single == {{k} : k \in 0..7}

ProductsAreRight ==
  /\ \A a \in Byte : raid6_gfinv[a] \in Byte
  /\ \A n \in 0..MaxData-1 : raid6_gfexi[n] \in Byte
  /\ \A n \in 0..MaxData : FieldExp(n) \in Byte
  /\ \A x \in Byte : FieldMul(FieldExp(0), x) = x
  /\ \A n \in 0..MaxData-1, x \in Byte : FieldMul(FieldExp(n), Times2(x)) = FieldMul(FieldExp(n + 1), x)
  /\ \A a \in 0..MaxData-1, x \in Single :
       gfmul(raid6_gfinv[raid6_gfexp[a]], FieldMul(FieldExp(a), x)) = x
  /\ \A b \in 0..MaxData-1, x \in Single :
       \A a \in 0..b-1 :
         LET inv == raid6_gfinv[Xor(raid6_gfexp[a], raid6_gfexp[b])]
             exi == gfmul(raid6_gfexi[b - a], x)
         IN  /\ exi = gfmul(inv, FieldMul(FieldExp(a), x))
             /\ Xor(exi, gfmul(inv, FieldMul(FieldExp(b), x))) = x
=============================================================================
