------------------------------ MODULE Syndrome ------------------------------
(***************************************************************************)
(* The routines of src/raid6 that compute the two parities of a stripe:    *)
(* gen_syndrome from all the data, xor_syndrome from the columns start to  *)
(* stop on top of what the parities hold.                                  *)
(*                                                                         *)
(* ptrs maps the columns 0 .. disks-1 to blocks; the last two are P and Q. *)
(* A block is a sequence of registers, indexed from 0, and a register is   *)
(* the set of its bits: two bytes, so that what crosses from one byte to   *)
(* the next shows.  A routine that is unrolled n times works on n          *)
(* registers in each turn of its loop over the block.                      *)
(***************************************************************************)
EXTENDS Galois

CONSTANT Words                      \* registers of a block

ASSUME WordsAssumption == Words \in Nat /\ Words % 8 = 0 /\ Words > 0

Register == SUBSET (0..15)
Zero  == [w \in 0..Words-1 |-> {}]
XorBlock(a, b) == [w \in 0..Words-1 |-> Xor(a[w], b[w])]

Lanes == {0, 8}                     \* the first bits of the bytes
Each(byte) == {l + k : l \in Lanes, k \in byte}
ByteAt(v, l) == {k \in 0..7 : l + k \in v}
ByBytes(v, F(_)) == UNION {{l + k : k \in F(ByteAt(v, l))} : l \in Lanes}

-----------------------------------------------------------------------------
(* Doubling every byte of a register, as each instruction set does it.     *)

(* pcmpgtb 0 > v; paddb v,v; pand 0x1d; pxor.  The same on AltiVec, NEON,  *)
(* s390 and LoongArch, where the mask is a compare or an arithmetic shift. *)
SignMask(v) == ByBytes(v, LAMBDA b : IF 7 \in b THEN 0..7 ELSE {})
AddSelf(v)  == ByBytes(v, LAMBDA b : {k + 1 : k \in b \ {7}})
x1d == Each(Const1d)
Double(v) == Xor(AddSelf(v), SignMask(v) \cap x1d)

(* The portable version shifts the whole word and masks, and makes 0xff of *)
(* a high bit by a subtraction that borrows across the bytes.              *)
Number(v) == LET sum[k \in -1..15] ==
                   IF k = -1 THEN 0 ELSE sum[k - 1] + (IF k \in v THEN 2 ^ k ELSE 0)
             IN  sum[15]
SHLBYTE(v) == {k + 1 : k \in v \ {15}} \cap Each(1..7)
MASK(v) == LET vv == v \cap Each({7})
               diff == (2 * Number(vv) - Number(vv) \div 128) % (2 ^ 16)
           IN  {k \in 0..15 : (diff \div (2 ^ k)) % 2 = 1}
DoubleInt(v) == Xor(SHLBYTE(v), MASK(v) \cap x1d)

(* vpermxor: one table for the high nibble, one for the low.               *)
gf_low  == [n \in 0..15 |-> Bits(2 * n)]
gf_high == [n \in 0..15 |-> IF n < 8 THEN Bits(32 * n) ELSE Xor(Bits(32 * (n - 8)), Const1d)]
DoublePerm(v) ==
  ByBytes(v, LAMBDA b : Xor(gf_high[Number({k - 4 : k \in b \cap 4..7})], gf_low[Number(b \cap 0..3)]))

(* NEON's way past the columns before start: by 2^s at once, the bits that *)
(* are shifted out multiplied by 0x1d without carries (vmulq_p8).          *)
PMUL(a, b) == Product(a, b) \cap 0..7
TimesPower(v, s) ==
  ByBytes(v, LAMBDA b : Xor({k + s : k \in {j \in b : j + s < 8}},
                            PMUL({k + s - 8 : k \in {j \in b : j + s >= 8}}, Const1d)))

(* The ways to double a byte agree, and the mask of the portable one is    *)
(* that of the others for every pattern of high bits: the borrow of its    *)
(* subtraction stays in the byte.                                          *)
DoublingIsRight ==
  /\ \A v \in SUBSET Each({7}) : MASK(v) = SignMask(v)
  /\ \A n \in SUBSET (0..3) : Number(n) \in 0..15 /\ Bits(Number(n)) = n
  /\ \A b \in Byte :
       /\ DoublePerm(b) = Times2(b)
       /\ TimesPower(b, 1) = Times2(b)
       /\ TimesPower(b, 2) = Times2(Times2(b))
       /\ TimesPower(b, 3) = Times2(Times2(Times2(b)))
       /\ TimesPower(b, 4) = Times2(Times2(Times2(Times2(b))))

-----------------------------------------------------------------------------
(* A routine is a loop over the block: its shape, how far it is unrolled   *)
(* and how it doubles.  gen_syndrome has one of three shapes.              *)
Loop(shape, n, isa) == [shape |-> shape, n |-> n, isa |-> isa]

(* How the code for an instruction set doubles: portable C, vpermxor, or   *)
(* one of the others.                                                      *)
Twice(isa, v) ==
  CASE isa = "int"  -> DoubleInt(v)
    [] isa = "perm" -> DoublePerm(v)
    [] isa \in {"simd", "neon"} -> Double(v)

(* One column of Horner's rule: P ^= d, Q = 2Q ^ d.                        *)
Add(acc, d, isa) == [p |-> Xor(acc.p, d), q |-> Xor(Twice(isa, acc.q), d)]

(* for (z = hi; z >= lo; z--)                                              *)
Down(acc, hi, lo, ptrs, w, isa) ==
  LET at[z \in lo..hi+1] == IF z = hi + 1 THEN acc ELSE Add(at[z + 1], ptrs[z][w], isa)
  IN  at[lo]

(* The registers of a block that the turns of a loop unrolled n times      *)
(* reach, and how many turns come before register w.                       *)
Reached(n) == 0 .. (Words \div n) * n - 1
Turn(w, n) == w \div n

StorePQ(disks, ptrs, n, acc) ==
  [ptrs EXCEPT ![disks - 2] = [w \in DOMAIN @ |-> IF w \in Reached(n) THEN acc[w].p ELSE @[w]],
               ![disks - 1] = [w \in DOMAIN @ |-> IF w \in Reached(n) THEN acc[w].q ELSE @[w]]]

(* P and Q start as the highest data column, the loop takes the others.    *)
GenDirect(r, z0, ptrs, w) ==
  Down([p |-> ptrs[z0][w], q |-> ptrs[z0][w]], z0 - 1, 0, ptrs, w, r.isa)

(* The same, but each column is loaded one turn before it is used, the     *)
(* second before the loop: there must be a second.                         *)
CanLoadAhead(disks) == disks > 3

AddAhead(was, next, isa) == [sum |-> Add(was.sum, was.ahead, isa), ahead |-> next]

GenAhead(r, z0, ptrs, w) ==
  LET at[z \in -1..z0-1] ==
        IF z = z0 - 1
        THEN [sum |-> [p |-> ptrs[z0][w], q |-> ptrs[z0][w]], ahead |-> ptrs[z0 - 1][w]]
        ELSE AddAhead(at[z + 1], IF z = -1 THEN {} ELSE ptrs[z][w], r.isa)
  IN  at[-1].sum

(* The accumulators are cleared before the loop over the block and again   *)
(* when they have been stored; the columns are all added in the loop.      *)
\* mutant: the accumulators are not cleared for the next turn
AfterStoreKept(acc) == acc

AfterStore(acc) == [p |-> {}, q |-> {}]

GenZeroed(r, z0, ptrs, w) ==
  LET after[t \in 0..Turn(w, r.n)] ==
        Down(IF t = 0 THEN [p |-> {}, q |-> {}] ELSE AfterStore(after[t - 1]),
             z0, 0, ptrs, (w % r.n) + (t * r.n), r.isa)
  IN  after[Turn(w, r.n)]

Gen(r, disks, ptrs) ==
  StorePQ(disks, ptrs, r.n,
    [w \in 0..Words-1 |->
       CASE r.shape = "direct" -> GenDirect(r, disks - 3, ptrs, w)
         [] r.shape = "ahead"  -> GenAhead(r, disks - 3, ptrs, w)
         [] r.shape = "zeroed" -> GenZeroed(r, disks - 3, ptrs, w)])

(* xor_syndrome: the columns stop .. start as above, then only Q goes on   *)
(* to be doubled, once for every column before start; both are added to    *)
(* what the parities hold.                                                 *)
DoubleTimes(v, n, isa) ==
  LET times[k \in 0..n] == IF k = 0 THEN v ELSE Twice(isa, times[k - 1]) IN times[n]

LeftNeon(v, n) ==                   \* fours, then the switch over the rest
  LET fours[k \in 0..n \div 4] == IF k = 0 THEN v ELSE TimesPower(fours[k - 1], 4)
  IN  CASE n % 4 = 0 -> fours[n \div 4]
        [] n % 4 = 1 -> Double(fours[n \div 4])
        [] OTHER -> TimesPower(fours[n \div 4], n % 4)

Left(isa, v, n) ==
  IF isa = "neon" THEN LeftNeon(v, n) ELSE DoubleTimes(v, n, isa)

XorSyndrome(r, disks, start, stop, ptrs) ==
  StorePQ(disks, ptrs, r.n,
    [w \in 0..Words-1 |->
       LET sum == Down([p |-> ptrs[stop][w], q |-> ptrs[stop][w]],
                       stop - 1, start, ptrs, w, r.isa)
       IN  [p |-> Xor(ptrs[disks - 2][w], sum.p),
            q |-> Xor(ptrs[disks - 1][w], Left(r.isa, sum.q, start))]])
=============================================================================
