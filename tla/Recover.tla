------------------------------- MODULE Recover -------------------------------
(***************************************************************************)
(* The recovery routines of src/raid6: two data columns from P and Q       *)
(* (data2), or a data column and P from Q (datap).  ptrs is as in          *)
(* Syndrome; call names the algorithm in nonraid_call.                     *)
(***************************************************************************)
EXTENDS Algorithms

(* Multiplying every byte of a register by a constant.                     *)

(* By the 256 entries of the multiplier's row of gfmul.                    *)
MulByte(a, v) == ByBytes(v, LAMBDA b : gfmul(a, b))

(* pshufb looks up 16 entries; an index with its high bit set yields 0.    *)
Shuffle(a, half, index) ==
  ByBytes(index, LAMBDA b : IF 7 \in b THEN {} ELSE vgfmul(a, 16 * half + Number(b \cap 0..3)))

ShiftRight16(v) == {k - 4 : k \in v \ 0..3} \cup (IF 15 \in v THEN 12..15 ELSE {})
LowNibbles(v)   == v \cap Each(0..3)

(* x86 shifts 16-bit words, sign and all: both nibbles have to be masked.  *)
\* mutant: what psraw shifts in from the next byte stays
MulNibbleUnmasked(a, v) ==
  Xor(Shuffle(a, 0, LowNibbles(v)), Shuffle(a, 1, ShiftRight16(v)))

MulNibble(a, v) ==
  Xor(Shuffle(a, 0, LowNibbles(v)), Shuffle(a, 1, LowNibbles(ShiftRight16(v))))

(* NEON and LoongArch shift bytes: what is left is the high nibble.        *)
ShiftRight8(v) == ByBytes(v, LAMBDA b : {k - 4 : k \in b \cap 4..7})
MulNibble8(a, v) == Xor(Shuffle(a, 0, LowNibbles(v)), Shuffle(a, 1, ShiftRight8(v)))

Mul(isa, a, v) ==
  CASE isa = "bytes"   -> MulByte(a, v)
    [] isa = "words"   -> MulNibble(a, v)
    [] isa = "nibbles" -> MulNibble8(a, v)

-----------------------------------------------------------------------------
(* gen_syndrome runs with a page of zeros for each failed column and with  *)
(* the failed pages in the place of P and Q (of Q alone in datap, where P  *)
(* is written in place).  Then the pointers are put back.                  *)
Stored(n, done, left) == [w \in 0..Words-1 |-> IF w \in Reached(n) THEN done[w] ELSE left[w]]

Data2Loop(r, faila, failb, ptrs, px, qx, delta_p, delta_q) ==
  LET db == [w \in 0..Words-1 |->
               Xor(Mul(r.isa, raid6_gfexi[failb - faila], px[w]),
                   Mul(r.isa, raid6_gfinv[Xor(raid6_gfexp[faila], raid6_gfexp[failb])], qx[w]))]
  IN  [ptrs EXCEPT ![failb] = Stored(r.n, db, delta_q),
                   ![faila] = Stored(r.n, XorBlock(db, px), delta_p)]

Data2(r, call, disks, faila, failb, ptrs) ==
  LET pd == disks - 2
      qd == disks - 1
      delta == gen_syndrome(call, disks,
                 [ptrs EXCEPT ![faila] = Zero, ![pd] = ptrs[faila],
                              ![failb] = Zero, ![qd] = ptrs[failb]])
      from(d) == Data2Loop(r, faila, failb, ptrs, XorBlock(ptrs[pd], d[pd]),
                           XorBlock(ptrs[qd], d[qd]), d[pd], d[qd])
  IN  from(delta)

DataPLoop(r, faila, pd, ptrs, qx, delta_p, delta_q) ==
  LET dq == [w \in 0..Words-1 |-> Mul(r.isa, raid6_gfinv[raid6_gfexp[faila]], qx[w])]
  IN  [ptrs EXCEPT ![faila] = Stored(r.n, dq, delta_q),
                   ![pd] = Stored(r.n, XorBlock(delta_p, dq), delta_p)]

DataP(r, call, disks, faila, ptrs) ==
  LET pd == disks - 2
      qd == disks - 1
      delta == gen_syndrome(call, disks, [ptrs EXCEPT ![faila] = Zero, ![qd] = ptrs[faila]])
      from(d) == DataPLoop(r, faila, pd, ptrs, XorBlock(ptrs[qd], d[qd]), d[pd], d[qd])
  IN  from(delta)

(* recov_neon.c, recov_s390xc.c and recov_loongarch_simd.c include the     *)
(* kernel's <linux/raid/pq.h>, not the module's header: their raid6_call   *)
(* is the one of the kernel's own library.                                 *)
KernelCall == "intx8"

CallFor(recov, call) ==
  IF recov \in {"neon", "s390xc", "lsx", "lasx"} THEN KernelCall ELSE call

(* On x86 a loop takes two registers at a time, or one without             *)
(* CONFIG_X86_64: n.                                                       *)
intx1_data2  == Loop("data2", 1, "bytes")
intx1_datap  == Loop("datap", 1, "bytes")
s390xc_data2 == Loop("data2", 1, "bytes")
s390xc_datap == Loop("datap", 1, "bytes")
ssse3_data2(n)  == Loop("data2", n, "words")
ssse3_datap(n)  == Loop("datap", n, "words")
avx2_data2(n)   == Loop("data2", n, "words")
avx2_datap(n)   == Loop("datap", n, "words")
avx512_data2(n) == Loop("data2", n, "words")
avx512_datap(n) == Loop("datap", n, "words")
lsx_data2    == Loop("data2", 4, "nibbles")
lsx_datap    == Loop("datap", 4, "nibbles")
lasx_data2   == Loop("data2", 2, "nibbles")
lasx_datap   == Loop("datap", 2, "nibbles")
neon_inner_data2 == Loop("data2", 1, "nibbles")
neon_inner_datap == Loop("datap", 1, "nibbles")

-----------------------------------------------------------------------------
(* struct raid6_recov_calls, and the list of each architecture.            *)
RecovCalls(name, valid, priority) == [name |-> name, valid |-> valid, priority |-> priority]

raid6_recov_algos(arch) ==
  LET own == CASE arch = "i386" ->
                    <<RecovCalls("avx512x1", "avx512", 3), RecovCalls("avx2x1", "avx2", 2),
                      RecovCalls("ssse3x1", "ssse3", 1)>>
               [] arch = "x86_64" ->
                    <<RecovCalls("avx512x2", "avx512", 3), RecovCalls("avx2x2", "avx2", 2),
                      RecovCalls("ssse3x2", "ssse3", 1)>>
               [] arch = "s390" -> <<RecovCalls("s390xc", "any", 1)>>
               [] arch = "arm"  -> <<RecovCalls("neon", "neon", 10)>>
               [] arch = "loongarch" -> <<RecovCalls("lasx", "lasx", 2), RecovCalls("lsx", "lsx", 1)>>
               [] OTHER -> <<>>
  IN  own \o <<RecovCalls("intx1", "any", 0)>>

Data2Of(name) ==
  CASE name = "intx1"    -> intx1_data2
    [] name = "s390xc"   -> s390xc_data2
    [] name = "ssse3x1"  -> ssse3_data2(1)
    [] name = "ssse3x2"  -> ssse3_data2(2)
    [] name = "avx2x1"   -> avx2_data2(1)
    [] name = "avx2x2"   -> avx2_data2(2)
    [] name = "avx512x1" -> avx512_data2(1)
    [] name = "avx512x2" -> avx512_data2(2)
    [] name = "lsx"      -> lsx_data2
    [] name = "lasx"     -> lasx_data2
    [] name = "neon"     -> neon_inner_data2

DataPOf(name) ==
  CASE name = "intx1"    -> intx1_datap
    [] name = "s390xc"   -> s390xc_datap
    [] name = "ssse3x1"  -> ssse3_datap(1)
    [] name = "ssse3x2"  -> ssse3_datap(2)
    [] name = "avx2x1"   -> avx2_datap(1)
    [] name = "avx2x2"   -> avx2_datap(2)
    [] name = "avx512x1" -> avx512_datap(1)
    [] name = "avx512x2" -> avx512_datap(2)
    [] name = "lsx"      -> lsx_datap
    [] name = "lasx"     -> lasx_datap
    [] name = "neon"     -> neon_inner_datap

data2_recov(name, call, disks, faila, failb, ptrs) ==
  Data2(Data2Of(name), CallFor(name, call), disks, faila, failb, ptrs)

datap_recov(name, call, disks, faila, ptrs) ==
  DataP(DataPOf(name), CallFor(name, call), disks, faila, ptrs)
=============================================================================
