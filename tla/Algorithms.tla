----------------------------- MODULE Algorithms -----------------------------
(***************************************************************************)
(* Every gen_syndrome() and xor_syndrome() of src/raid6 under its own      *)
(* name: which of the shapes of Syndrome it has, how far it is unrolled    *)
(* and how it doubles.  Then struct raid6_calls, by the algorithm's name.  *)
(***************************************************************************)
EXTENDS Syndrome, Sequences

mmx1_gen    == Loop("direct", 1, "simd")
mmx2_gen    == Loop("direct", 2, "simd")
sse11_gen   == Loop("ahead", 1, "simd")
sse12_gen   == Loop("direct", 2, "simd")
sse21_gen   == Loop("ahead", 1, "simd")
sse22_gen   == Loop("direct", 2, "simd")
sse24_gen   == Loop("zeroed", 4, "simd")
avx21_gen   == Loop("ahead", 1, "simd")
avx22_gen   == Loop("direct", 2, "simd")
avx24_gen   == Loop("zeroed", 4, "simd")
avx5121_gen == Loop("ahead", 1, "simd")
avx5122_gen == Loop("direct", 2, "simd")
avx5124_gen == Loop("zeroed", 4, "simd")
lsx_gen     == Loop("direct", 4, "simd")
lasx_gen    == Loop("direct", 2, "simd")
s390vx8_gen == Loop("direct", 8, "simd")
int_gen(n)  == Loop("direct", n, "int")
neon_gen(n) == Loop("direct", n, "neon")
altivec_gen(n)  == Loop("direct", n, "simd")
vpermxor_gen(n) == Loop("direct", n, "perm")

sse21_xor   == Loop("xor", 1, "simd")
sse22_xor   == Loop("xor", 2, "simd")
sse24_xor   == Loop("xor", 4, "simd")
avx21_xor   == Loop("xor", 1, "simd")
avx22_xor   == Loop("xor", 2, "simd")
avx24_xor   == Loop("xor", 4, "simd")
avx5121_xor == Loop("xor", 1, "simd")
avx5122_xor == Loop("xor", 2, "simd")
avx5124_xor == Loop("xor", 4, "simd")
lsx_xor     == Loop("xor", 4, "simd")
lasx_xor    == Loop("xor", 2, "simd")
s390vx8_xor == Loop("xor", 8, "simd")
int_xor(n)  == Loop("xor", n, "int")
neon_xor(n) == Loop("xor", n, "neon")

-----------------------------------------------------------------------------
(* struct raid6_calls.  valid names what raid6_have_...() asks the CPU for *)
(* ("any": no such function), xor tells whether there is an xor_syndrome.  *)
Calls(name, valid, priority, xor) ==
  [name |-> name, valid |-> valid, priority |-> priority, xor |-> xor]

Avx512 == <<Calls("avx512x2", "avx512", 2, TRUE), Calls("avx512x1", "avx512", 2, TRUE)>>
Avx2   == <<Calls("avx2x2", "avx2", 2, TRUE), Calls("avx2x1", "avx2", 2, TRUE)>>
Sse2   == <<Calls("sse2x2", "sse2", 1, TRUE), Calls("sse2x1", "sse2", 1, TRUE)>>
Portable == <<Calls("intx8", "any", 0, TRUE), Calls("intx4", "any", 0, TRUE),
              Calls("intx2", "any", 0, TRUE), Calls("intx1", "any", 0, TRUE)>>

(* Those that have routines of their own; every other one has the portable *)
(* routines alone.                                                         *)
Architectures == {"i386", "x86_64", "ppc", "s390", "arm", "loongarch"}

raid6_algos(arch) ==
  CASE arch = "i386" ->
         Avx512 \o Avx2 \o Sse2
         \o <<Calls("sse1x2", "mmxext", 1, FALSE), Calls("sse1x1", "mmxext", 1, FALSE),
              Calls("mmxx2", "mmx", 0, FALSE), Calls("mmxx1", "mmx", 0, FALSE)>> \o Portable
    [] arch = "x86_64" ->
         <<Calls("avx512x4", "avx512", 2, TRUE)>> \o Avx512
         \o <<Calls("avx2x4", "avx2", 2, TRUE)>> \o Avx2
         \o <<Calls("sse2x4", "sse2", 1, TRUE)>> \o Sse2 \o Portable
    [] arch = "ppc" ->
         [k \in 1..4 |-> Calls(<<"vpermxor8", "vpermxor4", "vpermxor2", "vpermxor1">>[k],
                               "vpermxor", 0, FALSE)]
         \o [k \in 1..4 |-> Calls(<<"altivecx8", "altivecx4", "altivecx2", "altivecx1">>[k],
                                  "altivec", 0, FALSE)] \o Portable
    [] arch = "s390" -> <<Calls("vx128x8", "vx", 1, TRUE)>> \o Portable
    [] arch = "arm"  ->
         [k \in 1..4 |-> Calls(<<"neonx8", "neonx4", "neonx2", "neonx1">>[k], "neon", 0, TRUE)]
         \o Portable
    [] arch = "loongarch" -> <<Calls("lasx", "lasx", 0, TRUE), Calls("lsx", "lsx", 0, TRUE)>> \o Portable

(* The features a processor of each kind may report, each set with those   *)
(* that come before it.                                                    *)
Features(arch) ==
  CASE arch = "i386"   -> {{}, {"mmx"}, {"mmx", "mmxext"}, {"mmx", "mmxext", "sse2"},
                           {"mmx", "mmxext", "sse2", "ssse3"},
                           {"mmx", "mmxext", "sse2", "ssse3", "avx2"},
                           {"mmx", "mmxext", "sse2", "ssse3", "avx2", "avx512"}}
    [] arch = "x86_64" -> {{"sse2"}, {"sse2", "ssse3"}, {"sse2", "ssse3", "avx2"},
                           {"sse2", "ssse3", "avx2", "avx512"}}
    [] arch = "ppc"    -> {{}, {"altivec"}, {"altivec", "vpermxor"}}
    [] arch = "s390"   -> {{}, {"vx"}}
    [] arch = "arm"    -> {{}, {"neon"}}
    [] arch = "loongarch" -> {{}, {"lsx"}, {"lsx", "lasx"}}

LoadsAhead == {"sse1x1", "sse2x1", "avx2x1", "avx512x1"}

Unrolled(name) ==
  CHOOSE n \in {1, 2, 4, 8} :
    name \in CASE n = 1 -> {"intx1", "neonx1", "altivecx1", "vpermxor1"}
              [] n = 2 -> {"intx2", "neonx2", "altivecx2", "vpermxor2"}
              [] n = 4 -> {"intx4", "neonx4", "altivecx4", "vpermxor4"}
              [] n = 8 -> {"intx8", "neonx8", "altivecx8", "vpermxor8"}

GenOf(name) ==
  CASE name = "mmxx1"    -> mmx1_gen
    [] name = "mmxx2"    -> mmx2_gen
    [] name = "sse1x1"   -> sse11_gen
    [] name = "sse1x2"   -> sse12_gen
    [] name = "sse2x1"   -> sse21_gen
    [] name = "sse2x2"   -> sse22_gen
    [] name = "sse2x4"   -> sse24_gen
    [] name = "avx2x1"   -> avx21_gen
    [] name = "avx2x2"   -> avx22_gen
    [] name = "avx2x4"   -> avx24_gen
    [] name = "avx512x1" -> avx5121_gen
    [] name = "avx512x2" -> avx5122_gen
    [] name = "avx512x4" -> avx5124_gen
    [] name = "lsx"      -> lsx_gen
    [] name = "lasx"     -> lasx_gen
    [] name = "vx128x8"  -> s390vx8_gen
    [] name \in {"intx1", "intx2", "intx4", "intx8"} -> int_gen(Unrolled(name))
    [] name \in {"neonx1", "neonx2", "neonx4", "neonx8"} -> neon_gen(Unrolled(name))
    [] name \in {"altivecx1", "altivecx2", "altivecx4", "altivecx8"} -> altivec_gen(Unrolled(name))
    [] OTHER -> vpermxor_gen(Unrolled(name))

XorOf(name) ==
  CASE name = "sse2x1"   -> sse21_xor
    [] name = "sse2x2"   -> sse22_xor
    [] name = "sse2x4"   -> sse24_xor
    [] name = "avx2x1"   -> avx21_xor
    [] name = "avx2x2"   -> avx22_xor
    [] name = "avx2x4"   -> avx24_xor
    [] name = "avx512x1" -> avx5121_xor
    [] name = "avx512x2" -> avx5122_xor
    [] name = "avx512x4" -> avx5124_xor
    [] name = "lsx"      -> lsx_xor
    [] name = "lasx"     -> lasx_xor
    [] name = "vx128x8"  -> s390vx8_xor
    [] name \in {"intx1", "intx2", "intx4", "intx8"} -> int_xor(Unrolled(name))
    [] OTHER -> neon_xor(Unrolled(name))

gen_syndrome(name, disks, ptrs) == Gen(GenOf(name), disks, ptrs)
xor_syndrome(name, disks, start, stop, ptrs) == XorSyndrome(XorOf(name), disks, start, stop, ptrs)
=============================================================================
