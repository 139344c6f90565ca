-------------------------------- MODULE Raid6 --------------------------------
(***************************************************************************)
(* The parity of one stripe, byte for byte: raid6_select_algo() measures   *)
(* and picks the routines when the module is loaded, and handle_stripe()'s *)
(* operations on the buffers of a stripe (src/md_nonraid/6.18/unraid.c)    *)
(* use them to write, read, check and rebuild while disks are lost.        *)
(* Stripe says when an operation runs; this module says what it computes.  *)
(***************************************************************************)
EXTENDS Recover, TLC

CONSTANTS Archs,                    \* architectures that are tried
          MinPerf, MaxPerf,         \* what the benchmark may measure
          Disks,                    \* numbers of columns that are tried
          Contents(_, _),           \* what column i holds in version v
          Versions,
          Written(_), Failing(_),   \* of disks: columns that change or fail
          MaxXorBlocks              \* MAX_XOR_BLOCKS

ASSUME Raid6Assumption ==
  /\ Archs \subseteq Architectures
  /\ MinPerf \in Nat \ {0} /\ MaxPerf \in Nat
  /\ \A disks \in Disks :
       /\ disks \in 3..MaxData+2    \* MD_SB_DISKS
       /\ Written(disks) \subseteq 0..disks-3 /\ Failing(disks) \subseteq 0..disks-1
       /\ \A i \in 0..disks-3, v \in Versions : Contents(i, v) \in [0..Words-1 -> Register]
  /\ Versions # {}
  /\ MaxXorBlocks \in Nat \ {0}

(* The compile-time tables are those of the field, an inverse is one and   *)
(* no two disks have the same coefficient (mktables.c): no constants, so   *)
(* the evaluation of the assumption checks it.                             *)
ASSUME TablesAssumption == TablesAreRight /\ ProductsAreRight /\ DoublingIsRight

VARIABLES phase,    \* what raid6_select_algo() is at, then the stripe
          cpu,      \* architecture, features, CONFIG_RAID6_PQ_BENCHMARK
          at,       \* the algorithm of the list that is looked at
          best,     \* its index so far, 0 is NULL; its measure
          bestperf,
          perfs,    \* what was measured, by index (history)
          algs,     \* nonraid_gen_syndrome (and _call), _xor_syndrome, recovery
          data,     \* what the users wrote: version of each data column
          disk,     \* blocks on the disks
          lost,     \* disabled columns
          bad,      \* parity blocks that do not fit the data (history)
          got,      \* what a read made of the lost columns
          said      \* parities a check reported, and those that were bad

selection == <<phase, cpu, at, best, bestperf, perfs, algs>>
array == <<data, disk, lost, bad, got, said>>
vars == <<selection, array>>

NoCPU == [arch |-> "none", features |-> {}, benchmark |-> FALSE]
Nothing == [error |-> {}, bad |-> {}]

-----------------------------------------------------------------------------
(* raid6_choose_gen() and raid6_choose_xor() walk the list alike; only the *)
(* second skips the algorithms without xor_syndrome.                       *)
List == IF cpu = NoCPU THEN <<>> ELSE raid6_algos(cpu.arch)
Runs(alg) == alg.valid = "any" \/ alg.valid \in cpu.features
\* mutant: an algorithm of the same priority is not measured
TriedHigher(i) ==
  /\ best # 0 => List[i].priority > List[best].priority
  /\ Runs(List[i])
  /\ phase = "xor" => List[i].xor

Tried(i) ==
  /\ best # 0 => List[i].priority >= List[best].priority
  /\ Runs(List[i])
  /\ phase = "xor" => List[i].xor

Skip ==
  /\ phase \in {"gen", "xor"} /\ at <= Len(List) /\ ~Tried(at)
  /\ at' = at + 1
  /\ UNCHANGED <<phase, cpu, best, bestperf, perfs, algs, array>>

(* Without the benchmark the first algorithm that may run is taken.        *)
TakeFirst ==
  /\ phase \in {"gen", "xor"} /\ at <= Len(List) /\ Tried(at) /\ ~cpu.benchmark
  /\ best' = at /\ at' = Len(List) + 1
  /\ UNCHANGED <<phase, cpu, bestperf, perfs, algs, array>>

Measure(perf) ==
  /\ phase \in {"gen", "xor"} /\ at <= Len(List) /\ Tried(at) /\ cpu.benchmark
  /\ IF perf > bestperf THEN best' = at /\ bestperf' = perf
                        ELSE UNCHANGED <<best, bestperf>>
  /\ perfs' = [i \in DOMAIN perfs \cup {at} |-> IF i = at THEN perf ELSE perfs[i]]
  /\ at' = at + 1
  /\ UNCHANGED <<phase, cpu, algs, array>>

(* raid6_select_algo(): nonraid_call and nonraid_gen_syndrome are the best *)
(* one; when it has no xor_syndrome, the best one that does gives that.    *)
GenChosen ==
  /\ phase = "gen" /\ at > Len(List)
  /\ algs' = [algs EXCEPT !.gen = List[best].name,
                          !.xor = IF List[best].xor THEN List[best].name ELSE @]
  /\ phase' = IF List[best].xor THEN "recov" ELSE "xor"
  /\ at' = 1 /\ best' = 0 /\ bestperf' = 0 /\ perfs' = <<>>
  /\ UNCHANGED <<cpu, array>>

XorChosen ==
  /\ phase = "xor" /\ at > Len(List)
  /\ algs' = [algs EXCEPT !.xor = List[best].name]
  /\ phase' = "recov"
  /\ at' = 1 /\ best' = 0 /\ bestperf' = 0 /\ perfs' = <<>>
  /\ UNCHANGED <<cpu, array>>

(* raid6_choose_recov(): a strictly higher priority replaces the choice.   *)
ChooseRecov ==
  LET list == raid6_recov_algos(cpu.arch)
      choice[i \in 0..Len(list)] ==
        IF i = 0 THEN 0
        ELSE IF /\ choice[i - 1] = 0 \/ list[i].priority > list[choice[i - 1]].priority
                /\ Runs(list[i])
             THEN i ELSE choice[i - 1]
  IN  /\ phase = "recov"
      /\ algs' = [algs EXCEPT !.recov = list[choice[Len(list)]].name]
      /\ phase' = "chosen"
      /\ UNCHANGED <<cpu, at, best, bestperf, perfs, array>>

Load ==
  /\ phase = "off"
  /\ \E arch \in Archs, benchmark \in BOOLEAN :
       \E features \in Features(arch) :
         cpu' = [arch |-> arch, features |-> features, benchmark |-> benchmark]
  /\ phase' = "gen"
  /\ UNCHANGED <<at, best, bestperf, perfs, algs, array>>

-----------------------------------------------------------------------------
(* The buffers of a stripe while it is handled: srcs, the columns whose     *)
(* buffers are locked for a write, and the parities a check found wrong.   *)
N == Cardinality(DOMAIN disk)
PD == N - 2
QD == N - 1
Data == 0..PD-1
Content == [i \in Data |-> Contents(i, data[i])]

(* Buffers that nothing was read into hold something else.                 *)
Stale == [w \in 0..Words-1 |-> 0..15]
ReadIn(cols) ==
  [srcs |-> [i \in 0..N-1 |-> IF i \in cols THEN disk[i] ELSE Stale], locked |-> {}, error |-> {}]
Valid == (0..N-1) \ lost

Put(sh, cols, srcs) == [sh EXCEPT !.srcs = srcs, !.locked = @ \cup cols]
Copy(sh, from, cols) == [i \in DOMAIN sh.srcs |-> IF i \in cols THEN sh.srcs[from] ELSE sh.srcs[i]]

raid6_generate_dd(sh, faila, failb) ==
  Put(sh, {faila, failb}, data2_recov(algs.recov, algs.gen, N, faila, failb, sh.srcs))

raid6_generate_dp(sh, faila) ==
  Put(sh, {faila, PD},
      IF N = 3 THEN Copy(sh, QD, {0, PD}) ELSE datap_recov(algs.recov, algs.gen, N, faila, sh.srcs))

(* cols is {PD, QD}, or {QD} in raid6_generate_q(): P is computed then too, *)
(* and kept in its buffer, but not written.                                *)
raid6_generate_pq(sh, cols) ==
  Put(sh, cols, IF N = 3 THEN Copy(sh, 0, cols) ELSE gen_syndrome(algs.gen, N, sh.srcs))

(* xor_blocks(count, BUFFER_SIZE, dest, ptr) adds count sources to dest.   *)
xor_blocks(dest, srcs, ptrs) ==
  [w \in 0..Words-1 |->
     LET sum[k \in 0..Len(ptrs)] ==
           IF k = 0 THEN dest[w] ELSE Xor(sum[k - 1], srcs[ptrs[k]][w])
     IN  sum[Len(ptrs)]]

(* The columns of cols are collected in ptr[], and added when it is full;  *)
(* what is left in ptr[] at the end is added then.                         *)
Collected(was, srcs, ptr) ==
  IF Len(ptr) = MaxXorBlocks
  THEN [dest |-> xor_blocks(was.dest, srcs, ptr), ptr |-> <<>>]
  ELSE [dest |-> was.dest, ptr |-> ptr]

XorColumns(dest, srcs, cols) ==
  LET step[i \in 0..N] ==
        IF i = 0 THEN [dest |-> dest, ptr |-> <<>>]
        ELSE Collected(step[i - 1], srcs,
               IF i - 1 \in cols THEN Append(step[i - 1].ptr, i - 1) ELSE step[i - 1].ptr)
      rest(was) == xor_blocks(was.dest, srcs, was.ptr)
  IN  rest(step[N])

raid5_generate_d(sh, dd) ==
  Put(sh, {dd}, [sh.srcs EXCEPT ![dd] = XorColumns(Zero, sh.srcs, (0..PD) \ {dd})])

copy_write_data(sh, i, block) == Put(sh, {i}, [sh.srcs EXCEPT ![i] = block])

(* The old block is taken out of the parity, the new one put in.           *)
rmw5_write_data(sh, i, block) ==
  LET moved(srcs) == [srcs EXCEPT ![PD] = XorColumns(srcs[PD], srcs, {i})]
      step[k \in 0..2] == IF k = 0 THEN sh.srcs
                          ELSE moved(IF k = 1 THEN step[0] ELSE [step[1] EXCEPT ![i] = block])
  IN  Put(sh, {i, PD}, step[2])

rmw6_write_data(sh, i, block, pd_uptodate) ==
  LET step[k \in 0..2] ==
        IF k = 0 THEN sh.srcs
        ELSE xor_syndrome(algs.xor, N, i, i, IF k = 1 THEN step[0] ELSE [step[1] EXCEPT ![i] = block])
  IN  Put(sh, {i, QD} \cup (IF pd_uptodate THEN {PD} ELSE {}), step[2])

(* check_parity5(): P plus all the data must be zero; compared as its      *)
(* first word with 0 and all but the last word with all but the first.     *)
\* mutant: the last word is not compared
AllZeroShort(dest) == dest[0] = {} /\ \A w \in 1..Words-2 : dest[w - 1] = dest[w]

AllZero(dest) == dest[0] = {} /\ \A w \in 1..Words-1 : dest[w - 1] = dest[w]

check_parity5(sh) ==
  [sh EXCEPT !.error = IF AllZero(XorColumns(sh.srcs[PD], sh.srcs, Data)) THEN {} ELSE {PD}]

(* check_parity(): both parities are computed into spare buffers whatever   *)
(* the number of disks, those in checked compared with what was read, and   *)
(* a correcting check copies over those that differ.                       *)
check_parity(sh, checked, recover) ==
  LET fixed(error, scribble) ==
        [Put(sh, IF recover THEN error ELSE {},
             [c \in 0..N-1 |-> IF recover /\ c \in error THEN scribble[c] ELSE sh.srcs[c]])
         EXCEPT !.error = error]
      compared(scribble) == fixed({p \in checked : sh.srcs[p] # scribble[p]}, scribble)
  IN  compared(gen_syndrome(algs.gen, N, sh.srcs))

(* handle_stripe() runs some of them one after the other.                  *)
Op(name, cols) == [op |-> name, cols |-> cols]
WriteOp(name, i, v) == [op |-> name, cols |-> {i}, block |-> Contents(i, v)]
CheckOp(name, cols, recover) == [op |-> name, cols |-> cols, recover |-> recover]
Lowest(cols) == CHOOSE i \in cols : \A j \in cols : i <= j
Highest(cols) == CHOOSE i \in cols : \A j \in cols : i >= j

Do(sh, o) ==
  CASE o.op = "dd"   -> raid6_generate_dd(sh, Lowest(o.cols), Highest(o.cols))
    [] o.op = "dp"   -> raid6_generate_dp(sh, Lowest(o.cols))
    [] o.op = "pq"   -> raid6_generate_pq(sh, o.cols)
    [] o.op = "d"    -> raid5_generate_d(sh, Lowest(o.cols))
    [] o.op = "copy" -> copy_write_data(sh, Lowest(o.cols), o.block)
    [] o.op = "rmw5" -> rmw5_write_data(sh, Lowest(o.cols), o.block)
    [] o.op = "rmw6" -> rmw6_write_data(sh, Lowest(o.cols), o.block, PD \notin lost)
    [] o.op = "check5" -> check_parity5(sh)
    [] o.op = "check"  -> check_parity(sh, o.cols, o.recover)
    [] o.op = "recover" -> IF sh.error = {} THEN sh ELSE raid5_generate_d(sh, Lowest(o.cols))

Done(cols, ops) ==
  LET sh[k \in 0..Len(ops)] == IF k = 0 THEN ReadIn(cols) ELSE Do(sh[k - 1], ops[k])
  IN  sh[Len(ops)]

(* raid5_generate_p() and raid6_generate_q().                              *)
raid5_generate_p == <<Op("d", {PD})>>
raid6_generate_q == <<Op("pq", {QD})>>

(* handle_stripe(): the data columns that are lost are computed first.     *)
Rebuilt ==
  LET d == lost \cap Data
  IN  CASE Cardinality(d) = 2 -> <<Op("dd", d)>>
        [] Cardinality(d) = 1 /\ PD \in lost -> <<Op("dp", d)>>
        [] Cardinality(d) = 1 /\ PD \notin lost -> <<Op("d", d)>>
        [] OTHER -> <<>>

(* schedule_writes(): locked buffers go to the disks that are enabled.     *)
WrittenOut(sh, disabled) ==
  [i \in 0..N-1 |-> IF i \in sh.locked \ disabled THEN sh.srcs[i] ELSE disk[i]]

-----------------------------------------------------------------------------
(* Operations on the stripe; each is what handle_stripe() does once the    *)
(* columns the case needs are read.                                        *)

(* A new array (NEW_ARRAY): nothing is known of the parities.              *)
Boot ==
  /\ phase = "chosen"
  /\ \E n \in Disks :
       /\ data' = [i \in 0..n-3 |-> CHOOSE v \in Versions : TRUE]
       /\ disk' = [i \in 0..n-1 |-> IF i < n - 2 THEN Contents(i, data'[i]) ELSE Stale]
       /\ lost' = {n - 2, n - 1}
  /\ phase' = "ready" /\ cpu' = NoCPU
  /\ UNCHANGED <<at, best, bestperf, perfs, algs, bad, got, said>>

(* A request for a lost column is answered from the others.                *)
Read ==
  /\ phase = "ready" /\ bad = {} /\ lost \cap Data # {}
  /\ \E sh \in {Done(Valid, Rebuilt)} : got' = [i \in lost \cap Data |-> sh.srcs[i]]
  /\ phase' = "answered"
  /\ UNCHANGED <<cpu, at, best, bestperf, perfs, algs, data, disk, lost, bad, said>>

(* The parities after the new data is in its buffer.                       *)
Reconstructed ==
  CASE {PD, QD} \subseteq lost -> <<>>
    [] QD \in lost /\ PD \notin lost -> raid5_generate_p
    [] PD \in lost /\ QD \notin lost /\ lost # {PD} -> raid6_generate_q
    [] OTHER -> <<Op("pq", {PD, QD})>>

(* A block for column i: read-modify-write where write_method asks for it  *)
(* and the column and a parity are there, else reconstruct-write.          *)
Modify(i, v) ==
  IF QD \in lost THEN [cols |-> {i, PD}, ops |-> <<WriteOp("rmw5", i, v)>>]
                  ELSE [cols |-> {i, PD, QD} \ lost, ops |-> <<WriteOp("rmw6", i, v)>>]

Reconstruct(i, v) ==
  IF lost \cap Data \subseteq {i} /\ Cardinality(lost) < 2
  THEN [cols |-> Data \ {i}, ops |-> <<WriteOp("copy", i, v)>> \o Reconstructed]
  ELSE [cols |-> Valid, ops |-> Rebuilt \o <<WriteOp("copy", i, v)>> \o Reconstructed]

Write(i, v, rmw) ==
  /\ phase = "ready" /\ bad = {}
  /\ LET todo == IF rmw /\ N > 3 /\ i \notin lost /\ ~({PD, QD} \subseteq lost)
                 THEN Modify(i, v) ELSE Reconstruct(i, v)
     IN  \E sh \in {Done(todo.cols, todo.ops)} : disk' = WrittenOut(sh, lost)
  /\ data' = [data EXCEPT ![i] = v]
  /\ UNCHANGED <<selection, lost, bad, got, said>>

(* The recon cases of a sync, after some of the lost disks were replaced.  *)
Recon(replaced) ==
  CASE lost = {PD} \/ (lost = {PD, QD} /\ QD \notin replaced) -> raid5_generate_p
    [] lost = {QD} \/ (lost = {PD, QD} /\ PD \notin replaced) -> raid6_generate_q
    [] lost = {PD, QD} /\ lost = replaced -> <<Op("pq", {PD, QD})>>
    [] lost \cap Data # {} /\ QD \in replaced -> Rebuilt \o raid6_generate_q
    [] lost \cap Data # {} /\ QD \notin replaced -> Rebuilt

Rebuild(replaced) ==
  /\ phase = "ready" /\ bad = {}
  /\ \E sh \in {Done(Valid, Recon(replaced))} : disk' = WrittenOut(sh, lost \ replaced)
  /\ lost' = lost \ replaced
  /\ UNCHANGED <<selection, data, bad, got, said>>

(* With two disks missing nothing is checked; with one data disk a routine *)
(* that loads ahead would use srcs[-1].                                    *)
CanCheck ==
  /\ Cardinality(lost) <= 1
  /\ algs.gen \in LoadsAhead /\ lost # {QD} => CanLoadAhead(N)

(* md_write_error(): the disk is disabled, nothing more is written to it.  *)
Fail(c) ==
  /\ phase = "ready" /\ bad = {} /\ c \notin lost /\ Cardinality(lost) < 2
  /\ disk' = [disk EXCEPT ![c] = Stale]
  /\ lost' = lost \cup {c}
  /\ UNCHANGED <<selection, data, bad, got, said>>

(* A crash between the writes of a stripe leaves a parity that does not    *)
(* fit.  While a data disk is lost the code takes P as right without a     *)
(* look (what is lost depends on it), so then P is.  Only what is checked   *)
(* afterwards is of interest here.                                         *)
Corrupt(c, w) ==
  /\ phase = "ready" /\ c \notin lost \cup bad /\ CanCheck
  /\ c = PD => lost \cap Data = {}
  /\ disk' = [disk EXCEPT ![c][w] = Xor(@, {9})]
  /\ bad' = bad \cup {c}
  /\ UNCHANGED <<selection, data, lost, got, said>>

(* With Q disabled P is checked alone, with a data disk or P disabled Q    *)
(* alone.                                                                  *)
Checked(recover) ==
  IF lost = {QD}
  THEN <<CheckOp("check5", {PD}, recover)>>
       \o IF recover THEN <<Op("recover", {PD})>> ELSE <<>>
  ELSE Rebuilt \o <<CheckOp("check", IF lost = {} THEN {PD, QD} ELSE {QD}, recover)>>

Check(recover) ==
  /\ phase = "ready" /\ CanCheck
  /\ \E sh \in {Done(Valid, Checked(recover))} :
       /\ said' = [error |-> sh.error, bad |-> bad]
       /\ disk' = WrittenOut(sh, lost)
  /\ bad' = IF recover THEN {} ELSE bad
  /\ phase' = "answered"
  /\ UNCHANGED <<cpu, at, best, bestperf, perfs, algs, data, lost, got>>

Answered ==
  /\ phase = "answered"
  /\ phase' = "ready" /\ got' = <<>> /\ said' = Nothing
  /\ UNCHANGED <<cpu, at, best, bestperf, perfs, algs, data, disk, lost, bad>>

Init ==
  /\ phase = "off" /\ cpu = NoCPU
  /\ at = 1 /\ best = 0 /\ bestperf = 0 /\ perfs = <<>>
  /\ algs = [gen |-> "none", xor |-> "none", recov |-> "none"]
  /\ data = <<>> /\ disk = <<>> /\ lost = {} /\ bad = {}
  /\ got = <<>> /\ said = Nothing

Select ==
  \/ Load \/ Skip \/ TakeFirst \/ GenChosen \/ XorChosen \/ ChooseRecov
  \/ \E perf \in MinPerf..MaxPerf : Measure(perf)

Next ==
  \/ Select
  \/ Boot \/ Read \/ Answered
  \/ \E i \in Written(N), v \in Versions, rmw \in BOOLEAN : Write(i, v, rmw)
  \/ \E replaced \in (SUBSET lost) \ {{}} : Rebuild(replaced)
  \/ \E c \in Failing(N) : Fail(c)
  \/ \E c \in {PD, QD}, w \in {0, Words - 1} : Corrupt(c, w)
  \/ \E recover \in BOOLEAN : Check(recover)

Spec == Init /\ [][Next]_vars

-----------------------------------------------------------------------------

(* raid6_select_algo() never picks a routine the processor lacks, passes   *)
(* over none of a higher priority, takes the fastest of what it measured,  *)
(* and always ends with a gen, an xor and a recovery (algos.c).            *)
BestChosen ==
  /\ phase \in {"gen", "xor"} /\ at > Len(List) =>
       /\ best # 0 /\ Runs(List[best]) /\ (phase = "xor" => List[best].xor)
       /\ \A i \in 1..Len(List) :
            Runs(List[i]) /\ (phase = "xor" => List[i].xor) =>
              /\ List[i].priority <= List[best].priority
              /\ cpu.benchmark /\ List[i].priority = List[best].priority =>
                   i \in DOMAIN perfs /\ perfs[i] <= perfs[best]
  /\ phase = "chosen" =>
       /\ \E i \in 1..Len(List) : List[i].name = algs.gen /\ Runs(List[i])
       /\ \E i \in 1..Len(List) : List[i].name = algs.xor /\ Runs(List[i]) /\ List[i].xor
       /\ \E r \in DOMAIN raid6_recov_algos(cpu.arch) :
            LET list == raid6_recov_algos(cpu.arch)
            IN  /\ list[r].name = algs.recov /\ Runs(list[r])
                /\ \A j \in DOMAIN list : Runs(list[j]) => list[j].priority <= list[r].priority

(* P and Q by the definition of the code: the sum of the data, and the sum *)
(* of the data times the powers of 2, byte by byte in the field.           *)
Times(n, v) == ByBytes(v, LAMBDA b : FieldMul(FieldExp(n), b))
CodeP(w) == LET sum[i \in 0..PD] == IF i = 0 THEN {} ELSE Xor(sum[i - 1], Content[i - 1][w]) IN sum[PD]
CodeQ(w) == LET sum[i \in 0..PD] ==
                  IF i = 0 THEN {} ELSE Xor(sum[i - 1], Times(i - 1, Content[i - 1][w]))
            IN  sum[PD]

(* Whatever was written, rebuilt or checked with whatever disks missing,   *)
(* by whichever of the routines, every disk that is not lost holds its     *)
(* data and every parity that no crash spoiled is the code of the data of  *)
(* all the columns, the lost ones included (handle_stripe()).              *)
ParityCoded ==
  phase \in {"ready", "answered"} =>
    /\ \A i \in Data \ lost : disk[i] = Content[i]
    /\ PD \notin lost \cup bad => \A w \in 0..Words-1 : disk[PD][w] = CodeP(w)
    /\ QD \notin lost \cup bad => \A w \in 0..Words-1 : disk[QD][w] = CodeQ(w)

(* What a read gets of lost columns is what was last written to them, for  *)
(* every pair of lost disks (raid6_2data_recov, raid6_datap_recov,         *)
(* raid5_generate_d).                                                      *)
RecoveredRight == \A i \in DOMAIN got : got[i] = Content[i]

(* A check reports the parities that do not fit and no others, wherever in *)
(* the block they differ (check_parity(), check_parity5()).                *)
CheckExact == said.error = said.bad
=============================================================================
