------------------------------- MODULE Stripe -------------------------------
(***************************************************************************)
(* One stripe of the array in md_nonraid/6.18/unraid.c: the column         *)
(* buffers of its stripe_head, handle_stripe() as the unraidd thread runs  *)
(* it, the completion handler end_request(), unraid_sync() as the recovery *)
(* thread calls it, and the part of md_unraid.c they call back             *)
(* (md_write_error, md_update_sb, md_sync_error, md_do_recovery).          *)
(*                                                                         *)
(* Columns are numbered as in the code: data 0 .. disks-3, P at disks-2, Q *)
(* at disks-1.  What P and Q hold is in ErasureCode.                       *)
(*                                                                         *)
(* handle_stripe() is one step: unraidd takes a stripe off the handle list *)
(* only when its reference count is zero, so no completion of an earlier   *)
(* request can run beside it, and the I/O it submits starts at its end.    *)
(***************************************************************************)
EXTENDS ErasureCode, FiniteSets, TLC

CONSTANTS
  Arrays,     \* the arrays to start from: see Array below
  WriteVals,  \* values written, a subset of Elem (partial writes add them)
  Methods,    \* write methods in use, a subset of {"RMW", "RECON"}
  OutOfBounds \* what sh->col[-1].write_bi may read as: subset of {"NULL", "page"}

ASSUME StripeAssumption ==
  /\ WriteVals \subseteq Elem
  /\ Methods \subseteq {"RMW", "RECON"}
  /\ OutOfBounds \subseteq {"NULL", "page"}

(***************************************************************************)
(* What a slot holds when the array starts.  "ok": in use.  "short": in    *)
(* use, but the disk ends before this stripe.  "dsbl": active but disabled *)
(* (failed, missing, or a parity slot never assigned).  "rebuild": a       *)
(* replacement whose content is not valid yet.  "new": a data disk to be   *)
(* cleared.  "absent": an unassigned data slot.                            *)
(***************************************************************************)
Kind == {"ok", "short", "dsbl", "rebuild", "new", "absent"}

(* An array and what may happen to it.  faults bounds the I/O errors on     *)
(* disks in use, on reads and writes of the columns readFaults and          *)
(* writeFaults; others says that disks also fail in accesses to other       *)
(* stripes, clean that parity matches the data (it need not after a crash). *)
Array == [slots : [Cols -> Kind], faults : Nat, readFaults : SUBSET Cols,
          writeFaults : SUBSET Cols, others : BOOLEAN, clean : BOOLEAN]

ASSUME ArraysAssumption == Arrays \subseteq Array

DiskState == [valid : BOOLEAN, enabled : BOOLEAN, active : BOOLEAN]
ColState == [valid : BOOLEAN, enabled : BOOLEAN, active : BOOLEAN,
             uptodate : BOOLEAN, buf : Elem, io : {"none", "read", "write"}]

NoBio == [op |-> "none", col |-> 0, val |-> 0, partial |-> FALSE, method |-> "RMW"]
Bio == [op : {"none", "read", "write", "written"}, col : Data, val : Elem, partial : BOOLEAN,
        method : {"RMW", "RECON"}]

VARIABLES
  array,        \* the array that was started; never changes
  disk,         \* mddev->sb.disks[].state
  num_disabled, num_invalid, num_new,
  sb,           \* the disk states of the superblock file
  media,        \* the blocks of this stripe on the disks
  col,          \* sh->col[]; the locked bit is io # "none"
  bi,           \* the bio on read_bi, write_bi or written_bi, and sh->write_method
  sh,           \* sh->state bits, and whether the stripe is hashed
  update_sb,    \* who has MD_UPDATE_SB set in a column: "this" stripe, "other" ones
  rec,          \* the recovery thread
  last,         \* history: the values a read of each data block may return
  faults,       \* history: errors so far
  event,        \* history: what the last step returned
  bug           \* history: an assertion of the driver has failed

stripeVars == <<col, bi, sh, update_sb>>
diskVars == <<disk, num_disabled, num_invalid, num_new>>
vars == <<array, disk, num_disabled, num_invalid, num_new, sb, media, col, bi, sh,
          update_sb, rec, last, faults, event, bug>>

NoEvent == [op |-> "none", ok |-> TRUE, col |-> 0, val |-> 0]
Event == [op : {"none", "read", "write", "sync"}, ok : BOOLEAN, col : Data, val : Elem]

---------------------------------------------------------------------------
(* A calculation on the buffers: c the columns, lock the columns it locks, *)
(* ok that no BUG_ON(!buff_uptodate) has fired.                            *)
Calc(c) == [c |-> c, lock |-> {}, ok |-> TRUE]

Put(g, new, lock, req) ==
  [c    |-> [i \in Cols |-> IF i \in DOMAIN new
                            THEN [g.c[i] EXCEPT !.buf = new[i], !.uptodate = TRUE]
                            ELSE g.c[i]],
   lock |-> g.lock \cup lock,
   ok   |-> g.ok /\ \A i \in req : g.c[i].uptodate]

DataOf(g) == [i \in Data |-> g.c[i].buf]
Agree(d, g, lost) == \A i \in Data \ lost : d[i] = g.c[i].buf

raid6_generate_dd(g, a, b) ==
  LET d == CHOOSE d \in [Data -> Elem] :
             Agree(d, g, {a, b}) /\ PValue(d) = g.c[PD].buf /\ QValue(d) = g.c[QD].buf
  IN  Put(g, [i \in {a, b} |-> d[i]], {a, b}, Cols \ {a, b})

\* Mutant: P computed before the lost block is restored.
raid6_generate_dp_StaleP(g, a) ==
  LET d == CHOOSE d \in [Data -> Elem] : Agree(d, g, {a}) /\ QValue(d) = g.c[QD].buf
  IN  Put(g, [i \in {a, PD} |-> IF i = a THEN d[a] ELSE PValue(DataOf(g))], {a, PD},
          Cols \ {a, PD})

raid6_generate_dp(g, a) ==
  LET d == CHOOSE d \in [Data -> Elem] : Agree(d, g, {a}) /\ QValue(d) = g.c[QD].buf
  IN  Put(g, [i \in {a, PD} |-> Block(d, i)], {a, PD}, Cols \ {a, PD})

raid6_generate_pq(g) ==
  Put(g, [i \in {PD, QD} |-> Block(DataOf(g), i)], {PD, QD}, Data)

(* The library has no Q-only routine: P is filled in too, but not locked. *)
raid6_generate_q(g) ==
  LET filled == IF NData = 1 THEN {QD} ELSE {PD, QD}
  IN  Put(g, [i \in filled |-> Block(DataOf(g), i)], {QD}, Data)

raid5_generate_d(g, x) ==
  LET v == IF x = PD THEN PValue(DataOf(g))
           ELSE (g.c[PD].buf - PValue([DataOf(g) EXCEPT ![x] = 0])) % Order
  IN  Put(g, [i \in {x} |-> v], {x}, (0 .. PD) \ {x})

raid5_generate_p(g) == raid5_generate_d(g, PD)

\* Mutant: copy_data() writes past the end of a partial write.
NewBlock_Whole(g) == bi.val

(* copy_data() of the pending write into the column: a partial write leaves *)
(* part of the old block, here by adding to it.                             *)
NewBlock(g) == IF bi.partial THEN (g.c[bi.col].buf + bi.val) % Order ELSE bi.val

copy_write_data(g) == Put(g, [i \in {bi.col} |-> NewBlock(g)], {bi.col}, {})

rmw5_write_data(g) ==
  LET i == bi.col
      p == (g.c[PD].buf - g.c[i].buf + NewBlock(g)) % Order
  IN  Put(g, [j \in {i, PD} |-> IF j = PD THEN p ELSE NewBlock(g)], {i, PD}, {i, PD})

(* The library updates P and Q together; without P its buffer is dropped. *)
rmw6_write_data(g, pd_uptodate) ==
  LET i == bi.col
      delta == NewBlock(g) - g.c[i].buf
      q == (g.c[QD].buf + (i + 1) * delta) % Order
      p == (g.c[PD].buf + delta) % Order
      used == IF pd_uptodate THEN {i, PD, QD} ELSE {i, QD}
      h == Put(g, [j \in {i, PD, QD} |-> IF j = PD THEN p ELSE IF j = QD THEN q ELSE NewBlock(g)],
               used, used)
  IN  IF pd_uptodate THEN h ELSE [h EXCEPT !.c[PD].uptodate = FALSE]

---------------------------------------------------------------------------
(* Pieces of handle_stripe(). *)

(* Capture: the failed columns; faila and failb are the first two of them, *)
(* -1 when there is none.                                                  *)
Failed == {i \in Cols : ~ col[i].valid}
failed == Cardinality(Failed)
faila == IF failed >= 1 THEN Min(Failed) ELSE -1
failb == IF failed >= 2 THEN Min(Failed \ {faila}) ELSE -1

(* schedule_read() of the columns of S that are not up to date: a disabled *)
(* column is filled with zeros.                                            *)
Fetch(S) ==
  [i \in Cols |->
    IF i \in S /\ ~ col[i].uptodate
    THEN IF col[i].enabled THEN [col[i] EXCEPT !.io = "read"]
                           ELSE [col[i] EXCEPT !.buf = 0, !.uptodate = TRUE]
    ELSE col[i]]

Locked(c) == \E i \in Cols : c[i].io # "none"

\* Mutant: a replacement is not written until it is valid.
schedule_writes_ValidOnly(g) ==
  [i \in Cols |->
    IF i \notin g.lock THEN g.c[i]
    ELSE IF g.c[i].enabled THEN [g.c[i] EXCEPT !.io = IF @ = "none" /\ g.c[i].valid THEN "write" ELSE @]
    ELSE [g.c[i] EXCEPT !.valid = TRUE]]

(* schedule_writes(): a locked column that is disabled is skipped, unlocked *)
(* and called valid.                                                        *)
schedule_writes(g) ==
  [i \in Cols |->
    IF i \notin g.lock THEN g.c[i]
    ELSE IF g.c[i].enabled THEN [g.c[i] EXCEPT !.io = "write"]
    ELSE [g.c[i] EXCEPT !.valid = TRUE]]

PEnabled == col[PD].enabled
QEnabled == col[QD].enabled

(* sh->col[x].write_bi of the pending write; x = -1 reads outside the array *)
(* of columns, into the buffer addresses before it.                         *)
HasWrite(x, junk) == IF x = -1 THEN junk = "page" ELSE x = bi.col

RmwCommon == bi.method = "RMW" /\ NData > 1

RmwPQ ==
  /\ RmwCommon /\ PEnabled /\ QEnabled
  /\ failed <= 2
  /\ Failed \subseteq Data \ {bi.col}

RmwP(junk) ==
  /\ RmwCommon /\ PEnabled /\ ~ QEnabled
  /\ failed = 1 \/ (faila < PD /\ ~ HasWrite(faila, junk))

RmwQ(junk) ==
  /\ RmwCommon /\ ~ PEnabled /\ QEnabled
  /\ failed = 1 \/ (failb # QD /\ ~ HasWrite(faila, junk))

Rmw(junk) == RmwPQ \/ RmwP(junk) \/ RmwQ(junk)
Recon == failed <= 1 \/ (failed = 2 /\ (PEnabled \/ QEnabled))

(* The columns each kind of write has to read first. *)
TargetIfPartial == IF bi.partial THEN {bi.col} ELSE {}

ReconSources ==
  CASE Failed \in {{}, {PD}, {QD}} -> (Data \ {bi.col}) \cup TargetIfPartial
    [] failed = 1 /\ faila = bi.col /\ ~ bi.partial -> Data \ {faila}
    [] failed = 1 /\ faila < PD /\ (faila # bi.col \/ bi.partial) -> (0 .. PD) \ {faila}
    [] failed = 2 -> Cols \ Failed

WriteSources(junk) ==
  CASE RmwPQ -> {bi.col, PD, QD}
    [] RmwP(junk) -> {bi.col, PD}
    [] RmwQ(junk) -> {bi.col, QD}
    [] ~ Rmw(junk) /\ Recon -> ReconSources
    [] ~ Rmw(junk) /\ ~ Recon -> TargetIfPartial

\* Mutant: a Q that is being rebuilt is left to the rebuild.
PAndMaybeQ_POnly(g) == raid5_generate_p(g)

(* With P as the anchor, Q is generated too when its disk is enabled; with  *)
(* Q as the anchor, P is.                                                   *)
PAndMaybeQ(g) == IF QEnabled THEN raid6_generate_pq(g) ELSE raid5_generate_p(g)
QAndMaybeP(g) == IF PEnabled THEN raid6_generate_pq(g) ELSE raid6_generate_q(g)

(* One line per reconstruct-write case: restore the lost blocks, insert the *)
(* new data, generate parity.                                               *)
ReconWrite(g) ==
  CASE failed = 0 -> raid6_generate_pq(copy_write_data(g))
    [] failed = 1 /\ faila >= PD -> PAndMaybeQ(copy_write_data(g))
    [] failed = 1 /\ faila = bi.col /\ ~ bi.partial -> raid6_generate_pq(copy_write_data(g))
    [] failed = 1 /\ faila < PD /\ (faila # bi.col \/ bi.partial) ->
         raid6_generate_pq(copy_write_data(raid5_generate_d(g, faila)))
    [] failed = 2 /\ failb < PD ->
         raid6_generate_pq(copy_write_data(raid6_generate_dd(g, faila, failb)))
    [] failed = 2 /\ faila < PD /\ failb = PD ->
         QAndMaybeP(copy_write_data(raid6_generate_dp(g, faila)))
    [] failed = 2 /\ faila < PD /\ failb = QD ->
         PAndMaybeQ(copy_write_data(raid5_generate_d(g, faila)))
    [] failed = 2 /\ faila = PD -> PAndMaybeQ(copy_write_data(g))

WriteCalc(g, junk) ==
  CASE RmwPQ -> rmw6_write_data(g, TRUE)
    [] RmwP(junk) -> rmw5_write_data(g)
    [] RmwQ(junk) -> rmw6_write_data(g, FALSE)
    [] ~ Rmw(junk) /\ Recon -> ReconWrite(g)
    [] ~ Rmw(junk) /\ ~ Recon -> copy_write_data(g)

(* What a read of failed data columns computes. *)
ReadCalc(g) ==
  CASE failed = 1 -> raid5_generate_d(g, faila)
    [] failed = 2 /\ failb < PD -> raid6_generate_dd(g, faila, failb)
    [] failed = 2 /\ failb = PD -> raid6_generate_dp(g, faila)
    [] failed = 2 /\ failb = QD ->
         LET h == raid5_generate_d(g, faila)
         IN  IF QEnabled THEN raid6_generate_q(h) ELSE h

\* Mutant: Q is compared although its disk is the failed one.
check_parity_ChecksLostQ(g, fail_idx, recover) ==
  LET bad == g.c[PD].buf # PValue(DataOf(g)) \/ g.c[QD].buf # QValue(DataOf(g))
  IN  [g |-> g, bad |-> bad]

\* Mutant: only P is corrected.
check_parity_FixesP(g, fail_idx, recover) ==
  LET p == PValue(DataOf(g))
      bad == g.c[PD].buf # p
  IN  [bad |-> bad, g |-> IF bad /\ recover THEN Put(g, [i \in {PD} |-> p], {PD}, {}) ELSE g]

(* check_parity(sh, fail_idx, recover): the corrected buffers, and whether  *)
(* P or Q differ from what the data give.                                   *)
check_parity(g, fail_idx, recover) ==
  LET h == IF fail_idx \in Data THEN raid5_generate_d(g, fail_idx) ELSE g
      skipP == fail_idx \in Data \/ fail_idx = PD
      p == PValue(DataOf(h))
      q == QValue(DataOf(h))
      badP == ~ skipP /\ h.c[PD].buf # p
      badQ == fail_idx # QD /\ h.c[QD].buf # q
      fix == (IF badP THEN {PD} ELSE {}) \cup (IF badQ THEN {QD} ELSE {})
      ok == h.ok /\ \A i \in Cols \ {fail_idx} : g.c[i].uptodate
      \* check_parity5 leaves its result in the P buffer
      pcol == IF fail_idx = QD
              THEN [h.c[PD] EXCEPT !.uptodate = FALSE, !.buf = (@ - p) % Order]
              ELSE [h.c[PD] EXCEPT !.uptodate = TRUE]
      k == [h EXCEPT !.ok = ok, !.c[PD] = pcol]
  IN  [g |-> IF recover /\ fix # {}
             THEN Put(k, [i \in fix |-> IF i = PD THEN p ELSE q], fix, {})
             ELSE k,
       bad |-> fix # {}]

(* What a sync computes once every valid column has been read. *)
SyncCalc(g, recover) ==
  IF failed = 0 \/ (failed = 1 /\ ~ col[faila].enabled)
  THEN check_parity(g, faila, recover)
  ELSE [bad |-> FALSE,
        g |-> CASE failed = 1 /\ faila <= PD -> raid5_generate_d(g, faila)
                [] failed = 1 /\ faila = QD -> raid6_generate_q(g)
                [] failed = 2 /\ faila = PD ->
                     IF PEnabled THEN PAndMaybeQ(g) ELSE IF QEnabled THEN raid6_generate_q(g) ELSE g
                [] failed = 2 /\ failb = PD -> raid6_generate_dp(g, faila)
                [] failed = 2 /\ faila < PD /\ failb = QD ->
                     LET h == raid5_generate_d(g, faila)
                     IN  IF QEnabled THEN raid6_generate_q(h) ELSE h
                [] failed = 2 /\ failb < PD -> raid6_generate_dd(g, faila, failb)]

---------------------------------------------------------------------------
(* handle_stripe(), one action for what it finds in the stripe. *)

NoIO == \A i \in Cols : col[i].io = "none"

(* unraidd takes the stripe off its handle list. *)
BeginHandle ==
  /\ sh.handle /\ NoIO
  /\ update_sb' = update_sb \ {"this"}
  /\ sb' = IF "this" \in update_sb THEN disk ELSE sb
  /\ UNCHANGED <<array, diskVars, media, faults>>

Return(op, ok, v) == event' = [op |-> op, ok |-> ok, col |-> bi.col, val |-> v] /\ bi' = NoBio

\* Mutant: a request is failed when its own column has.
HandleFailRequest_AtOne ==
  /\ BeginHandle
  /\ bi.op # "none" /\ failed > 0 /\ bi.col \in Failed
  /\ Return(IF bi.op = "read" THEN "read" ELSE "write", FALSE, 0)
  /\ sh' = [sh EXCEPT !.handle = FALSE]
  /\ UNCHANGED <<col, rec, last, bug>>

(* More than two columns failed, and so is the one addressed. *)
HandleFailRequest ==
  /\ BeginHandle
  /\ bi.op # "none" /\ failed > 2 /\ bi.col \in Failed
  /\ Return(IF bi.op = "read" THEN "read" ELSE "write", FALSE, 0)
  \* a write that fails may or may not have taken effect
  /\ last' = IF bi.op = "read" THEN last
             ELSE [last EXCEPT ![bi.col] = @ \cup
                     IF bi.op = "write" /\ bi.partial THEN Elem ELSE {bi.val}]
  /\ sh' = [sh EXCEPT !.handle = FALSE]
  /\ UNCHANGED <<col, rec, bug>>

HandleRead ==
  /\ BeginHandle
  /\ bi.op = "read" /\ ~ (failed > 2 /\ bi.col \in Failed)
  /\ LET direct == bi.col \notin Failed
         c == Fetch(IF direct THEN {bi.col} ELSE Cols \ Failed)
         g == IF direct \/ Locked(c) THEN Calc(c) ELSE ReadCalc(Calc(c))
     IN  /\ col' = schedule_writes(g)
         /\ bug' = (bug \/ ~ g.ok)
         /\ IF g.c[bi.col].uptodate
            THEN Return("read", TRUE, g.c[bi.col].buf)
            ELSE UNCHANGED bi /\ event' = NoEvent
  /\ sh' = [sh EXCEPT !.handle = FALSE]
  /\ UNCHANGED <<rec, last>>

HandleWrite ==
  /\ BeginHandle
  /\ bi.op = "write" /\ ~ (failed > 2 /\ bi.col \in Failed)
  /\ \E junk \in OutOfBounds :
       LET c == Fetch(WriteSources(junk))
           g == WriteCalc(Calc(c), junk)
       IN  IF Locked(c)
           THEN col' = c /\ UNCHANGED <<bi, bug>>
           ELSE /\ col' = schedule_writes(g)
                /\ bug' = (bug \/ ~ g.ok)
                /\ bi' = [bi EXCEPT !.op = "written", !.val = g.c[bi.col].buf]
  /\ event' = NoEvent
  /\ sh' = [sh EXCEPT !.handle = FALSE]
  /\ UNCHANGED <<rec, last>>

HandleWritten ==
  /\ BeginHandle
  /\ bi.op = "written" /\ ~ (failed > 2 /\ bi.col \in Failed)
  /\ IF col[bi.col].uptodate
     THEN /\ Return("write", TRUE, bi.val)
          /\ last' = [last EXCEPT ![bi.col] = {bi.val}]
     ELSE UNCHANGED <<bi, last>> /\ event' = NoEvent
  /\ sh' = [sh EXCEPT !.handle = FALSE]
  /\ UNCHANGED <<col, rec, bug>>

(* md_sync_done() and the end of the sync, or the sync goes on. *)
SyncOutcome(insync, done, bad) ==
  /\ sh' = [sh EXCEPT !.handle = FALSE, !.insync = insync /\ ~ done,
                      !.syncing = ~ done, !.clearing = @ /\ ~ done]
  /\ rec' = IF done THEN [rec EXCEPT !.active = FALSE] ELSE rec
  /\ event' = IF bad THEN [NoEvent EXCEPT !.op = "sync", !.ok = FALSE] ELSE NoEvent

\* Mutant: the sync is reported done but stays attached to the stripe.
HandleSyncFail_StaysAttached ==
  /\ BeginHandle
  /\ sh.syncing /\ ~ sh.clearing /\ failed > 2
  /\ rec' = [rec EXCEPT !.active = FALSE]
  /\ sh' = [sh EXCEPT !.handle = FALSE]
  /\ event' = [NoEvent EXCEPT !.op = "sync", !.ok = FALSE]
  /\ UNCHANGED <<col, bi, last, bug>>

HandleSyncFail ==
  /\ BeginHandle
  /\ sh.syncing /\ ~ sh.clearing /\ failed > 2
  /\ SyncOutcome(TRUE, TRUE, TRUE)
  /\ UNCHANGED <<col, bi, last, bug>>

HandleSync ==
  /\ BeginHandle
  /\ sh.syncing /\ ~ sh.clearing /\ failed <= 2 /\ ~ sh.insync
  /\ LET c == Fetch(Cols \ Failed)
         r == SyncCalc(Calc(c), rec.option)
         w == schedule_writes(r.g)
     IN  IF Locked(c)
         THEN col' = c /\ bug' = bug /\ SyncOutcome(FALSE, FALSE, FALSE)
         ELSE col' = w /\ bug' = (bug \/ ~ r.g.ok) /\ SyncOutcome(TRUE, ~ Locked(w), r.bad)
  /\ UNCHANGED <<bi, last>>

HandleClear ==
  /\ BeginHandle
  /\ sh.syncing /\ sh.clearing /\ ~ sh.insync
  /\ LET new == {i \in Data : ~ col[i].active /\ col[i].enabled}
         w == schedule_writes([Calc(col) EXCEPT !.lock = new])
     IN  col' = w /\ SyncOutcome(TRUE, ~ Locked(w), FALSE)
  /\ UNCHANGED <<bi, last, bug>>

\* Mutant: the end of the write-back is not reported.
HandleSyncDone_NotReported ==
  /\ BeginHandle
  /\ sh.syncing /\ sh.insync /\ (sh.clearing \/ failed <= 2)
  /\ SyncOutcome(TRUE, FALSE, FALSE)
  /\ UNCHANGED <<col, bi, last, bug>>

HandleSyncDone ==
  /\ BeginHandle
  /\ sh.syncing /\ sh.insync /\ (sh.clearing \/ failed <= 2)
  /\ SyncOutcome(TRUE, TRUE, FALSE)
  /\ UNCHANGED <<col, bi, last, bug>>

HandleNothing ==
  /\ BeginHandle
  /\ bi.op = "none" /\ ~ sh.syncing
  /\ sh' = [sh EXCEPT !.handle = FALSE]
  /\ event' = NoEvent
  /\ UNCHANGED <<col, bi, rec, last, bug>>

---------------------------------------------------------------------------
(* md_write_error(): what a failed write does to the array. *)

Mark(d, i, v, e) == [d EXCEPT ![i].valid = v, ![i].enabled = e]

(* The guards of md_write_error, in its order. *)
ReplacementFails(i) == disk[i].active /\ disk[i].enabled /\ num_disabled < 2 /\ ~ disk[i].valid

ArrayDiskFails(i) ==
  disk[i].active /\ disk[i].enabled /\ num_disabled < 2 /\ disk[i].valid /\ num_invalid < 2
ClearingFails(i) == ~ disk[i].active /\ disk[i].enabled
ConfigChanges(i) == ReplacementFails(i) \/ ArrayDiskFails(i) \/ ClearingFails(i)

md_write_error(i) ==
  /\ disk' = IF ~ ConfigChanges(i) THEN disk
             ELSE Mark(disk, i, disk[i].valid /\ ~ ArrayDiskFails(i), FALSE)
  /\ num_disabled' = num_disabled + IF ReplacementFails(i) \/ ArrayDiskFails(i) THEN 1 ELSE 0
  /\ num_invalid' = num_invalid + IF ArrayDiskFails(i) THEN 1 ELSE 0
  /\ num_new' = num_new - IF ClearingFails(i) THEN 1 ELSE 0

(* It sends the recovery thread a signal, which md_thread flushes when no   *)
(* recovery runs.                                                           *)
Interrupts(i) ==
  \/ ReplacementFails(i)
  \/ ArrayDiskFails(i) /\ num_disabled = 1
  \/ ClearingFails(i) /\ num_new = 1

Signalled(r, interrupted) == [r EXCEPT !.sig = @ \/ (interrupted /\ r.pc # "idle")]

(* An error is counted against the bound unless the disk has already been   *)
(* given up and only this stripe has not noticed.                           *)
MayFail(i) == faults < array.faults \/ ~ disk[i].enabled
CountFault(i) == faults' = faults + IF disk[i].enabled /\ faults < array.faults THEN 1 ELSE 0

\* Mutant: the completion does not put the stripe on the handle list.
EndIO_NotHandled(i, c) ==
  /\ col' = [col EXCEPT ![i] = [c EXCEPT !.io = "none"]]
  /\ event' = NoEvent
  /\ UNCHANGED <<array, sb, bi, sh, last, bug>>

EndIO(i, c) ==
  /\ col' = [col EXCEPT ![i] = [c EXCEPT !.io = "none"]]
  /\ sh' = [sh EXCEPT !.handle = TRUE]
  /\ event' = NoEvent
  /\ UNCHANGED <<array, sb, bi, last, bug>>

EndReadOK(i) ==
  /\ col[i].io = "read"
  /\ EndIO(i, [col[i] EXCEPT !.uptodate = TRUE, !.buf = media[i]])
  /\ UNCHANGED <<diskVars, media, rec, update_sb, faults>>

EndReadError(i) ==
  /\ col[i].io = "read" /\ i \in array.readFaults /\ MayFail(i)
  /\ CountFault(i)
  /\ EndIO(i, [col[i] EXCEPT !.valid = FALSE])
  /\ UNCHANGED <<diskVars, media, rec, update_sb>>

EndWriteOK(i) ==
  /\ col[i].io = "write"
  /\ media' = [media EXCEPT ![i] = col[i].buf]
  /\ EndIO(i, [col[i] EXCEPT !.valid = TRUE])
  /\ UNCHANGED <<diskVars, rec, update_sb, faults>>

\* Mutant: the result of md_write_error is ignored.
EndWriteError_NoUpdate(i) ==
  /\ col[i].io = "write" /\ i \in array.writeFaults /\ MayFail(i)
  /\ CountFault(i)
  /\ media' \in {media, [media EXCEPT ![i] = col[i].buf]}
  /\ md_write_error(i)
  /\ update_sb' = update_sb
  /\ rec' = Signalled(rec, Interrupts(i))
  /\ EndIO(i, [col[i] EXCEPT !.enabled = FALSE, !.valid = @ /\ ~ col[i].active])

EndWriteError(i) ==
  /\ col[i].io = "write" /\ i \in array.writeFaults /\ MayFail(i)
  /\ CountFault(i)
  /\ media' \in {media, [media EXCEPT ![i] = col[i].buf]}
  /\ md_write_error(i)
  /\ update_sb' = update_sb \cup IF ConfigChanges(i) THEN {"this"} ELSE {}
  /\ rec' = Signalled(rec, Interrupts(i))
  /\ EndIO(i, [col[i] EXCEPT !.enabled = FALSE, !.valid = @ /\ ~ col[i].active])

(* A write to the disk fails in another stripe; the columns of this stripe  *)
(* keep what they copied.                                                   *)
OtherWriteError(i) ==
  /\ array.others /\ i \in array.writeFaults
  /\ disk[i].enabled /\ faults < array.faults
  /\ md_write_error(i)
  /\ update_sb' = update_sb \cup IF ConfigChanges(i) THEN {"other"} ELSE {}
  /\ rec' = Signalled(rec, Interrupts(i))
  /\ faults' = faults + 1
  /\ event' = NoEvent
  /\ UNCHANGED <<array, sb, media, col, bi, sh, last, bug>>

(* unraidd comes to that stripe, which then updates the superblock. *)
OtherUpdate ==
  /\ "other" \in update_sb
  /\ update_sb' = update_sb \ {"other"}
  /\ sb' = disk
  /\ event' = NoEvent
  /\ UNCHANGED <<array, diskVars, media, col, bi, sh, rec, last, faults, bug>>

---------------------------------------------------------------------------
(* Getting the stripe: _get_active_stripe(), init_stripe(). *)

Inactive == ~ sh.handle /\ NoIO

\* Mutant: the flag of the sector held before is kept.
InitCol_KeepsUptodate(i) ==
  [valid |-> disk[i].valid \/ ~ disk[i].active, enabled |-> disk[i].enabled /\ array.slots[i] # "short",
   active |-> disk[i].active, uptodate |-> TRUE, io |-> "none",
   buf |-> IF disk[i].active THEN Order - 1 ELSE 0]

InitCol(i) ==
  LET d == disk[i]
  IN  [valid |-> d.valid \/ ~ d.active, enabled |-> d.enabled /\ array.slots[i] # "short",
       active |-> d.active, uptodate |-> ~ d.active, io |-> "none",
       \* the page held some other stripe, or zeros if its slot is not active
       buf |-> IF d.active THEN Order - 1 ELSE 0]

(* A cached stripe is taken as it is; one that is not is initialized.       *)
(* sanity_check() asserts that nothing is attached to it.                   *)
ActiveCols == IF sh.cached THEN col ELSE [i \in Cols |-> InitCol(i)]
SanityCheck == bug' = (bug \/ bi.op # "none" \/ sh.syncing \/ sh.insync \/ sh.clearing)

(* The stripe is reused for another sector. *)
Evict ==
  /\ sh.cached /\ Inactive
  /\ SanityCheck
  /\ sh' = [sh EXCEPT !.cached = FALSE]
  /\ col' = [i \in Cols |-> InitCol(i)]
  /\ event' = NoEvent
  /\ UNCHANGED <<array, diskVars, sb, media, bi, update_sb, rec, last, faults>>

(* unraid_make_request(): a read or write of data column i arrives. *)
MakeRequest(i, op, v, partial) ==
  /\ disk[i].active /\ array.slots[i] # "short"
  /\ Inactive
  /\ SanityCheck
  /\ col' = ActiveCols
  /\ \E m \in Methods : bi' = [op |-> op, col |-> i, val |-> v, partial |-> partial, method |-> m]
  /\ sh' = [sh EXCEPT !.cached = TRUE, !.handle = TRUE]
  /\ event' = NoEvent
  /\ UNCHANGED <<array, diskVars, sb, media, update_sb, rec, last, faults>>

---------------------------------------------------------------------------
(* The recovery thread: check_array() and nocheck_array() as commands, the  *)
(* array reduced to this stripe and stripes that sync without event.        *)

(* check_array(): CORRECT and NOCORRECT start at the beginning, RESUME at   *)
(* the position a pause or an error left.                                   *)
CheckArray(option, resume) ==
  /\ rec.pc = "idle"
  /\ resume => rec.pos = 1
  /\ rec' = [rec EXCEPT !.pc = "running", !.sig = FALSE,
                        !.option = IF resume THEN @ ELSE option,
                        !.pos = IF resume THEN @ ELSE 0]
  /\ sb' = disk  \* md_update_sb: the start of the sync is recorded
  /\ event' = NoEvent
  /\ UNCHANGED <<array, diskVars, media, stripeVars, last, faults, bug>>

(* nocheck_array(): signal the thread; it ends at its next check. *)
NocheckArray ==
  /\ rec.pc # "idle" /\ ~ rec.sig
  /\ rec' = [rec EXCEPT !.sig = TRUE]
  /\ event' = NoEvent
  /\ UNCHANGED <<array, diskVars, sb, media, stripeVars, last, faults, bug>>

(* New disks are cleared by a pass of their own. *)
Clearing == num_new > 0

(* One turn of the loop of md_do_sync(): unraid_sync() of this stripe. *)
UnraidSync ==
  /\ rec.pc = "running" /\ rec.pos = 0
  /\ Inactive
  /\ SanityCheck
  /\ sh' = [sh EXCEPT !.cached = TRUE, !.handle = TRUE, !.syncing = TRUE,
                      !.clearing = Clearing]
  /\ col' = [i \in Cols |->
               LET c == ActiveCols[i]
               IN  [c EXCEPT !.uptodate = @ /\ ~ (~ Clearing /\ c.active /\ c.enabled /\ c.valid)]]
  /\ rec' = [rec EXCEPT !.pc = "submitted", !.pos = 1, !.active = TRUE]
  /\ event' = NoEvent
  /\ UNCHANGED <<array, diskVars, sb, media, bi, update_sb, last, faults>>

(* signal_pending() after the turn; the loop is then over either way. *)
SignalCheck ==
  /\ rec.pc = "submitted" \/ (rec.pc = "running" /\ rec.pos = 1)
  /\ rec' = IF rec.pc = "submitted"
            THEN [rec EXCEPT !.pc = "waiting", !.exit = rec.sig, !.sig = FALSE]
            ELSE [rec EXCEPT !.pc = "waiting", !.exit = FALSE]
  /\ event' = NoEvent
  /\ UNCHANGED <<array, diskVars, sb, media, stripeVars, last, faults, bug>>

\* Mutant: a cleared disk is counted as a rebuilt one.
Rebuilt_All(done) == done

(* Of the disks done, those counted in num_invalid; the others were new. *)
Rebuilt(done) == {i \in done : disk[i].active}

(* The end of md_do_recovery(): recovery_active has dropped to zero. *)
RecoveryEnd ==
  /\ rec.pc = "waiting" /\ ~ rec.active
  /\ LET done == {i \in Cols : ~ rec.exit /\ disk[i].enabled /\ ~ disk[i].valid}
     IN  /\ disk' = [i \in Cols |-> IF i \in done
                                    THEN [valid |-> TRUE, enabled |-> TRUE, active |-> TRUE]
                                    ELSE disk[i]]
         /\ num_new' = num_new - Cardinality({i \in done : ~ disk[i].active})
         /\ num_invalid' = num_invalid - Cardinality(Rebuilt(done))
  /\ sb' = disk'
  /\ rec' = [rec EXCEPT !.pc = "idle", !.sig = FALSE, !.exit = FALSE,
                        !.pos = IF rec.exit THEN @ ELSE 0,
                        \* only a resume looks at the option again
                        !.option = @ /\ rec.exit]
  /\ event' = NoEvent
  /\ UNCHANGED <<array, num_disabled, media, stripeVars, last, faults, bug>>

---------------------------------------------------------------------------
(* The array as do_run() leaves it, the stripe not yet cached. *)

InitDisk(k) ==
  [valid |-> k \in {"ok", "short"}, enabled |-> k \in {"ok", "short", "rebuild", "new"},
   active |-> k \in {"ok", "short", "dsbl", "rebuild"}]

Init ==
  /\ array \in Arrays
  /\ disk = [i \in Cols |-> InitDisk(array.slots[i])]
  /\ sb = disk
  /\ num_disabled = Cardinality({i \in Cols : array.slots[i] = "dsbl"})
  /\ num_invalid = Cardinality({i \in Cols : array.slots[i] \in {"dsbl", "rebuild"}})
  /\ num_new = Cardinality({i \in Cols : array.slots[i] = "new"})
  /\ media \in [Cols -> Elem]
  /\ \A i \in Cols : media[i] # 0 => \/ i >= PD /\ ~ array.clean
                                     \/ array.slots[i] \in {"dsbl", "rebuild", "new"} /\ media[i] = 1
  /\ \A i \in Cols : array.slots[i] \in {"dsbl", "rebuild", "new"} => media[i] = 1
  /\ sh = [cached |-> FALSE, handle |-> FALSE, syncing |-> FALSE, clearing |-> FALSE,
           insync |-> FALSE]
  /\ col = [i \in Cols |-> InitCol(i)]
  /\ bi = NoBio
  /\ update_sb = {}
  /\ rec = [pc |-> "idle", pos |-> 0, sig |-> FALSE, exit |-> FALSE, active |-> FALSE,
            option |-> FALSE]
  /\ last = [i \in Data |-> {0}]
  /\ faults = 0 /\ event = NoEvent /\ bug = FALSE

Handle ==
  \/ HandleFailRequest \/ HandleRead \/ HandleWrite \/ HandleWritten
  \/ HandleSyncFail \/ HandleSync \/ HandleClear \/ HandleSyncDone \/ HandleNothing

EndRequest(i) == EndReadOK(i) \/ EndReadError(i) \/ EndWriteOK(i) \/ EndWriteError(i)

Read(i) == MakeRequest(i, "read", 0, FALSE)
Write(i) == \E v \in WriteVals, partial \in BOOLEAN : MakeRequest(i, "write", v, partial)

Next ==
  \/ Handle
  \/ \E i \in Cols : EndRequest(i) \/ OtherWriteError(i)
  \/ OtherUpdate
  \/ \E i \in Data : Read(i) \/ Write(i)
  \/ Evict
  \/ \E option, resume \in BOOLEAN : CheckArray(option, resume)
  \/ NocheckArray \/ UnraidSync \/ SignalCheck \/ RecoveryEnd

Spec == Init /\ [][Next]_vars

(* unraidd is woken for every stripe put on its list, and disks answer. *)
Fairness == WF_vars(Handle) /\ \A i \in Cols : WF_vars(EndRequest(i))
LiveSpec == Spec /\ Fairness

---------------------------------------------------------------------------
(* Properties. *)

(* Every variable keeps its type. *)
TypeOK ==
  /\ array \in Arrays
  /\ disk \in [Cols -> DiskState] /\ sb \in [Cols -> DiskState]
  /\ {num_disabled, num_invalid, num_new} \subseteq 0 .. NData + 2
  /\ media \in [Cols -> Elem] /\ col \in [Cols -> ColState] /\ bi \in Bio
  /\ sh \in [cached : BOOLEAN, handle : BOOLEAN, syncing : BOOLEAN, clearing : BOOLEAN,
             insync : BOOLEAN]
  /\ update_sb \subseteq {"this", "other"}
  /\ rec \in [pc : {"idle", "running", "submitted", "waiting"}, pos : {0, 1}, sig : BOOLEAN,
              exit : BOOLEAN, active : BOOLEAN, option : BOOLEAN]
  /\ last \in [Data -> SUBSET Elem] /\ faults \in 0 .. array.faults
  /\ event \in Event /\ bug \in BOOLEAN

(* None of the driver's assertions fails: every calculation finds its       *)
(* source buffers up to date, and a stripe that goes back to the inactive   *)
(* list has no bio and no sync attached (sanity_check).                     *)
NoAssertionFails == ~ bug

(* The data a block vector can be, given the disks that state st calls      *)
(* valid: what a stripe initialized from them would read or reconstruct.    *)
Stored(st) ==
  {d \in [Data -> Elem] :
     /\ \A i \in Data : IF ~ st[i].active \/ array.slots[i] = "short" THEN d[i] = 0
                        ELSE st[i].valid => d[i] = media[i]
     /\ st[PD].valid => media[PD] = PValue(d)
     /\ st[QD].valid => media[QD] = QValue(d)}

Holds(st) == Stored(st) # {} /\ \A d \in Stored(st), i \in Data : d[i] \in last[i]

Quiet == Inactive /\ bi.op = "none" /\ ~ sh.syncing

(* A read that succeeds returns the value of the last write acknowledged    *)
(* for the block, from the disk, the cache or a reconstruction.             *)
ReadsCurrent == event.op = "read" /\ event.ok => event.val \in last[event.col]

(* Between requests the disks that count as valid hold the acknowledged     *)
(* data: dropping the stripe from the cache and reading it again, or        *)
(* reconstructing it, loses nothing.                                        *)
AckedDataStored == Quiet /\ array.clean => Holds(disk)

(* The same for the states recorded in the superblock file: if the machine  *)
(* stops now, the array it assembles again has the acknowledged data.       *)
AckedDataSurvivesCrash == Quiet /\ array.clean => Holds(sb)

(* A clean buffer of a valid column has valid data: the block, or the       *)
(* parity, of the data acknowledged ("State Clean", unraid.c:58).           *)
CleanBuffersCurrent ==
  Quiet /\ array.clean => \E d \in [Data -> Elem] :
    /\ \A i \in Data : d[i] \in last[i]
    /\ \A i \in Cols : sh.cached /\ col[i].valid /\ col[i].uptodate =>
         col[i].buf = Block(d, i)

(* No request fails while no more disks have failed than parity covers. *)
NoRequestFails == event.op \in {"read", "write"} => event.ok

(* A parity error is reported only for a stripe whose parity on the disks   *)
(* really contradicts its data.                                             *)
SyncErrorIsReal == [][event'.op = "sync" => Stored(disk) = {}]_vars

(* A correcting sync leaves the stripe consistent. *)
SyncRepairs ==
  [][sh.syncing /\ ~ sh'.syncing /\ rec.option /\ ~ sh.clearing => Stored(disk) # {}]_vars

(* A data disk that the end of a recovery declares valid holds the data of  *)
(* the stripe ("After successful rebuild, invalid enabled disk(s) now       *)
(* valid", md_unraid.c:1244).                                               *)
RebuiltDiskCurrent ==
  [][\A i \in Data : Quiet /\ array.clean /\ disk[i].active /\ ~ disk[i].valid /\ disk'[i].valid =>
       media[i] \in last[i]]_vars

(* The stripe implements BlockStore: what it answers, with disks failing,   *)
(* being rebuilt and checked, is what a block store could answer; a write   *)
(* takes place when its data is copied into the buffer of its column.       *)
Promise == INSTANCE BlockStore WITH
  Blocks <- Data, Initial <- 0, store <- last,
  request <- [op |-> bi.op, col |-> bi.col, val |-> bi.val, partial |-> bi.partial],
  answer <- IF event.op = "sync" THEN NoEvent ELSE event

ImplementsBlockStore == Promise!Spec

(* Every request is answered, and every sync of the stripe ends. *)
RequestsAnswered == bi.op # "none" ~> bi.op = "none"
SyncsEnd == rec.active ~> ~ rec.active

=============================================================================
