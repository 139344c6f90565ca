----------------------------- MODULE StripeProofs -----------------------------
(***************************************************************************)
(* Safety of one stripe, proved for any number of data disks, any assembly *)
(* of them that parity covers, any write methods and values. StripeInv is  *)
(* inductive: there is a content the users have been promised, and each    *)
(* buffer and disk that counts has its block of it.                        *)
(***************************************************************************)
EXTENDS StripeCalcProofs, TLAPS

(* The content of the data columns when that of the disks and acknowledged  *)
(* requests is d: a write that has been made but not answered counts.       *)
Content(b, d) == IF b.op = "written" THEN [d EXCEPT ![b.col] = b.val] ELSE d

(* The counters count the disks.                                            *)
Counted(dk, nd, ni, nn) ==
  /\ nd = Cardinality({i \in Cols : dk[i].active /\ ~ dk[i].enabled})
  /\ ni = Cardinality({i \in Cols : dk[i].active /\ ~ dk[i].valid})
  /\ nn = Cardinality({i \in Cols : ~ dk[i].active /\ dk[i].enabled})

(* A request or a sync under way keeps the stripe on the handle list or an  *)
(* I/O running.                                                             *)
Pending(a, dk, c, b, s) ==
  /\ b.op # "none" => ~ s.syncing /\ dk[b.col].active /\ ~ Short(a, b.col)
  /\ b.op # "none" \/ s.syncing => s.handle \/ Locked(c)
  /\ b.op = "written" => c[b.col].uptodate

(* The sync bits of the stripe and the recovery thread agree.               *)
Syncing(a, s, r, nn) ==
  /\ s.insync \/ s.clearing => s.syncing
  /\ s.syncing = r.active
  /\ s.syncing => r.pc \in {"submitted", "waiting"}
  /\ r.pc \in {"submitted", "waiting"} => r.pos = 1
  /\ s.syncing /\ ~ s.clearing => nn = 0
  /\ s.clearing => \E i \in Cols : a.slots[i] = "new"

(* Once the recovery thread is past the stripe, the disks in use have it.   *)
Synced(a, dk, m, e, c, s, r) ==
  (r.pos = 1 /\ ~ s.syncing) \/ s.insync => SyncGood(a, dk, m, e, c)

(* What the last step returned.                                             *)
EventGood(a, broken, l, e) ==
  /\ e.op \in {"read", "write"} => e.ok
  /\ e.op = "read" => e.val \in l[e.col]
  /\ e.op = "sync" => PD \in Lost(a) \cup broken

(* The superblock file lags behind only while its update is due.            *)
FileGood(a, dk, f, u, s) ==
  /\ u = {} => f = dk
  /\ "this" \in u => s.handle
  /\ "other" \in u => a.others

(* The content d is what was acknowledged, and errors have been counted.    *)
Acked(d, l) == d \in [Data -> Elem] /\ l = [i \in Data |-> {d[i]}]

(* The disks of broken have failed, and each was counted.                   *)
Errors(a, broken, n) == broken \in SUBSET Faulty(a) /\ Cardinality(broken) <= n

(* The invariant, when broken is the set of disks that have failed so far   *)
(* and d the data acknowledged.                                             *)
Inv(broken, d) ==
  /\ TypeOK /\ Covered(array)
  /\ Acked(d, last) /\ Errors(array, broken, faults)
  /\ \A i \in Cols : DiskGood(array, broken, i, disk[i])
  /\ Counted(disk, num_disabled, num_invalid, num_new)
  /\ ColsGood(array, broken, disk, media, Content(bi, d), col)
  /\ Pending(array, disk, col, bi, sh)
  /\ Syncing(array, sh, rec, num_new)
  /\ Synced(array, disk, media, Content(bi, d), col, sh, rec)
  /\ EventGood(array, broken, last, event)
  /\ FileGood(array, disk, sb, update_sb, sh)
  /\ ~ bug

(* It is inductive: broken grows with an error, d changes with a write.     *)
StripeInv == \E broken, d : Inv(broken, d)

-----------------------------------------------------------------------------
(* The types of sh and rec.                                                 *)
ShBits == [cached : BOOLEAN, handle : BOOLEAN, syncing : BOOLEAN, clearing : BOOLEAN,
           insync : BOOLEAN]
Recovery == [pc : {"idle", "running", "submitted", "waiting"}, pos : {0, 1}, sig : BOOLEAN,
             exit : BOOLEAN, active : BOOLEAN, option : BOOLEAN]

(* TypeOK in pieces.                                                        *)
LEMMA Types ==
  ASSUME TypeOK
  PROVE  /\ array \in Arrays /\ array \in Array
         /\ disk \in [Cols -> DiskState] /\ sb \in [Cols -> DiskState]
         /\ media \in [Cols -> Elem] /\ col \in [Cols -> ColState] /\ bi \in Bio
         /\ sh \in ShBits /\ update_sb \subseteq {"this", "other"} /\ rec \in Recovery
         /\ faults \in Nat /\ array.faults \in Nat /\ faults <= array.faults
         /\ event \in Event /\ bug \in BOOLEAN
BY ArraysAssumption DEF TypeOK, ShBits, Recovery, Array

(* With no I/O running, the stripe is at rest.                              *)
LEMMA InvResting ==
  ASSUME NEW broken, NEW d, Inv(broken, d), NoIO
  PROVE  Resting(broken, Content(bi, d)) /\ Content(bi, d) \in [Data -> Elem]
<1>1. d \in [Data -> Elem] /\ bi \in Bio /\ array \in Array /\ col \in [Cols -> ColState]
      /\ faults \in Nat /\ array.faults \in Nat /\ faults <= array.faults
  BY Types DEF Inv, Acked
<1>2. Content(bi, d) \in [Data -> Elem]
  BY <1>1 DEF Content, Bio
<1>3. broken \in SUBSET Faulty(array) /\ Cardinality(broken) <= faults /\ Cardinality(broken) \in Nat
  BY <1>1, FiniteCols DEF Inv, Errors, Faulty, Array
<1>4. Cardinality(broken) <= array.faults
  BY <1>1, <1>3
<1> QED
  BY <1>1, <1>2, <1>3, <1>4 DEF Inv, Resting

(* Counters of disks are at most their number.                              *)
LEMMA CountsTyped ==
  ASSUME NEW dk, NEW nd, NEW ni, NEW nn, Counted(dk, nd, ni, nn)
  PROVE  {nd, ni, nn} \subseteq 0 .. NData + 2
<1>1. IsFiniteSet(Cols) /\ Cardinality(Cols) = NData + 2
  <2>1. Cols = 0 .. NData + 1 /\ NData + 1 \in Int /\ 0 <= NData + 1
    BY CodeAssumption DEF Cols, QD
  <2>2. Cardinality(0 .. NData + 1) = NData + 2
    BY <2>1, CodeAssumption, FS_Interval
  <2> QED
    BY <2>1, <2>2, FiniteCols
<1>2. ASSUME NEW S \in SUBSET Cols PROVE Cardinality(S) \in 0 .. NData + 2
  BY <1>1, <1>2, FS_Subset, FiniteCols, CodeAssumption
<1> DEFINE A == {i \in Cols : dk[i].active /\ ~ dk[i].enabled}
           B == {i \in Cols : dk[i].active /\ ~ dk[i].valid}
           C == {i \in Cols : ~ dk[i].active /\ dk[i].enabled}
<1>3. Cardinality(A) \in 0 .. NData + 2 /\ Cardinality(B) \in 0 .. NData + 2 /\ Cardinality(C) \in 0 .. NData + 2
  BY <1>2
<1> QED
  BY <1>3 DEF Counted

-----------------------------------------------------------------------------
(* handle_stripe(). *)

(* What a step of handle_stripe() has to establish.                         *)
LEMMA HandleFrame ==
  ASSUME NEW broken, NEW d, NEW e, Inv(broken, d), BeginHandle,
         col' \in [Cols -> ColState], bi' \in Bio, sh' \in ShBits, rec' \in Recovery,
         event' \in Event, Acked(e, last'),
         ColsGood(array, broken, disk, media, Content(bi', e), col'),
         Pending(array, disk, col', bi', sh'), Syncing(array, sh', rec', num_new),
         Synced(array, disk, media, Content(bi', e), col', sh', rec'),
         EventGood(array, broken, last', event'), bug' = FALSE
  PROVE  Inv(broken, e)'
<1>1. /\ array' = array /\ disk' = disk /\ media' = media /\ faults' = faults
      /\ num_disabled' = num_disabled /\ num_invalid' = num_invalid /\ num_new' = num_new
      /\ update_sb' = update_sb \ {"this"} /\ sb' = IF "this" \in update_sb THEN disk ELSE sb
  BY DEF BeginHandle, diskVars
<1>2. TypeOK /\ FileGood(array, disk, sb, update_sb, sh)
  BY DEF Inv
<1>3. last' \in [Data -> SUBSET Elem]
  BY DEF Acked
<1>4. sb' \in [Cols -> DiskState] /\ update_sb' \subseteq {"this", "other"}
  BY <1>1, <1>2, Types
<1>5. TypeOK'
  BY <1>1, <1>2, <1>3, <1>4 DEF TypeOK, ShBits, Recovery
<1>6. FileGood(array', disk', sb', update_sb', sh')
  BY <1>1, <1>2 DEF FileGood
<1> QED
  BY <1>1, <1>5, <1>6 DEF Inv

(* Without I/O, no column is locked.                                        *)
LEMMA NothingLocked == ASSUME NoIO PROVE ~ Locked(col)
BY DEF NoIO, Locked

(* A stripe that was in sync with nothing under way stays so, whatever else *)
(* happens to its columns.                                                  *)
LEMMA SyncedStays ==
  ASSUME NEW b, NEW c, NoIO, SyncGood(array, disk, media, b, col)
  PROVE  SyncGood(array, disk, media, b, c)
BY DEF SyncGood, InSync, NoIO

(* A read returns the block of the data acknowledged.                       *)
LEMMA ReadStep ==
  ASSUME NEW broken, NEW d, Inv(broken, d), HandleRead
  PROVE  Inv(broken, d)'
<1> DEFINE direct == bi.col \notin Failed
           S == IF direct THEN {bi.col} ELSE Cols \ Failed
           c == Fetch(S)
           g == IF direct \/ Locked(c) THEN Calc(c) ELSE ReadCalc(Calc(c))
           w == schedule_writes(g)
<1>1. /\ BeginHandle /\ NoIO /\ bi.op = "read" /\ sh.handle
      /\ col' = w /\ bug' = (bug \/ ~ g.ok)
      /\ IF g.c[bi.col].uptodate
         THEN Return("read", TRUE, g.c[bi.col].buf)
         ELSE UNCHANGED bi /\ event' = NoEvent
      /\ sh' = [sh EXCEPT !.handle = FALSE]
      /\ UNCHANGED <<rec, last>>
  BY DEF HandleRead, BeginHandle
<1>2. /\ TypeOK /\ Acked(d, last) /\ Pending(array, disk, col, bi, sh) /\ Syncing(array, sh, rec, num_new)
      /\ Synced(array, disk, media, d, col, sh, rec) /\ ~ bug /\ Covered(array)
  BY <1>1 DEF Inv, Content
<1>3. /\ Resting(broken, d) /\ d \in [Data -> Elem] /\ col \in [Cols -> ColState] /\ bi \in Bio
      /\ sh \in ShBits /\ rec \in Recovery /\ bi.col \in Data /\ Content(bi, d) = d
  BY <1>1, <1>2, InvResting, Types DEF Content, Bio
<1>4. S \in SUBSET (Cols \ Failed) /\ bi.col \in Cols
  BY <1>3, Columns
<1>5. /\ c \in [Cols -> ColState] /\ ColsGood(array, broken, disk, media, d, c)
      /\ \A i \in Cols : c[i].io # "write"
      /\ ~ Locked(c) => Holding(Calc(c), d, {}, Cols) /\ Loaded(Calc(c), S)
  BY <1>1, <1>3, <1>4, FetchGood DEF Resting
<1> HIDE DEF c
<1>6. schedule_writes(Calc(c)) = c /\ Calc(c).c = c /\ Calc(c).ok = TRUE
  BY <1>5 DEF schedule_writes, Calc
<1>7. /\ w \in [Cols -> ColState] /\ ColsGood(array, broken, disk, media, d, w) /\ g.ok = TRUE
      /\ g.c[bi.col].uptodate \/ Locked(w)
      /\ g.c[bi.col].uptodate => g.c[bi.col].buf = d[bi.col]
  <2>1. CASE direct \/ Locked(c)
    <3>1. g = Calc(c) /\ w = c
      BY <1>6, <2>1
    <3>2. c[bi.col].uptodate \/ Locked(c)
      BY <1>5, <1>6, <2>1 DEF Loaded
    <3>3. c[bi.col].uptodate => c[bi.col].buf = d[bi.col]
      BY <1>3, <1>4, <1>5, BlockOf DEF ColsGood, ColCurrent
    <3> QED
      BY <1>5, <1>6, <3>1, <3>2, <3>3
  <2>2. CASE ~ (direct \/ Locked(c))
    <3>1. g = ReadCalc(Calc(c)) /\ bi.col \in Failed /\ S = Cols \ Failed
      BY <2>2, <1>4
    <3> HIDE DEF g, S
    <3>2. PICK L : Holding(g, d, L, Cols) /\ LocksRight(d, d, L) /\ bi.col \in L
      BY <1>3, <1>5, <2>2, <3>1, ReadHolds
    <3>3. w \in [Cols -> ColState] /\ ColsGood(array, broken, disk, media, d, w)
      BY <1>3, <3>2, ScheduleGood DEF Resting
    <3>4. g.c[bi.col].uptodate /\ g.c[bi.col].buf = d[bi.col] /\ g.ok = TRUE
      BY <1>3, <1>4, <3>2, BlockOf DEF Holding, Known, Sound
    <3> QED
      BY <3>3, <3>4
  <2> QED
    BY <2>1, <2>2
<1> HIDE DEF w, g
<1>8. CASE g.c[bi.col].uptodate
  <2>1. bi' = NoBio /\ event' = [op |-> "read", ok |-> TRUE, col |-> bi.col, val |-> d[bi.col]]
    BY <1>1, <1>7, <1>8 DEF Return
  <2>2. bi' \in Bio /\ event' \in Event /\ bi'.op = "none" /\ Content(bi', d) = d
    BY <1>3, <2>1, CodeAssumption DEF NoBio, Bio, Event, Content, Data, Elem
  <2>3. EventGood(array, broken, last', event')
    BY <1>1, <1>2, <1>3, <2>1 DEF EventGood, Acked
  <2>4. Pending(array, disk, col', bi', sh')
    BY <1>1, <1>2, <1>3, <2>2 DEF Pending, ShBits
  <2>5. Syncing(array, sh', rec', num_new) /\ sh' \in ShBits
    BY <1>1, <1>2, <1>3 DEF Syncing, ShBits
  <2>6. Synced(array, disk, media, d, col', sh', rec')
    BY <1>1, <1>2, <1>3, SyncedStays DEF Synced, ShBits
  <2> QED
    BY <1>1, <1>2, <1>3, <1>7, <2>2, <2>3, <2>4, <2>5, <2>6, HandleFrame
<1>9. CASE ~ g.c[bi.col].uptodate
  <2>1. bi' = bi /\ event' = NoEvent
    BY <1>1, <1>9
  <2>2. event' \in Event /\ EventGood(array, broken, last', event')
    BY <2>1, CodeAssumption DEF NoEvent, Event, Data, Elem, EventGood
  <2>4. Pending(array, disk, col', bi', sh')
    BY <1>1, <1>2, <1>3, <1>7, <1>9, <2>1 DEF Pending, ShBits
  <2>5. Syncing(array, sh', rec', num_new) /\ sh' \in ShBits
    BY <1>1, <1>2, <1>3 DEF Syncing, ShBits
  <2>6. Synced(array, disk, media, d, col', sh', rec')
    BY <1>1, <1>2, <1>3, SyncedStays DEF Synced, ShBits
  <2> QED
    BY <1>1, <1>2, <1>3, <1>7, <2>1, <2>2, <2>4, <2>5, <2>6, HandleFrame
<1> QED
  BY <1>8, <1>9

(* Some column that a write locks has a disk that takes it: not more than   *)
(* two disks are lost.                                                      *)
LEMMA WriteReachesDisk ==
  ASSUME NEW broken, NEW d, Resting(broken, d), Writing
  PROVE  col[bi.col].enabled \/ PEnabled \/ QEnabled
<1> DEFINE G == Lost(array) \cup broken
<1>1. ASSUME NEW i \in {bi.col, PD, QD}, ~ col[i].enabled PROVE i \in G
  <2>1. /\ i \in Cols /\ ~ Short(array, i) /\ (i = bi.col \/ array.slots[i] # "absent")
        /\ ColGood(array, broken, i, disk[i], col[i]) /\ DiskGood(array, broken, i, disk[i])
    BY <1>1, Columns DEF Resting, Writing, Covered, ColsGood, Short
  <2>2. ~ disk[i].enabled /\ array.slots[i] # "absent"
    BY <1>1, <2>1 DEF ColGood, DiskGood, Writing
  <2> QED
    BY <2>1, <2>2 DEF DiskGood, Lost
<1>2. Cardinality(G) <= 2 /\ G \in SUBSET Int /\ IsFiniteSet(G)
  <2>1. G \in SUBSET Cols
    BY DEF Resting, Lost, Faulty, Array
  <2> QED
    BY <2>1, FiniteCols, Columns DEF Resting, Covered
<1>3. \E a, b \in Int : G \subseteq {a, b}
  <2> HIDE DEF G
  <2>1. \/ G = {} \/ (\E a \in G : G = {a}) \/ (\E a, b \in G : G = {a, b})
    BY <1>2, SmallSet
  <2>2. CASE G = {}
    BY <2>2
  <2>3. CASE \E a \in G : G = {a}
    BY <1>2, <2>3
  <2>4. CASE \E a, b \in G : G = {a, b}
    BY <1>2, <2>4
  <2> QED
    BY <2>1, <2>2, <2>3, <2>4
<1>4. bi.col # PD /\ bi.col # QD /\ PD # QD
  BY Columns DEF Writing
<1> HIDE DEF G
<1> QED
  BY <1>1, <1>3, <1>4 DEF PEnabled, QEnabled

(* The pending write takes place, on top of the data d.                     *)
TakesWrite(d) == bi' = [bi EXCEPT !.op = "written", !.val = Written(d)[bi.col]]

(* A write is made in every buffer that matters, and sent to the disks.     *)
LEMMA WriteStep ==
  ASSUME NEW broken, NEW d, Inv(broken, d), HandleWrite
  PROVE  Inv(broken, d)' /\ (bi' = bi \/ TakesWrite(d))
<1> PICK junk \in OutOfBounds :
       LET c == Fetch(WriteSources(junk))
           g == WriteCalc(Calc(c), junk)
       IN  IF Locked(c)
           THEN col' = c /\ UNCHANGED <<bi, bug>>
           ELSE /\ col' = schedule_writes(g)
                /\ bug' = (bug \/ ~ g.ok)
                /\ bi' = [bi EXCEPT !.op = "written", !.val = g.c[bi.col].buf]
  BY DEF HandleWrite
<1> DEFINE S == WriteSources(junk)
           c == Fetch(S)
           g == WriteCalc(Calc(c), junk)
           w == schedule_writes(g)
<1>1. /\ BeginHandle /\ NoIO /\ bi.op = "write" /\ sh.handle /\ event' = NoEvent
      /\ IF Locked(c)
         THEN col' = c /\ bi' = bi /\ bug' = bug
         ELSE /\ col' = w
              /\ bug' = (bug \/ ~ g.ok)
              /\ bi' = [bi EXCEPT !.op = "written", !.val = g.c[bi.col].buf]
      /\ sh' = [sh EXCEPT !.handle = FALSE]
      /\ UNCHANGED <<rec, last>>
  BY DEF HandleWrite, BeginHandle
<1>2. /\ TypeOK /\ Acked(d, last) /\ Pending(array, disk, col, bi, sh) /\ Syncing(array, sh, rec, num_new)
      /\ Synced(array, disk, media, d, col, sh, rec) /\ ~ bug /\ Covered(array)
  BY <1>1 DEF Inv, Content
<1>3. /\ Resting(broken, d) /\ d \in [Data -> Elem] /\ col \in [Cols -> ColState] /\ bi \in Bio
      /\ sh \in ShBits /\ rec \in Recovery /\ bi.col \in Data /\ Content(bi, d) = d
  BY <1>1, <1>2, InvResting, Types DEF Content, Bio
<1>4. Writing
  BY <1>1, <1>2, <1>3 DEF Pending, Writing, Bio
<1>5. S \in SUBSET (Cols \ Failed) /\ bi.col \in Cols
  BY <1>3, <1>4, WriteCases, Columns
<1>6. /\ c \in [Cols -> ColState] /\ ColsGood(array, broken, disk, media, d, c)
      /\ ~ Locked(c) => Holding(Calc(c), d, {}, Cols) /\ Loaded(Calc(c), S)
  BY <1>1, <1>3, <1>5, FetchGood DEF Resting
<1> HIDE DEF c
<1>7. event' \in Event /\ EventGood(array, broken, last', event')
  BY <1>1, CodeAssumption DEF NoEvent, Event, Data, Elem, EventGood
<1>8. Syncing(array, sh', rec', num_new) /\ sh' \in ShBits /\ ~ sh'.syncing /\ ~ sh.syncing
  BY <1>1, <1>2, <1>3 DEF Syncing, ShBits, Pending
<1>9. CASE Locked(c)
  <2>1. col' = c /\ bi' = bi /\ bug' = bug
    BY <1>1, <1>9
  <2>2. Pending(array, disk, col', bi', sh')
    BY <1>1, <1>2, <1>3, <1>9, <2>1 DEF Pending, ShBits
  <2>3. Synced(array, disk, media, d, col', sh', rec')
    BY <1>1, <1>2, <1>3, SyncedStays DEF Synced, ShBits
  <2>4. /\ bug' = FALSE /\ col' \in [Cols -> ColState] /\ bi' \in Bio /\ rec' \in Recovery
        /\ Acked(d, last') /\ Content(bi', d) = d
        /\ ColsGood(array, broken, disk, media, Content(bi', d), col')
    BY <1>1, <1>2, <1>3, <1>6, <2>1, Types
  <2> QED
    <3>1. Inv(broken, d)'
      BY <1>1, <1>3, <1>7, <1>8, <2>2, <2>3, <2>4, HandleFrame
    <3> QED
      BY <2>1, <3>1
<1>10. CASE ~ Locked(c)
  <2> DEFINE e == Written(d)
  <2>1. /\ col' = w /\ bug' = (bug \/ ~ g.ok)
        /\ bi' = [bi EXCEPT !.op = "written", !.val = g.c[bi.col].buf]
    BY <1>1, <1>10
  <2> HIDE DEF g
  <2>2. /\ e \in [Data -> Elem]
        /\ \E L : /\ Holding(g, e, L, Cols)
                  /\ LocksRight(d, e, L) /\ bi.col \in L
                  /\ PEnabled => PD \in L
                  /\ QEnabled => QD \in L
    BY <1>3, <1>4, <1>6, <1>10, WriteHolds DEF g
  <2>3. PICK L : /\ Holding(g, e, L, Cols)
                 /\ LocksRight(d, e, L) /\ bi.col \in L
                 /\ PEnabled => PD \in L
                 /\ QEnabled => QD \in L
    BY <2>2
  <2>4. /\ w \in [Cols -> ColState] /\ ColsGood(array, broken, disk, media, e, w)
        /\ \A i \in Cols : /\ w[i].uptodate = g.c[i].uptodate
                           /\ w[i].io = IF i \in L /\ col[i].enabled THEN "write" ELSE "none"
    BY <1>3, <2>2, <2>3, ScheduleGood DEF Resting
  <2>5. g.ok = TRUE /\ g.c[bi.col].uptodate /\ g.c[bi.col].buf = e[bi.col]
    BY <1>3, <1>5, <2>2, <2>3, BlockOf DEF Holding, Known, Sound
  <2>6. bi' \in Bio /\ bi'.op = "written" /\ bi'.col = bi.col /\ bi'.val = e[bi.col]
    BY <1>3, <2>1, <2>2, <2>5 DEF Bio
  <2>7. Content(bi', d) = e
    <3>1. Content(bi', d) = [d EXCEPT ![bi.col] = e[bi.col]]
      BY <2>6 DEF Content
    <3>2. \A i \in Data \ {bi.col} : e[i] = d[i]
      BY <1>3, <1>4, WrittenData DEF Writing
    <3> HIDE DEF e
    <3> QED
      BY <1>3, <2>2, <3>1, <3>2
  <2>12. TakesWrite(d)
    BY <1>3, <2>1, <2>5 DEF TakesWrite, Writing
  <2>8. Locked(w)
    <3>1. \E i \in L : col[i].enabled /\ i \in Cols
      <4>1. col[bi.col].enabled \/ PEnabled \/ QEnabled
        BY <1>3, <1>4, WriteReachesDisk
      <4> QED
        BY <1>5, <2>3, <4>1, Columns DEF PEnabled, QEnabled
    <3> QED
      BY <2>4, <3>1 DEF Locked
  <2>9. Pending(array, disk, col', bi', sh')
    BY <1>2, <1>4, <1>5, <1>8, <2>1, <2>4, <2>5, <2>6, <2>8 DEF Pending, Writing
  <2>10. Synced(array, disk, media, e, col', sh', rec')
    <3>1. SUFFICES ASSUME rec.pos = 1 \/ sh'.insync PROVE SyncGood(array, disk, media, e, w)
      BY <1>1, <2>1 DEF Synced
    <3>2. SyncGood(array, disk, media, d, col)
      BY <1>1, <1>2, <1>3, <1>8, <3>1 DEF Synced, ShBits
    <3>3. \A i \in Cols \ L : InSync(array, i, disk[i], media[i], Block(d, i), col[i])
      BY <3>2 DEF SyncGood
    <3>4. NoIO /\ ColsGood(array, broken, disk, media, d, col)
      BY <1>3 DEF Resting
    <3> HIDE DEF e
    <3> QED
      BY <2>3, <2>4, <3>3, <3>4, ScheduleSync
  <2>11. bug' = FALSE
    BY <1>2, <2>1, <2>5, Types
  <2> HIDE DEF e, w
  <2> QED
    BY <1>1, <1>2, <1>7, <1>8, <2>1, <2>4, <2>6, <2>7, <2>9, <2>10, <2>11, <2>12, Types, HandleFrame
<1> QED
  BY <1>9, <1>10

(* Answering it makes its content what was acknowledged.                    *)
LEMMA WrittenStep ==
  ASSUME NEW broken, NEW d, Inv(broken, d), HandleWritten
  PROVE  \E e : Inv(broken, e)'
<1> DEFINE e == Content(bi, d)
<1>1. /\ BeginHandle /\ NoIO /\ bi.op = "written" /\ sh.handle
      /\ IF col[bi.col].uptodate
         THEN /\ Return("write", TRUE, bi.val)
              /\ last' = [last EXCEPT ![bi.col] = {bi.val}]
         ELSE UNCHANGED <<bi, last>> /\ event' = NoEvent
      /\ sh' = [sh EXCEPT !.handle = FALSE]
      /\ col' = col /\ rec' = rec /\ bug' = bug
  BY DEF HandleWritten, BeginHandle
<1>2. /\ TypeOK /\ Acked(d, last) /\ Pending(array, disk, col, bi, sh) /\ Syncing(array, sh, rec, num_new)
      /\ Synced(array, disk, media, e, col, sh, rec) /\ ~ bug
      /\ ColsGood(array, broken, disk, media, e, col)
  BY DEF Inv
<1>3. /\ e \in [Data -> Elem] /\ col \in [Cols -> ColState] /\ bi \in Bio
      /\ sh \in ShBits /\ rec \in Recovery /\ bi.col \in Data /\ bi.val \in Elem
      /\ e = [d EXCEPT ![bi.col] = bi.val] /\ d \in [Data -> Elem]
  BY <1>1, <1>2, InvResting, Types DEF Content, Bio, Acked
<1> HIDE DEF e
<1>4. /\ bi' = NoBio /\ event' = [op |-> "write", ok |-> TRUE, col |-> bi.col, val |-> bi.val]
      /\ last' = [last EXCEPT ![bi.col] = {bi.val}]
  BY <1>1, <1>2 DEF Pending, Return
<1>5. Acked(e, last')
  <2>1. last = [i \in Data |-> {d[i]}]
    BY <1>2 DEF Acked
  <2>2. last' = [i \in Data |-> {e[i]}]
    BY <1>3, <1>4, <2>1
  <2> QED
    BY <1>3, <2>2 DEF Acked
<1>6. bi' \in Bio /\ event' \in Event /\ bi'.op = "none" /\ Content(bi', e) = e
  BY <1>3, <1>4, CodeAssumption DEF NoBio, Bio, Event, Content, Data, Elem
<1>7. EventGood(array, broken, last', event')
  BY <1>4 DEF EventGood
<1>8. Pending(array, disk, col', bi', sh')
  BY <1>1, <1>2, <1>3, <1>6 DEF Pending, ShBits
<1>9. Syncing(array, sh', rec', num_new) /\ sh' \in ShBits
  BY <1>1, <1>2, <1>3 DEF Syncing, ShBits
<1>10. Synced(array, disk, media, e, col', sh', rec')
  BY <1>1, <1>2, <1>3 DEF Synced, ShBits
<1>11. bug' = FALSE
  BY <1>1, <1>2, Types
<1> QED
  BY <1>1, <1>2, <1>3, <1>5, <1>6, <1>7, <1>8, <1>9, <1>10, <1>11, HandleFrame

(* Never more than two columns have failed.                                 *)
LEMMA NothingFails ==
  ASSUME NEW broken, NEW d, Inv(broken, d)
  PROVE  ~ HandleFailRequest /\ ~ HandleSyncFail
<1> SUFFICES ASSUME NoIO PROVE ~ (failed > 2)
  BY DEF HandleFailRequest, HandleSyncFail, BeginHandle
<1>1. Resting(broken, Content(bi, d))
  BY InvResting
<1> QED
  BY <1>1, RestingFacts

(* A stripe with nothing to do.                                             *)
LEMMA NothingStep ==
  ASSUME NEW broken, NEW d, Inv(broken, d), HandleNothing
  PROVE  Inv(broken, d)'
<1>1. /\ BeginHandle /\ bi.op = "none" /\ ~ sh.syncing
      /\ sh' = [sh EXCEPT !.handle = FALSE] /\ event' = NoEvent
      /\ col' = col /\ bi' = bi /\ rec' = rec /\ last' = last /\ bug' = bug
  BY DEF HandleNothing
<1>2. /\ TypeOK /\ Acked(d, last) /\ Pending(array, disk, col, bi, sh) /\ Syncing(array, sh, rec, num_new)
      /\ Synced(array, disk, media, Content(bi, d), col, sh, rec) /\ ~ bug
      /\ ColsGood(array, broken, disk, media, Content(bi, d), col)
  BY DEF Inv
<1>3. sh \in ShBits /\ rec \in Recovery /\ col \in [Cols -> ColState] /\ bi \in Bio /\ bug' = FALSE
  BY <1>1, <1>2, Types
<1>4. event' \in Event /\ EventGood(array, broken, last', event')
  BY <1>1, CodeAssumption DEF NoEvent, Event, Data, Elem, EventGood
<1>5. /\ Pending(array, disk, col', bi', sh') /\ Syncing(array, sh', rec', num_new) /\ sh' \in ShBits
      /\ Synced(array, disk, media, Content(bi', d), col', sh', rec')
  BY <1>1, <1>2, <1>3 DEF Pending, Syncing, Synced, ShBits
<1> QED
  BY <1>1, <1>2, <1>3, <1>4, <1>5, HandleFrame

(* What the steps of a sync leave to show: the columns, and that the disks  *)
(* are in sync once the stripe is done or has been written back.            *)
LEMMA SyncFrame ==
  ASSUME NEW broken, NEW d, Inv(broken, d), BeginHandle, sh.syncing,
         NEW insync \in BOOLEAN, NEW done \in BOOLEAN, NEW bad \in BOOLEAN,
         SyncOutcome(insync, done, bad),
         col' \in [Cols -> ColState], ColsGood(array, broken, disk, media, d, col'),
         done \/ Locked(col'),
         insync => SyncGood(array, disk, media, d, col'), done => insync,
         bad => PD \in Lost(array) \cup broken,
         bi' = bi, last' = last, bug' = bug
  PROVE  Inv(broken, d)' /\ bi.op = "none"
<1>1. /\ sh' = [sh EXCEPT !.handle = FALSE, !.insync = insync /\ ~ done,
                          !.syncing = ~ done, !.clearing = @ /\ ~ done]
      /\ rec' = IF done THEN [rec EXCEPT !.active = FALSE] ELSE rec
      /\ event' = IF bad THEN [NoEvent EXCEPT !.op = "sync", !.ok = FALSE] ELSE NoEvent
  BY DEF SyncOutcome
<1>2. /\ TypeOK /\ Acked(d, last) /\ Pending(array, disk, col, bi, sh) /\ Syncing(array, sh, rec, num_new)
      /\ ~ bug
  BY DEF Inv
<1>3. /\ sh \in ShBits /\ rec \in Recovery /\ bi \in Bio /\ bug' = FALSE /\ bi.op = "none"
      /\ bi'.op = "none" /\ Content(bi', d) = d
  BY <1>2, Types DEF Pending, Content
<1>4. event' \in Event /\ EventGood(array, broken, last', event')
  <2>1. NoEvent \in Event /\ [NoEvent EXCEPT !.op = "sync", !.ok = FALSE] \in Event
    <3>1. 0 \in Data /\ 0 \in Elem
      BY CodeAssumption DEF Data, Elem
    <3>2. NoEvent \in Event
      BY <3>1 DEF NoEvent, Event
    <3>3. \A e \in Event : [e EXCEPT !.op = "sync", !.ok = FALSE] \in Event
      BY DEF Event
    <3> QED
      BY <3>2, <3>3
  <2>2. event'.op = (IF bad THEN "sync" ELSE "none")
    BY <1>1 DEF NoEvent
  <2>3. event' \in Event
    BY <1>1, <2>1
  <2>4. EventGood(array, broken, last', event')
    BY <2>2 DEF EventGood
  <2> QED
    BY <2>3, <2>4
<1>5. /\ sh' \in ShBits /\ rec' \in Recovery /\ sh'.insync = (insync /\ ~ done) /\ sh'.syncing = ~ done
      /\ sh'.clearing = (sh.clearing /\ ~ done) /\ rec'.active = (rec.active /\ ~ done)
      /\ rec'.pc = rec.pc /\ rec'.pos = rec.pos
  <2>1. /\ sh' \in ShBits /\ sh'.insync = (insync /\ ~ done) /\ sh'.syncing = ~ done
        /\ sh'.clearing = (sh.clearing /\ ~ done)
    BY <1>1, <1>3 DEF ShBits
  <2>2. rec' \in Recovery /\ rec'.pc = rec.pc /\ rec'.pos = rec.pos
    BY <1>1, <1>3 DEF Recovery
  <2>3. rec'.active = (rec.active /\ ~ done)
    BY <1>1, <1>3 DEF Recovery
  <2> QED
    BY <2>1, <2>2, <2>3
<1>6. Pending(array, disk, col', bi', sh')
  BY <1>3, <1>5 DEF Pending
<1>7. Syncing(array, sh', rec', num_new)
  BY <1>2, <1>3, <1>5 DEF Syncing, ShBits, Recovery
<1>8. Synced(array, disk, media, d, col', sh', rec')
  BY <1>5 DEF Synced
<1> QED
  BY <1>2, <1>3, <1>4, <1>5, <1>6, <1>7, <1>8, HandleFrame

(* The end of a sync that was written back.                                 *)
LEMMA SyncDoneStep ==
  ASSUME NEW broken, NEW d, Inv(broken, d), HandleSyncDone
  PROVE  Inv(broken, d)'
<1>1. /\ BeginHandle /\ sh.syncing /\ sh.insync /\ SyncOutcome(TRUE, TRUE, FALSE)
      /\ col' = col /\ bi' = bi /\ last' = last /\ bug' = bug
  BY DEF HandleSyncDone
<1>2. /\ TypeOK /\ Pending(array, disk, col, bi, sh)
      /\ Synced(array, disk, media, Content(bi, d), col, sh, rec)
      /\ ColsGood(array, broken, disk, media, Content(bi, d), col)
  BY DEF Inv
<1>3. Content(bi, d) = d
  BY <1>1, <1>2 DEF Pending, Content
<1>4. SyncGood(array, disk, media, d, col) /\ col \in [Cols -> ColState]
  BY <1>1, <1>2, <1>3, Types DEF Synced
<1> QED
  BY <1>1, <1>2, <1>3, <1>4, SyncFrame

(* A sync leaves every disk in use with its block, or writes it.            *)
LEMMA SyncStep ==
  ASSUME NEW broken, NEW d, Inv(broken, d), HandleSync
  PROVE  Inv(broken, d)'
<1> DEFINE S == Cols \ Failed
           c == Fetch(S)
           r == SyncCalc(Calc(c), rec.option)
           w == schedule_writes(r.g)
<1>1. /\ BeginHandle /\ NoIO /\ sh.syncing /\ ~ sh.clearing
      /\ IF Locked(c)
         THEN col' = c /\ bug' = bug /\ SyncOutcome(FALSE, FALSE, FALSE)
         ELSE col' = w /\ bug' = (bug \/ ~ r.g.ok) /\ SyncOutcome(TRUE, ~ Locked(w), r.bad)
      /\ bi' = bi /\ last' = last
  BY DEF HandleSync, BeginHandle
<1>2. /\ TypeOK /\ Pending(array, disk, col, bi, sh) /\ Syncing(array, sh, rec, num_new) /\ ~ bug
      /\ Counted(disk, num_disabled, num_invalid, num_new) /\ Covered(array)
      /\ \A i \in Cols : DiskGood(array, broken, i, disk[i])
  BY DEF Inv
<1>3. /\ Content(bi, d) = d /\ Resting(broken, d) /\ d \in [Data -> Elem]
      /\ col \in [Cols -> ColState] /\ rec \in Recovery /\ bug = FALSE /\ num_new = 0
  <2>1. Content(bi, d) = d
    BY <1>1, <1>2 DEF Pending, Content
  <2> QED
    BY <1>1, <1>2, <2>1, InvResting, Types DEF Syncing
<1>4. /\ c \in [Cols -> ColState] /\ ColsGood(array, broken, disk, media, d, c)
      /\ ~ Locked(c) => Holding(Calc(c), d, {}, Cols) /\ Loaded(Calc(c), S)
  BY <1>1, <1>3, FetchGood DEF Resting
<1> HIDE DEF c
<1>5. CASE Locked(c)
  BY <1>1, <1>3, <1>4, <1>5, SyncFrame
<1>6. CASE ~ Locked(c)
  <2>1. IsCalc(Calc(c)) /\ rec.option \in BOOLEAN
    BY <1>3 DEF IsCalc, Calc, Recovery
  <2> HIDE DEF r
  <2>2. PICK L : /\ Holding(r.g, d, L, Cols) /\ LocksRight(d, d, L)
                 /\ \A i \in Failed : col[i].enabled => i \in L
                 /\ r.bad => PD \notin Failed /\ ~ PEnabled
    BY <1>3, <1>4, <1>6, <2>1, SyncHolds DEF r
  <2>3. /\ w \in [Cols -> ColState] /\ ColsGood(array, broken, disk, media, d, w)
        /\ \A i \in Cols : w[i].io = IF i \in L /\ col[i].enabled THEN "write" ELSE "none"
    BY <1>3, <2>2, ScheduleGood DEF Resting
  <2>4. ASSUME NEW i \in Cols \ L PROVE InSync(array, i, disk[i], media[i], Block(d, i), col[i])
    <3> SUFFICES ASSUME disk[i].enabled, ~ Short(array, i) PROVE media[i] = Block(d, i)
      BY DEF InSync
    <3>1. /\ ColGood(array, broken, i, disk[i], col[i]) /\ DiskGood(array, broken, i, disk[i])
          /\ ColCurrent(array, i, disk[i], media[i], Block(d, i), col[i]) /\ col[i].io = "none"
      BY <1>3 DEF Resting, ColsGood, NoIO
    <3>2. col[i].enabled /\ col[i].valid
      BY <2>2, <3>1 DEF ColGood, Failed
    <3>3. disk[i].active
      <4> DEFINE N == {j \in Cols : ~ disk[j].active /\ disk[j].enabled}
      <4>1. Cardinality(N) = 0 /\ N \in SUBSET Cols
        BY <1>2, <1>3 DEF Counted
      <4>2. N = {}
        <5> HIDE DEF N
        <5> QED
          BY <4>1, FiniteCols, FS_EmptySet
      <4> QED
        BY <4>2
    <3>4. CASE col[i].active
      BY <3>1, <3>2, <3>4 DEF ColCurrent
    <3>5. CASE ~ col[i].active
      BY <3>1, <3>3, <3>5 DEF ColCurrent, ColGood, DiskGood
    <3> QED
      BY <3>4, <3>5
  <2>5. SyncGood(array, disk, media, d, w)
    BY <1>1, <1>3, <2>2, <2>3, <2>4, ScheduleSync DEF Resting
  <2>6. r.g.ok = TRUE
    BY <2>2 DEF Holding, Sound
  <2>7. r.bad \in BOOLEAN
    BY DEF r, SyncCalc, check_parity
  <2>8. r.bad => PD \in Lost(array) \cup broken
    <3> SUFFICES ASSUME ~ PEnabled PROVE PD \in Lost(array) \cup broken
      BY <2>2
    <3>1. ColGood(array, broken, PD, disk[PD], col[PD]) /\ DiskGood(array, broken, PD, disk[PD]) /\ PD \in Cols
      BY <1>3, Columns DEF Resting, ColsGood
    <3> QED
      BY <1>2, <3>1 DEF PEnabled, ColGood, DiskGood, Covered, Short, Lost
  <2>9. col' = w /\ bug' = bug /\ SyncOutcome(TRUE, ~ Locked(w), r.bad)
    BY <1>1, <1>3, <1>6, <2>6
  <2>10. Locked(w) \in BOOLEAN
    BY DEF Locked
  <2> HIDE DEF w
  <2> QED
    BY <1>1, <1>3, <2>3, <2>5, <2>7, <2>8, <2>9, <2>10, SyncFrame
<1> QED
  BY <1>5, <1>6

(* So does clearing: the new disks are written zeros, and the others had    *)
(* their blocks.                                                            *)
LEMMA ClearStep ==
  ASSUME NEW broken, NEW d, Inv(broken, d), HandleClear
  PROVE  Inv(broken, d)'
<1> DEFINE L == {i \in Data : ~ col[i].active /\ col[i].enabled}
           g == [Calc(col) EXCEPT !.lock = L]
           w == schedule_writes(g)
<1>1. /\ BeginHandle /\ NoIO /\ sh.syncing /\ sh.clearing
      /\ col' = w /\ SyncOutcome(TRUE, ~ Locked(w), FALSE)
      /\ bi' = bi /\ last' = last /\ bug' = bug
  BY DEF HandleClear, BeginHandle
<1>2. /\ TypeOK /\ Pending(array, disk, col, bi, sh) /\ Syncing(array, sh, rec, num_new)
      /\ Covered(array) /\ \A i \in Cols : DiskGood(array, broken, i, disk[i])
  BY DEF Inv
<1>3. Content(bi, d) = d /\ Resting(broken, d) /\ d \in [Data -> Elem] /\ col \in [Cols -> ColState]
  <2>1. Content(bi, d) = d
    BY <1>1, <1>2 DEF Pending, Content
  <2> QED
    BY <1>1, <1>2, <2>1, InvResting, Types
<1>4. \A i \in Cols : /\ ColGood(array, broken, i, disk[i], col[i])
                      /\ ColCurrent(array, i, disk[i], media[i], Block(d, i), col[i])
                      /\ col[i].io = "none"
  BY <1>3 DEF Resting, ColsGood, NoIO
<1>5. L \subseteq Data /\ PD \notin L /\ QD \notin L /\ L \subseteq Cols /\ \A i \in L : ~ col[i].active
  BY Columns
<1>6. g.c = col /\ g.lock = L /\ Sound(g)
  BY DEF Calc, Sound
<1>7. Holding(g, d, L, Cols)
  <2> HIDE DEF g, L
  <2>1. \A i \in Cols : Kept(g.c[i], col[i], i)
    BY <1>4, <1>6 DEF Kept
  <2>2. \A i \in Cols : Known(g, i) => g.c[i].buf = Block(d, i)
    BY <1>4, <1>5, <1>6 DEF Known, ColCurrent
  <2>3. \A i \in L : g.c[i].uptodate
    BY <1>4, <1>5, <1>6 DEF ColGood
  <2> QED
    BY <1>3, <1>5, <1>6, <2>1, <2>2, <2>3 DEF Holding
<1>8. LocksRight(d, d, L)
  BY <1>5 DEF LocksRight
<1>9. ASSUME NEW i \in Cols \ L PROVE InSync(array, i, disk[i], media[i], Block(d, i), col[i])
  <2> SUFFICES ASSUME disk[i].enabled, ~ Short(array, i) PROVE media[i] = Block(d, i)
    BY DEF InSync
  <2>1. DiskGood(array, broken, i, disk[i])
    BY <1>2
  <2>2. disk[i].active
    <3> SUFFICES ASSUME ~ disk[i].active PROVE i \in L
      OBVIOUS
    <3>1. array.slots[i] = "new" /\ ~ col[i].active /\ col[i].enabled
      BY <1>4, <2>1 DEF DiskGood, ColGood
    <3>2. i \in Data
      BY <1>2, <3>1, Columns DEF Covered
    <3> QED
      BY <3>1, <3>2
  <2>3. array.slots[i] # "rebuild"
    BY <1>1, <1>2 DEF Syncing, Covered
  <2> QED
    BY <1>4, <2>1, <2>2, <2>3 DEF DiskGood, ColCurrent
<1> HIDE DEF L, g
<1>10. /\ w \in [Cols -> ColState] /\ ColsGood(array, broken, disk, media, d, w)
       /\ \A i \in Cols : w[i].io = IF i \in L /\ col[i].enabled THEN "write" ELSE "none"
  BY <1>3, <1>7, <1>8, ScheduleGood DEF Resting
<1>11. SyncGood(array, disk, media, d, w)
  BY <1>3, <1>8, <1>9, <1>10, ScheduleSync DEF Resting
<1>12. Locked(w) \in BOOLEAN
  BY DEF Locked
<1> HIDE DEF w
<1> QED
  BY <1>1, <1>3, <1>10, <1>11, <1>12, SyncFrame

(* All of handle_stripe().                                                  *)
LEMMA HandleStep ==
  ASSUME NEW broken, NEW d, Inv(broken, d), Handle
  PROVE  \E e : Inv(broken, e)'
BY ReadStep, WriteStep, WrittenStep, NothingFails, NothingStep, SyncStep, SyncDoneStep, ClearStep
   DEF Handle

-----------------------------------------------------------------------------
(* Errors. *)

(* The bounds on what is lost hold for every set of disks that can fail.    *)
LEMMA LostBound ==
  ASSUME NEW broken, array \in Array, Covered(array), Errors(array, broken, array.faults)
  PROVE  /\ Lost(array) \cup broken \in SUBSET Cols
         /\ Cardinality(Lost(array) \cup broken) <= 2
         /\ PD \in Lost(array) \cup broken => broken \subseteq {PD}
<1>1. Lost(array) \cup broken \in SUBSET Cols
  BY DEF Lost, Errors, Faulty, Array
<1> QED
  BY <1>1 DEF Covered, Errors

(* An error on a disk is counted, or the disk had been counted before.      *)
LEMMA ErrorCounted ==
  ASSUME NEW broken, NEW d, Inv(broken, d), NEW i \in Cols, i \in Faulty(array),
         \/ MayFail(i) /\ CountFault(i) /\ col[i].enabled
         \/ disk[i].enabled /\ faults < array.faults /\ faults' = faults + 1
  PROVE  /\ Errors(array, broken \cup {i}, faults') /\ Errors(array, broken \cup {i}, array.faults)
         /\ faults' \in 0 .. array.faults
<1>1. /\ broken \in SUBSET Faulty(array) /\ Cardinality(broken) <= faults
      /\ faults \in Nat /\ array.faults \in Nat /\ faults <= array.faults /\ array \in Array
      /\ DiskGood(array, broken, i, disk[i])
      /\ ColGood(array, broken, i, disk[i], col[i])
  BY Types DEF Inv, Errors, ColsGood
<1>2. IsFiniteSet(broken) /\ Cardinality(broken) \in Nat
  <2>1. broken \in SUBSET Cols
    BY <1>1 DEF Faulty, Array
  <2> QED
    BY <2>1, FiniteCols
<1>3. CASE disk[i].enabled
  <2>1. faults' = faults + 1 /\ faults < array.faults
    BY <1>1, <1>3 DEF MayFail, CountFault
  <2>2. Cardinality(broken \cup {i}) <= Cardinality(broken) + 1 /\ Cardinality(broken \cup {i}) \in Nat
    <3>1. IsFiniteSet(broken \cup {i}) /\ Cardinality(broken \cup {i}) =
            IF i \in broken THEN Cardinality(broken) ELSE Cardinality(broken) + 1
      BY <1>2, FS_AddElement
    <3> QED
      BY <1>2, <3>1
  <2>3. Cardinality(broken \cup {i}) <= faults' /\ Cardinality(broken \cup {i}) <= array.faults
    BY <1>1, <1>2, <2>1, <2>2
  <2> QED
    BY <1>1, <2>1, <2>3 DEF Errors
<1>4. CASE ~ disk[i].enabled
  <2>1. i \in broken /\ faults' = faults
    BY <1>1, <1>4 DEF ColGood, DiskGood, CountFault
  <2>2. broken \cup {i} = broken
    BY <2>1
  <2>3. Cardinality(broken) <= array.faults
    BY <1>1, <1>2
  <2> QED
    BY <1>1, <2>1, <2>2, <2>3 DEF Errors
<1> QED
  BY <1>3, <1>4

(* What is said of columns and disks stays true when more disks fail.       *)
LEMMA MoreBroken ==
  ASSUME NEW a, NEW broken, NEW i, NEW j, NEW k, NEW x
  PROVE  /\ DiskGood(a, broken, j, k) => DiskGood(a, broken \cup {i}, j, k)
         /\ ColGood(a, broken, j, k, x) => ColGood(a, broken \cup {i}, j, k, x)
BY DEF DiskGood, ColGood

(* A parity disk that no longer takes writes is lost.                       *)
LEMMA ParityLost ==
  ASSUME NEW broken, NEW d, Inv(broken, d), NEW i \in {PD, QD}, ~ col[i].enabled
  PROVE  i \in Lost(array) \cup broken
<1>1. /\ ColGood(array, broken, i, disk[i], col[i]) /\ DiskGood(array, broken, i, disk[i])
      /\ array.slots[i] \in {"ok", "dsbl", "rebuild"} /\ i \in Cols
  BY Columns DEF Inv, ColsGood, Covered
<1> QED
  BY <1>1 DEF ColGood, DiskGood, Short, Lost

(* So P is in use when another disk fails.                                  *)
LEMMA ErrorMeansP ==
  ASSUME NEW broken, NEW d, Inv(broken, d), NEW i \in Cols, Errors(array, broken \cup {i}, array.faults),
         i = PD => col[PD].enabled
  PROVE  col[PD].enabled
<1> SUFFICES ASSUME ~ col[PD].enabled, i # PD PROVE FALSE
  OBVIOUS
<1>1. PD \in Lost(array) \cup broken
  BY ParityLost
<1>2. array \in Array /\ Covered(array)
  BY Types DEF Inv
<1>3. PD \in Lost(array) \cup (broken \cup {i}) => broken \cup {i} \subseteq {PD}
  BY <1>2, LostBound
<1> QED
  BY <1>1, <1>3

(* A disk that was given up.                                                *)
Off(k) == [k EXCEPT !.valid = FALSE, !.enabled = FALSE]

(* md_write_error() gives the disk up, whatever state it was in, and counts *)
(* it: the array is never so degraded already that it keeps the disk.       *)
LEMMA WriteErrorGood ==
  ASSUME NEW broken, NEW d, Inv(broken, d), NEW i \in Cols, Errors(array, broken \cup {i}, array.faults),
         md_write_error(i)
  PROVE  /\ disk' = [disk EXCEPT ![i] = Off(@)]
         /\ Counted(disk', num_disabled', num_invalid', num_new')
         /\ num_new = 0 => num_new' = 0
         /\ ConfigChanges(i) \/ disk' = disk
         /\ disk' \in [Cols -> DiskState]
         /\ \A j \in Cols : DiskGood(array, broken \cup {i}, j, disk'[j])
<1> DEFINE A == {j \in Cols : disk[j].active /\ ~ disk[j].enabled}
           B == {j \in Cols : disk[j].active /\ ~ disk[j].valid}
           C == {j \in Cols : ~ disk[j].active /\ disk[j].enabled}
           G == Lost(array) \cup (broken \cup {i})
<1>1. /\ disk \in [Cols -> DiskState] /\ disk[i] \in DiskState
      /\ num_disabled = Cardinality(A) /\ num_invalid = Cardinality(B) /\ num_new = Cardinality(C)
      /\ array \in Array /\ Covered(array)
      /\ \A j \in Cols : DiskGood(array, broken, j, disk[j])
  BY Types DEF Inv, Counted
<1>2. /\ G \in SUBSET Cols /\ Cardinality(G) <= 2 /\ IsFiniteSet(G) /\ Cardinality(G) \in Nat
  <2>1. G \in SUBSET Cols /\ Cardinality(G) <= 2
    BY <1>1, LostBound
  <2> QED
    BY <2>1, FiniteCols
<1>3. A \cup {i} \subseteq G /\ B \cup {i} \subseteq G
  BY <1>1 DEF DiskGood, Lost
<1>4. ASSUME NEW S \in SUBSET Cols, S \cup {i} \subseteq G, i \notin S
      PROVE  Cardinality(S) < 2 /\ Cardinality(S \cup {i}) = Cardinality(S) + 1
  <2>1. IsFiniteSet(S) /\ Cardinality(S) \in Nat
    BY FiniteCols
  <2>2. Cardinality(S \cup {i}) = Cardinality(S) + 1
    BY <1>4, <2>1, FS_AddElement
  <2>3. Cardinality(S \cup {i}) <= Cardinality(G)
    BY <1>2, <1>4, FS_Subset
  <2> QED
    BY <1>2, <2>1, <2>2, <2>3
<1> DEFINE A2 == {j \in Cols : disk'[j].active /\ ~ disk'[j].enabled}
           B2 == {j \in Cols : disk'[j].active /\ ~ disk'[j].valid}
           C2 == {j \in Cols : ~ disk'[j].active /\ disk'[j].enabled}
<1>5. disk[i].active /\ disk[i].enabled => num_disabled < 2 /\ i \notin A /\ Cardinality(A \cup {i}) = num_disabled + 1
  <2> SUFFICES ASSUME disk[i].active, disk[i].enabled
               PROVE  num_disabled < 2 /\ i \notin A /\ Cardinality(A \cup {i}) = num_disabled + 1
    OBVIOUS
  <2>1. i \notin A /\ A \in SUBSET Cols
    OBVIOUS
  <2> HIDE DEF A, B, C, G
  <2> QED
    BY <1>1, <1>3, <1>4, <2>1
<1>6. disk[i].active /\ disk[i].valid => num_invalid < 2 /\ i \notin B /\ Cardinality(B \cup {i}) = num_invalid + 1
  <2> SUFFICES ASSUME disk[i].active, disk[i].valid
               PROVE  num_invalid < 2 /\ i \notin B /\ Cardinality(B \cup {i}) = num_invalid + 1
    OBVIOUS
  <2>1. i \notin B /\ B \in SUBSET Cols
    OBVIOUS
  <2> HIDE DEF A, B, C, G
  <2> QED
    BY <1>1, <1>3, <1>4, <2>1
<1>7. ConfigChanges(i) <=> disk[i].enabled
  <2> HIDE DEF A, B, C, G
  <2> QED
    BY <1>1, <1>5, <1>6 DEF ConfigChanges, ReplacementFails, ArrayDiskFails, ClearingFails, DiskState, DiskGood
<1>8. disk' = [disk EXCEPT ![i] = Off(@)] /\ (ConfigChanges(i) \/ disk' = disk)
  <2> HIDE DEF A, B, C, G, A2, B2, C2
  <2>1. CASE ~ disk[i].enabled
    <3>1. ~ disk[i].valid /\ disk' = disk
      BY <1>1, <1>7, <2>1 DEF DiskGood, md_write_error
    <3>2. Off(disk[i]) = disk[i]
      BY <1>1, <2>1, <3>1 DEF Off, DiskState
    <3> QED
      BY <1>1, <3>1, <3>2
  <2>2. CASE disk[i].enabled
    <3>1. disk' = Mark(disk, i, disk[i].valid /\ ~ ArrayDiskFails(i), FALSE)
      BY <1>7, <2>2 DEF md_write_error
    <3>2. (disk[i].valid /\ ~ ArrayDiskFails(i)) = FALSE
      BY <1>1, <1>5, <1>6, <2>2 DEF ArrayDiskFails, DiskGood
    <3>3. disk' = Mark(disk, i, FALSE, FALSE)
      BY <3>1, <3>2
    <3>4. Mark(disk, i, FALSE, FALSE) = [disk EXCEPT ![i] = Off(@)]
      BY <1>1 DEF Mark, Off, DiskState
    <3> QED
      BY <1>7, <2>2, <3>3, <3>4
  <2> QED
    BY <2>1, <2>2
<1>9. /\ Off(disk[i]) \in DiskState /\ Off(disk[i]).active = disk[i].active
      /\ Off(disk[i]).valid = FALSE /\ Off(disk[i]).enabled = FALSE
  BY <1>1 DEF Off, DiskState
<1>10. /\ disk' \in [Cols -> DiskState] /\ disk'[i] = Off(disk[i])
       /\ \A j \in Cols \ {i} : disk'[j] = disk[j]
  BY <1>1, <1>8, <1>9
<1>11. \A j \in Cols : DiskGood(array, broken \cup {i}, j, disk'[j])
  BY <1>1, <1>9, <1>10 DEF DiskGood
<1>12. Counted(disk', num_disabled', num_invalid', num_new')
  <2>1. num_disabled' = Cardinality(A2)
    <3>1. CASE disk[i].active /\ disk[i].enabled
      <4>1. A2 = A \cup {i}
        BY <1>9, <1>10, <3>1
      <4>2. ReplacementFails(i) \/ ArrayDiskFails(i)
        BY <1>5, <1>6, <3>1 DEF ReplacementFails, ArrayDiskFails
      <4>3. num_disabled' = num_disabled + 1
        BY <4>2 DEF md_write_error
      <4> HIDE DEF A, A2, B
      <4> QED
        BY <1>5, <3>1, <4>1, <4>3
    <3>2. CASE ~ (disk[i].active /\ disk[i].enabled)
      <4>1. A2 = A
        BY <1>9, <1>10, <3>2
      <4>2. num_disabled' = num_disabled + 0
        BY <3>2 DEF md_write_error, ReplacementFails, ArrayDiskFails
      <4> HIDE DEF A2
      <4>3. Cardinality(A) \in Nat
        BY FiniteCols
      <4> HIDE DEF A
      <4> QED
        BY <1>1, <4>1, <4>2, <4>3
    <3> QED
      BY <3>1, <3>2
  <2>2. num_invalid' = Cardinality(B2)
    <3>1. CASE disk[i].active /\ disk[i].valid
      <4>1. B2 = B \cup {i}
        BY <1>9, <1>10, <3>1
      <4>2. ArrayDiskFails(i)
        BY <1>1, <1>5, <1>6, <3>1 DEF ArrayDiskFails, DiskGood
      <4>3. num_invalid' = num_invalid + 1
        BY <4>2 DEF md_write_error
      <4> HIDE DEF B, B2
      <4> QED
        BY <1>6, <3>1, <4>1, <4>3
    <3>2. CASE ~ (disk[i].active /\ disk[i].valid)
      <4>1. B2 = B
        BY <1>9, <1>10, <3>2
      <4>2. num_invalid' = num_invalid + 0
        BY <3>2 DEF md_write_error, ArrayDiskFails
      <4> HIDE DEF B2
      <4>3. Cardinality(B) \in Nat
        BY FiniteCols
      <4> HIDE DEF B
      <4> QED
        BY <1>1, <4>1, <4>2, <4>3
    <3> QED
      BY <3>1, <3>2
  <2>3. num_new' = Cardinality(C2)
    <3>1. CASE ~ disk[i].active /\ disk[i].enabled
      <4>1. C2 = C \ {i} /\ i \in C
        BY <1>9, <1>10, <3>1
      <4>2. num_new' = num_new - 1
        BY <3>1 DEF md_write_error, ClearingFails
      <4> HIDE DEF C2
      <4>3. IsFiniteSet(C)
        BY FiniteCols
      <4> HIDE DEF C
      <4> QED
        BY <1>1, <4>1, <4>2, <4>3, FS_RemoveElement
    <3>2. CASE ~ (~ disk[i].active /\ disk[i].enabled)
      <4>1. C2 = C
        BY <1>9, <1>10, <3>2
      <4>2. num_new' = num_new - 0
        BY <3>2 DEF md_write_error, ClearingFails
      <4> HIDE DEF C2
      <4>3. Cardinality(C) \in Nat
        BY FiniteCols
      <4> HIDE DEF C
      <4> QED
        BY <1>1, <4>1, <4>2, <4>3
    <3> QED
      BY <3>1, <3>2
  <2> QED
    BY <2>1, <2>2, <2>3 DEF Counted
<1>13. num_new = 0 => num_new' = 0
  <2>1. num_new \in Nat
    BY Types DEF Inv, TypeOK
  <2>2. {num_new'} \subseteq 0 .. NData + 2
    BY <1>12, CountsTyped
  <2>3. num_new' = num_new - 1 \/ num_new' = num_new - 0
    BY DEF md_write_error
  <2>4. num_new' # 0 - 1
    BY <2>2
  <2> QED
    BY <2>1, <2>3, <2>4
<1> QED
  BY <1>8, <1>10, <1>11, <1>12, <1>13

(* What the end of an I/O has to establish, and an error elsewhere.         *)
LEMMA ErrorFrame ==
  ASSUME NEW broken, NEW d, NEW lost, Inv(broken, d),
         array' = array /\ bi' = bi /\ last' = last /\ sb' = sb /\ bug' = bug /\ event' = NoEvent,
         (sh' = sh /\ col' = col) \/ sh' = [sh EXCEPT !.handle = TRUE],
         rec' \in Recovery /\ rec'.pc = rec.pc /\ rec'.pos = rec.pos /\ rec'.active = rec.active,
         disk' \in [Cols -> DiskState], media' \in [Cols -> Elem], col' \in [Cols -> ColState],
         faults' \in 0 .. array.faults, Errors(array, lost, faults'),
         \A j \in Cols : DiskGood(array, lost, j, disk'[j]) /\ disk'[j].active = disk[j].active,
         Counted(disk', num_disabled', num_invalid', num_new'), num_new = 0 => num_new' = 0,
         ColsGood(array, lost, disk', media', Content(bi, d), col'),
         \A j \in Cols : col[j].uptodate => col'[j].uptodate,
         SyncGood(array, disk, media, Content(bi, d), col) =>
           SyncGood(array, disk', media', Content(bi, d), col'),
         update_sb' \subseteq {"this", "other"}, update_sb' = {} => update_sb = {} /\ disk' = disk,
         "this" \in update_sb' => sh'.handle \/ "this" \in update_sb,
         "other" \in update_sb' => array.others
  PROVE  Inv(lost, d)'
<1>1. /\ TypeOK /\ Covered(array) /\ Acked(d, last) /\ Pending(array, disk, col, bi, sh)
      /\ Syncing(array, sh, rec, num_new) /\ Synced(array, disk, media, Content(bi, d), col, sh, rec)
      /\ FileGood(array, disk, sb, update_sb, sh) /\ ~ bug
  BY DEF Inv
<1>2. sh \in ShBits /\ bi \in Bio /\ last \in [Data -> SUBSET Elem] /\ col \in [Cols -> ColState]
  BY <1>1, Types DEF TypeOK
<1>3. /\ sh' \in ShBits /\ sh'.syncing = sh.syncing /\ sh'.clearing = sh.clearing
      /\ sh'.insync = sh.insync /\ (sh.handle => sh'.handle)
      /\ sh.handle \/ Locked(col) => sh'.handle \/ Locked(col')
      /\ sh' = sh \/ sh'.handle
  BY <1>2 DEF ShBits
<1>4. {num_disabled', num_invalid', num_new'} \subseteq 0 .. NData + 2
  BY CountsTyped
<1>5. event' \in Event /\ EventGood(array, lost, last, event')
  BY CodeAssumption DEF NoEvent, Event, Data, Elem, EventGood
<1>6. TypeOK'
  <2>1. /\ array' \in Arrays /\ sb' \in [Cols -> DiskState] /\ bi' \in Bio
        /\ last' \in [Data -> SUBSET Elem] /\ faults' \in 0 .. array'.faults /\ bug' \in BOOLEAN
    BY <1>1, <1>2, Types
  <2> QED
    BY <1>3, <1>4, <1>5, <2>1 DEF TypeOK, ShBits, Recovery
<1>7. Pending(array, disk', col', bi', sh')
  <2>1. bi.op # "none" => bi.col \in Cols
    BY <1>2, Columns DEF Bio
  <2>2. bi.op = "written" => bi.op # "none"
    OBVIOUS
  <2> QED
    BY <1>1, <1>3, <2>1, <2>2 DEF Pending
<1>8. Syncing(array, sh', rec', num_new')
  BY <1>1, <1>3 DEF Syncing
<1>9. Synced(array, disk', media', Content(bi, d), col', sh', rec')
  BY <1>1, <1>3 DEF Synced
<1>10. FileGood(array, disk', sb', update_sb', sh')
  BY <1>1, <1>3 DEF FileGood
<1> QED
  BY <1>1, <1>5, <1>6, <1>7, <1>8, <1>9, <1>10 DEF Inv

(* A read of a column ends,                                                 *)
LEMMA EndReadOKStep ==
  ASSUME NEW broken, NEW d, Inv(broken, d), NEW i \in Cols, EndReadOK(i)
  PROVE  Inv(broken, d)'
<1> DEFINE e == Content(bi, d)
           x == [[col[i] EXCEPT !.uptodate = TRUE, !.buf = media[i]] EXCEPT !.io = "none"]
<1>1. /\ col[i].io = "read" /\ col' = [col EXCEPT ![i] = x]
      /\ array' = array /\ bi' = bi /\ last' = last /\ sb' = sb /\ bug' = bug /\ event' = NoEvent
      /\ sh' = [sh EXCEPT !.handle = TRUE] /\ rec' = rec /\ disk' = disk /\ media' = media
      /\ faults' = faults /\ update_sb' = update_sb
      /\ num_disabled' = num_disabled /\ num_invalid' = num_invalid /\ num_new' = num_new
  BY DEF EndReadOK, EndIO, diskVars
<1>2. /\ TypeOK /\ Errors(array, broken, faults) /\ ColsGood(array, broken, disk, media, e, col)
      /\ \A j \in Cols : DiskGood(array, broken, j, disk[j])
      /\ Counted(disk, num_disabled, num_invalid, num_new)
      /\ FileGood(array, disk, sb, update_sb, sh)
  BY DEF Inv
<1>3. /\ disk \in [Cols -> DiskState] /\ media \in [Cols -> Elem] /\ col \in [Cols -> ColState]
      /\ rec \in Recovery /\ faults \in 0 .. array.faults /\ update_sb \subseteq {"this", "other"}
      /\ col[i] \in ColState /\ media[i] \in Elem /\ sh \in ShBits
  BY <1>2, Types DEF TypeOK
<1>4. /\ x \in ColState /\ x.io = "none" /\ x.uptodate /\ x.buf = media[i] /\ x.valid = col[i].valid
      /\ x.enabled = col[i].enabled /\ x.active = col[i].active
  BY <1>3 DEF ColState
<1>5. /\ col' \in [Cols -> ColState] /\ col'[i] = x /\ \A j \in Cols \ {i} : col'[j] = col[j]
  BY <1>1, <1>3, <1>4
<1>6. /\ ColGood(array, broken, i, disk[i], col[i])
      /\ ColCurrent(array, i, disk[i], media[i], Block(e, i), col[i])
  BY <1>2 DEF ColsGood
<1>7. media[i] = Block(e, i)
  BY <1>1, <1>6 DEF ColGood, ColCurrent
<1> HIDE DEF x, e
<1>8. ColGood(array, broken, i, disk[i], x) /\ ColCurrent(array, i, disk[i], media[i], Block(e, i), x)
  BY <1>1, <1>4, <1>6, <1>7 DEF ColGood, ColCurrent
<1>9. ParityGood(col')
  <2>1. /\ ParityGood(col)
        /\ \A j \in Cols : /\ col'[j].valid = col[j].valid /\ col'[j].enabled = col[j].enabled
                           /\ col[j].io = "write" => col'[j].io = "write"
    BY <1>1, <1>2, <1>4, <1>5 DEF ColsGood
  <2> QED
    BY <2>1, Columns DEF ParityGood
<1>10. ColsGood(array, broken, disk', media', e, col')
  BY <1>1, <1>2, <1>5, <1>8, <1>9 DEF ColsGood
<1>11. SyncGood(array, disk, media, e, col) => SyncGood(array, disk', media', e, col')
  BY <1>1, <1>5, <1>7 DEF SyncGood, InSync
<1>12. "other" \in update_sb' => array.others
  BY <1>1, <1>2 DEF FileGood
<1>13. \A j \in Cols : col[j].uptodate => col'[j].uptodate
  BY <1>4, <1>5
<1> QED
  BY <1>1, <1>2, <1>3, <1>5, <1>10, <1>11, <1>12, <1>13, ErrorFrame DEF e

(* or fails: the column is no longer valid.                                 *)
LEMMA EndReadErrorStep ==
  ASSUME NEW broken, NEW d, Inv(broken, d), NEW i \in Cols, EndReadError(i)
  PROVE  Inv(broken \cup {i}, d)'
<1> DEFINE e == Content(bi, d)
           x == [[col[i] EXCEPT !.valid = FALSE] EXCEPT !.io = "none"]
           more == broken \cup {i}
<1>1. /\ col[i].io = "read" /\ col' = [col EXCEPT ![i] = x] /\ i \in array.readFaults
      /\ MayFail(i) /\ CountFault(i)
      /\ array' = array /\ bi' = bi /\ last' = last /\ sb' = sb /\ bug' = bug /\ event' = NoEvent
      /\ sh' = [sh EXCEPT !.handle = TRUE] /\ rec' = rec /\ disk' = disk /\ media' = media
      /\ update_sb' = update_sb
      /\ num_disabled' = num_disabled /\ num_invalid' = num_invalid /\ num_new' = num_new
  BY DEF EndReadError, EndIO, diskVars
<1>2. /\ TypeOK /\ ColsGood(array, broken, disk, media, e, col)
      /\ \A j \in Cols : DiskGood(array, broken, j, disk[j])
      /\ Counted(disk, num_disabled, num_invalid, num_new)
      /\ FileGood(array, disk, sb, update_sb, sh) /\ Covered(array)
  BY DEF Inv
<1>3. /\ disk \in [Cols -> DiskState] /\ media \in [Cols -> Elem] /\ col \in [Cols -> ColState]
      /\ rec \in Recovery /\ update_sb \subseteq {"this", "other"} /\ col[i] \in ColState
  BY <1>2, Types DEF TypeOK
<1>4. /\ x \in ColState /\ x.io = "none" /\ x.uptodate = col[i].uptodate /\ x.buf = col[i].buf
      /\ x.valid = FALSE /\ x.enabled = col[i].enabled /\ x.active = col[i].active
  BY <1>3 DEF ColState
<1>5. /\ col' \in [Cols -> ColState] /\ col'[i] = x /\ \A j \in Cols \ {i} : col'[j] = col[j]
  BY <1>1, <1>3, <1>4
<1>6. /\ ColGood(array, broken, i, disk[i], col[i])
      /\ ColCurrent(array, i, disk[i], media[i], Block(e, i), col[i])
      /\ col[i].enabled
  BY <1>1, <1>2 DEF ColsGood, ColGood
<1>7. /\ Errors(array, more, faults') /\ Errors(array, more, array.faults)
      /\ faults' \in 0 .. array.faults
  BY <1>1, <1>6, ErrorCounted DEF Faulty
<1>8. col[PD].enabled
  BY <1>6, <1>7, ErrorMeansP
<1> HIDE DEF x, e
<1>9. ColGood(array, more, i, disk[i], x) /\ ColCurrent(array, i, disk[i], media[i], Block(e, i), x)
  BY <1>1, <1>4, <1>6 DEF ColGood, ColCurrent
<1> HIDE DEF more
<1>10. ParityGood(col')
  BY <1>2, <1>4, <1>5, <1>8, Columns DEF ParityGood, ColsGood
<1>11. \A j \in Cols : ColGood(array, more, j, disk[j], col'[j])
                       /\ ColCurrent(array, j, disk[j], media[j], Block(e, j), col'[j])
  BY <1>2, <1>5, <1>9, MoreBroken DEF ColsGood, more
<1>12. ColsGood(array, more, disk', media', e, col')
  BY <1>1, <1>10, <1>11 DEF ColsGood
<1>13. SyncGood(array, disk, media, e, col) => SyncGood(array, disk', media', e, col')
  BY <1>1, <1>5 DEF SyncGood, InSync
<1>14. "other" \in update_sb' => array.others
  BY <1>1, <1>2 DEF FileGood
<1>15. \A j \in Cols : col[j].uptodate => col'[j].uptodate
  BY <1>4, <1>5
<1>16. \A j \in Cols : DiskGood(array, more, j, disk'[j]) /\ disk'[j].active = disk[j].active
  BY <1>1, <1>2, MoreBroken DEF more
<1>17. Inv(more, d)'
  BY <1>1, <1>2, <1>3, <1>5, <1>7, <1>12, <1>13, <1>14, <1>15, <1>16, ErrorFrame DEF e
<1> QED
  BY <1>17 DEF more

(* A write of a column ends,                                                *)
LEMMA EndWriteOKStep ==
  ASSUME NEW broken, NEW d, Inv(broken, d), NEW i \in Cols, EndWriteOK(i)
  PROVE  Inv(broken, d)'
<1> DEFINE e == Content(bi, d)
           x == [[col[i] EXCEPT !.valid = TRUE] EXCEPT !.io = "none"]
<1>1. /\ col[i].io = "write" /\ col' = [col EXCEPT ![i] = x] /\ media' = [media EXCEPT ![i] = col[i].buf]
      /\ array' = array /\ bi' = bi /\ last' = last /\ sb' = sb /\ bug' = bug /\ event' = NoEvent
      /\ sh' = [sh EXCEPT !.handle = TRUE] /\ rec' = rec /\ disk' = disk
      /\ faults' = faults /\ update_sb' = update_sb
      /\ num_disabled' = num_disabled /\ num_invalid' = num_invalid /\ num_new' = num_new
  BY DEF EndWriteOK, EndIO, diskVars
<1>2. /\ TypeOK /\ Errors(array, broken, faults) /\ ColsGood(array, broken, disk, media, e, col)
      /\ \A j \in Cols : DiskGood(array, broken, j, disk[j])
      /\ Counted(disk, num_disabled, num_invalid, num_new)
      /\ FileGood(array, disk, sb, update_sb, sh)
  BY DEF Inv
<1>3. /\ disk \in [Cols -> DiskState] /\ media \in [Cols -> Elem] /\ col \in [Cols -> ColState]
      /\ rec \in Recovery /\ faults \in 0 .. array.faults /\ update_sb \subseteq {"this", "other"}
      /\ col[i] \in ColState /\ col[i].buf \in Elem /\ sh \in ShBits
  BY <1>2, Types DEF TypeOK, ColState
<1>4. /\ x \in ColState /\ x.io = "none" /\ x.uptodate = col[i].uptodate /\ x.buf = col[i].buf
      /\ x.valid = TRUE /\ x.enabled = col[i].enabled /\ x.active = col[i].active
  BY <1>3 DEF ColState
<1>5. /\ col' \in [Cols -> ColState] /\ col'[i] = x /\ \A j \in Cols \ {i} : col'[j] = col[j]
      /\ media' \in [Cols -> Elem] /\ media'[i] = col[i].buf
      /\ \A j \in Cols \ {i} : media'[j] = media[j]
  BY <1>1, <1>3, <1>4
<1>6. /\ ColGood(array, broken, i, disk[i], col[i])
      /\ ColCurrent(array, i, disk[i], media[i], Block(e, i), col[i])
  BY <1>2 DEF ColsGood
<1>7. col[i].buf = Block(e, i) /\ col[i].enabled
  BY <1>1, <1>6 DEF ColCurrent, ColGood
<1> HIDE DEF x, e
<1>8. ColGood(array, broken, i, disk[i], x) /\ ColCurrent(array, i, disk[i], media'[i], Block(e, i), x)
  BY <1>1, <1>4, <1>5, <1>6, <1>7 DEF ColGood, ColCurrent
<1>9. ParityGood(col')
  <2>1. ParityGood(col)
    BY <1>2 DEF ColsGood
  <2>2. \A j \in Cols : /\ col'[j].enabled = col[j].enabled
                        /\ col[j].valid \/ col[j].io = "write" => col'[j].valid \/ col'[j].io = "write"
                        /\ col'[j].valid /\ ~ col'[j].enabled => col[j].valid /\ col'[j].valid = col[j].valid
    <3> TAKE j \in Cols
    <3>1. CASE j = i
      BY <1>4, <1>5, <1>7, <3>1
    <3>2. CASE j # i
      BY <1>5, <3>2
    <3> QED
      BY <3>1, <3>2
  <2> QED
    BY <2>1, <2>2, Columns DEF ParityGood
<1>10. ColsGood(array, broken, disk', media', e, col')
  BY <1>1, <1>2, <1>5, <1>8, <1>9 DEF ColsGood
<1>11. SyncGood(array, disk, media, e, col) => SyncGood(array, disk', media', e, col')
  BY <1>1, <1>5, <1>7 DEF SyncGood, InSync
<1>12. "other" \in update_sb' => array.others
  BY <1>1, <1>2 DEF FileGood
<1>13. \A j \in Cols : col[j].uptodate => col'[j].uptodate
  BY <1>4, <1>5
<1> QED
  BY <1>1, <1>2, <1>3, <1>5, <1>10, <1>11, <1>12, <1>13, ErrorFrame DEF e

(* or fails: the column and the disk are given up, and the superblock is    *)
(* due.                                                                     *)
LEMMA EndWriteErrorStep ==
  ASSUME NEW broken, NEW d, Inv(broken, d), NEW i \in Cols, EndWriteError(i)
  PROVE  Inv(broken \cup {i}, d)'
<1> DEFINE e == Content(bi, d)
           x == [[col[i] EXCEPT !.enabled = FALSE, !.valid = @ /\ ~ col[i].active] EXCEPT !.io = "none"]
           more == broken \cup {i}
<1>1. /\ col[i].io = "write" /\ col' = [col EXCEPT ![i] = x] /\ i \in array.writeFaults
      /\ MayFail(i) /\ CountFault(i) /\ md_write_error(i)
      /\ media' \in {media, [media EXCEPT ![i] = col[i].buf]}
      /\ array' = array /\ bi' = bi /\ last' = last /\ sb' = sb /\ bug' = bug /\ event' = NoEvent
      /\ sh' = [sh EXCEPT !.handle = TRUE] /\ rec' = Signalled(rec, Interrupts(i))
      /\ update_sb' = update_sb \cup IF ConfigChanges(i) THEN {"this"} ELSE {}
  BY DEF EndWriteError, EndIO
<1>2. /\ TypeOK /\ ColsGood(array, broken, disk, media, e, col)
      /\ FileGood(array, disk, sb, update_sb, sh) /\ Covered(array)
      /\ \A j \in Cols : DiskGood(array, broken, j, disk[j])
  BY DEF Inv
<1>3. /\ disk \in [Cols -> DiskState] /\ media \in [Cols -> Elem] /\ col \in [Cols -> ColState]
      /\ rec \in Recovery /\ update_sb \subseteq {"this", "other"} /\ sh \in ShBits
      /\ col[i] \in ColState /\ col[i].buf \in Elem /\ disk[i] \in DiskState
  BY <1>2, Types DEF TypeOK, ColState
<1>4. /\ x \in ColState /\ x.io = "none" /\ x.uptodate = col[i].uptodate /\ x.buf = col[i].buf
      /\ x.valid = (col[i].valid /\ ~ col[i].active) /\ x.enabled = FALSE /\ x.active = col[i].active
  BY <1>3 DEF ColState
<1>5. /\ col' \in [Cols -> ColState] /\ col'[i] = x /\ \A j \in Cols \ {i} : col'[j] = col[j]
      /\ media' \in [Cols -> Elem] /\ \A j \in Cols \ {i} : media'[j] = media[j]
  BY <1>1, <1>3, <1>4
<1>6. /\ ColGood(array, broken, i, disk[i], col[i])
      /\ ColCurrent(array, i, disk[i], media[i], Block(e, i), col[i])
      /\ col[i].enabled /\ col[i].uptodate
  BY <1>1, <1>2 DEF ColsGood, ColGood
<1>7. /\ Errors(array, more, faults') /\ Errors(array, more, array.faults)
      /\ faults' \in 0 .. array.faults
  BY <1>1, <1>6, ErrorCounted DEF Faulty
<1>8. col[PD].enabled
  BY <1>6, <1>7, ErrorMeansP
<1>9. /\ disk' = [disk EXCEPT ![i] = Off(@)]
      /\ Counted(disk', num_disabled', num_invalid', num_new')
      /\ num_new = 0 => num_new' = 0
      /\ ConfigChanges(i) \/ disk' = disk
      /\ disk' \in [Cols -> DiskState]
      /\ \A j \in Cols : DiskGood(array, more, j, disk'[j])
  BY <1>1, <1>7, WriteErrorGood
<1> HIDE DEF x, e
<1>10. /\ disk'[i].active = disk[i].active /\ disk'[i].valid = FALSE /\ disk'[i].enabled = FALSE
       /\ \A j \in Cols \ {i} : disk'[j] = disk[j]
       /\ \A j \in Cols : disk'[j].active = disk[j].active
  <2>1. disk'[i] = Off(disk[i]) /\ \A j \in Cols \ {i} : disk'[j] = disk[j]
    BY <1>3, <1>9
  <2>2. /\ Off(disk[i]).active = disk[i].active /\ Off(disk[i]).valid = FALSE
        /\ Off(disk[i]).enabled = FALSE
    BY <1>3 DEF Off, DiskState
  <2> QED
    BY <2>1, <2>2
<1>11. ColGood(array, more, i, disk'[i], x) /\ ColCurrent(array, i, disk'[i], media'[i], Block(e, i), x)
  BY <1>1, <1>4, <1>6, <1>10 DEF ColGood, ColCurrent
<1> HIDE DEF more
<1>12. ParityGood(col')
  <2>1. ~ x.valid \/ (i # PD /\ i # QD)
    BY <1>2, <1>4, <1>6 DEF ColGood, Covered
  <2> QED
    BY <1>2, <1>4, <1>5, <1>8, <2>1, Columns DEF ParityGood, ColsGood
<1>13. \A j \in Cols : ColGood(array, more, j, disk'[j], col'[j])
                       /\ ColCurrent(array, j, disk'[j], media'[j], Block(e, j), col'[j])
  BY <1>2, <1>5, <1>10, <1>11, MoreBroken DEF ColsGood, more
<1>14. ColsGood(array, more, disk', media', e, col')
  BY <1>1, <1>12, <1>13 DEF ColsGood
<1>15. SyncGood(array, disk, media, e, col) => SyncGood(array, disk', media', e, col')
  BY <1>5, <1>10 DEF SyncGood, InSync
<1>16. \A j \in Cols : col[j].uptodate => col'[j].uptodate
  BY <1>4, <1>5
<1>17. rec' \in Recovery /\ rec'.pc = rec.pc /\ rec'.pos = rec.pos /\ rec'.active = rec.active
  <2>1. rec.sig \/ (Interrupts(i) /\ rec.pc # "idle") \in BOOLEAN
    OBVIOUS
  <2>2. Interrupts(i) \in BOOLEAN
    BY DEF Interrupts, ReplacementFails, ArrayDiskFails, ClearingFails
  <2> QED
    BY <1>1, <1>3, <2>2 DEF Signalled, Recovery
<1>18. /\ update_sb' \subseteq {"this", "other"} /\ ("other" \in update_sb' => array.others)
       /\ update_sb' = {} => update_sb = {} /\ disk' = disk
  BY <1>1, <1>2, <1>3, <1>9 DEF FileGood
<1>19. sh'.handle
  BY <1>1, <1>3 DEF ShBits
<1>20. Inv(more, d)'
  BY <1>1, <1>2, <1>5, <1>7, <1>9, <1>10, <1>14, <1>15, <1>16, <1>17, <1>18, <1>19, ErrorFrame DEF e
<1> QED
  BY <1>20 DEF more

(* A write fails in another stripe.                                         *)
LEMMA OtherErrorStep ==
  ASSUME NEW broken, NEW d, Inv(broken, d), NEW i \in Cols, OtherWriteError(i)
  PROVE  Inv(broken \cup {i}, d)'
<1> DEFINE e == Content(bi, d)
           more == broken \cup {i}
<1>1. /\ i \in array.writeFaults /\ array.others
      /\ disk[i].enabled /\ faults < array.faults /\ faults' = faults + 1 /\ md_write_error(i)
      /\ media' = media /\ col' = col /\ sh' = sh
      /\ array' = array /\ bi' = bi /\ last' = last /\ sb' = sb /\ bug' = bug /\ event' = NoEvent
      /\ rec' = Signalled(rec, Interrupts(i))
      /\ update_sb' = update_sb \cup IF ConfigChanges(i) THEN {"other"} ELSE {}
  BY DEF OtherWriteError
<1>2. /\ TypeOK /\ ColsGood(array, broken, disk, media, e, col)
      /\ FileGood(array, disk, sb, update_sb, sh) /\ Covered(array)
      /\ \A j \in Cols : DiskGood(array, broken, j, disk[j])
  BY DEF Inv
<1>3. /\ disk \in [Cols -> DiskState] /\ media \in [Cols -> Elem] /\ col \in [Cols -> ColState]
      /\ rec \in Recovery /\ update_sb \subseteq {"this", "other"} /\ sh \in ShBits
      /\ disk[i] \in DiskState
  BY <1>2, Types DEF TypeOK
<1>4. /\ Errors(array, more, faults') /\ Errors(array, more, array.faults)
      /\ faults' \in 0 .. array.faults
  BY <1>1, ErrorCounted DEF Faulty
<1>5. /\ disk' = [disk EXCEPT ![i] = Off(@)]
      /\ Counted(disk', num_disabled', num_invalid', num_new')
      /\ num_new = 0 => num_new' = 0
      /\ ConfigChanges(i) \/ disk' = disk
      /\ disk' \in [Cols -> DiskState]
      /\ \A j \in Cols : DiskGood(array, more, j, disk'[j])
  BY <1>1, <1>4, WriteErrorGood
<1> HIDE DEF e
<1>6. /\ disk'[i].active = disk[i].active /\ disk'[i].valid = FALSE /\ disk'[i].enabled = FALSE
      /\ \A j \in Cols \ {i} : disk'[j] = disk[j]
      /\ \A j \in Cols : disk'[j].active = disk[j].active
  <2>1. disk'[i] = Off(disk[i]) /\ \A j \in Cols \ {i} : disk'[j] = disk[j]
    BY <1>3, <1>5
  <2>2. /\ Off(disk[i]).active = disk[i].active /\ Off(disk[i]).valid = FALSE
        /\ Off(disk[i]).enabled = FALSE
    BY <1>3 DEF Off, DiskState
  <2> QED
    BY <2>1, <2>2
<1> HIDE DEF more
<1>7. \A j \in Cols : ColGood(array, more, j, disk'[j], col[j])
                      /\ ColCurrent(array, j, disk'[j], media[j], Block(e, j), col[j])
  <2>1. ASSUME NEW j \in Cols
        PROVE  /\ ColGood(array, more, j, disk[j], col[j])
               /\ ColCurrent(array, j, disk[j], media[j], Block(e, j), col[j])
    BY <1>2, MoreBroken DEF ColsGood, more
  <2>2. ColGood(array, more, i, disk'[i], col[i]) /\ ColCurrent(array, i, disk'[i], media[i], Block(e, i), col[i])
    BY <1>6, <2>1 DEF ColGood, ColCurrent
  <2> QED
    BY <1>6, <2>1, <2>2
<1>8. ColsGood(array, more, disk', media', e, col')
  BY <1>1, <1>2, <1>7 DEF ColsGood
<1>9. SyncGood(array, disk, media, e, col) => SyncGood(array, disk', media', e, col')
  BY <1>1, <1>6 DEF SyncGood, InSync
<1>10. rec' \in Recovery /\ rec'.pc = rec.pc /\ rec'.pos = rec.pos /\ rec'.active = rec.active
  <2>1. Interrupts(i) \in BOOLEAN
    BY DEF Interrupts, ReplacementFails, ArrayDiskFails, ClearingFails
  <2> QED
    BY <1>1, <1>3, <2>1 DEF Signalled, Recovery
<1>11. /\ update_sb' \subseteq {"this", "other"} /\ ("other" \in update_sb' => array.others)
       /\ update_sb' = {} => update_sb = {} /\ disk' = disk
       /\ "this" \in update_sb' => "this" \in update_sb
  BY <1>1, <1>2, <1>3, <1>5 DEF FileGood
<1>12. Inv(more, d)'
  BY <1>1, <1>2, <1>3, <1>4, <1>5, <1>6, <1>8, <1>9, <1>10, <1>11, ErrorFrame DEF e
<1> QED
  BY <1>12 DEF more

-----------------------------------------------------------------------------
(* Getting the stripe, and the recovery thread. *)

(* What a step that leaves the disks alone has to establish.                *)
LEMMA QuietFrame ==
  ASSUME NEW broken, NEW d, Inv(broken, d),
         UNCHANGED <<array, diskVars, media, last, faults>>, event' = NoEvent, bug' = FALSE,
         col' \in [Cols -> ColState], bi' \in Bio, sh' \in ShBits, rec' \in Recovery,
         sb' \in [Cols -> DiskState], update_sb' \subseteq {"this", "other"},
         ColsGood(array, broken, disk, media, Content(bi', d), col'),
         Pending(array, disk, col', bi', sh'), Syncing(array, sh', rec', num_new),
         Synced(array, disk, media, Content(bi', d), col', sh', rec'),
         FileGood(array, disk, sb', update_sb', sh')
  PROVE  Inv(broken, d)'
<1>1. /\ array' = array /\ disk' = disk /\ media' = media /\ faults' = faults /\ last' = last
      /\ num_disabled' = num_disabled /\ num_invalid' = num_invalid /\ num_new' = num_new
  BY DEF diskVars
<1>2. TypeOK
  BY DEF Inv
<1>3. event' \in Event /\ EventGood(array, broken, last, event')
  BY CodeAssumption DEF NoEvent, Event, Data, Elem, EventGood
<1>4. TypeOK'
  BY <1>1, <1>2, <1>3 DEF TypeOK, ShBits, Recovery
<1> QED
  BY <1>1, <1>3, <1>4 DEF Inv

(* A stripe that is on no list has no request and no sync, so the driver's  *)
(* sanity check of it holds.                                                *)
LEMMA InactiveFree ==
  ASSUME NEW broken, NEW d, Inv(broken, d), Inactive
  PROVE  /\ NoIO /\ bi.op = "none" /\ ~ sh.syncing /\ ~ sh.insync /\ ~ sh.clearing
         /\ Content(bi, d) = d
         /\ SanityCheck => bug' = FALSE
<1>1. /\ Pending(array, disk, col, bi, sh) /\ Syncing(array, sh, rec, num_new) /\ ~ bug
      /\ NoIO /\ ~ sh.handle /\ ~ Locked(col)
  BY NothingLocked DEF Inv, Inactive
<1>2. bi.op = "none" /\ ~ sh.syncing
  BY <1>1 DEF Pending
<1>3. ~ sh.insync /\ ~ sh.clearing
  BY <1>1, <1>2 DEF Syncing
<1> QED
  BY <1>1, <1>2, <1>3 DEF Content, SanityCheck

(* What init_stripe() relies on: the disks that count as valid have the     *)
(* data d, and there is none where no disk is.                              *)
OnDisks(a, dk, m, d) ==
  \A i \in Cols : /\ i \in Data /\ (~ dk[i].active \/ Short(a, i)) => Block(d, i) = 0
                  /\ dk[i].valid /\ ~ Short(a, i) => m[i] = Block(d, i)

(* init_stripe() gives columns that say nothing wrong of the disks.         *)
LEMMA FreshColsGood ==
  ASSUME NEW broken, NEW d, disk \in [Cols -> DiskState], Covered(array),
         \A i \in Cols : DiskGood(array, broken, i, disk[i]), OnDisks(array, disk, media, d)
  PROVE  LET c == [i \in Cols |-> InitCol(i)]
         IN  /\ c \in [Cols -> ColState] /\ ColsGood(array, broken, disk, media, d, c)
             /\ \A i \in Cols : c[i].io = "none"
<1> DEFINE c == [i \in Cols |-> InitCol(i)]
<1>2. disk \in [Cols -> DiskState] /\ {0, Order - 1} \subseteq Elem
  BY CodeAssumption DEF Elem
<1>3. ASSUME NEW i \in Cols
      PROVE  /\ InitCol(i) \in ColState
             /\ InitCol(i).valid = (disk[i].valid \/ ~ disk[i].active)
             /\ InitCol(i).enabled = (disk[i].enabled /\ ~ Short(array, i))
             /\ InitCol(i).active = disk[i].active
             /\ InitCol(i).uptodate = ~ disk[i].active
             /\ InitCol(i).io = "none"
             /\ ~ disk[i].active => InitCol(i).buf = 0
  BY <1>2 DEF InitCol, ColState, DiskState, Short
<1>4. ASSUME NEW i \in Cols
      PROVE  /\ ColGood(array, broken, i, disk[i], InitCol(i))
             /\ ColCurrent(array, i, disk[i], media[i], Block(d, i), InitCol(i))
  <2>1. /\ DiskGood(array, broken, i, disk[i])
        /\ i \in Data /\ (~ disk[i].active \/ Short(array, i)) => Block(d, i) = 0
        /\ disk[i].valid /\ ~ Short(array, i) => media[i] = Block(d, i)
    BY DEF OnDisks
  <2>2. ~ disk[i].active => i \in Data
    BY <2>1, Columns DEF DiskGood, Covered
  <2>3. ColGood(array, broken, i, disk[i], InitCol(i))
    BY <1>3, <2>1 DEF ColGood, DiskGood
  <2>4. ColCurrent(array, i, disk[i], media[i], Block(d, i), InitCol(i))
    BY <1>3, <2>1, <2>2 DEF ColCurrent
  <2> QED
    BY <2>3, <2>4
<1>5. ASSUME NEW i \in {PD, QD} PROVE ~ InitCol(i).enabled => ~ InitCol(i).valid
  <2>1. i \in Cols /\ DiskGood(array, broken, i, disk[i]) /\ array.slots[i] \in {"ok", "dsbl", "rebuild"}
    BY Columns DEF Covered
  <2> QED
    BY <1>3, <2>1 DEF DiskGood, Short
<1>6. \A i \in Cols : c[i] = InitCol(i)
  OBVIOUS
<1> HIDE DEF c
<1>7. ParityGood(c)
  BY <1>5, <1>6, Columns DEF ParityGood
<1>8. ColsGood(array, broken, disk, media, d, c)
  BY <1>4, <1>6, <1>7 DEF ColsGood
<1>9. c \in [Cols -> ColState]
  BY <1>3 DEF c
<1> QED
  BY <1>3, <1>6, <1>8, <1>9 DEF c

(* In a state of the invariant, for one.                                    *)
LEMMA InitColsGood ==
  ASSUME NEW broken, NEW d, Inv(broken, d), NoIO, bi.op = "none"
  PROVE  LET c == [i \in Cols |-> InitCol(i)]
         IN  c \in [Cols -> ColState] /\ ColsGood(array, broken, disk, media, d, c)
<1>1. /\ TypeOK /\ Covered(array) /\ \A i \in Cols : DiskGood(array, broken, i, disk[i])
      /\ ColsGood(array, broken, disk, media, d, col)
  BY DEF Inv, Content
<1>2. disk \in [Cols -> DiskState]
  BY <1>1, Types
<1>3. OnDisks(array, disk, media, d)
  BY <1>1 DEF OnDisks, ColsGood, ColCurrent, NoIO
<1> QED
  BY <1>1, <1>2, <1>3, FreshColsGood

(* So a stripe that is taken for use is as it should be, cached or not.     *)
LEMMA ActiveColsGood ==
  ASSUME NEW broken, NEW d, Inv(broken, d), Inactive
  PROVE  /\ ActiveCols \in [Cols -> ColState] /\ ColsGood(array, broken, disk, media, d, ActiveCols)
         /\ \A i \in Cols : ActiveCols[i].io = "none"
<1>1. NoIO /\ bi.op = "none" /\ Content(bi, d) = d
  BY InactiveFree
<1>2. col \in [Cols -> ColState] /\ ColsGood(array, broken, disk, media, d, col)
  BY <1>1, Types DEF Inv
<1>3. CASE sh.cached
  BY <1>1, <1>2, <1>3 DEF ActiveCols, NoIO
<1>4. CASE ~ sh.cached
  <2>1. ActiveCols = [i \in Cols |-> InitCol(i)]
    BY <1>4 DEF ActiveCols
  <2>2. \A i \in Cols : InitCol(i).io = "none"
    BY DEF InitCol
  <2> QED
    BY <1>1, <2>1, <2>2, InitColsGood
<1> QED
  BY <1>3, <1>4

(* The stripe is reused.                                                    *)
LEMMA EvictStep ==
  ASSUME NEW broken, NEW d, Inv(broken, d), Evict
  PROVE  Inv(broken, d)'
<1>1. /\ Inactive /\ SanityCheck /\ sh' = [sh EXCEPT !.cached = FALSE]
      /\ col' = [i \in Cols |-> InitCol(i)] /\ event' = NoEvent /\ bi' = bi /\ rec' = rec
      /\ sb' = sb /\ update_sb' = update_sb
      /\ UNCHANGED <<array, diskVars, media, last, faults>>
  BY DEF Evict
<1>2. /\ NoIO /\ bi.op = "none" /\ ~ sh.syncing /\ Content(bi, d) = d /\ bug' = FALSE
  BY <1>1, InactiveFree
<1>3. /\ TypeOK /\ Pending(array, disk, col, bi, sh) /\ Syncing(array, sh, rec, num_new)
      /\ Synced(array, disk, media, d, col, sh, rec) /\ FileGood(array, disk, sb, update_sb, sh)
  BY <1>2 DEF Inv
<1>4. /\ bi \in Bio /\ rec \in Recovery /\ sb \in [Cols -> DiskState] /\ sh \in ShBits
      /\ update_sb \subseteq {"this", "other"}
  BY <1>3, Types
<1>5. /\ sh' \in ShBits /\ sh'.handle = sh.handle /\ sh'.syncing = sh.syncing
      /\ sh'.insync = sh.insync /\ sh'.clearing = sh.clearing
  BY <1>1, <1>4 DEF ShBits
<1>6. col' \in [Cols -> ColState] /\ ColsGood(array, broken, disk, media, d, col')
  BY <1>1, <1>2, InitColsGood
<1>7. Pending(array, disk, col', bi', sh')
  BY <1>1, <1>2, <1>5 DEF Pending
<1>8. Syncing(array, sh', rec', num_new) /\ FileGood(array, disk, sb', update_sb', sh')
  BY <1>1, <1>3, <1>5 DEF Syncing, FileGood
<1>9. Synced(array, disk, media, d, col', sh', rec')
  BY <1>1, <1>2, <1>3, <1>5, SyncedStays DEF Synced
<1> QED
  BY <1>1, <1>2, <1>4, <1>5, <1>6, <1>7, <1>8, <1>9, QuietFrame

(* A request arrives.                                                       *)
LEMMA MakeRequestStep ==
  ASSUME NEW broken, NEW d, Inv(broken, d), NEW i \in Data, NEW op \in {"read", "write"},
         NEW v \in Elem, NEW partial \in BOOLEAN, MakeRequest(i, op, v, partial)
  PROVE  Inv(broken, d)'
<1>1. /\ disk[i].active /\ ~ Short(array, i) /\ Inactive /\ SanityCheck /\ col' = ActiveCols
      /\ sh' = [sh EXCEPT !.cached = TRUE, !.handle = TRUE] /\ event' = NoEvent /\ rec' = rec
      /\ sb' = sb /\ update_sb' = update_sb
      /\ UNCHANGED <<array, diskVars, media, last, faults>>
  BY DEF MakeRequest, Short
<1>2. PICK m \in Methods : bi' = [op |-> op, col |-> i, val |-> v, partial |-> partial, method |-> m]
  BY DEF MakeRequest
<1>3. bi' \in Bio /\ bi'.op = op /\ bi'.col = i /\ Content(bi', d) = d
  BY <1>2, StripeAssumption DEF Bio, Content
<1>4. /\ NoIO /\ bi.op = "none" /\ ~ sh.syncing /\ Content(bi, d) = d /\ bug' = FALSE
  BY <1>1, InactiveFree
<1>5. /\ TypeOK /\ Syncing(array, sh, rec, num_new)
      /\ Synced(array, disk, media, d, col, sh, rec) /\ FileGood(array, disk, sb, update_sb, sh)
  BY <1>4 DEF Inv
<1>6. /\ rec \in Recovery /\ sb \in [Cols -> DiskState] /\ sh \in ShBits
      /\ update_sb \subseteq {"this", "other"}
  BY <1>5, Types
<1>7. /\ sh' \in ShBits /\ sh'.handle /\ sh'.syncing = sh.syncing
      /\ sh'.insync = sh.insync /\ sh'.clearing = sh.clearing
  BY <1>1, <1>6 DEF ShBits
<1>8. col' \in [Cols -> ColState] /\ ColsGood(array, broken, disk, media, d, col')
  BY <1>1, ActiveColsGood
<1>9. Pending(array, disk, col', bi', sh')
  BY <1>1, <1>3, <1>4, <1>7 DEF Pending
<1>10. Syncing(array, sh', rec', num_new) /\ FileGood(array, disk, sb', update_sb', sh')
  BY <1>1, <1>5, <1>7 DEF Syncing, FileGood
<1>11. Synced(array, disk, media, d, col', sh', rec')
  BY <1>1, <1>4, <1>5, <1>7, SyncedStays DEF Synced
<1> QED
  BY <1>1, <1>3, <1>4, <1>6, <1>7, <1>8, <1>9, <1>10, <1>11, QuietFrame

(* No disk is new when none is counted, and a new one was when one is.      *)
LEMMA NewCounted ==
  ASSUME NEW broken, NEW d, Inv(broken, d)
  PROVE  /\ num_new = 0 => \A i \in Cols : disk[i].enabled => disk[i].active
         /\ num_new > 0 => \E i \in Cols : array.slots[i] = "new"
<1> DEFINE N == {j \in Cols : ~ disk[j].active /\ disk[j].enabled}
<1>1. /\ num_new = Cardinality(N) /\ N \in SUBSET Cols
      /\ \A i \in Cols : DiskGood(array, broken, i, disk[i])
  BY DEF Inv, Counted
<1>2. N = {} <=> num_new = 0
  <2> HIDE DEF N
  <2> QED
    BY <1>1, FiniteCols, FS_EmptySet
<1>3. num_new > 0 => N # {}
  BY <1>2
<1> QED
  BY <1>1, <1>2, <1>3 DEF DiskGood

(* A sync of the stripe starts.                                             *)
LEMMA UnraidSyncStep ==
  ASSUME NEW broken, NEW d, Inv(broken, d), UnraidSync
  PROVE  Inv(broken, d)'
<1> DEFINE x(i) == [ActiveCols[i] EXCEPT !.uptodate =
                     @ /\ ~ (~ Clearing /\ ActiveCols[i].active /\ ActiveCols[i].enabled
                             /\ ActiveCols[i].valid)]
<1>1. /\ rec.pc = "running" /\ rec.pos = 0 /\ Inactive /\ SanityCheck
      /\ sh' = [sh EXCEPT !.cached = TRUE, !.handle = TRUE, !.syncing = TRUE, !.clearing = Clearing]
      /\ col' = [i \in Cols |-> x(i)]
      /\ rec' = [rec EXCEPT !.pc = "submitted", !.pos = 1, !.active = TRUE] /\ event' = NoEvent
      /\ bi' = bi /\ sb' = sb /\ update_sb' = update_sb
      /\ UNCHANGED <<array, diskVars, media, last, faults>>
  BY DEF UnraidSync
<1>2. /\ NoIO /\ bi.op = "none" /\ ~ sh.syncing /\ ~ sh.insync /\ ~ sh.clearing
      /\ Content(bi, d) = d /\ bug' = FALSE
  BY <1>1, InactiveFree
<1>3. /\ TypeOK /\ FileGood(array, disk, sb, update_sb, sh)
      /\ Counted(disk, num_disabled, num_invalid, num_new)
  BY DEF Inv
<1>4. /\ rec \in Recovery /\ sb \in [Cols -> DiskState] /\ sh \in ShBits /\ bi \in Bio
      /\ update_sb \subseteq {"this", "other"} /\ num_new \in Nat
  BY <1>3, Types DEF TypeOK
<1>5. Clearing \in BOOLEAN /\ Clearing = (num_new > 0)
  BY DEF Clearing
<1>6. /\ sh' \in ShBits /\ sh'.handle /\ sh'.syncing /\ ~ sh'.insync
      /\ sh'.clearing = Clearing /\ rec' \in Recovery /\ rec'.pc = "submitted" /\ rec'.pos = 1
      /\ rec'.active = TRUE
  BY <1>1, <1>2, <1>4, <1>5 DEF ShBits, Recovery
<1>7. /\ ActiveCols \in [Cols -> ColState] /\ ColsGood(array, broken, disk, media, d, ActiveCols)
      /\ \A i \in Cols : ActiveCols[i].io = "none"
  BY <1>1, ActiveColsGood
<1>8. ASSUME NEW i \in Cols
      PROVE  /\ x(i) \in ColState /\ x(i).valid = ActiveCols[i].valid
             /\ x(i).enabled = ActiveCols[i].enabled /\ x(i).active = ActiveCols[i].active
             /\ x(i).io = "none" /\ x(i).buf = ActiveCols[i].buf
             /\ x(i).uptodate = (ActiveCols[i].uptodate
                  /\ ~ (~ Clearing /\ ActiveCols[i].active /\ ActiveCols[i].enabled
                        /\ ActiveCols[i].valid))
  BY <1>5, <1>7 DEF ColState
<1> HIDE DEF x
<1>9. col' \in [Cols -> ColState] /\ \A i \in Cols : col'[i] = x(i)
  BY <1>1, <1>8
<1>10. ASSUME NEW i \in Cols
       PROVE  /\ ColGood(array, broken, i, disk[i], x(i))
              /\ ColCurrent(array, i, disk[i], media[i], Block(d, i), x(i))
  <2>1. /\ ColGood(array, broken, i, disk[i], ActiveCols[i])
        /\ ColCurrent(array, i, disk[i], media[i], Block(d, i), ActiveCols[i])
    BY <1>7 DEF ColsGood
  <2> QED
    BY <1>7, <1>8, <2>1 DEF ColGood, ColCurrent
<1>11. ParityGood(col')
  <2>1. ParityGood(ActiveCols)
    BY <1>7 DEF ColsGood
  <2> QED
    BY <1>7, <1>8, <1>9, <2>1, Columns DEF ParityGood
<1>12. ColsGood(array, broken, disk, media, d, col')
  BY <1>9, <1>10, <1>11 DEF ColsGood
<1>13. Pending(array, disk, col', bi', sh')
  BY <1>1, <1>2, <1>6 DEF Pending
<1>14. Syncing(array, sh', rec', num_new)
  <2>1. ~ Clearing => num_new = 0
    <3>1. num_new > 0 \/ num_new = 0
      BY <1>4
    <3> QED
      BY <3>1 DEF Clearing
  <2>2. Clearing => \E i \in Cols : array.slots[i] = "new"
    BY <1>5, NewCounted
  <2> QED
    BY <1>6, <2>1, <2>2 DEF Syncing
<1>15. Synced(array, disk, media, d, col', sh', rec')
  BY <1>6 DEF Synced
<1>16. FileGood(array, disk, sb', update_sb', sh')
  BY <1>1, <1>3, <1>6 DEF FileGood
<1> QED
  BY <1>1, <1>2, <1>4, <1>6, <1>9, <1>12, <1>13, <1>14, <1>15, <1>16, QuietFrame

(* The steps that only the recovery thread or the superblock file sees.     *)
LEMMA ControlStep ==
  ASSUME NEW broken, NEW d, Inv(broken, d),
         UNCHANGED <<array, diskVars, media, last, faults, col, bi, sh, bug>>, event' = NoEvent,
         rec' \in Recovery, rec'.active = rec.active,
         rec'.pc \in {"submitted", "waiting"} => rec'.pos = 1,
         sh.syncing => rec'.pc \in {"submitted", "waiting"},
         rec'.pos = 1 => rec.pos = 1,
         sb' \in [Cols -> DiskState], update_sb' \subseteq {"this", "other"},
         FileGood(array, disk, sb', update_sb', sh)
  PROVE  Inv(broken, d)'
<1>1. /\ TypeOK /\ Pending(array, disk, col, bi, sh) /\ Syncing(array, sh, rec, num_new)
      /\ Synced(array, disk, media, Content(bi, d), col, sh, rec)
      /\ ColsGood(array, broken, disk, media, Content(bi, d), col) /\ ~ bug
  BY DEF Inv
<1>2. bi \in Bio /\ sh \in ShBits /\ col \in [Cols -> ColState] /\ bug = FALSE
  BY <1>1, Types
<1>3. Syncing(array, sh, rec', num_new) /\ Synced(array, disk, media, Content(bi, d), col, sh, rec')
  BY <1>1 DEF Syncing, Synced
<1> QED
  BY <1>1, <1>2, <1>3, QuietFrame

(* Another stripe updates the superblock.                                   *)
LEMMA OtherUpdateStep ==
  ASSUME NEW broken, NEW d, Inv(broken, d), OtherUpdate
  PROVE  Inv(broken, d)'
<1>1. /\ update_sb' = update_sb \ {"other"} /\ sb' = disk /\ event' = NoEvent /\ rec' = rec
      /\ UNCHANGED <<array, diskVars, media, last, faults, col, bi, sh, bug>>
  BY DEF OtherUpdate
<1>2. /\ TypeOK /\ Syncing(array, sh, rec, num_new) /\ FileGood(array, disk, sb, update_sb, sh)
  BY DEF Inv
<1>3. /\ rec \in Recovery /\ disk \in [Cols -> DiskState] /\ update_sb \subseteq {"this", "other"}
  BY <1>2, Types
<1>4. /\ rec.pc \in {"submitted", "waiting"} => rec.pos = 1
      /\ sh.syncing => rec.pc \in {"submitted", "waiting"}
  BY <1>2 DEF Syncing
<1>5. FileGood(array, disk, sb', update_sb', sh) /\ update_sb' \subseteq {"this", "other"}
  BY <1>1, <1>2, <1>3 DEF FileGood
<1> QED
  BY <1>1, <1>3, <1>4, <1>5, ControlStep

(* A recovery is started,                                                   *)
LEMMA CheckArrayStep ==
  ASSUME NEW broken, NEW d, Inv(broken, d), NEW option \in BOOLEAN, NEW resume \in BOOLEAN,
         CheckArray(option, resume)
  PROVE  Inv(broken, d)'
<1>1. /\ rec.pc = "idle" /\ sb' = disk /\ event' = NoEvent /\ update_sb' = update_sb
      /\ rec' = [rec EXCEPT !.pc = "running", !.sig = FALSE,
                            !.option = IF resume THEN @ ELSE option,
                            !.pos = IF resume THEN @ ELSE 0]
      /\ UNCHANGED <<array, diskVars, media, last, faults, col, bi, sh, bug>>
  BY DEF CheckArray, stripeVars
<1>2. /\ TypeOK /\ Syncing(array, sh, rec, num_new) /\ FileGood(array, disk, sb, update_sb, sh)
  BY DEF Inv
<1>3. /\ rec \in Recovery /\ disk \in [Cols -> DiskState] /\ update_sb \subseteq {"this", "other"}
  BY <1>2, Types
<1>4. /\ rec' \in Recovery /\ rec'.pc = "running" /\ rec'.active = rec.active
      /\ rec'.pos = 1 => rec.pos = 1
  BY <1>1, <1>3 DEF Recovery
<1>5. ~ sh.syncing
  BY <1>1, <1>2 DEF Syncing
<1>6. FileGood(array, disk, sb', update_sb', sh)
  BY <1>1, <1>2 DEF FileGood
<1> QED
  BY <1>1, <1>3, <1>4, <1>5, <1>6, ControlStep

(* told to stop,                                                            *)
LEMMA NocheckArrayStep ==
  ASSUME NEW broken, NEW d, Inv(broken, d), NocheckArray
  PROVE  Inv(broken, d)'
<1>1. /\ rec' = [rec EXCEPT !.sig = TRUE] /\ sb' = sb /\ event' = NoEvent /\ update_sb' = update_sb
      /\ UNCHANGED <<array, diskVars, media, last, faults, col, bi, sh, bug>>
  BY DEF NocheckArray, stripeVars
<1>2. /\ TypeOK /\ Syncing(array, sh, rec, num_new) /\ FileGood(array, disk, sb, update_sb, sh)
  BY DEF Inv
<1>3. /\ rec \in Recovery /\ sb \in [Cols -> DiskState] /\ update_sb \subseteq {"this", "other"}
  BY <1>2, Types
<1>4. /\ rec' \in Recovery /\ rec'.pc = rec.pc /\ rec'.active = rec.active /\ rec'.pos = rec.pos
  BY <1>1, <1>3 DEF Recovery
<1>5. /\ rec'.pc \in {"submitted", "waiting"} => rec'.pos = 1
      /\ sh.syncing => rec'.pc \in {"submitted", "waiting"}
  BY <1>2, <1>4 DEF Syncing
<1>6. FileGood(array, disk, sb', update_sb', sh)
  BY <1>1, <1>2
<1> QED
  BY <1>1, <1>3, <1>4, <1>5, <1>6, ControlStep

(* and is past the stripe.                                                  *)
LEMMA SignalCheckStep ==
  ASSUME NEW broken, NEW d, Inv(broken, d), SignalCheck
  PROVE  Inv(broken, d)'
<1>1. /\ rec.pc = "submitted" \/ (rec.pc = "running" /\ rec.pos = 1)
      /\ rec' = IF rec.pc = "submitted"
                THEN [rec EXCEPT !.pc = "waiting", !.exit = rec.sig, !.sig = FALSE]
                ELSE [rec EXCEPT !.pc = "waiting", !.exit = FALSE]
      /\ sb' = sb /\ event' = NoEvent /\ update_sb' = update_sb
      /\ UNCHANGED <<array, diskVars, media, last, faults, col, bi, sh, bug>>
  BY DEF SignalCheck, stripeVars
<1>2. /\ TypeOK /\ Syncing(array, sh, rec, num_new) /\ FileGood(array, disk, sb, update_sb, sh)
  BY DEF Inv
<1>3. /\ rec \in Recovery /\ sb \in [Cols -> DiskState] /\ update_sb \subseteq {"this", "other"}
  BY <1>2, Types
<1>4. /\ rec' \in Recovery /\ rec'.pc = "waiting" /\ rec'.active = rec.active /\ rec'.pos = rec.pos
  BY <1>1, <1>3 DEF Recovery
<1>5. rec.pos = 1
  BY <1>1, <1>2 DEF Syncing
<1>6. FileGood(array, disk, sb', update_sb', sh)
  BY <1>1, <1>2
<1> QED
  BY <1>1, <1>3, <1>4, <1>5, <1>6, ControlStep

(* Nothing happens.                                                         *)
LEMMA StutterStep ==
  ASSUME NEW broken, NEW d, Inv(broken, d), UNCHANGED vars
  PROVE  Inv(broken, d)'
BY DEF Inv, TypeOK, ColsGood, vars, NoIO

(* The data disks the end of a recovery declares valid have their block:    *)
(* the recovery thread only gets there when the sync of the stripe is over. *)
Done == {i \in Cols : ~ rec.exit /\ disk[i].enabled /\ ~ disk[i].valid}

(* So every disk it declares valid has its block.                           *)
LEMMA RecoveryDone ==
  ASSUME NEW broken, NEW d, Inv(broken, d), RecoveryEnd
  PROVE  /\ \A i \in Cols : disk'[i] = IF i \in Done
                                       THEN [valid |-> TRUE, enabled |-> TRUE, active |-> TRUE]
                                       ELSE disk[i]
         /\ \A i \in Done : array.slots[i] \in {"new", "rebuild"} /\
              InSync(array, i, disk[i], media[i], Block(Content(bi, d), i), col[i])
         /\ ~ sh.syncing /\ ~ sh.insync /\ ~ sh.clearing
<1>1. /\ rec.pc = "waiting" /\ ~ rec.active
      /\ disk' = [i \in Cols |-> IF i \in Done
                                 THEN [valid |-> TRUE, enabled |-> TRUE, active |-> TRUE]
                                 ELSE disk[i]]
  BY DEF RecoveryEnd, Done
<1>2. /\ Syncing(array, sh, rec, num_new) /\ TypeOK
      /\ Synced(array, disk, media, Content(bi, d), col, sh, rec)
      /\ \A i \in Cols : DiskGood(array, broken, i, disk[i])
  BY DEF Inv
<1>3. ~ sh.syncing /\ ~ sh.insync /\ ~ sh.clearing /\ rec.pos = 1
  BY <1>1, <1>2 DEF Syncing
<1>4. SyncGood(array, disk, media, Content(bi, d), col)
  BY <1>2, <1>3 DEF Synced
<1>5. \A i \in Done : i \in Cols /\ disk[i].enabled /\ ~ disk[i].valid
  BY DEF Done
<1>6. \A i \in Done : array.slots[i] \in {"new", "rebuild"}
  BY <1>2, <1>5 DEF DiskGood
<1> QED
  BY <1>1, <1>3, <1>4, <1>5, <1>6 DEF SyncGood

(* Counting without a subset.                                               *)
LEMMA CountsLess ==
  ASSUME NEW S \in SUBSET Cols, NEW T \in SUBSET S
  PROVE  Cardinality(S \ T) = Cardinality(S) - Cardinality(T)
<1>1. S \cap T = T /\ IsFiniteSet(S)
  BY FiniteCols
<1> QED
  BY <1>1, FS_Difference

(* The end of a recovery.                                                   *)
LEMMA RecoveryEndStep ==
  ASSUME NEW broken, NEW d, Inv(broken, d), RecoveryEnd
  PROVE  Inv(broken, d)'
<1> DEFINE e == Content(bi, d)
           A == {i \in Cols : disk[i].active /\ ~ disk[i].enabled}
           B == {i \in Cols : disk[i].active /\ ~ disk[i].valid}
           C == {i \in Cols : ~ disk[i].active /\ disk[i].enabled}
           R == Rebuilt(Done)
           N == {i \in Done : ~ disk[i].active}
           InUse == [valid |-> TRUE, enabled |-> TRUE, active |-> TRUE]
<1>1. /\ disk' = [i \in Cols |-> IF i \in Done THEN InUse ELSE disk[i]]
      /\ num_new' = num_new - Cardinality(N)
      /\ num_invalid' = num_invalid - Cardinality(R)
      /\ num_disabled' = num_disabled /\ sb' = disk' /\ event' = NoEvent
      /\ rec.pc = "waiting" /\ ~ rec.active
      /\ rec' = [rec EXCEPT !.pc = "idle", !.sig = FALSE, !.exit = FALSE,
                            !.pos = IF rec.exit THEN @ ELSE 0, !.option = @ /\ rec.exit]
      /\ array' = array /\ media' = media /\ col' = col /\ bi' = bi /\ sh' = sh
      /\ update_sb' = update_sb /\ last' = last /\ faults' = faults /\ bug' = bug
  BY DEF RecoveryEnd, stripeVars, Done
<1>2. /\ TypeOK /\ Acked(d, last) /\ Errors(array, broken, faults) /\ Covered(array) /\ ~ bug
      /\ \A i \in Cols : DiskGood(array, broken, i, disk[i])
      /\ num_disabled = Cardinality(A) /\ num_invalid = Cardinality(B) /\ num_new = Cardinality(C)
      /\ ColsGood(array, broken, disk, media, e, col) /\ Pending(array, disk, col, bi, sh)
      /\ Synced(array, disk, media, e, col, sh, rec) /\ FileGood(array, disk, sb, update_sb, sh)
      /\ Syncing(array, sh, rec, num_new)
  BY DEF Inv, Counted
<1>3. /\ disk \in [Cols -> DiskState] /\ rec \in Recovery /\ bi \in Bio
      /\ col \in [Cols -> ColState] /\ media \in [Cols -> Elem]
  BY <1>2, Types
<1>4. /\ \A i \in Cols : disk'[i] = IF i \in Done THEN InUse ELSE disk[i]
      /\ \A i \in Done : array.slots[i] \in {"new", "rebuild"} /\
           InSync(array, i, disk[i], media[i], Block(e, i), col[i])
      /\ ~ sh.syncing /\ ~ sh.insync /\ ~ sh.clearing
  BY RecoveryDone
<1>5. Done \subseteq Cols /\ \A i \in Done : disk[i].enabled /\ ~ disk[i].valid
  BY DEF Done
<1> HIDE DEF e
<1>6. \A i \in Cols : DiskGood(array, broken, i, disk'[i]) /\ disk'[i] \in DiskState
  <2> SUFFICES ASSUME NEW i \in Cols
               PROVE  DiskGood(array, broken, i, disk'[i]) /\ disk'[i] \in DiskState
    OBVIOUS
  <2>1. CASE i \in Done
    <3>1. disk'[i] = InUse /\ array.slots[i] \in {"new", "rebuild"}
      BY <1>4, <2>1
    <3> QED
      BY <3>1 DEF DiskGood, DiskState
  <2>2. CASE i \notin Done
    <3>1. disk'[i] = disk[i] /\ DiskGood(array, broken, i, disk[i])
      BY <1>2, <1>4, <2>2
    <3> QED
      BY <1>3, <3>1
  <2> QED
    BY <2>1, <2>2
<1>7. Counted(disk', num_disabled', num_invalid', num_new')
  <2>1. {i \in Cols : disk'[i].active /\ ~ disk'[i].enabled} = A
    BY <1>4, <1>5
  <2>2. {i \in Cols : disk'[i].active /\ ~ disk'[i].valid} = B \ R
    BY <1>4, <1>5 DEF Rebuilt
  <2>3. {i \in Cols : ~ disk'[i].active /\ disk'[i].enabled} = C \ N
    BY <1>4, <1>5
  <2>4. B \in SUBSET Cols /\ C \in SUBSET Cols /\ R \in SUBSET B /\ N \in SUBSET C
    BY <1>5 DEF Rebuilt
  <2> HIDE DEF A, B, C, R, N
  <2>5. Cardinality(B \ R) = num_invalid' /\ Cardinality(C \ N) = num_new'
    BY <1>1, <1>2, <2>4, CountsLess
  <2> QED
    BY <1>1, <1>2, <2>1, <2>2, <2>3, <2>5 DEF Counted
<1>8. ASSUME NEW i \in Cols
      PROVE  /\ ColGood(array, broken, i, disk'[i], col[i])
             /\ ColCurrent(array, i, disk'[i], media[i], Block(e, i), col[i])
  <2>1. /\ ColGood(array, broken, i, disk[i], col[i])
        /\ ColCurrent(array, i, disk[i], media[i], Block(e, i), col[i])
    BY <1>2 DEF ColsGood
  <2>2. CASE i \in Done
    BY <1>4, <1>5, <2>1, <2>2 DEF ColGood, ColCurrent, InSync
  <2>3. CASE i \notin Done
    BY <1>4, <2>1, <2>3
  <2> QED
    BY <2>2, <2>3
<1>9. ColsGood(array, broken, disk', media, e, col)
  BY <1>2, <1>8 DEF ColsGood
<1>10. Pending(array, disk', col, bi, sh)
  <2>1. bi.col \in Cols
    BY <1>3, Columns DEF Bio
  <2> QED
    BY <1>2, <1>4, <2>1 DEF Pending
<1>11. /\ rec' \in Recovery /\ rec'.pc = "idle" /\ rec'.active = FALSE
       /\ (rec'.pos = 1 => rec.pos = 1)
  BY <1>1, <1>3 DEF Recovery
<1>12. Syncing(array, sh', rec', num_new')
  <2>1. sh \in ShBits
    BY <1>2, Types
  <2>2. sh'.syncing = FALSE /\ sh'.insync = FALSE /\ sh'.clearing = FALSE
    BY <1>1, <1>4, <2>1 DEF ShBits
  <2> QED
    BY <1>11, <2>2 DEF Syncing
<1>13. Synced(array, disk', media, e, col, sh, rec')
  <2>1. SyncGood(array, disk, media, e, col) => SyncGood(array, disk', media, e, col)
    BY <1>4, <1>5 DEF SyncGood, InSync
  <2> QED
    BY <1>2, <1>4, <1>11, <2>1 DEF Synced
<1>14. FileGood(array, disk', sb', update_sb', sh')
  BY <1>1, <1>2 DEF FileGood
<1>15. event' \in Event /\ EventGood(array, broken, last, event')
  BY <1>1, CodeAssumption DEF NoEvent, Event, Data, Elem, EventGood
<1>16. TypeOK'
  <2>1. disk' \in [Cols -> DiskState] /\ sb' \in [Cols -> DiskState]
    BY <1>1, <1>6
  <2>2. {num_disabled', num_invalid', num_new'} \subseteq 0 .. NData + 2
    BY <1>7, CountsTyped
  <2> QED
    BY <1>1, <1>2, <1>11, <1>15, <2>1, <2>2 DEF TypeOK, Recovery
<1>17. Content(bi', d) = e
  BY <1>1 DEF e
<1> QED
  BY <1>1, <1>2, <1>6, <1>7, <1>9, <1>10, <1>12, <1>13, <1>14, <1>15, <1>16, <1>17 DEF Inv

-----------------------------------------------------------------------------
(* The invariant. *)

(* In the arrays considered every block is 0 at the start, except on the    *)
(* disks that do not count as valid.                                        *)
LEMMA InitInv ==
  ASSUME Init, Covered(array)
  PROVE  Inv({}, [i \in Data |-> 0])
<1> DEFINE z == [i \in Data |-> 0]
<1>1. /\ array \in Arrays /\ array \in Array /\ Covered(array)
      /\ array.slots \in [Cols -> Kind] /\ array.faults \in Nat /\ array.clean
  BY ArraysAssumption DEF Init, Array, Covered
<1>2. /\ disk = [i \in Cols |-> InitDisk(array.slots[i])] /\ sb = disk
      /\ \A i \in Cols : disk[i] = InitDisk(array.slots[i])
      /\ \A i \in Cols : disk[i] \in DiskState /\ array.slots[i] \in Kind
  BY <1>1 DEF Init, InitDisk, DiskState
<1>3. \A i \in Cols : DiskGood(array, {}, i, disk[i])
  BY <1>1, <1>2 DEF DiskGood, InitDisk, Lost, Kind
<1>4. Counted(disk, num_disabled, num_invalid, num_new)
  <2>1. {i \in Cols : disk[i].active /\ ~ disk[i].enabled} = {i \in Cols : array.slots[i] = "dsbl"}
    BY <1>2 DEF InitDisk
  <2>2. {i \in Cols : disk[i].active /\ ~ disk[i].valid} = {i \in Cols : array.slots[i] \in {"dsbl", "rebuild"}}
    BY <1>2 DEF InitDisk
  <2>3. {i \in Cols : ~ disk[i].active /\ disk[i].enabled} = {i \in Cols : array.slots[i] = "new"}
    BY <1>2 DEF InitDisk
  <2> QED
    BY <2>1, <2>2, <2>3 DEF Counted, Init
<1>5. z \in [Data -> Elem] /\ \A i \in Cols : Block(z, i) = 0
  <2>1. 0 \in Elem
    BY CodeAssumption DEF Elem
  <2> QED
    BY <2>1, ParityZero, Columns DEF Block
<1> HIDE DEF z
<1>6. OnDisks(array, disk, media, z)
  <2>1. ASSUME NEW i \in Cols, disk[i].valid PROVE media[i] = 0
    <3>1. array.slots[i] \in {"ok", "short"}
      BY <1>2, <2>1 DEF InitDisk
    <3> QED
      BY <1>1, <3>1 DEF Init
  <2> QED
    BY <1>5, <2>1 DEF OnDisks
<1>7. /\ col \in [Cols -> ColState] /\ ColsGood(array, {}, disk, media, z, col)
      /\ \A i \in Cols : col[i].io = "none"
  <2>1. col = [i \in Cols |-> InitCol(i)] /\ disk \in [Cols -> DiskState]
    BY <1>2 DEF Init
  <2> QED
    BY <1>1, <1>3, <1>6, <2>1, FreshColsGood
<1>8. /\ sh = [cached |-> FALSE, handle |-> FALSE, syncing |-> FALSE, clearing |-> FALSE,
               insync |-> FALSE]
      /\ bi = NoBio /\ update_sb = {} /\ faults = 0 /\ event = NoEvent /\ bug = FALSE
      /\ rec = [pc |-> "idle", pos |-> 0, sig |-> FALSE, exit |-> FALSE, active |-> FALSE,
                option |-> FALSE]
      /\ last = [i \in Data |-> {0}] /\ media \in [Cols -> Elem]
  BY DEF Init
<1>9. 0 \in Data /\ 0 \in Elem
  BY CodeAssumption DEF Data, Elem
<1>10. bi \in Bio /\ event \in Event /\ event.op = "none" /\ bi.op = "none"
  BY <1>8, <1>9 DEF Bio, NoBio, Event, NoEvent
<1>11. Content(bi, z) = z /\ Acked(z, last)
  <2>1. Content(bi, z) = z
    BY <1>10 DEF Content
  <2>2. last = [i \in Data |-> {z[i]}]
    BY <1>8 DEF z
  <2> QED
    BY <1>5, <2>1, <2>2 DEF Acked
<1>12. Errors(array, {}, faults)
  BY <1>8, FS_EmptySet DEF Errors
<1>13. TypeOK
  <2>1. disk \in [Cols -> DiskState] /\ sb \in [Cols -> DiskState]
    BY <1>2
  <2>2. {num_disabled, num_invalid, num_new} \subseteq 0 .. NData + 2
    BY <1>4, CountsTyped
  <2>3. last \in [Data -> SUBSET Elem] /\ faults \in 0 .. array.faults
    BY <1>1, <1>8, <1>9
  <2>4. /\ rec \in Recovery /\ sh \in ShBits /\ bug \in BOOLEAN
        /\ update_sb \subseteq {"this", "other"}
    BY <1>8 DEF Recovery, ShBits
  <2> QED
    BY <1>1, <1>7, <1>8, <1>10, <2>1, <2>2, <2>3, <2>4 DEF TypeOK, Recovery, ShBits
<1>14. Pending(array, disk, col, bi, sh) /\ Syncing(array, sh, rec, num_new)
       /\ Synced(array, disk, media, z, col, sh, rec)
  BY <1>8, <1>10 DEF Pending, Syncing, Synced
<1>15. EventGood(array, {}, last, event) /\ FileGood(array, disk, sb, update_sb, sh)
  BY <1>2, <1>8, <1>10 DEF EventGood, FileGood
<1>16. Inv({}, z)
  BY <1>1, <1>3, <1>4, <1>7, <1>8, <1>11, <1>12, <1>13, <1>14, <1>15 DEF Inv
<1> QED
  BY <1>16 DEF z

(* Every step keeps the invariant.                                          *)
LEMMA NextInv ==
  ASSUME NEW broken, NEW d, Inv(broken, d), [Next]_vars
  PROVE  \E more, e : Inv(more, e)'
<1>1. CASE Handle
  BY <1>1, HandleStep
<1>2. ASSUME NEW i \in Cols, EndRequest(i) PROVE \E more, e : Inv(more, e)'
  BY <1>2, EndReadOKStep, EndReadErrorStep, EndWriteOKStep, EndWriteErrorStep DEF EndRequest
<1>3. ASSUME NEW i \in Cols, OtherWriteError(i) PROVE \E more, e : Inv(more, e)'
  BY <1>3, OtherErrorStep
<1>4. ASSUME NEW i \in Data, Read(i) \/ Write(i) PROVE Inv(broken, d)'
  <2>1. 0 \in Elem /\ WriteVals \subseteq Elem
    BY StripeAssumption, CodeAssumption DEF Elem
  <2> QED
    BY <1>4, <2>1, MakeRequestStep DEF Read, Write
<1>5. ASSUME NEW option \in BOOLEAN, NEW resume \in BOOLEAN, CheckArray(option, resume)
      PROVE  Inv(broken, d)'
  BY <1>5, CheckArrayStep
<1>6. CASE OtherUpdate \/ Evict \/ NocheckArray \/ UnraidSync \/ SignalCheck \/ RecoveryEnd
  BY <1>6, OtherUpdateStep, EvictStep, NocheckArrayStep, UnraidSyncStep, SignalCheckStep,
     RecoveryEndStep
<1>7. CASE UNCHANGED vars
  BY <1>7, StutterStep
<1> QED
  BY <1>1, <1>2, <1>3, <1>4, <1>5, <1>6, <1>7 DEF Next

(* As long as parity covers what is lost and fails, the invariant holds.    *)
THEOREM StripeInvariant ==
  ASSUME \A a \in Arrays : Covered(a)
  PROVE  Spec => []StripeInv
<1>1. Init => StripeInv
  BY InitInv DEF StripeInv, Init
<1>2. StripeInv /\ [Next]_vars => StripeInv'
  BY NextInv DEF StripeInv
<1> QED
  BY <1>1, <1>2, PTL DEF Spec

-----------------------------------------------------------------------------
(* What follows from the invariant.  In all of it parity covers whatever is *)
(* lost and fails, for any number of disks, field of values and methods.    *)

(* The disks that count as valid determine the data, since no more than two *)
(* of them are lost.                                                        *)
LEMMA WithinTwo ==
  ASSUME NEW S \in SUBSET Cols, Cardinality(S) <= 2
  PROVE  \E a, b \in Cols : S \subseteq {a, b}
<1>1. IsFiniteSet(S) /\ S \in SUBSET Int /\ Cols # {}
  BY FiniteCols, ColumnOrder, CodeAssumption DEF Cols, QD
<1>2. \/ S = {} \/ (\E a \in S : S = {a}) \/ (\E a, b \in S : S = {a, b})
  BY <1>1, SmallSet
<1> QED
  BY <1>1, <1>2

(* Between requests the disks that count as valid hold the data             *)
(* acknowledged, and determine it.                                          *)
LEMMA DisksHoldData ==
  ASSUME NEW broken, NEW d, Inv(broken, d), Quiet
  PROVE  Holds(disk)
<1>1. /\ NoIO /\ Content(bi, d) = d
  BY DEF Quiet, Inactive, Content
<1>2. /\ TypeOK /\ Covered(array) /\ Acked(d, last) /\ Errors(array, broken, faults)
      /\ \A i \in Cols : DiskGood(array, broken, i, disk[i])
      /\ ColsGood(array, broken, disk, media, d, col)
  BY <1>1 DEF Inv
<1>3. d \in [Data -> Elem] /\ last = [i \in Data |-> {d[i]}] /\ array \in Array
  BY <1>2, Types DEF Acked
<1>4. ASSUME NEW i \in Cols
      PROVE  /\ i \in Data /\ (~ disk[i].active \/ Short(array, i)) => Block(d, i) = 0
             /\ disk[i].valid /\ ~ Short(array, i) => media[i] = Block(d, i)
  BY <1>1, <1>2 DEF ColsGood, ColCurrent, NoIO
<1>5. ASSUME NEW i \in {PD, QD} PROVE i \in Cols /\ ~ Short(array, i) /\ disk[i].active
  BY <1>2, Columns DEF Covered, Short, DiskGood
<1>6. \A i \in Data : i \in Cols /\ Block(d, i) = d[i]
  BY <1>3, Columns, BlockOf
<1>7. Block(d, PD) = PValue(d) /\ Block(d, QD) = QValue(d)
  BY Columns DEF Block
<1>8. d \in Stored(disk)
  <2>1. \A i \in Data : IF ~ disk[i].active \/ array.slots[i] = "short" THEN d[i] = 0
                        ELSE disk[i].valid => d[i] = media[i]
    BY <1>4, <1>6 DEF Short
  <2>2. /\ disk[PD].valid => media[PD] = PValue(d)
        /\ disk[QD].valid => media[QD] = QValue(d)
    BY <1>4, <1>5, <1>7
  <2> QED
    BY <1>3, <2>1, <2>2 DEF Stored
<1>9. ASSUME NEW e \in Stored(disk) PROVE e = d
  <2> DEFINE G == Lost(array) \cup broken
  <2>1. G \in SUBSET Cols /\ Cardinality(G) <= 2
    <3>1. Errors(array, broken, array.faults)
      <4>1. faults \in Nat /\ array.faults \in Nat /\ faults <= array.faults /\ Cardinality(broken) \in Nat
        BY <1>2, <1>3, Types, FiniteCols DEF Errors, Faulty, Array
      <4> QED
        BY <1>2, <4>1 DEF Errors
    <3> QED
      BY <1>2, <1>3, <3>1, LostBound
  <2>2. PICK a \in Cols, b \in Cols : G \subseteq {a, b}
    BY <2>1, WithinTwo
  <2>3. /\ e \in [Data -> Elem]
        /\ \A i \in Data : IF ~ disk[i].active \/ array.slots[i] = "short" THEN e[i] = 0
                           ELSE disk[i].valid => e[i] = media[i]
        /\ disk[PD].valid => media[PD] = PValue(e)
        /\ disk[QD].valid => media[QD] = QValue(e)
    BY DEF Stored
  <2>4. /\ \A i \in Data : Block(e, i) = e[i]
        /\ Block(e, PD) = PValue(e) /\ Block(e, QD) = QValue(e)
    BY <2>3, Columns, BlockOf DEF Block
  <2>5. ASSUME NEW i \in Cols \ {a, b} PROVE Block(d, i) = Block(e, i)
    <3>1. disk[i].active => disk[i].valid
      BY <1>2, <2>2 DEF DiskGood
    <3>2. CASE i \in Data
      BY <1>4, <1>6, <2>3, <2>4, <3>1, <3>2 DEF Short
    <3>3. CASE i \in {PD, QD}
      BY <1>4, <1>5, <2>3, <2>4, <3>1, <3>3
    <3> QED
      BY <3>2, <3>3, Columns
  <2> QED
    BY <1>3, <2>3, <2>5, TwoCanBeLost
<1>10. \A i \in Data : d[i] \in last[i]
  BY <1>3
<1> QED
  BY <1>8, <1>9, <1>10 DEF Holds

(* Between requests the disks that count as valid hold the acknowledged     *)
(* data, and no other.                                                      *)
THEOREM StripeAckedDataStored ==
  ASSUME \A a \in Arrays : Covered(a)
  PROVE  Spec => []AckedDataStored
<1>1. StripeInv => AckedDataStored
  BY DisksHoldData DEF StripeInv, AckedDataStored
<1> QED
  BY <1>1, StripeInvariant, PTL

(* And so they do by the superblock file, when disks only fail in accesses  *)
(* to this stripe: its own update of the file comes before the answer.      *)
THEOREM StripeAckedDataSurvivesCrash ==
  ASSUME \A a \in Arrays : Covered(a) /\ ~ a.others
  PROVE  Spec => []AckedDataSurvivesCrash
<1>1. ASSUME NEW broken, NEW d, Inv(broken, d), Quiet PROVE Holds(sb)
  <2>1. /\ TypeOK /\ FileGood(array, disk, sb, update_sb, sh) /\ ~ sh.handle /\ ~ array.others
    BY <1>1 DEF Inv, Quiet, Inactive, TypeOK
  <2>2. update_sb \subseteq {"this", "other"}
    BY <2>1, Types
  <2>3. sb = disk
    BY <2>1, <2>2 DEF FileGood
  <2>4. Holds(disk)
    BY <1>1, DisksHoldData
  <2> QED
    BY <2>3, <2>4
<1>2. StripeInv => AckedDataSurvivesCrash
  BY <1>1 DEF StripeInv, AckedDataSurvivesCrash
<1>3. Spec => []StripeInv
  BY StripeInvariant
<1> QED
  BY <1>2, <1>3, PTL

(* Clean buffers of valid columns have the data or the parity of the        *)
(* acknowledged data, when P is in use and cannot fail.                     *)
THEOREM StripeCleanBuffersCurrent ==
  ASSUME \A a \in Arrays : Covered(a) /\ PD \notin Lost(a) \cup Faulty(a)
  PROVE  Spec => []CleanBuffersCurrent
<1>1. ASSUME NEW broken, NEW d, Inv(broken, d), Quiet PROVE CleanBuffersCurrent
  <2>1. NoIO /\ Content(bi, d) = d
    BY <1>1 DEF Quiet, Inactive, Content
  <2>2. /\ Acked(d, last) /\ ColsGood(array, broken, disk, media, d, col) /\ array \in Arrays
        /\ Errors(array, broken, faults)
    BY <1>1, <2>1 DEF Inv, TypeOK
  <2>3. col[PD].enabled
    BY <1>1, <2>2, ParityLost DEF Errors
  <2>4. ASSUME NEW i \in Cols, col[i].valid, col[i].uptodate PROVE col[i].buf = Block(d, i)
    <3>1. ColCurrent(array, i, disk[i], media[i], Block(d, i), col[i]) /\ ParityGood(col)
      BY <2>2 DEF ColsGood
    <3>2. i \in Data \/ col[i].enabled
      BY <2>3, <2>4, <3>1, Columns DEF ParityGood
    <3> QED
      BY <2>4, <3>1, <3>2 DEF ColCurrent
  <2>5. d \in [Data -> Elem] /\ \A i \in Data : d[i] \in last[i]
    BY <2>2 DEF Acked
  <2> QED
    BY <2>4, <2>5 DEF CleanBuffersCurrent
<1>2. StripeInv => CleanBuffersCurrent
  BY <1>1 DEF StripeInv, CleanBuffersCurrent
<1>3. Spec => []StripeInv
  BY StripeInvariant
<1> QED
  BY <1>2, <1>3, PTL

-----------------------------------------------------------------------------
(* What a step may do. *)

(* Only the end of a recovery makes a disk valid.                           *)
LEMMA ValidFromRecovery ==
  ASSUME NEW broken, NEW d, Inv(broken, d), [Next]_vars, NEW i \in Cols,
         ~ disk[i].valid, disk'[i].valid
  PROVE  RecoveryEnd
<1>1. disk \in [Cols -> DiskState]
  BY Types DEF Inv
<1>2. ASSUME NEW j \in Cols, md_write_error(j) PROVE ~ disk'[i].valid
  <2>1. disk' = disk \/ disk' = Mark(disk, j, disk[j].valid /\ ~ ArrayDiskFails(j), FALSE)
    BY <1>2 DEF md_write_error
  <2>2. ASSUME disk' = Mark(disk, j, disk[j].valid /\ ~ ArrayDiskFails(j), FALSE)
        PROVE  disk'[i].valid => disk[i].valid
    BY <1>1, <2>2 DEF Mark, DiskState
  <2> QED
    BY <2>1, <2>2
<1>3. Handle => disk' = disk
  BY DEF Handle, HandleFailRequest, HandleRead, HandleWrite, HandleWritten, HandleSyncFail,
         HandleSync, HandleClear, HandleSyncDone, HandleNothing, BeginHandle, diskVars
<1>4. \A j \in Cols : ~ EndRequest(j) /\ ~ OtherWriteError(j)
  <2>1. \A j \in Cols : EndReadOK(j) \/ EndReadError(j) \/ EndWriteOK(j) => disk' = disk
    BY DEF EndReadOK, EndReadError, EndWriteOK, diskVars
  <2>2. \A j \in Cols : EndWriteError(j) \/ OtherWriteError(j) => md_write_error(j)
    BY DEF EndWriteError, OtherWriteError
  <2> QED
    BY <1>2, <2>1, <2>2 DEF EndRequest
<1>5. OtherUpdate \/ Evict \/ NocheckArray \/ UnraidSync \/ SignalCheck => disk' = disk
  BY DEF OtherUpdate, Evict, NocheckArray, UnraidSync, SignalCheck, diskVars
<1>6. \A j \in Data : Read(j) \/ Write(j) => disk' = disk
  BY DEF Read, Write, MakeRequest, diskVars
<1>7. \A option, resume \in BOOLEAN : CheckArray(option, resume) => disk' = disk
  BY DEF CheckArray, diskVars
<1>8. UNCHANGED vars => disk' = disk
  BY DEF vars
<1> QED
  BY <1>3, <1>4, <1>5, <1>6, <1>7, <1>8 DEF Next

(* A data disk the end of a recovery declares valid holds its block of the  *)
(* acknowledged data, also when errors, requests and pauses came between.   *)
THEOREM StripeRebuiltDiskCurrent ==
  ASSUME \A a \in Arrays : Covered(a)
  PROVE  Spec => RebuiltDiskCurrent
<1> DEFINE Rebuilds ==
      \A i \in Data : Quiet /\ array.clean /\ disk[i].active /\ ~ disk[i].valid /\ disk'[i].valid =>
        media[i] \in last[i]
<1>1. StripeInv /\ [Next]_vars => Rebuilds
  <2> SUFFICES ASSUME NEW broken, NEW d, Inv(broken, d), [Next]_vars,
                      NEW i \in Data, Quiet, disk[i].active, ~ disk[i].valid, disk'[i].valid
               PROVE  media[i] \in last[i]
    BY DEF StripeInv
  <2>1. RecoveryEnd /\ i \in Cols
    BY ValidFromRecovery, Columns
  <2>2. /\ NoIO /\ Content(bi, d) = d /\ d \in [Data -> Elem] /\ last = [j \in Data |-> {d[j]}]
    BY DEF Quiet, Inactive, Content, Inv, Acked
  <2>3. i \in Done
    BY <2>1, RecoveryDone
  <2>4. /\ array.slots[i] \in {"new", "rebuild"}
        /\ InSync(array, i, disk[i], media[i], Block(d, i), col[i])
    BY <2>1, <2>2, <2>3, RecoveryDone
  <2>5. media[i] = Block(d, i)
    BY <2>1, <2>2, <2>3, <2>4 DEF InSync, NoIO, Done, Short
  <2>6. Block(d, i) = d[i]
    BY <2>2, BlockOf
  <2> QED
    BY <2>2, <2>5, <2>6
<1>2. Spec => []StripeInv
  BY StripeInvariant
<1>3. Spec => [][Rebuilds]_vars
  BY <1>1, <1>2, PTL DEF Spec
<1> QED
  BY <1>3 DEF RebuiltDiskCurrent

-----------------------------------------------------------------------------
(* A sync repairs parity that is wrong to begin with, as after an unclean   *)
(* stop.  StripeInv has nothing to say then, as the disks hold no content;  *)
(* WholeInv says instead that every disk in use stays so, and what a sync   *)
(* makes of whatever they hold.                                             *)

(* An array of disks that are in use and do not fail.                       *)
Whole(a) ==
  /\ a.faults = 0
  /\ \A i \in Cols : a.slots[i] \in IF i \in Data THEN {"ok", "short", "absent"} ELSE {"ok"}

(* A column of it counts as valid; one with no block on a disk holds zeros. *)
ColWhole(a, i, c) ==
  /\ c.valid /\ c.enabled = (a.slots[i] = "ok")
  /\ a.slots[i] = "ok" => c.active
  /\ a.slots[i] # "ok" => c.io = "none" /\ (c.uptodate => c.buf = 0)

(* A sync reads the disks anew,                                             *)
Scanned(a, m, c) ==
  \A i \in Cols : a.slots[i] = "ok" => c[i].io # "write" /\ (c[i].uptodate => c[i].buf = m[i])

(* and leaves them with the blocks and the parity of some data, when its    *)
(* writes are done.                                                         *)
Repaired(a, m, c) ==
  \E d \in [Data -> Elem] : \A i \in Cols :
    Block(d, i) = IF a.slots[i] # "ok" THEN 0 ELSE IF c[i].io = "write" THEN c[i].buf ELSE m[i]

(* The pieces that are stated alike for every step,                         *)
Plain(a, dk, m, c, b, s, r) ==
  /\ m \in [Cols -> Elem] /\ c \in [Cols -> ColState] /\ b \in Bio /\ s \in ShBits /\ r \in Recovery
  /\ \A i \in Cols : ColWhole(a, i, c[i])
  /\ Pending(a, dk, c, b, s) /\ Syncing(a, s, r, 0)

(* and what holds of the sync before it calculates, and after.              *)
SyncRight(a, m, c, s, r) ==
  /\ s.syncing /\ ~ s.insync => Scanned(a, m, c)
  /\ s.insync /\ r.option => Repaired(a, m, c)

(* It is inductive.                                                         *)
WholeInv ==
  /\ array \in Array /\ Whole(array) /\ faults = 0 /\ num_new = 0
  /\ disk = [i \in Cols |-> InitDisk(array.slots[i])]
  /\ Plain(array, disk, media, col, bi, sh, rec)
  /\ SyncRight(array, media, col, sh, rec)

-----------------------------------------------------------------------------
(* What WholeInv says of the columns.                                       *)
LEMMA WholeFacts ==
  ASSUME WholeInv
  PROVE  /\ Failed = {} /\ failed = 0 /\ faila = -1 /\ PEnabled = TRUE /\ QEnabled = TRUE
         /\ col \in [Cols -> ColState] /\ media \in [Cols -> Elem] /\ bi \in Bio
         /\ sh \in ShBits /\ rec \in Recovery
         /\ \A i \in Cols : ColWhole(array, i, col[i])
         /\ Pending(array, disk, col, bi, sh) /\ Syncing(array, sh, rec, 0)
         /\ \A i \in Cols : array.slots[i] \in {"ok", "short", "absent"}
         /\ array.slots[PD] = "ok" /\ array.slots[QD] = "ok" /\ PD \in Cols /\ QD \in Cols
         /\ \A i \in Cols : /\ disk[i].active <=> array.slots[i] # "absent"
                            /\ disk[i].enabled <=> array.slots[i] # "absent"
                            /\ disk[i].valid <=> array.slots[i] # "absent"
                            /\ disk[i].active /\ ~ Short(array, i) => array.slots[i] = "ok"
<1>1. /\ Whole(array) /\ disk = [i \in Cols |-> InitDisk(array.slots[i])]
      /\ Plain(array, disk, media, col, bi, sh, rec)
  BY DEF WholeInv
<1>2. /\ \A i \in Cols : array.slots[i] \in {"ok", "short", "absent"}
      /\ array.slots[PD] = "ok" /\ array.slots[QD] = "ok" /\ PD \in Cols /\ QD \in Cols
  BY <1>1, Columns DEF Whole
<1>3. /\ col \in [Cols -> ColState] /\ media \in [Cols -> Elem] /\ bi \in Bio
      /\ sh \in ShBits /\ rec \in Recovery
      /\ \A i \in Cols : ColWhole(array, i, col[i])
      /\ Pending(array, disk, col, bi, sh) /\ Syncing(array, sh, rec, 0)
  BY <1>1 DEF Plain
<1>4. Failed = {} /\ PEnabled = TRUE /\ QEnabled = TRUE
  BY <1>2, <1>3 DEF Failed, ColWhole, PEnabled, QEnabled
<1>5. failed = 0 /\ faila = -1
  BY <1>4, FS_EmptySet DEF failed, faila
<1>6. ASSUME NEW i \in Cols
      PROVE  /\ disk[i].active <=> array.slots[i] # "absent"
             /\ disk[i].enabled <=> array.slots[i] # "absent"
             /\ disk[i].valid <=> array.slots[i] # "absent"
             /\ disk[i].active /\ ~ Short(array, i) => array.slots[i] = "ok"
  <2>1. disk[i] = InitDisk(array.slots[i]) /\ array.slots[i] \in {"ok", "short", "absent"}
    BY <1>1, <1>2
  <2>2. /\ disk[i].active <=> array.slots[i] # "absent"
        /\ disk[i].enabled <=> array.slots[i] # "absent"
        /\ disk[i].valid <=> array.slots[i] # "absent"
    <3>1. \A k \in {"ok", "short"} : InitDisk(k).active /\ InitDisk(k).enabled /\ InitDisk(k).valid
      BY DEF InitDisk
    <3>2. ~ InitDisk("absent").active /\ ~ InitDisk("absent").enabled /\ ~ InitDisk("absent").valid
      BY DEF InitDisk
    <3>3. CASE array.slots[i] \in {"ok", "short"}
      BY <2>1, <3>1, <3>3
    <3>4. CASE array.slots[i] = "absent"
      BY <2>1, <3>2, <3>4
    <3> QED
      BY <2>1, <3>3, <3>4
  <2> QED
    BY <2>1, <2>2 DEF Short
<1> QED
  BY <1>2, <1>3, <1>4, <1>5, <1>6

(* What a step has to establish.                                            *)
LEMMA WholeFrame ==
  ASSUME WholeInv, UNCHANGED <<array, disk, faults, num_new>>,
         Plain(array, disk, media', col', bi', sh', rec'),
         SyncRight(array, media', col', sh', rec')
  PROVE  WholeInv'
BY DEF WholeInv

(* A stripe read from the disks.                                            *)
LEMMA WholeFetch ==
  ASSUME WholeInv, NoIO, NEW S \in SUBSET Cols
  PROVE  LET c == Fetch(S)
         IN  /\ c \in [Cols -> ColState]
             /\ \A i \in Cols : /\ ColWhole(array, i, c[i]) /\ c[i].io # "write"
                                /\ c[i].uptodate /\ array.slots[i] = "ok" => c[i] = col[i]
                                /\ col[i].uptodate => c[i] = col[i]
                                /\ i \in S => c[i].uptodate \/ c[i].io = "read"
             /\ ~ Locked(c) => /\ \A i \in Cols : c[i].io = "none"
                               /\ \A i \in S : c[i].uptodate
<1> DEFINE c == Fetch(S)
<1>1. 0 \in Elem
  BY CodeAssumption DEF Elem
<1>2. \A i \in Cols : col[i] \in ColState /\ ColWhole(array, i, col[i]) /\ col[i].io = "none"
  BY WholeFacts DEF NoIO
<1>3. ASSUME NEW i \in Cols
      PROVE  /\ c[i] \in ColState /\ ColWhole(array, i, c[i]) /\ c[i].io # "write"
             /\ c[i].uptodate /\ array.slots[i] = "ok" => c[i] = col[i]
             /\ col[i].uptodate => c[i] = col[i]
             /\ i \in S => c[i].uptodate \/ c[i].io = "read"
  <2> DEFINE x == col[i]
             r == [x EXCEPT !.io = "read"]
             z == [x EXCEPT !.buf = 0, !.uptodate = TRUE]
  <2>1. c[i] = IF i \in S /\ ~ x.uptodate THEN IF x.enabled THEN r ELSE z ELSE x
    BY DEF Fetch
  <2>2. x \in ColState /\ ColWhole(array, i, x) /\ x.io = "none"
    BY <1>2
  <2> HIDE DEF x, c
  <2>3. CASE i \in S /\ ~ x.uptodate /\ x.enabled
    <3>1. /\ r \in ColState /\ r.valid = x.valid /\ r.enabled = x.enabled /\ r.active = x.active
          /\ r.uptodate = x.uptodate /\ r.buf = x.buf /\ r.io = "read"
      BY <2>2 DEF ColState
    <3>2. c[i] = r
      BY <2>1, <2>3
    <3> HIDE DEF r
    <3> QED
      BY <2>2, <2>3, <3>1, <3>2 DEF ColWhole, x
  <2>4. CASE i \in S /\ ~ x.uptodate /\ ~ x.enabled
    <3>1. /\ z \in ColState /\ z.valid = x.valid /\ z.enabled = x.enabled /\ z.active = x.active
          /\ z.uptodate = TRUE /\ z.buf = 0 /\ z.io = "none"
      BY <1>1, <2>2 DEF ColState
    <3>2. c[i] = z
      BY <2>1, <2>4
    <3> HIDE DEF z
    <3> QED
      BY <2>2, <2>4, <3>1, <3>2 DEF ColWhole, x
  <2>5. CASE ~ (i \in S /\ ~ x.uptodate)
    BY <2>1, <2>2, <2>5 DEF x
  <2> QED
    BY <2>3, <2>4, <2>5
<1>4. c \in [Cols -> ColState]
  <2>1. c = [i \in Cols |-> c[i]]
    BY DEF Fetch
  <2> HIDE DEF c
  <2> QED
    BY <1>3, <2>1
<1> HIDE DEF c
<1>5. ASSUME ~ Locked(c)
      PROVE  (\A i \in Cols : c[i].io = "none") /\ \A i \in S : c[i].uptodate
  BY <1>3, <1>5 DEF Locked
<1> QED
  BY <1>3, <1>4, <1>5 DEF c

(* A calculation on columns of a whole array, none of them under I/O; it    *)
(* locks only columns in use.                                               *)
CalcWhole(g) ==
  /\ g.c \in [Cols -> ColState]
  /\ \A i \in Cols : ColWhole(array, i, g.c[i]) /\ g.c[i].io = "none"
  /\ \A i \in g.lock : i \in Cols /\ array.slots[i] = "ok"

(* The blocks new put into columns S in use, those of L locked, by a        *)
(* calculation that needs those of R.                                       *)
Puts(g, S, new, L, R, h) ==
  /\ CalcWhole(h) /\ h.lock = g.lock \cup L
  /\ h.ok = (g.ok /\ \A i \in R : g.c[i].uptodate)
  /\ \A i \in Cols : /\ h.c[i].buf = IF i \in S THEN new[i] ELSE g.c[i].buf
                     /\ h.c[i].uptodate <=> i \in S \/ g.c[i].uptodate

(* That is what Put does.                                                   *)
LEMMA PutWhole ==
  ASSUME NEW g, CalcWhole(g), NEW S \in SUBSET Cols, \A i \in S : array.slots[i] = "ok",
         NEW new \in [S -> Elem], NEW L \in SUBSET S, NEW R
  PROVE  Puts(g, S, new, L, R, Put(g, new, L, R))
<1> DEFINE h == Put(g, new, L, R)
<1>1. DOMAIN new = S /\ \A i \in S : new[i] \in Elem
  OBVIOUS
<1>2. h.lock = g.lock \cup L /\ h.ok = (g.ok /\ \A i \in R : g.c[i].uptodate)
  BY DEF Put
<1>3. h.c = [i \in Cols |-> IF i \in S THEN [g.c[i] EXCEPT !.buf = new[i], !.uptodate = TRUE] ELSE g.c[i]]
  BY <1>1 DEF Put
<1> HIDE DEF h
<1>4. ASSUME NEW i \in Cols
      PROVE  /\ h.c[i] \in ColState /\ ColWhole(array, i, h.c[i]) /\ h.c[i].io = "none"
             /\ h.c[i].buf = IF i \in S THEN new[i] ELSE g.c[i].buf
             /\ h.c[i].uptodate <=> i \in S \/ g.c[i].uptodate
  <2> DEFINE x == g.c[i]
             y == [x EXCEPT !.buf = new[i], !.uptodate = TRUE]
  <2>1. h.c[i] = IF i \in S THEN y ELSE x
    BY <1>3
  <2>2. x \in ColState /\ ColWhole(array, i, x) /\ x.io = "none"
    BY DEF CalcWhole
  <2> HIDE DEF x
  <2>3. CASE i \in S
    <3>1. /\ y \in ColState /\ y.valid = x.valid /\ y.enabled = x.enabled /\ y.active = x.active
          /\ y.io = "none" /\ y.buf = new[i] /\ y.uptodate = TRUE
      BY <1>1, <2>2, <2>3 DEF ColState
    <3>2. h.c[i] = y /\ array.slots[i] = "ok"
      BY <2>1, <2>3
    <3> HIDE DEF y
    <3> QED
      BY <2>2, <2>3, <3>1, <3>2 DEF ColWhole
  <2>4. CASE i \notin S
    BY <2>1, <2>2, <2>4 DEF x
  <2> QED
    BY <2>3, <2>4
<1>5. h.c \in [Cols -> ColState]
  <2>1. h.c = [i \in Cols |-> h.c[i]]
    BY <1>3
  <2> QED
    BY <1>4, <2>1
<1>6. \A i \in h.lock : i \in Cols /\ array.slots[i] = "ok"
  BY <1>2 DEF CalcWhole
<1> QED
  BY <1>2, <1>4, <1>5, <1>6 DEF h, CalcWhole, Puts

(* What a calculation computes with.                                        *)
LEMMA WholeData ==
  ASSUME NEW g, CalcWhole(g)
  PROVE  /\ DataOf(g) \in [Data -> Elem] /\ \A i \in Cols : g.c[i].buf \in Elem
         /\ \A i \in Data : DataOf(g)[i] = g.c[i].buf
<1>1. \A i \in Cols : g.c[i].buf \in Elem
  BY DEF CalcWhole, ColState
<1> QED
  BY <1>1, Columns DEF DataOf

(* The columns after the writes have been scheduled.                        *)
LEMMA WholeSchedule ==
  ASSUME NEW g, CalcWhole(g)
  PROVE  LET w == schedule_writes(g)
         IN  /\ w \in [Cols -> ColState]
             /\ \A i \in Cols : /\ ColWhole(array, i, w[i]) /\ w[i].uptodate = g.c[i].uptodate
                                /\ w[i].buf = g.c[i].buf
                                /\ w[i].io = IF i \in g.lock THEN "write" ELSE "none"
<1> DEFINE w == schedule_writes(g)
<1>1. ASSUME NEW i \in Cols
      PROVE  /\ w[i] \in ColState /\ ColWhole(array, i, w[i]) /\ w[i].uptodate = g.c[i].uptodate
             /\ w[i].buf = g.c[i].buf
             /\ w[i].io = IF i \in g.lock THEN "write" ELSE "none"
  <2> DEFINE x == g.c[i]
             y == [x EXCEPT !.io = "write"]
  <2>1. x \in ColState /\ ColWhole(array, i, x) /\ x.io = "none" /\ (i \in g.lock => array.slots[i] = "ok")
    BY DEF CalcWhole
  <2>2. i \in g.lock => x.enabled
    BY <2>1 DEF ColWhole
  <2>3. w[i] = IF i \in g.lock THEN y ELSE x
    BY <2>2 DEF schedule_writes
  <2> HIDE DEF x, w
  <2>4. CASE i \in g.lock
    <3>1. /\ y \in ColState /\ y.valid = x.valid /\ y.enabled = x.enabled /\ y.active = x.active
          /\ y.io = "write" /\ y.buf = x.buf /\ y.uptodate = x.uptodate
      BY <2>1 DEF ColState
    <3>2. w[i] = y
      BY <2>3, <2>4
    <3> HIDE DEF y
    <3> QED
      BY <2>1, <2>4, <3>1, <3>2 DEF ColWhole, x
  <2>5. CASE i \notin g.lock
    BY <2>1, <2>3, <2>5 DEF x
  <2> QED
    BY <2>4, <2>5
<1>2. w \in [Cols -> ColState]
  <2>1. w = [i \in Cols |-> w[i]]
    BY DEF schedule_writes
  <2> HIDE DEF w
  <2> QED
    BY <1>1, <2>1
<1> QED
  BY <1>1, <1>2

(* The new block is one.                                                    *)
LEMMA WholeNewBlock ==
  ASSUME NEW g, CalcWhole(g), bi \in Bio
  PROVE  NewBlock(g) \in Elem
<1>1. bi.col \in Cols /\ bi.val \in Elem
  BY Columns DEF Bio
<1>2. g.c[bi.col].buf \in Elem
  BY <1>1, WholeData
<1>3. (g.c[bi.col].buf + bi.val) % Order \in Elem
  BY <1>1, <1>2, ModRange DEF Elem
<1> QED
  BY <1>1, <1>3 DEF NewBlock

(* What a write calculates.                                                 *)
LEMMA WholeWrite ==
  ASSUME WholeInv, bi.op # "none", NEW c, CalcWhole(Calc(c)), NEW junk
  PROVE  LET h == WriteCalc(Calc(c), junk)
         IN  /\ CalcWhole(h) /\ h.lock \cap Data = {bi.col}
             /\ \A j \in Data : h.c[j].buf = IF j = bi.col THEN NewBlock(Calc(c)) ELSE c[j].buf
             /\ \A j \in Data : h.c[j].uptodate <=> j = bi.col \/ c[j].uptodate
             /\ (\A j \in WriteSources(junk) : c[j].uptodate) =>
                  h.ok = TRUE /\ (bi.partial => c[bi.col].uptodate)
<1> DEFINE g == Calc(c)
           i == bi.col
           v == NewBlock(g)
<1>1. /\ i \in Data /\ i \in Cols /\ array.slots[i] = "ok" /\ v \in Elem /\ bi \in Bio
      /\ PD \in Cols /\ QD \in Cols /\ array.slots[PD] = "ok" /\ array.slots[QD] = "ok"
      /\ PD \notin Data /\ QD \notin Data /\ Data \subseteq Cols
      /\ Failed = {} /\ failed = 0 /\ PEnabled = TRUE /\ QEnabled = TRUE
  <2>1. bi \in Bio /\ disk[i].active /\ ~ Short(array, i)
    BY WholeFacts DEF Pending
  <2>2. i \in Data /\ i \in Cols
    BY <2>1, Columns DEF Bio
  <2> QED
    BY <2>1, <2>2, Columns, WholeFacts, WholeNewBlock
<1>2. g.c = c /\ g.lock = {} /\ g.ok = TRUE
  BY DEF Calc
<1> HIDE DEF v
<1>3. CASE RmwPQ
  <2> DEFINE delta == v - g.c[i].buf
             q == (g.c[QD].buf + (i + 1) * delta) % Order
             p == (g.c[PD].buf + delta) % Order
             new == [j \in {i, PD, QD} |-> IF j = PD THEN p ELSE IF j = QD THEN q ELSE v]
             used == {i, PD, QD}
             r == Put(g, new, used, used)
  <2>1. ~ RmwP(junk) /\ ~ RmwQ(junk) /\ Rmw(junk)
    BY <1>1, <1>3 DEF RmwP, RmwQ, Rmw
  <2>2. WriteCalc(g, junk) = r /\ WriteSources(junk) = used
    <3>1. WriteCalc(g, junk) = rmw6_write_data(g, TRUE)
      BY <1>3, <2>1 DEF WriteCalc
    <3>2. rmw6_write_data(g, TRUE) = r
      BY DEF rmw6_write_data, v
    <3>3. WriteSources(junk) = used
      BY <1>3, <2>1 DEF WriteSources
    <3> QED
      BY ONLY <3>1, <3>2, <3>3
  <2>3. p \in Elem /\ q \in Elem
    <3>1. g.c[i].buf \in Int /\ g.c[PD].buf \in Int /\ g.c[QD].buf \in Int /\ v \in Int /\ i \in Int
      BY <1>1, WholeData, Columns DEF Elem
    <3> HIDE DEF g, i
    <3>2. delta \in Int /\ (i + 1) * delta \in Int
      BY <3>1
    <3> HIDE DEF delta
    <3> QED
      BY <3>1, <3>2, ModRange
  <2> HIDE DEF p, q, g
  <2>4. /\ new \in [used -> Elem] /\ used \in SUBSET Cols /\ \A j \in used : array.slots[j] = "ok"
        /\ new[i] = v
    BY <1>1, <2>3
  <2>5. i \in used /\ used \in SUBSET used /\ used \cap Data = {i}
    BY <1>1
  <2> HIDE DEF new, used, r
  <2>6. Puts(g, used, new, used, used, r)
    <3>1. CalcWhole(g)
      BY DEF g
    <3> HIDE DEF i
    <3> QED
      BY ONLY <2>4, <2>5, <3>1, PutWhole DEF r
  <2>7. CalcWhole(r) /\ r.lock \cap Data = {i}
    BY <1>2, <2>5, <2>6 DEF Puts
  <2>8. /\ \A j \in Data : r.c[j].buf = IF j = i THEN v ELSE c[j].buf
        /\ \A j \in Data : r.c[j].uptodate <=> j = i \/ c[j].uptodate
    BY <1>1, <1>2, <2>4, <2>5, <2>6 DEF Puts
  <2>9. (\A j \in used : c[j].uptodate) => r.ok = TRUE /\ c[i].uptodate
    BY <1>2, <2>5, <2>6 DEF Puts
  <2> QED
    BY ONLY <2>2, <2>7, <2>8, <2>9 DEF g, v, i
<1>4. CASE ~ RmwPQ
  <2> DEFINE one == [j \in {i} |-> v]
             h == Put(g, one, {i}, {})
             two == [j \in {PD, QD} |-> Block(DataOf(h), j)]
             r == Put(h, two, {PD, QD}, Data)
             sources == (Data \ {i}) \cup TargetIfPartial
  <2>1. ~ RmwP(junk) /\ ~ RmwQ(junk) /\ Recon /\ ~ Rmw(junk)
    BY <1>1, <1>4 DEF RmwP, RmwQ, Recon, Rmw
  <2>2. WriteCalc(g, junk) = ReconWrite(g) /\ WriteSources(junk) = ReconSources
    BY <1>4, <2>1 DEF WriteCalc, WriteSources
  <2>3. ReconWrite(g) = raid6_generate_pq(copy_write_data(g)) /\ ReconSources = sources
    BY <1>1 DEF ReconWrite, ReconSources
  <2>4. copy_write_data(g) = h /\ raid6_generate_pq(h) = r
    BY DEF copy_write_data, raid6_generate_pq, v
  <2>5. Puts(g, {i}, one, {i}, {}, h)
    <3>1. /\ one \in [{i} -> Elem] /\ {i} \in SUBSET Cols /\ {i} \in SUBSET {i}
          /\ \A j \in {i} : array.slots[j] = "ok"
      BY <1>1
    <3>2. CalcWhole(g)
      OBVIOUS
    <3> HIDE DEF i, one, g
    <3> QED
      BY ONLY <3>1, <3>2, PutWhole
  <2>6. CalcWhole(h) /\ h.lock = {i} /\ h.ok = TRUE /\ h.c[i].uptodate /\ h.c[i].buf = v
        /\ \A j \in Data \ {i} : h.c[j].buf = c[j].buf /\ (h.c[j].uptodate <=> c[j].uptodate)
    BY <1>1, <1>2, <2>5 DEF Puts
  <2> HIDE DEF h, g
  <2>7. two \in [{PD, QD} -> Elem]
    BY <2>6, WholeData, BlockOf, Columns
  <2> HIDE DEF two, r
  <2>8. Puts(h, {PD, QD}, two, {PD, QD}, Data, r)
    BY <1>1, <2>6, <2>7, PutWhole DEF r
  <2>9. CalcWhole(r) /\ r.lock \cap Data = {i}
    BY <1>1, <2>6, <2>8 DEF Puts
  <2>10. /\ \A j \in Data : r.c[j].buf = IF j = i THEN v ELSE c[j].buf
         /\ \A j \in Data : r.c[j].uptodate <=> j = i \/ c[j].uptodate
    BY <1>1, <2>6, <2>8 DEF Puts
  <2>11. (\A j \in sources : c[j].uptodate) => r.ok = TRUE /\ (bi.partial => c[i].uptodate)
    <3> SUFFICES ASSUME \A j \in sources : c[j].uptodate
                 PROVE  r.ok = TRUE /\ (bi.partial => c[i].uptodate)
      OBVIOUS
    <3>1. \A j \in Data : h.c[j].uptodate
      BY <2>6
    <3>2. bi.partial => i \in sources
      BY DEF TargetIfPartial
    <3> HIDE DEF sources, i
    <3> QED
      BY <2>6, <2>8, <3>1, <3>2 DEF Puts
  <2>12. WriteCalc(g, junk) = r /\ WriteSources(junk) = sources
    BY ONLY <2>2, <2>3, <2>4
  <2> QED
    BY ONLY <2>9, <2>10, <2>11, <2>12 DEF g, v, i
<1> QED
  BY <1>3, <1>4

(* A correcting sync leaves the blocks and the parity of the data read; it  *)
(* locks what it changes.                                                   *)
LEMMA WholeCheck ==
  ASSUME WholeInv, NEW c, CalcWhole(Calc(c)), \A i \in Cols : c[i].uptodate, NEW option \in BOOLEAN
  PROVE  LET r == SyncCalc(Calc(c), option)
         IN  /\ CalcWhole(r.g) /\ r.g.ok = TRUE
             /\ \A i \in Cols \ r.g.lock : r.g.c[i].buf = c[i].buf
             /\ r.g.lock \cap Data = {}
             /\ option => \E d \in [Data -> Elem] : \A i \in Cols : r.g.c[i].buf = Block(d, i)
<1> DEFINE g == Calc(c)
           d == DataOf(g)
           p == PValue(d)
           q == QValue(d)
           fix == (IF g.c[PD].buf # p THEN {PD} ELSE {}) \cup (IF g.c[QD].buf # q THEN {QD} ELSE {})
           ok == g.ok /\ \A i \in Cols \ {-1} : g.c[i].uptodate
           x == [g.c[PD] EXCEPT !.uptodate = TRUE]
           k == [g EXCEPT !.ok = ok, !.c[PD] = x]
           new == [i \in fix |-> IF i = PD THEN p ELSE q]
           h == IF option /\ fix # {} THEN Put(k, new, fix, {}) ELSE k
           r == SyncCalc(g, option)
<1>1. -1 \notin Data /\ -1 # PD /\ -1 # QD /\ PD \in Cols /\ QD \in Cols /\ PD # QD /\ Data \subseteq Cols
      /\ PD \notin Data /\ QD \notin Data
  BY Columns
<1>2. failed = 0 /\ faila = -1 /\ array.slots[PD] = "ok" /\ array.slots[QD] = "ok"
  BY WholeFacts
<1>3. r = check_parity(g, -1, option)
  BY <1>2 DEF SyncCalc
<1>4. check_parity(g, -1, option).g = h
  BY <1>1 DEF check_parity
<1>5. /\ g.c = c /\ g.lock = {} /\ g.ok = TRUE /\ d \in [Data -> Elem] /\ \A i \in Data : d[i] = c[i].buf
  BY WholeData DEF Calc
<1>6. p \in Elem /\ q \in Elem /\ Block(d, PD) = p /\ Block(d, QD) = q /\ \A i \in Data : Block(d, i) = d[i]
  BY <1>5, BlockOf, ParityType
<1>7. CalcWhole(k) /\ k.lock = {} /\ k.ok = TRUE /\ \A i \in Cols : k.c[i].buf = c[i].buf
  <2>1. k.lock = {} /\ k.c = [c EXCEPT ![PD] = x] /\ k.ok = ok
    BY <1>5 DEF Calc
  <2>6. ok = TRUE
    BY <1>5
  <2>2. c \in [Cols -> ColState] /\ \A i \in Cols : ColWhole(array, i, c[i]) /\ c[i].io = "none"
    BY <1>5 DEF CalcWhole
  <2>3. /\ x \in ColState /\ x.valid = c[PD].valid /\ x.enabled = c[PD].enabled /\ x.active = c[PD].active
        /\ x.io = c[PD].io /\ x.buf = c[PD].buf
    <3>1. \A y \in ColState : LET z == [y EXCEPT !.uptodate = TRUE]
                              IN  /\ z \in ColState /\ z.valid = y.valid /\ z.enabled = y.enabled
                                  /\ z.active = y.active /\ z.io = y.io /\ z.buf = y.buf
      BY DEF ColState
    <3>2. c[PD] \in ColState /\ x = [c[PD] EXCEPT !.uptodate = TRUE]
      BY <1>1, <1>5, <2>2
    <3> HIDE DEF x
    <3> QED
      BY ONLY <3>1, <3>2
  <2> HIDE DEF x, k, ok
  <2>4. k.c \in [Cols -> ColState] /\ \A i \in Cols : k.c[i] = IF i = PD THEN x ELSE c[i]
    BY <1>1, <2>1, <2>2, <2>3
  <2>5. ColWhole(array, PD, x)
    BY <1>1, <1>2, <2>2, <2>3 DEF ColWhole
  <2> QED
    BY <1>1, <2>1, <2>2, <2>3, <2>4, <2>5, <2>6 DEF CalcWhole
<1>8. fix \subseteq {PD, QD} /\ new \in [fix -> Elem]
      /\ (PD \notin fix => c[PD].buf = p) /\ (QD \notin fix => c[QD].buf = q)
      /\ \A i \in fix : new[i] = Block(d, i) /\ i \in Cols /\ array.slots[i] = "ok"
  <2>1. fix \subseteq {PD, QD} /\ (PD \notin fix => c[PD].buf = p) /\ (QD \notin fix => c[QD].buf = q)
    BY <1>1, <1>5
  <2> HIDE DEF fix, p, q, d
  <2>2. new \in [fix -> Elem] /\ \A i \in fix : new[i] = IF i = PD THEN p ELSE q
    BY <1>6
  <2> QED
    BY <1>1, <1>2, <1>6, <2>1, <2>2
<1> HIDE DEF fix, k, new, p, q, d
<1>9. CASE option /\ fix # {}
  <2>1. fix \in SUBSET Cols /\ fix \in SUBSET fix /\ \A i \in fix : array.slots[i] = "ok"
    BY <1>1, <1>8
  <2>2. Puts(k, fix, new, fix, {}, Put(k, new, fix, {}))
    <3>1. CalcWhole(k) /\ new \in [fix -> Elem]
      BY <1>7, <1>8
    <3> QED
      BY ONLY <2>1, <3>1, PutWhole
  <2>3. h = Put(k, new, fix, {})
    BY <1>9
  <2> HIDE DEF h, r, g
  <2>4. CalcWhole(h) /\ h.lock = fix /\ h.ok = TRUE /\ fix \cap Data = {}
    BY <1>1, <1>7, <1>8, <2>2, <2>3 DEF Puts
  <2>5. \A i \in Cols : h.c[i].buf = IF i \in fix THEN Block(d, i) ELSE c[i].buf
    BY <1>7, <1>8, <2>2, <2>3 DEF Puts
  <2>6. \A i \in Cols : h.c[i].buf = Block(d, i)
    <3> SUFFICES ASSUME NEW i \in Cols, i \notin fix PROVE c[i].buf = Block(d, i)
      BY <2>5
    <3>1. i \in Data \/ i = PD \/ i = QD
      BY Columns
    <3> QED
      BY <1>5, <1>6, <1>8, <3>1
  <2> QED
    BY <1>3, <1>4, <1>5, <2>4, <2>5, <2>6 DEF r, g
<1>10. CASE ~ (option /\ fix # {})
  <2>1. h = k
    BY <1>10
  <2> HIDE DEF h, r, g
  <2>2. option => \A i \in Cols : c[i].buf = Block(d, i)
    <3> SUFFICES ASSUME option, NEW i \in Cols PROVE c[i].buf = Block(d, i)
      OBVIOUS
    <3>1. i \in Data \/ i = PD \/ i = QD
      BY Columns
    <3>2. fix = {}
      BY <1>10
    <3> QED
      BY <1>5, <1>6, <1>8, <3>1, <3>2
  <2> QED
    BY <1>3, <1>4, <1>5, <1>7, <2>1, <2>2 DEF r, g
<1> QED
  BY <1>9, <1>10

(* The disks then hold some data.                                           *)
LEMMA RepairedStored ==
  ASSUME WholeInv, NEW c, Repaired(array, media, c), \A i \in Cols : c[i].io # "write"
  PROVE  Stored(disk) # {}
<1>1. PICK d \in [Data -> Elem] :
        \A i \in Cols : Block(d, i) = IF array.slots[i] # "ok" THEN 0 ELSE media[i]
  BY DEF Repaired
<1>2. /\ \A i \in Cols : disk[i].active <=> array.slots[i] # "absent"
      /\ \A i \in Cols : array.slots[i] \in {"ok", "short", "absent"}
      /\ array.slots[PD] = "ok" /\ array.slots[QD] = "ok" /\ PD \in Cols /\ QD \in Cols
  BY WholeFacts
<1>3. ASSUME NEW i \in Data
      PROVE  IF ~ disk[i].active \/ array.slots[i] = "short" THEN d[i] = 0
             ELSE disk[i].valid => d[i] = media[i]
  <2>1. i \in Cols /\ Block(d, i) = d[i]
    BY BlockOf, Columns
  <2>2. d[i] = IF array.slots[i] # "ok" THEN 0 ELSE media[i]
    BY <1>1, <2>1
  <2>3. CASE array.slots[i] = "ok"
    <3>1. disk[i].active
      BY <1>2, <2>1, <2>3
    <3> QED
      BY <2>2, <2>3, <3>1
  <2>4. CASE array.slots[i] = "short"
    BY <2>2, <2>4
  <2>5. CASE array.slots[i] = "absent"
    <3>1. ~ disk[i].active
      BY <1>2, <2>1, <2>5
    <3> QED
      BY <2>2, <2>5, <3>1
  <2> QED
    BY <1>2, <2>1, <2>3, <2>4, <2>5
<1>4. media[PD] = PValue(d) /\ media[QD] = QValue(d)
  BY <1>1, <1>2, BlockOf
<1>5. d \in Stored(disk)
  BY <1>3, <1>4 DEF Stored
<1> QED
  BY <1>5

(* handle_stripe() for a request, or for nothing: no sync is under way.     *)
LEMMA WholeRequest ==
  ASSUME WholeInv, Handle, ~ sh.syncing
  PROVE  WholeInv'
<1>1. /\ failed = 0 /\ Failed = {} /\ col \in [Cols -> ColState] /\ media \in [Cols -> Elem] /\ bi \in Bio
      /\ sh \in ShBits /\ rec \in Recovery /\ \A i \in Cols : ColWhole(array, i, col[i])
      /\ Pending(array, disk, col, bi, sh) /\ Syncing(array, sh, rec, 0)
  BY WholeFacts
<1>2. ~ HandleFailRequest /\ ~ HandleSyncFail /\ ~ HandleSync /\ ~ HandleClear /\ ~ HandleSyncDone
  BY <1>1 DEF HandleFailRequest, HandleSyncFail, HandleSync, HandleClear, HandleSyncDone
<1>3. /\ BeginHandle /\ NoIO /\ UNCHANGED <<array, disk, faults, num_new>> /\ media' = media
      /\ sh' = [sh EXCEPT !.handle = FALSE] /\ rec' = rec
  BY <1>2 DEF Handle, HandleRead, HandleWrite, HandleWritten, HandleNothing, BeginHandle, diskVars
<1>4. sh' \in ShBits /\ ~ sh'.syncing /\ ~ sh'.insync /\ ~ sh'.clearing
  BY <1>1, <1>3 DEF ShBits, Syncing
<1>5. Syncing(array, sh', rec', 0) /\ SyncRight(array, media', col', sh', rec')
  BY <1>1, <1>3, <1>4 DEF Syncing, SyncRight
<1>6. NoBio \in Bio /\ NoBio.op = "none"
  BY CodeAssumption DEF NoBio, Bio, Data, Elem
<1>7. /\ col' \in [Cols -> ColState] /\ (\A i \in Cols : ColWhole(array, i, col'[i])) /\ bi' \in Bio
      /\ bi'.op # "none" => disk[bi'.col].active /\ ~ Short(array, bi'.col) /\ Locked(col')
      /\ bi'.op = "written" => col'[bi'.col].uptodate
  <2>1. CASE HandleNothing
    BY <1>1, <2>1 DEF HandleNothing
  <2>2. CASE HandleWritten
    <3>1. col[bi.col].uptodate /\ col' = col
      BY <1>1, <2>2 DEF HandleWritten, Pending
    <3>2. bi' = NoBio
      BY <2>2, <3>1 DEF HandleWritten, Return
    <3> QED
      BY <1>1, <1>6, <3>1, <3>2
  <2>3. bi.op # "none" => bi.col \in Cols /\ disk[bi.col].active /\ ~ Short(array, bi.col)
    BY <1>1, Columns DEF Pending, Bio
  <2>4. CASE HandleRead
    <3> DEFINE c == Fetch({bi.col})
    <3>1. bi.op = "read" /\ col' = schedule_writes(Calc(c)) /\ bi.col \in Cols
          /\ IF c[bi.col].uptodate THEN bi' = NoBio ELSE bi' = bi
      <4>1. bi.op = "read" /\ bi.col \notin Failed /\ bi.col \in Cols
        BY <1>1, <2>3, <2>4 DEF HandleRead
      <4> QED
        BY <2>4, <4>1 DEF HandleRead, Calc, Return
    <3>2. /\ c \in [Cols -> ColState]
          /\ \A i \in Cols : ColWhole(array, i, c[i])
          /\ c[bi.col].uptodate \/ c[bi.col].io = "read"
      BY <1>3, <3>1, WholeFetch
    <3>3. col' = c
      <4>1. schedule_writes(Calc(c)) = [i \in Cols |-> c[i]]
        BY DEF schedule_writes, Calc
      <4> HIDE DEF c
      <4> QED
        BY <3>1, <3>2, <4>1
    <3> HIDE DEF c
    <3>4. CASE c[bi.col].uptodate
      BY <1>6, <3>1, <3>2, <3>3, <3>4
    <3>5. CASE ~ c[bi.col].uptodate
      BY <1>1, <2>3, <3>1, <3>2, <3>3, <3>5 DEF Locked
    <3> QED
      BY <3>4, <3>5
  <2>5. CASE HandleWrite
    <3>1. PICK junk \in OutOfBounds :
            LET c == Fetch(WriteSources(junk))
                g == WriteCalc(Calc(c), junk)
            IN  IF Locked(c)
                THEN col' = c /\ UNCHANGED <<bi, bug>>
                ELSE /\ col' = schedule_writes(g)
                     /\ bi' = [bi EXCEPT !.op = "written", !.val = g.c[bi.col].buf]
      BY <2>5 DEF HandleWrite
    <3> DEFINE S == WriteSources(junk) \cap Cols
               c == Fetch(S)
               g == WriteCalc(Calc(c), junk)
    <3>2. bi.op = "write" /\ bi.col \in Data /\ bi.col \in Cols
      BY <1>1, <2>3, <2>5 DEF HandleWrite, Bio
    <3>3. Fetch(WriteSources(junk)) = c
      BY DEF Fetch
    <3>4. IF Locked(c) THEN col' = c /\ bi' = bi
          ELSE /\ col' = schedule_writes(g)
               /\ bi' = [bi EXCEPT !.op = "written", !.val = g.c[bi.col].buf]
      BY <3>1, <3>3
    <3>5. /\ c \in [Cols -> ColState] /\ \A i \in Cols : ColWhole(array, i, c[i])
          /\ ~ Locked(c) => \A i \in Cols : c[i].io = "none"
      <4>1. S \in SUBSET Cols
        OBVIOUS
      <4> HIDE DEF S
      <4> QED
        BY <1>3, <4>1, WholeFetch
    <3> HIDE DEF c
    <3>6. CASE Locked(c)
      BY <1>1, <2>3, <3>2, <3>4, <3>5, <3>6
    <3>7. CASE ~ Locked(c)
      <4>1. CalcWhole(Calc(c))
        BY <3>5, <3>7 DEF CalcWhole, Calc
      <4>2. CalcWhole(g) /\ bi.col \in g.lock /\ g.c[bi.col].uptodate
        <5>1. CalcWhole(g) /\ g.lock \cap Data = {bi.col} /\ g.c[bi.col].uptodate
          BY <3>2, <4>1, WholeWrite
        <5> QED
          BY <5>1
      <4>3. g.c[bi.col].buf \in Elem
        BY <3>2, <4>2, WholeData
      <4> DEFINE w == schedule_writes(g)
      <4> HIDE DEF g
      <4>4. /\ w \in [Cols -> ColState]
            /\ \A i \in Cols : /\ ColWhole(array, i, w[i]) /\ w[i].uptodate = g.c[i].uptodate
                               /\ w[i].io = IF i \in g.lock THEN "write" ELSE "none"
        BY <4>2, WholeSchedule
      <4>5. col' = w /\ bi' = [bi EXCEPT !.op = "written", !.val = g.c[bi.col].buf]
        BY <3>4, <3>7
      <4>6. bi' \in Bio /\ bi'.col = bi.col
        BY <1>1, <4>3, <4>5 DEF Bio
      <4> HIDE DEF w
      <4>7. Locked(col') /\ col'[bi.col].uptodate
        BY <3>2, <4>2, <4>4, <4>5 DEF Locked
      <4> QED
        BY <2>3, <3>2, <4>4, <4>5, <4>6, <4>7
    <3> QED
      BY <3>6, <3>7
  <2> QED
    BY <1>2, <2>1, <2>2, <2>4, <2>5 DEF Handle
<1>8. Plain(array, disk, media', col', bi', sh', rec')
  BY <1>1, <1>3, <1>4, <1>5, <1>7 DEF Plain, Pending
<1> QED
  BY <1>3, <1>5, <1>8, WholeFrame

(* handle_stripe() for a sync: it reads the disks, calculates, and writes.  *)
LEMMA WholeSyncing ==
  ASSUME WholeInv, Handle, sh.syncing
  PROVE  /\ WholeInv'
         /\ ~ sh'.syncing /\ rec.option => Stored(disk) # {}
<1>1. /\ failed = 0 /\ Failed = {} /\ col \in [Cols -> ColState] /\ media \in [Cols -> Elem] /\ bi \in Bio
      /\ sh \in ShBits /\ rec \in Recovery /\ \A i \in Cols : ColWhole(array, i, col[i])
      /\ Pending(array, disk, col, bi, sh) /\ Syncing(array, sh, rec, 0)
      /\ \A i \in Cols : array.slots[i] \in {"ok", "short", "absent"}
  BY WholeFacts
<1>2. bi.op = "none" /\ ~ sh.clearing /\ rec.active /\ rec.pc \in {"submitted", "waiting"} /\ rec.pos = 1
  BY <1>1 DEF Pending, Syncing, Bio
<1>3. HandleSync \/ HandleSyncDone
  <2>1. ~ HandleFailRequest /\ ~ HandleRead /\ ~ HandleWrite /\ ~ HandleWritten
    BY <1>2 DEF HandleFailRequest, HandleRead, HandleWrite, HandleWritten
  <2>2. ~ HandleClear /\ ~ HandleNothing
    BY <1>2 DEF HandleClear, HandleNothing
  <2>3. ~ HandleSyncFail
    BY <1>1 DEF HandleSyncFail
  <2> QED
    BY <2>1, <2>2, <2>3 DEF Handle
<1>4. /\ BeginHandle /\ NoIO /\ UNCHANGED <<array, disk, faults, num_new>> /\ media' = media /\ bi' = bi
  BY <1>3 DEF HandleSync, HandleSyncDone, BeginHandle, diskVars
<1>5. SyncRight(array, media, col, sh, rec)
  BY DEF WholeInv
<1>6. ASSUME NEW insync \in BOOLEAN, NEW done \in BOOLEAN, NEW bad, SyncOutcome(insync, done, bad),
             col' \in [Cols -> ColState], \A i \in Cols : ColWhole(array, i, col'[i]),
             ~ done => Locked(col'),
             ~ done /\ ~ insync => Scanned(array, media, col'),
             ~ done /\ insync /\ rec.option => Repaired(array, media, col')
      PROVE  WholeInv' /\ sh'.syncing = ~ done
  <2>1. /\ sh' = [sh EXCEPT !.handle = FALSE, !.insync = insync /\ ~ done,
                            !.syncing = ~ done, !.clearing = @ /\ ~ done]
        /\ rec' = IF done THEN [rec EXCEPT !.active = FALSE] ELSE rec
    BY <1>6 DEF SyncOutcome
  <2>2. /\ sh' \in ShBits /\ sh'.insync = (insync /\ ~ done) /\ sh'.syncing = ~ done /\ ~ sh'.clearing
    BY <1>1, <1>2, <2>1 DEF ShBits
  <2>3. /\ rec' \in Recovery /\ rec'.active = ~ done /\ rec'.option = rec.option /\ rec'.pc = rec.pc
        /\ rec'.pos = rec.pos
    BY <1>1, <1>2, <2>1 DEF Recovery
  <2>4. Syncing(array, sh', rec', 0)
    BY <1>2, <2>2, <2>3 DEF Syncing
  <2>5. SyncRight(array, media, col', sh', rec')
    BY <1>6, <2>2, <2>3 DEF SyncRight
  <2>6. Pending(array, disk, col', bi, sh')
    BY <1>2, <1>6, <2>2 DEF Pending
  <2>7. Plain(array, disk, media', col', bi', sh', rec')
    BY <1>1, <1>4, <1>6, <2>2, <2>3, <2>4, <2>6 DEF Plain
  <2> QED
    BY <1>4, <2>2, <2>5, <2>7, WholeFrame
<1>7. CASE HandleSyncDone
  <2>1. SyncOutcome(TRUE, TRUE, FALSE) /\ col' = col /\ sh.insync
    BY <1>7 DEF HandleSyncDone
  <2>2. WholeInv' /\ sh'.syncing = FALSE
    BY <1>1, <1>6, <2>1
  <2>3. rec.option => Stored(disk) # {}
    <3>1. rec.option => Repaired(array, media, col)
      BY <1>5, <2>1 DEF SyncRight
    <3>2. \A i \in Cols : col[i].io # "write"
      BY <1>4 DEF NoIO
    <3> QED
      BY <3>1, <3>2, RepairedStored
  <2> QED
    BY <2>2, <2>3
<1>8. CASE HandleSync
  <2> DEFINE c == Fetch(Cols)
             g == SyncCalc(Calc(c), rec.option)
             w == schedule_writes(g.g)
  <2>1. Cols \ Failed = Cols
    BY <1>1
  <2>2. /\ ~ sh.insync
        /\ IF Locked(c)
           THEN col' = c /\ SyncOutcome(FALSE, FALSE, FALSE)
           ELSE col' = w /\ SyncOutcome(TRUE, ~ Locked(w), g.bad)
    BY <1>8, <2>1 DEF HandleSync
  <2>3. /\ c \in [Cols -> ColState]
        /\ \A i \in Cols : /\ ColWhole(array, i, c[i]) /\ c[i].io # "write"
                           /\ c[i].uptodate /\ array.slots[i] = "ok" => c[i] = col[i]
        /\ ~ Locked(c) => \A i \in Cols : c[i].io = "none" /\ c[i].uptodate
    BY <1>4, WholeFetch
  <2>4. Scanned(array, media, col)
    BY <1>5, <2>2 DEF SyncRight
  <2> HIDE DEF c
  <2>5. Scanned(array, media, c)
    BY <2>3, <2>4 DEF Scanned
  <2>6. CASE Locked(c)
    <3>1. WholeInv' /\ sh'.syncing = TRUE
      BY <1>6, <2>2, <2>3, <2>5, <2>6
    <3> QED
      BY <3>1
  <2>7. CASE ~ Locked(c)
    <3>1. CalcWhole(Calc(c)) /\ \A i \in Cols : c[i].uptodate
      BY <2>3, <2>7 DEF CalcWhole, Calc
    <3>2. rec.option \in BOOLEAN
      BY <1>1 DEF Recovery
    <3>3. /\ CalcWhole(g.g)
          /\ \A i \in Cols \ g.g.lock : g.g.c[i].buf = c[i].buf
          /\ rec.option => \E d \in [Data -> Elem] : \A i \in Cols : g.g.c[i].buf = Block(d, i)
      <4> HIDE DEF w
      <4> DEFINE r == SyncCalc(Calc(c), rec.option)
      <4>1. /\ CalcWhole(r.g) /\ r.g.ok = TRUE
            /\ \A i \in Cols \ r.g.lock : r.g.c[i].buf = c[i].buf
            /\ r.g.lock \cap Data = {}
            /\ rec.option => \E d \in [Data -> Elem] : \A i \in Cols : r.g.c[i].buf = Block(d, i)
        BY <3>1, <3>2, WholeCheck
      <4>2. r = g
        OBVIOUS
      <4> HIDE DEF r, g
      <4> QED
        BY <4>1, <4>2
    <3> HIDE DEF g
    <3>4. /\ w \in [Cols -> ColState]
          /\ \A i \in Cols : /\ ColWhole(array, i, w[i]) /\ w[i].uptodate = g.g.c[i].uptodate
                             /\ w[i].buf = g.g.c[i].buf
                             /\ w[i].io = IF i \in g.g.lock THEN "write" ELSE "none"
      BY <3>3, WholeSchedule
    <3> HIDE DEF w
    <3>5. ASSUME rec.option PROVE Repaired(array, media, w)
      <4>1. PICK d \in [Data -> Elem] : \A i \in Cols : g.g.c[i].buf = Block(d, i)
        BY <3>3, <3>5
      <4>2. ASSUME NEW i \in Cols
            PROVE  Block(d, i) = IF array.slots[i] # "ok" THEN 0
                                 ELSE IF w[i].io = "write" THEN w[i].buf ELSE media[i]
        <5>1. w[i].buf = Block(d, i)
          BY <3>4, <4>1
        <5>2. CASE array.slots[i] # "ok"
          <6>1. i \notin g.g.lock
            BY <3>3, <5>2 DEF CalcWhole
          <6>2. c[i].buf = 0
            BY <2>3, <3>1, <5>2 DEF ColWhole
          <6> QED
            BY <3>3, <3>4, <5>1, <5>2, <6>1, <6>2
        <5>3. CASE array.slots[i] = "ok" /\ i \in g.g.lock
          BY <3>4, <5>1, <5>3
        <5>4. CASE array.slots[i] = "ok" /\ i \notin g.g.lock
          <6>1. w[i].io = "none" /\ w[i].buf = c[i].buf
            BY <3>3, <3>4, <5>4
          <6>2. c[i].buf = media[i]
            BY <2>5, <3>1, <5>4 DEF Scanned
          <6> QED
            BY <5>1, <5>4, <6>1, <6>2
        <5> QED
          BY <5>2, <5>3, <5>4
      <4> QED
        BY <4>2 DEF Repaired
    <3>6. Locked(w) \in BOOLEAN /\ SyncOutcome(TRUE, ~ Locked(w), g.bad) /\ col' = w
      BY <2>2, <2>7 DEF Locked
    <3>7. WholeInv' /\ sh'.syncing = Locked(w)
      <4>1. ~ ~ Locked(w) => Locked(w)
        OBVIOUS
      <4> QED
        BY <1>6, <3>4, <3>5, <3>6, <4>1
    <3>8. ~ Locked(w) /\ rec.option => Stored(disk) # {}
      <4>1. ~ Locked(w) => \A i \in Cols : w[i].io # "write"
        BY DEF Locked
      <4> QED
        BY <3>5, <4>1, RepairedStored
    <3> QED
      BY <3>7, <3>8
  <2> QED
    BY <2>6, <2>7
<1> QED
  BY <1>3, <1>7, <1>8

(* What the completion of an I/O of column i leaves, d being the column.    *)
LEMMA WholeEndIO ==
  ASSUME WholeInv, NEW i \in Cols, array.slots[i] = "ok", NEW d \in ColState, EndIO(i, d),
         UNCHANGED <<diskVars, rec, faults>>, media' \in [Cols -> Elem],
         d.valid, d.enabled = col[i].enabled, d.active = col[i].active, col[i].uptodate => d.uptodate,
         SyncRight(array, media', col', sh', rec')
  PROVE  WholeInv'
<1>1. /\ col \in [Cols -> ColState] /\ bi \in Bio /\ sh \in ShBits /\ rec \in Recovery
      /\ \A j \in Cols : ColWhole(array, j, col[j])
      /\ Pending(array, disk, col, bi, sh) /\ Syncing(array, sh, rec, 0)
  BY WholeFacts
<1> DEFINE e == [d EXCEPT !.io = "none"]
<1>2. /\ e \in ColState /\ e.valid = d.valid /\ e.enabled = d.enabled /\ e.active = d.active
      /\ e.uptodate = d.uptodate
  BY DEF ColState
<1>3. col' = [col EXCEPT ![i] = e] /\ sh' = [sh EXCEPT !.handle = TRUE] /\ bi' = bi /\ array' = array
  BY DEF EndIO
<1> HIDE DEF e
<1>4. col' \in [Cols -> ColState] /\ \A j \in Cols : col'[j] = IF j = i THEN e ELSE col[j]
  BY <1>1, <1>2, <1>3
<1>5. ASSUME NEW j \in Cols PROVE ColWhole(array, j, col'[j])
  <2>1. CASE j = i
    <3>1. col'[j] = e /\ ColWhole(array, i, col[i])
      BY <1>1, <1>4, <2>1
    <3> QED
      BY <1>2, <2>1, <3>1 DEF ColWhole
  <2>2. CASE j # i
    BY <1>1, <1>4, <2>2
  <2> QED
    BY <2>1, <2>2
<1>6. /\ sh' \in ShBits /\ sh'.handle /\ sh'.syncing = sh.syncing /\ sh'.insync = sh.insync
      /\ sh'.clearing = sh.clearing
  BY <1>1, <1>3 DEF ShBits
<1>7. bi.op = "written" => col'[bi.col].uptodate
  <2>1. bi.col \in Cols
    BY <1>1, Columns DEF Bio
  <2> QED
    BY <1>1, <1>2, <1>4, <2>1 DEF Pending
<1>8. Pending(array, disk, col', bi, sh')
  BY <1>1, <1>6, <1>7 DEF Pending
<1>9. Syncing(array, sh', rec, 0)
  BY <1>1, <1>6 DEF Syncing
<1>10. Plain(array, disk, media', col', bi', sh', rec')
  BY <1>1, <1>3, <1>4, <1>5, <1>6, <1>8, <1>9 DEF Plain
<1>11. UNCHANGED <<array, disk, faults, num_new>>
  BY <1>3 DEF diskVars
<1> QED
  BY <1>10, <1>11, WholeFrame

(* A block has been read.                                                   *)
LEMMA WholeEndRead ==
  ASSUME WholeInv, NEW i \in Cols, EndReadOK(i)
  PROVE  WholeInv'
<1>1. /\ col \in [Cols -> ColState] /\ media \in [Cols -> Elem] /\ sh \in ShBits
      /\ \A j \in Cols : ColWhole(array, j, col[j])
  BY WholeFacts
<1> DEFINE d == [col[i] EXCEPT !.uptodate = TRUE, !.buf = media[i]]
           e == [d EXCEPT !.io = "none"]
<1>2. col[i].io = "read" /\ EndIO(i, d) /\ UNCHANGED <<diskVars, media, rec, faults>>
  BY DEF EndReadOK
<1>3. /\ d \in ColState /\ d.valid = col[i].valid /\ d.enabled = col[i].enabled /\ d.active = col[i].active
      /\ d.uptodate /\ e.io = "none" /\ e.buf = media[i]
  BY <1>1 DEF ColState
<1>4. col' = [col EXCEPT ![i] = e] /\ sh' = [sh EXCEPT !.handle = TRUE] /\ media' = media /\ rec' = rec
  BY <1>2 DEF EndIO
<1> HIDE DEF d, e
<1>5. \A j \in Cols : col'[j] = IF j = i THEN e ELSE col[j]
  BY <1>1, <1>4
<1>6. sh'.syncing = sh.syncing /\ sh'.insync = sh.insync
  BY <1>1, <1>4 DEF ShBits
<1>7. SyncRight(array, media, col, sh, rec)
  BY DEF WholeInv
<1>8. sh.syncing /\ ~ sh.insync => Scanned(array, media, col')
  BY <1>3, <1>5, <1>7 DEF SyncRight, Scanned
<1>9. sh.insync /\ rec.option => Repaired(array, media, col')
  BY <1>2, <1>3, <1>5, <1>7 DEF SyncRight, Repaired
<1>10. SyncRight(array, media', col', sh', rec')
  BY <1>4, <1>6, <1>8, <1>9 DEF SyncRight
<1>11. array.slots[i] = "ok" /\ col[i].valid
  BY <1>1, <1>2 DEF ColWhole
<1> QED
  BY <1>1, <1>2, <1>3, <1>4, <1>10, <1>11, WholeEndIO

(* A block has been written: the disk holds it.                             *)
LEMMA WholeEndWrite ==
  ASSUME WholeInv, NEW i \in Cols, EndWriteOK(i)
  PROVE  WholeInv'
<1>1. /\ col \in [Cols -> ColState] /\ media \in [Cols -> Elem] /\ sh \in ShBits
      /\ \A j \in Cols : ColWhole(array, j, col[j])
  BY WholeFacts
<1> DEFINE d == [col[i] EXCEPT !.valid = TRUE]
           e == [d EXCEPT !.io = "none"]
<1>2. col[i].io = "write" /\ EndIO(i, d) /\ media' = [media EXCEPT ![i] = col[i].buf]
      /\ UNCHANGED <<diskVars, rec, faults>>
  BY DEF EndWriteOK
<1>3. /\ d \in ColState /\ d.valid /\ d.enabled = col[i].enabled /\ d.active = col[i].active
      /\ d.uptodate = col[i].uptodate /\ e.io = "none" /\ col[i].buf \in Elem
  BY <1>1 DEF ColState
<1>4. col' = [col EXCEPT ![i] = e] /\ sh' = [sh EXCEPT !.handle = TRUE] /\ rec' = rec
  BY <1>2 DEF EndIO
<1> HIDE DEF d, e
<1>5. /\ \A j \in Cols : col'[j] = IF j = i THEN e ELSE col[j]
      /\ \A j \in Cols : media'[j] = IF j = i THEN col[i].buf ELSE media[j]
      /\ media' \in [Cols -> Elem]
  BY <1>1, <1>2, <1>3, <1>4
<1>6. sh'.syncing = sh.syncing /\ sh'.insync = sh.insync
  BY <1>1, <1>4 DEF ShBits
<1>7. SyncRight(array, media, col, sh, rec)
  BY DEF WholeInv
<1>8. array.slots[i] = "ok"
  BY <1>1, <1>2 DEF ColWhole
<1>9. ~ (sh.syncing /\ ~ sh.insync)
  BY <1>2, <1>7, <1>8 DEF SyncRight, Scanned
<1>10. sh.insync /\ rec.option => Repaired(array, media', col')
  BY <1>2, <1>3, <1>5, <1>7 DEF SyncRight, Repaired
<1>11. SyncRight(array, media', col', sh', rec')
  BY <1>4, <1>6, <1>9, <1>10 DEF SyncRight
<1> QED
  BY <1>2, <1>3, <1>5, <1>8, <1>11, WholeEndIO

(* Nothing fails.                                                           *)
LEMMA WholeNoErrors ==
  ASSUME WholeInv, NEW i \in Cols
  PROVE  ~ EndReadError(i) /\ ~ EndWriteError(i) /\ ~ OtherWriteError(i)
<1>1. array.faults = 0 /\ faults = 0
  BY DEF WholeInv, Whole
<1>2. ~ OtherWriteError(i)
  BY <1>1 DEF OtherWriteError
<1>3. col[i].io # "none" => ~ MayFail(i)
  BY <1>1, WholeFacts DEF ColWhole, MayFail
<1> QED
  BY <1>2, <1>3 DEF EndReadError, EndWriteError

(* A step that leaves the stripe and the disks alone.                       *)
LEMMA WholeElsewhere ==
  ASSUME WholeInv, UNCHANGED <<array, disk, faults, num_new, media, col, bi, sh>>, rec' \in Recovery,
         rec'.active = rec.active,
         rec.active => rec'.pc \in {"submitted", "waiting"} /\ rec'.option = rec.option,
         rec'.pc \in {"submitted", "waiting"} => rec'.pos = 1
  PROVE  WholeInv'
<1>1. Plain(array, disk, media, col, bi, sh, rec) /\ SyncRight(array, media, col, sh, rec)
  BY DEF WholeInv
<1>2. Syncing(array, sh, rec, 0)
  BY <1>1 DEF Plain
<1>3. Syncing(array, sh, rec', 0)
  BY <1>2 DEF Syncing
<1>4. Plain(array, disk, media', col', bi', sh', rec')
  BY <1>1, <1>3 DEF Plain
<1>5. sh.insync => rec'.option = rec.option
  BY <1>2 DEF Syncing
<1>6. SyncRight(array, media', col', sh', rec')
  BY <1>1, <1>5 DEF SyncRight
<1> QED
  BY <1>4, <1>6, WholeFrame

(* The steps of the recovery thread that do not touch the stripe, and the   *)
(* superblock update of another.                                            *)
LEMMA WholeControl ==
  ASSUME WholeInv,
         \/ OtherUpdate \/ NocheckArray \/ SignalCheck
         \/ \E option, resume \in BOOLEAN : CheckArray(option, resume)
  PROVE  WholeInv'
<1>1. rec \in Recovery /\ Syncing(array, sh, rec, 0)
  BY WholeFacts
<1>2. rec.active => rec.pc \in {"submitted", "waiting"}
  BY <1>1 DEF Syncing
<1>3. rec.pc \in {"submitted", "waiting"} => rec.pos = 1
  BY <1>1 DEF Syncing
<1>4. CASE OtherUpdate
  <2>1. UNCHANGED <<array, disk, faults, num_new, media, col, bi, sh, rec>>
    BY <1>4 DEF OtherUpdate, diskVars
  <2> QED
    BY <1>1, <1>2, <1>3, <2>1, WholeElsewhere
<1>5. CASE NocheckArray
  <2>1. UNCHANGED <<array, disk, faults, num_new, media, col, bi, sh>> /\ rec' = [rec EXCEPT !.sig = TRUE]
    BY <1>5 DEF NocheckArray, diskVars, stripeVars
  <2>2. rec' \in Recovery /\ rec'.active = rec.active /\ rec'.pc = rec.pc /\ rec'.pos = rec.pos
        /\ rec'.option = rec.option
    BY <1>1, <2>1 DEF Recovery
  <2> QED
    BY <1>2, <1>3, <2>1, <2>2, WholeElsewhere
<1>6. CASE SignalCheck
  <2>1. /\ UNCHANGED <<array, disk, faults, num_new, media, col, bi, sh>>
        /\ rec.pc = "submitted" \/ (rec.pc = "running" /\ rec.pos = 1)
        /\ rec' = IF rec.pc = "submitted"
                  THEN [rec EXCEPT !.pc = "waiting", !.exit = rec.sig, !.sig = FALSE]
                  ELSE [rec EXCEPT !.pc = "waiting", !.exit = FALSE]
    BY <1>6 DEF SignalCheck, diskVars, stripeVars
  <2>2. rec' \in Recovery /\ rec'.active = rec.active /\ rec'.pc = "waiting" /\ rec'.pos = rec.pos
        /\ rec'.option = rec.option
    BY <1>1, <2>1 DEF Recovery
  <2> QED
    BY <1>3, <2>1, <2>2, WholeElsewhere
<1>7. ASSUME NEW option \in BOOLEAN, NEW resume \in BOOLEAN, CheckArray(option, resume)
      PROVE  WholeInv'
  <2>1. /\ UNCHANGED <<array, disk, faults, num_new, media, col, bi, sh>> /\ rec.pc = "idle"
        /\ rec' = [rec EXCEPT !.pc = "running", !.sig = FALSE,
                              !.option = IF resume THEN @ ELSE option,
                              !.pos = IF resume THEN @ ELSE 0]
    BY <1>7 DEF CheckArray, diskVars, stripeVars
  <2>2. rec' \in Recovery /\ rec'.active = rec.active /\ rec'.pc = "running"
    BY <1>1, <2>1 DEF Recovery
  <2>3. ~ rec.active
    BY <1>2, <2>1
  <2> QED
    BY <2>1, <2>2, <2>3, WholeElsewhere
<1> QED
  BY <1>4, <1>5, <1>6, <1>7

(* No sync is under way when a recovery ends, and there is no disk to call  *)
(* valid.                                                                   *)
LEMMA WholeRecoveryEnd ==
  ASSUME WholeInv, RecoveryEnd
  PROVE  WholeInv'
<1>1. rec \in Recovery /\ Syncing(array, sh, rec, 0) /\ disk = [i \in Cols |-> InitDisk(array.slots[i])]
      /\ \A i \in Cols : (disk[i].enabled <=> array.slots[i] # "absent")
                         /\ (disk[i].valid <=> array.slots[i] # "absent")
  BY WholeFacts DEF WholeInv
<1> DEFINE done == {i \in Cols : ~ rec.exit /\ disk[i].enabled /\ ~ disk[i].valid}
<1>2. /\ UNCHANGED <<array, faults, media, col, bi, sh>> /\ ~ rec.active
      /\ disk' = [i \in Cols |-> IF i \in done THEN [valid |-> TRUE, enabled |-> TRUE, active |-> TRUE]
                                 ELSE disk[i]]
      /\ num_new' = num_new - Cardinality({i \in done : ~ disk[i].active})
      /\ rec' = [rec EXCEPT !.pc = "idle", !.sig = FALSE, !.exit = FALSE,
                            !.pos = IF rec.exit THEN @ ELSE 0,
                            !.option = @ /\ rec.exit]
  BY DEF RecoveryEnd, stripeVars
<1>3. done = {}
  BY <1>1
<1> HIDE DEF done
<1>4. {i \in done : ~ disk[i].active} = {}
  BY <1>3
<1>5. num_new = 0 /\ Cardinality({i \in done : ~ disk[i].active}) = 0
  BY <1>4, FS_EmptySet DEF WholeInv
<1>6. disk' = disk /\ num_new' = num_new
  <2>1. num_new' = 0 - 0
    BY <1>2, <1>5
  <2>2. disk' = [i \in Cols |-> disk[i]]
    BY <1>2, <1>3
  <2>3. [i \in Cols |-> disk[i]] = disk
    BY <1>1
  <2> QED
    BY <1>5, <2>1, <2>2, <2>3
<1>7. rec' \in Recovery /\ rec'.active = rec.active /\ rec'.pc = "idle"
  BY <1>1, <1>2 DEF Recovery
<1> QED
  BY <1>2, <1>6, <1>7, WholeElsewhere

(* A column of a stripe that is initialized.                                *)
LEMMA WholeCol ==
  ASSUME NEW i \in Cols, array.slots[i] \in {"ok", "short", "absent"}, disk[i] = InitDisk(array.slots[i])
  PROVE  InitCol(i) \in ColState /\ ColWhole(array, i, InitCol(i)) /\ InitCol(i).io = "none"
<1> DEFINE d == disk[i]
           k == array.slots[i]
           x == InitCol(i)
<1>1. d.active = (k # "absent") /\ d.enabled = (k # "absent") /\ d.valid = (k # "absent")
  BY DEF InitDisk
<1>2. 0 \in Elem /\ Order - 1 \in Elem
  BY CodeAssumption DEF Elem
<1>3. /\ x.valid = (d.valid \/ ~ d.active) /\ x.enabled = (d.enabled /\ k # "short")
      /\ x.active = d.active /\ x.uptodate = ~ d.active /\ x.io = "none"
      /\ x.buf = (IF d.active THEN Order - 1 ELSE 0)
      /\ x = [valid |-> x.valid, enabled |-> x.enabled, active |-> x.active,
              uptodate |-> x.uptodate, io |-> x.io, buf |-> x.buf]
  BY DEF InitCol
<1> HIDE DEF d, x
<1>4. x \in ColState
  <2>1. x.buf \in Elem
    BY <1>2, <1>3
  <2>2. x.valid \in BOOLEAN /\ x.enabled \in BOOLEAN /\ x.active \in BOOLEAN /\ x.uptodate \in BOOLEAN
    BY <1>1, <1>3
  <2> QED
    BY <1>3, <2>1, <2>2 DEF ColState
<1>5. /\ x.valid = TRUE /\ x.enabled = (k = "ok") /\ (k = "ok" => x.active)
      /\ k # "ok" => (x.uptodate => x.buf = 0)
  BY <1>1, <1>3
<1> QED
  BY <1>3, <1>4, <1>5 DEF ColWhole, x

(* The columns of a stripe that is initialized, or taken from the cache.    *)
LEMMA WholeFresh ==
  ASSUME WholeInv, NoIO
  PROVE  LET fresh == [i \in Cols |-> InitCol(i)]
         IN  /\ fresh \in [Cols -> ColState]
             /\ \A i \in Cols : ColWhole(array, i, fresh[i]) /\ fresh[i].io = "none"
             /\ ActiveCols \in [Cols -> ColState]
             /\ \A i \in Cols : ColWhole(array, i, ActiveCols[i]) /\ ActiveCols[i].io = "none"
<1>1. /\ col \in [Cols -> ColState] /\ \A i \in Cols : ColWhole(array, i, col[i]) /\ col[i].io = "none"
  BY WholeFacts DEF NoIO
<1>2. ASSUME NEW i \in Cols
      PROVE  InitCol(i) \in ColState /\ ColWhole(array, i, InitCol(i)) /\ InitCol(i).io = "none"
  <2>1. array.slots[i] \in {"ok", "short", "absent"} /\ disk[i] = InitDisk(array.slots[i])
    BY WholeFacts DEF WholeInv
  <2> QED
    BY <2>1, WholeCol
<1>3. ActiveCols = col \/ ActiveCols = [i \in Cols |-> InitCol(i)]
  BY DEF ActiveCols
<1> QED
  BY <1>1, <1>2, <1>3

(* An inactive stripe has nothing attached to it.                           *)
LEMMA WholeInactive ==
  ASSUME WholeInv, Inactive
  PROVE  NoIO /\ bi.op = "none" /\ ~ sh.syncing /\ ~ sh.insync /\ ~ sh.clearing /\ ~ rec.active
<1>1. Pending(array, disk, col, bi, sh) /\ Syncing(array, sh, rec, 0)
  BY WholeFacts
<1> QED
  BY <1>1 DEF Inactive, NoIO, Locked, Pending, Syncing

(* The stripe is reused.                                                    *)
LEMMA WholeEvict ==
  ASSUME WholeInv, Evict
  PROVE  WholeInv'
<1>1. /\ Inactive /\ sh' = [sh EXCEPT !.cached = FALSE] /\ col' = [i \in Cols |-> InitCol(i)]
      /\ UNCHANGED <<array, disk, faults, num_new, media, bi, rec>>
  BY DEF Evict, diskVars
<1>2. /\ NoIO /\ bi.op = "none" /\ ~ sh.syncing /\ ~ sh.insync /\ ~ sh.clearing /\ ~ rec.active
      /\ sh \in ShBits /\ Syncing(array, sh, rec, 0) /\ media \in [Cols -> Elem] /\ bi \in Bio
      /\ rec \in Recovery
  BY <1>1, WholeInactive, WholeFacts
<1>3. /\ sh' \in ShBits /\ sh'.syncing = sh.syncing /\ sh'.insync = sh.insync
      /\ sh'.clearing = sh.clearing
  BY <1>1, <1>2 DEF ShBits
<1>4. col' \in [Cols -> ColState] /\ \A i \in Cols : ColWhole(array, i, col'[i])
  BY <1>1, <1>2, WholeFresh
<1>5. Pending(array, disk, col', bi, sh') /\ Syncing(array, sh', rec, 0)
  BY <1>2, <1>3 DEF Pending, Syncing
<1>6. Plain(array, disk, media', col', bi', sh', rec') /\ SyncRight(array, media', col', sh', rec')
  BY <1>1, <1>2, <1>3, <1>4, <1>5 DEF Plain, SyncRight
<1> QED
  BY <1>1, <1>6, WholeFrame

(* A request arrives.                                                       *)
LEMMA WholeMakeRequest ==
  ASSUME WholeInv, NEW i \in Data, NEW op \in {"read", "write"}, NEW v \in Elem, NEW partial \in BOOLEAN,
         MakeRequest(i, op, v, partial)
  PROVE  WholeInv'
<1>1. /\ Inactive /\ disk[i].active /\ array.slots[i] # "short" /\ col' = ActiveCols
      /\ sh' = [sh EXCEPT !.cached = TRUE, !.handle = TRUE]
      /\ UNCHANGED <<array, disk, faults, num_new, media, rec>>
  BY DEF MakeRequest, diskVars
<1>2. PICK m \in Methods : bi' = [op |-> op, col |-> i, val |-> v, partial |-> partial, method |-> m]
  BY DEF MakeRequest
<1>3. bi' \in Bio /\ bi'.col = i /\ bi'.op = op
  BY <1>2, StripeAssumption DEF Bio
<1>4. /\ NoIO /\ ~ sh.syncing /\ ~ sh.insync /\ ~ sh.clearing /\ ~ rec.active
      /\ sh \in ShBits /\ Syncing(array, sh, rec, 0) /\ media \in [Cols -> Elem] /\ rec \in Recovery
  BY <1>1, WholeInactive, WholeFacts
<1>5. /\ sh' \in ShBits /\ sh'.syncing = sh.syncing /\ sh'.insync = sh.insync
      /\ sh'.clearing = sh.clearing /\ sh'.handle
  BY <1>1, <1>4 DEF ShBits
<1>6. col' \in [Cols -> ColState] /\ \A j \in Cols : ColWhole(array, j, col'[j])
  BY <1>1, <1>4, WholeFresh
<1>7. Pending(array, disk, col', bi', sh') /\ Syncing(array, sh', rec, 0)
  BY <1>1, <1>3, <1>4, <1>5 DEF Pending, Syncing, Short
<1>8. Plain(array, disk, media', col', bi', sh', rec') /\ SyncRight(array, media', col', sh', rec')
  BY <1>1, <1>3, <1>4, <1>5, <1>6, <1>7 DEF Plain, SyncRight
<1> QED
  BY <1>1, <1>8, WholeFrame

(* The sync comes to the stripe: what is in its buffers is read again.      *)
LEMMA WholeUnraidSync ==
  ASSUME WholeInv, UnraidSync
  PROVE  WholeInv'
<1> DEFINE c == ActiveCols
<1>1. /\ Inactive
      /\ sh' = [sh EXCEPT !.cached = TRUE, !.handle = TRUE, !.syncing = TRUE, !.clearing = Clearing]
      /\ col' = [i \in Cols |->
                   [c[i] EXCEPT !.uptodate = @ /\ ~ (~ Clearing /\ c[i].active /\ c[i].enabled /\ c[i].valid)]]
      /\ rec' = [rec EXCEPT !.pc = "submitted", !.pos = 1, !.active = TRUE]
      /\ UNCHANGED <<array, disk, faults, num_new, media, bi>>
  BY DEF UnraidSync, diskVars
<1>2. /\ NoIO /\ bi.op = "none" /\ ~ sh.syncing /\ ~ sh.insync /\ sh \in ShBits /\ media \in [Cols -> Elem]
      /\ bi \in Bio /\ rec \in Recovery
  BY <1>1, WholeInactive, WholeFacts
<1>3. c \in [Cols -> ColState] /\ \A i \in Cols : ColWhole(array, i, c[i]) /\ c[i].io = "none"
  BY <1>2, WholeFresh
<1>4. Clearing = FALSE
  BY DEF Clearing, WholeInv
<1> HIDE DEF c
<1>5. ASSUME NEW i \in Cols
      PROVE  /\ col'[i] \in ColState /\ ColWhole(array, i, col'[i]) /\ col'[i].io = "none"
             /\ array.slots[i] = "ok" => ~ col'[i].uptodate
  <2> DEFINE x == c[i]
             y == [x EXCEPT !.uptodate = @ /\ ~ (x.active /\ x.enabled /\ x.valid)]
  <2>1. col'[i] = y
    BY <1>1, <1>4
  <2>2. x \in ColState /\ ColWhole(array, i, x) /\ x.io = "none"
    BY <1>3
  <2> HIDE DEF x
  <2>3. /\ y \in ColState /\ y.valid = x.valid /\ y.enabled = x.enabled /\ y.active = x.active
        /\ y.io = "none" /\ y.buf = x.buf
        /\ y.uptodate = (x.uptodate /\ ~ (x.active /\ x.enabled /\ x.valid))
    BY <2>2 DEF ColState
  <2> HIDE DEF y
  <2>4. array.slots[i] = "ok" => ~ y.uptodate
    BY <2>2, <2>3 DEF ColWhole
  <2>5. ColWhole(array, i, y)
    BY <2>2, <2>3 DEF ColWhole
  <2> QED
    BY <2>1, <2>3, <2>4, <2>5
<1>6. col' \in [Cols -> ColState]
  <2>1. col' = [i \in Cols |-> col'[i]]
    BY <1>1
  <2> QED
    BY <1>5, <2>1
<1>7. Scanned(array, media, col')
  BY <1>5 DEF Scanned
<1>8. sh' \in ShBits /\ sh'.syncing /\ ~ sh'.insync /\ ~ sh'.clearing /\ sh'.handle
  BY <1>1, <1>2, <1>4 DEF ShBits
<1>9. rec' \in Recovery /\ rec'.active /\ rec'.pc = "submitted" /\ rec'.pos = 1
  BY <1>1, <1>2 DEF Recovery
<1>10. Pending(array, disk, col', bi, sh') /\ Syncing(array, sh', rec', 0)
  BY <1>2, <1>8, <1>9 DEF Pending, Syncing
<1>11. Plain(array, disk, media', col', bi', sh', rec') /\ SyncRight(array, media', col', sh', rec')
  BY <1>1, <1>2, <1>5, <1>6, <1>7, <1>8, <1>9, <1>10 DEF Plain, SyncRight
<1> QED
  BY <1>1, <1>11, WholeFrame

(* The array as it is started.                                              *)
LEMMA WholeInit ==
  ASSUME Init, Whole(array)
  PROVE  WholeInv
<1>1. /\ array \in Array /\ faults = 0 /\ disk = [i \in Cols |-> InitDisk(array.slots[i])]
      /\ media \in [Cols -> Elem] /\ col = [i \in Cols |-> InitCol(i)] /\ bi = NoBio
      /\ num_new = Cardinality({i \in Cols : array.slots[i] = "new"})
      /\ sh = [cached |-> FALSE, handle |-> FALSE, syncing |-> FALSE, clearing |-> FALSE, insync |-> FALSE]
      /\ rec = [pc |-> "idle", pos |-> 0, sig |-> FALSE, exit |-> FALSE, active |-> FALSE, option |-> FALSE]
  BY ArraysAssumption DEF Init
<1>2. \A i \in Cols : array.slots[i] \in {"ok", "short", "absent"}
  BY DEF Whole
<1>3. num_new = 0
  <2>1. {i \in Cols : array.slots[i] = "new"} = {}
    BY <1>2
  <2> QED
    BY <1>1, <2>1, FS_EmptySet
<1>4. bi \in Bio /\ bi.op = "none"
  BY <1>1, CodeAssumption DEF NoBio, Bio, Data, Elem
<1>5. sh \in ShBits /\ rec \in Recovery /\ ~ sh.syncing /\ ~ sh.insync
  BY <1>1 DEF ShBits, Recovery
<1>6. ASSUME NEW i \in Cols
      PROVE  col[i] \in ColState /\ ColWhole(array, i, col[i])
  BY <1>1, <1>2, WholeCol
<1>7. col \in [Cols -> ColState]
  <2>1. col = [i \in Cols |-> col[i]]
    BY <1>1
  <2> QED
    BY <1>6, <2>1
<1>8. Pending(array, disk, col, bi, sh) /\ Syncing(array, sh, rec, 0)
  BY <1>1, <1>4 DEF Pending, Syncing
<1>9. Plain(array, disk, media, col, bi, sh, rec) /\ SyncRight(array, media, col, sh, rec)
  BY <1>1, <1>4, <1>5, <1>6, <1>7, <1>8 DEF Plain, SyncRight
<1> QED
  BY <1>1, <1>3, <1>9 DEF WholeInv

(* Every step keeps WholeInv.                                               *)
LEMMA WholeNext ==
  ASSUME WholeInv, [Next]_vars
  PROVE  WholeInv'
<1>1. CASE Handle
  BY <1>1, WholeRequest, WholeSyncing
<1>2. ASSUME NEW i \in Cols, EndRequest(i) \/ OtherWriteError(i) PROVE WholeInv'
  BY <1>2, WholeEndRead, WholeEndWrite, WholeNoErrors DEF EndRequest
<1>3. ASSUME NEW i \in Data, Read(i) \/ Write(i) PROVE WholeInv'
  <2>1. 0 \in Elem /\ WriteVals \subseteq Elem
    BY StripeAssumption, CodeAssumption DEF Elem
  <2> QED
    BY <1>3, <2>1, WholeMakeRequest DEF Read, Write
<1>4. ASSUME OtherUpdate \/ NocheckArray \/ SignalCheck
             \/ \E option, resume \in BOOLEAN : CheckArray(option, resume)
      PROVE  WholeInv'
  BY <1>4, WholeControl
<1>5. CASE Evict \/ UnraidSync \/ RecoveryEnd
  BY <1>5, WholeEvict, WholeUnraidSync, WholeRecoveryEnd
<1>6. CASE UNCHANGED vars
  <2>1. rec \in Recovery /\ Syncing(array, sh, rec, 0)
    BY WholeFacts
  <2>2. UNCHANGED <<array, disk, faults, num_new, media, col, bi, sh, rec>>
    BY <1>6 DEF vars
  <2> QED
    BY <2>1, <2>2, WholeElsewhere DEF Syncing
<1> QED
  BY <1>1, <1>2, <1>3, <1>4, <1>5, <1>6 DEF Next

(* The sync of the stripe is over only with handle_stripe(), which then     *)
(* has no more to do for it.                                                *)
LEMMA SyncOver ==
  ASSUME [Next]_vars, sh.syncing, ~ sh'.syncing, sh \in ShBits, bi.op = "none"
  PROVE  /\ Handle /\ UNCHANGED <<array, disk, media>>
         /\ ~ sh.clearing => Quiet'
<1>1. Handle
  <2>1. ASSUME NEW i \in Cols, EndRequest(i) \/ OtherWriteError(i) PROVE sh'.syncing
    BY <2>1 DEF EndRequest, EndReadOK, EndReadError, EndWriteOK, EndWriteError, OtherWriteError, EndIO, ShBits
  <2>2. ASSUME NEW i \in Data, Read(i) \/ Write(i) PROVE sh'.syncing
    BY <2>2 DEF Read, Write, MakeRequest, ShBits
  <2>3. ASSUME NEW option \in BOOLEAN, NEW resume \in BOOLEAN, CheckArray(option, resume) PROVE sh'.syncing
    BY <2>3 DEF CheckArray, stripeVars
  <2>4. CASE OtherUpdate \/ NocheckArray \/ SignalCheck \/ RecoveryEnd
    BY <2>4 DEF OtherUpdate, NocheckArray, SignalCheck, RecoveryEnd, stripeVars
  <2>5. CASE Evict
    BY <2>5 DEF Evict, ShBits
  <2>6. CASE UnraidSync
    BY <2>6 DEF UnraidSync, ShBits
  <2>7. CASE UNCHANGED vars
    BY <2>7 DEF vars
  <2> QED
    BY <2>1, <2>2, <2>3, <2>4, <2>5, <2>6, <2>7 DEF Next
<1>2. ~ HandleFailRequest /\ ~ HandleRead /\ ~ HandleWrite /\ ~ HandleWritten
  BY DEF HandleFailRequest, HandleRead, HandleWrite, HandleWritten
<1>3. ~ HandleNothing
  BY DEF HandleNothing
<1>4. HandleSyncFail \/ HandleSync \/ HandleClear \/ HandleSyncDone
  BY <1>1, <1>2, <1>3 DEF Handle
<1>5. BeginHandle /\ bi' = bi /\ NoIO
  BY <1>4 DEF HandleSyncFail, HandleSync, HandleClear, HandleSyncDone, BeginHandle
<1>6. UNCHANGED <<array, disk, media>>
  BY <1>5 DEF BeginHandle, diskVars
<1>7. ASSUME NEW insync, NEW done, NEW bad, SyncOutcome(insync, done, bad)
      PROVE  sh'.handle = FALSE /\ sh'.syncing = ~ done
  BY <1>7 DEF SyncOutcome, ShBits
<1>8. ASSUME ~ sh.clearing PROVE \A i \in Cols : col'[i].io = "none"
  <2>1. CASE HandleSyncFail \/ HandleSyncDone
    BY <1>5, <2>1 DEF HandleSyncFail, HandleSyncDone, NoIO
  <2>2. CASE HandleSync
    <3> DEFINE c == Fetch(Cols \ Failed)
               g == SyncCalc(Calc(c), rec.option)
               w == schedule_writes(g.g)
    <3>1. IF Locked(c) THEN SyncOutcome(FALSE, FALSE, FALSE)
          ELSE col' = w /\ SyncOutcome(TRUE, ~ Locked(w), g.bad)
      BY <2>2 DEF HandleSync
    <3> HIDE DEF c, w, g
    <3>2. ~ Locked(w) /\ col' = w
      BY <1>7, <3>1
    <3> QED
      BY <3>2 DEF Locked
  <2>3. ~ HandleClear
    BY <1>8 DEF HandleClear
  <2> QED
    BY <1>4, <2>1, <2>2, <2>3
<1>9. sh'.handle = FALSE
  <2>1. \E insync, done, bad : SyncOutcome(insync, done, bad)
    BY <1>4 DEF HandleSyncFail, HandleSync, HandleClear, HandleSyncDone
  <2> QED
    BY <1>7, <2>1
<1> QED
  BY <1>1, <1>5, <1>6, <1>8, <1>9 DEF Quiet, Inactive, NoIO

(* A sync that corrects leaves a stripe whose parity matches its data: with *)
(* whatever failures parity covers when it matched to begin with, and with  *)
(* any parity at all when no disk is missing or fails.                      *)
THEOREM StripeSyncRepairs ==
  ASSUME \A a \in Arrays : Covered(a) \/ Whole(a)
  PROVE  Spec => SyncRepairs
<1> DEFINE I == StripeInv \/ WholeInv
           Right == sh.syncing /\ ~ sh'.syncing /\ rec.option /\ ~ sh.clearing => Stored(disk) # {}
           Ended == StripeInv /\ Quiet => Stored(disk) # {}
<1>1. Init => I
  BY InitInv, WholeInit DEF StripeInv, Init
<1>2. I /\ [Next]_vars => I'
  BY NextInv, WholeNext DEF StripeInv
<1>3. Ended
  BY DisksHoldData DEF StripeInv, Holds
<1>4. Ended'
  BY <1>3, PTL
<1>5. I /\ [Next]_vars => Right
  <2> SUFFICES ASSUME I, [Next]_vars, sh.syncing, ~ sh'.syncing, rec.option, ~ sh.clearing
               PROVE  Stored(disk) # {}
    OBVIOUS
  <2>1. CASE StripeInv
    <3>1. sh \in ShBits /\ bi.op = "none"
      BY <2>1, Types DEF StripeInv, Inv, Pending, Bio
    <3>2. Quiet' /\ UNCHANGED <<array, disk, media>>
      BY <3>1, SyncOver
    <3>3. StripeInv'
      BY <2>1, NextInv DEF StripeInv
    <3>4. Stored(disk)' # {}
      BY <1>4, <3>2, <3>3
    <3>5. Stored(disk)' = Stored(disk)
      BY <3>2 DEF Stored
    <3> QED
      BY <3>4, <3>5
  <2>2. CASE WholeInv
    <3>1. sh \in ShBits /\ bi.op = "none"
      BY <2>2, WholeFacts DEF Pending, Bio
    <3>2. Handle
      BY <3>1, SyncOver
    <3> QED
      BY <2>2, <3>2, WholeSyncing
  <2> QED
    BY <2>1, <2>2
<1>6. I /\ [Next]_vars => [Right]_vars
  BY <1>5
<1> QED
  BY <1>1, <1>2, <1>6, PTL DEF Spec, SyncRepairs

(* What the check of a stripe without failures finds.                       *)
LEMMA WholeBad ==
  ASSUME WholeInv, NEW c, NEW option
  PROVE  LET g == Calc(c)
         IN  SyncCalc(g, option).bad = (c[PD].buf # PValue(DataOf(g)) \/ c[QD].buf # QValue(DataOf(g)))
<1> DEFINE g == Calc(c)
<1>1. -1 \notin Data /\ -1 # PD /\ -1 # QD
  BY Columns
<1>2. failed = 0 /\ faila = -1
  BY WholeFacts
<1>3. SyncCalc(g, option) = check_parity(g, -1, option)
  BY <1>2 DEF SyncCalc
<1>4. g.c = c
  BY DEF Calc
<1> HIDE DEF g
<1>5. check_parity(g, -1, option).bad = (c[PD].buf # PValue(DataOf(g)) \/ c[QD].buf # QValue(DataOf(g)))
  BY <1>1, <1>4 DEF check_parity
<1> QED
  BY <1>3, <1>5 DEF g

(* An error it reports is one: buffers hold what is on the disks.           *)
LEMMA WholeReal ==
  ASSUME WholeInv, Next, event'.op = "sync"
  PROVE  Stored(disk) = {}
<1> SUFFICES ASSUME NEW d \in Stored(disk) PROVE FALSE
  OBVIOUS
<1>1. NoEvent.op = "none"
  BY DEF NoEvent
<1>2. \A i \in Cols : ~ EndReadError(i) /\ ~ EndWriteError(i) /\ ~ OtherWriteError(i)
  BY WholeNoErrors
<1>3. Handle
  <2>1. CASE \E i \in Cols : EndRequest(i) \/ OtherWriteError(i)
    BY <1>1, <1>2, <2>1 DEF EndRequest, EndReadOK, EndWriteOK, EndIO
  <2>2. CASE \E i \in Data : Read(i) \/ Write(i)
    BY <1>1, <2>2 DEF Read, Write, MakeRequest
  <2>3. CASE \E option, resume \in BOOLEAN : CheckArray(option, resume)
    BY <1>1, <2>3 DEF CheckArray, stripeVars
  <2>4. CASE OtherUpdate \/ Evict \/ NocheckArray \/ UnraidSync \/ SignalCheck \/ RecoveryEnd
    BY <1>1, <2>4 DEF OtherUpdate, Evict, NocheckArray, UnraidSync, SignalCheck, RecoveryEnd, stripeVars
  <2> QED
    BY <2>1, <2>2, <2>3, <2>4 DEF Next
<1> DEFINE c == Fetch(Cols)
           g == Calc(c)
<1>4. failed = 0 /\ Failed = {} /\ Cols \ Failed = Cols
  BY WholeFacts
<1>5. /\ NoIO /\ sh.syncing /\ ~ sh.insync /\ ~ Locked(c) /\ SyncCalc(g, rec.option).bad
  <2>1. HandleSync
    <3>1. CASE HandleRead \/ HandleWrite \/ HandleWritten \/ HandleNothing
      <4>1. HandleRead => event' = NoEvent \/ event'.op = "read"
        BY DEF HandleRead, Return
      <4>2. HandleWritten => event' = NoEvent \/ event'.op = "write"
        BY DEF HandleWritten, Return
      <4>3. HandleWrite \/ HandleNothing => event' = NoEvent
        BY DEF HandleWrite, HandleNothing
      <4> QED
        BY <1>1, <3>1, <4>1, <4>2, <4>3
    <3>2. CASE HandleClear \/ HandleSyncDone
      BY <1>1, <3>2 DEF HandleClear, HandleSyncDone, SyncOutcome
    <3> QED
      BY <1>3, <1>4, <3>1, <3>2 DEF Handle, HandleFailRequest, HandleSyncFail
  <2> HIDE DEF c
  <2>2. /\ NoIO /\ sh.syncing /\ ~ sh.insync
        /\ IF Locked(Fetch(Cols)) THEN event' = NoEvent
           ELSE event' = IF SyncCalc(Calc(Fetch(Cols)), rec.option).bad
                         THEN [NoEvent EXCEPT !.op = "sync", !.ok = FALSE] ELSE NoEvent
    BY <1>4, <2>1 DEF HandleSync, BeginHandle, SyncOutcome
  <2> QED
    BY <1>1, <2>2 DEF c
<1>6. /\ \A i \in Cols : /\ ColWhole(array, i, c[i]) /\ c[i].uptodate
                         /\ array.slots[i] = "ok" => c[i] = col[i]
  BY <1>5, WholeFetch
<1>7. Scanned(array, media, col)
  BY <1>5 DEF WholeInv, SyncRight
<1>8. c[PD].buf # PValue(DataOf(g)) \/ c[QD].buf # QValue(DataOf(g))
  BY <1>5, WholeBad
<1>9. DataOf(g) \in [Data -> Elem] /\ \A i \in Data : DataOf(g)[i] = c[i].buf
  <2>1. CalcWhole(g)
    BY <1>5, WholeFetch DEF CalcWhole, Calc
  <2>2. g.c = c
    BY DEF Calc
  <2> HIDE DEF g, c
  <2> QED
    BY <2>1, <2>2, WholeData
<1> HIDE DEF c, g
<1>10. \A i \in Cols : c[i].buf = IF array.slots[i] = "ok" THEN media[i] ELSE 0
  BY <1>6, <1>7 DEF Scanned, ColWhole
<1>11. DataOf(g) = d
  <2>1. /\ d \in [Data -> Elem]
        /\ \A i \in Data : IF ~ disk[i].active \/ array.slots[i] = "short" THEN d[i] = 0
                           ELSE disk[i].valid => d[i] = media[i]
    BY DEF Stored
  <2>2. \A i \in Data : i \in Cols
    BY Columns
  <2>3. \A i \in Data : d[i] = IF array.slots[i] = "ok" THEN media[i] ELSE 0
    BY <2>1, <2>2, WholeFacts
  <2> QED
    BY <1>9, <1>10, <2>1, <2>2, <2>3
<1>12. media[PD] = PValue(d) /\ media[QD] = QValue(d)
  <2>1. (disk[PD].valid => media[PD] = PValue(d)) /\ (disk[QD].valid => media[QD] = QValue(d))
    BY DEF Stored
  <2> QED
    BY <2>1, WholeFacts
<1> QED
  BY <1>8, <1>10, <1>11, <1>12, WholeFacts

(* The step reports no parity error.                                        *)
NoSyncError == event.op # "sync"

(* A check of a stripe that was in order finds no error.                    *)
LEMMA NoneFound ==
  ASSUME StripeInv, PD \notin Lost(array) \cup Faulty(array) \/ Whole(array)
  PROVE  NoSyncError
<1> PICK broken, d : Inv(broken, d)
  BY DEF StripeInv
<1>1. /\ array \in Array /\ Errors(array, broken, faults) /\ EventGood(array, broken, last, event)
      /\ faults \in 0 .. array.faults
  BY Types DEF Inv, TypeOK
<1>2. CASE PD \notin Lost(array) \cup Faulty(array)
  BY <1>1, <1>2 DEF EventGood, Errors, NoSyncError
<1>3. CASE Whole(array)
  <2>1. broken \in SUBSET Cols /\ Cardinality(broken) <= 0
    BY <1>1, <1>3 DEF Errors, Faulty, Array, Whole
  <2>2. IsFiniteSet(broken)
    BY <2>1, FiniteCols, FS_Subset
  <2>3. broken = {}
    BY <2>1, <2>2, FS_CardinalityType, FS_EmptySet
  <2>4. PD \notin Lost(array)
    BY <1>3, Columns DEF Whole, Lost
  <2> QED
    BY <1>1, <2>3, <2>4 DEF EventGood, NoSyncError
<1> QED
  BY <1>2, <1>3

(* So no check ever reports one while parity covers what is lost and fails  *)
(* and P is in use and does not.                                            *)
THEOREM StripeNoSyncError ==
  ASSUME \A a \in Arrays : Covered(a) /\ PD \notin Lost(a) \cup Faulty(a)
  PROVE  Spec => []NoSyncError
<1>1. StripeInv => NoSyncError
  BY NoneFound DEF StripeInv, Inv, TypeOK
<1>2. Spec => []StripeInv
  BY StripeInvariant
<1> QED
  BY <1>1, <1>2, PTL

(* No parity error is reported that is none, neither then nor when no disk  *)
(* is missing or fails: there an error means that the parity on the disks   *)
(* contradicts the data.                                                    *)
THEOREM StripeSyncErrorIsReal ==
  ASSUME \A a \in Arrays : \/ Covered(a) /\ PD \notin Lost(a) \cup Faulty(a)
                          \/ Whole(a)
  PROVE  Spec => SyncErrorIsReal
<1> DEFINE I == StripeInv \/ WholeInv
           Real == event'.op = "sync" => Stored(disk) = {}
           None == StripeInv => NoSyncError
<1>1. Init => I
  BY InitInv, WholeInit DEF StripeInv, Init
<1>2. I /\ [Next]_vars => I'
  BY NextInv, WholeNext DEF StripeInv
<1>3. None
  BY NoneFound DEF StripeInv, Inv, TypeOK
<1>4. None'
  BY <1>3, PTL
<1>5. I /\ [Next]_vars => [Real]_vars
  <2> SUFFICES ASSUME I, Next, event'.op = "sync" PROVE Stored(disk) = {}
    BY DEF Real
  <2>1. CASE StripeInv
    <3>1. StripeInv'
      BY <2>1, NextInv DEF StripeInv
    <3> QED
      BY <1>4, <3>1 DEF NoSyncError
  <2>2. CASE WholeInv
    BY <2>2, WholeReal
  <2> QED
    BY <2>1, <2>2
<1> QED
  BY <1>1, <1>2, <1>5, PTL DEF Spec, SyncErrorIsReal

-----------------------------------------------------------------------------
(* Requests on such an array, its parity wrong or not: no disk is missing,  *)
(* so no data are computed from parity, and reads and writes find and leave *)
(* every block on its own disk.                                             *)

(* The disks and the buffers hold the data e.                               *)
OnOwnDisks(a, m, c, e) ==
  /\ e \in [Data -> Elem]
  /\ \A i \in Data :
       IF a.slots[i] = "ok"
       THEN /\ c[i].io # "write" => m[i] = e[i]
            /\ c[i].uptodate \/ c[i].io = "write" => c[i].buf = e[i]
       ELSE e[i] = 0

(* What was answered is right.                                              *)
Answered(l, e) ==
  /\ e.op \in {"read", "write"} => e.ok
  /\ e.op = "read" => e.val \in l[e.col]

(* It is inductive; d are the data acknowledged.                            *)
Served(d) ==
  /\ WholeInv /\ TypeOK /\ Acked(d, last)
  /\ OnOwnDisks(array, media, col, Content(bi, d))
  /\ Answered(last, event) /\ ~ bug

(* The rest of the state of a whole array stays as it is.                   *)
LEMMA WholeRest ==
  ASSUME WholeInv, TypeOK, [Next]_vars
  PROVE  /\ UNCHANGED <<array, num_disabled, num_invalid>>
         /\ sb' \in {sb, disk} /\ update_sb' \subseteq update_sb
<1>1. CASE Handle
  <2>1. BeginHandle
    BY <1>1 DEF Handle, HandleFailRequest, HandleRead, HandleWrite, HandleWritten, HandleSyncFail, HandleSync,
       HandleClear, HandleSyncDone, HandleNothing
  <2> QED
    BY <2>1 DEF BeginHandle, diskVars
<1>2. ASSUME NEW i \in Cols, EndRequest(i) \/ OtherWriteError(i)
      PROVE  UNCHANGED <<array, num_disabled, num_invalid, sb, update_sb>>
  <2>1. EndReadOK(i) \/ EndWriteOK(i)
    BY <1>2, WholeNoErrors DEF EndRequest
  <2> QED
    BY <2>1 DEF EndReadOK, EndWriteOK, EndIO, diskVars
<1>3. ASSUME NEW i \in Data, Read(i) \/ Write(i)
      PROVE  UNCHANGED <<array, num_disabled, num_invalid, sb, update_sb>>
  BY <1>3 DEF Read, Write, MakeRequest, diskVars
<1>4. ASSUME NEW option \in BOOLEAN, NEW resume \in BOOLEAN, CheckArray(option, resume)
      PROVE  UNCHANGED <<array, num_disabled, num_invalid, update_sb>> /\ sb' = disk
  BY <1>4 DEF CheckArray, diskVars, stripeVars
<1>5. CASE Evict \/ UnraidSync \/ NocheckArray \/ SignalCheck
  BY <1>5 DEF Evict, UnraidSync, NocheckArray, SignalCheck, diskVars, stripeVars
<1>6. CASE OtherUpdate
  BY <1>6 DEF OtherUpdate, diskVars
<1>7. CASE RecoveryEnd
  <2> DEFINE done == {i \in Cols : ~ rec.exit /\ disk[i].enabled /\ ~ disk[i].valid}
  <2>1. /\ UNCHANGED <<array, num_disabled, update_sb>> /\ sb' = disk'
        /\ num_invalid' = num_invalid - Cardinality(Rebuilt(done))
    BY <1>7 DEF RecoveryEnd, stripeVars
  <2>2. done = {}
    BY WholeFacts
  <2> HIDE DEF done
  <2>3. Rebuilt(done) = {}
    BY <2>2 DEF Rebuilt
  <2>4. num_invalid' = num_invalid - 0 /\ num_invalid \in Int
    BY <2>1, <2>3, FS_EmptySet, CodeAssumption DEF TypeOK
  <2>5. disk' = disk
    <3>1. WholeInv'
      BY <1>7, WholeRecoveryEnd
    <3> QED
      BY <2>1, <3>1 DEF WholeInv
  <2> QED
    BY <2>1, <2>4, <2>5
<1>8. CASE UNCHANGED vars
  BY <1>8 DEF vars
<1> QED
  BY <1>1, <1>2, <1>3, <1>4, <1>5, <1>6, <1>7, <1>8 DEF Next

(* What a step has to establish.                                            *)
LEMMA ServedFrame ==
  ASSUME NEW d, NEW e, Served(d), [Next]_vars, Acked(e, last'), OnOwnDisks(array, media', col', Content(bi', e)),
         event' \in Event, Answered(last', event'), bug' = FALSE
  PROVE  Served(e)'
<1>1. WholeInv /\ TypeOK
  BY DEF Served
<1>2. WholeInv' /\ array' = array
  BY <1>1, WholeNext, WholeRest
<1>3. /\ disk' = [i \in Cols |-> InitDisk(array'.slots[i])] /\ disk = disk' /\ faults' = 0 /\ num_new' = 0
      /\ Plain(array', disk', media', col', bi', sh', rec')
  BY <1>1, <1>2 DEF WholeInv
<1>4. /\ media' \in [Cols -> Elem] /\ col' \in [Cols -> ColState] /\ bi' \in Bio /\ sh' \in ShBits
      /\ rec' \in Recovery
  BY <1>3 DEF Plain
<1>5. /\ UNCHANGED <<num_disabled, num_invalid>> /\ sb' \in {sb, disk} /\ update_sb' \subseteq update_sb
      /\ array \in Arrays /\ disk \in [Cols -> DiskState] /\ sb \in [Cols -> DiskState]
      /\ update_sb \subseteq {"this", "other"} /\ array.faults \in Nat
      /\ {num_disabled, num_invalid, num_new} \subseteq 0 .. NData + 2 /\ num_new = 0
  BY <1>1, WholeRest, Types DEF TypeOK, WholeInv
<1>6. last' \in [Data -> SUBSET Elem]
  BY DEF Acked
<1>7. TypeOK'
  <2>1. {num_disabled', num_invalid', num_new'} \subseteq 0 .. NData + 2
    BY <1>3, <1>5
  <2>2. faults' \in 0 .. array'.faults
    BY <1>2, <1>3, <1>5
  <2>3. /\ array' \in Arrays /\ disk' \in [Cols -> DiskState] /\ sb' \in [Cols -> DiskState]
        /\ update_sb' \subseteq {"this", "other"} /\ bug' \in BOOLEAN
    BY <1>2, <1>3, <1>5
  <2> QED
    BY <1>4, <1>6, <2>1, <2>2, <2>3 DEF TypeOK, ShBits, Recovery
<1> QED
  BY <1>2, <1>7 DEF Served

(* What Served says.                                                        *)
LEMMA ServedFacts ==
  ASSUME NEW d, Served(d)
  PROVE  /\ WholeInv /\ TypeOK /\ Acked(d, last) /\ bug = FALSE /\ d \in [Data -> Elem]
         /\ OnOwnDisks(array, media, col, Content(bi, d)) /\ Content(bi, d) \in [Data -> Elem]
         /\ last = [i \in Data |-> {d[i]}] /\ bi \in Bio
         /\ bi.op # "none" => bi.col \in Data /\ bi.col \in Cols /\ array.slots[bi.col] = "ok"
         /\ bi.op # "written" => Content(bi, d) = d
         /\ NoEvent \in Event /\ Answered(last', NoEvent) /\ NoBio \in Bio /\ Content(NoBio, d) = d
<1>1. WholeInv /\ TypeOK /\ Acked(d, last) /\ ~ bug /\ OnOwnDisks(array, media, col, Content(bi, d))
  BY DEF Served
<1>2. bi \in Bio /\ bug \in BOOLEAN
  BY <1>1, Types
<1>3. bi.op # "none" => bi.col \in Data /\ bi.col \in Cols /\ array.slots[bi.col] = "ok"
  <2>1. bi.col \in Data /\ bi.col \in Cols
    BY <1>2, Columns DEF Bio
  <2> QED
    BY <1>1, <2>1, WholeFacts DEF Pending
<1>4. NoEvent \in Event /\ Answered(last', NoEvent)
  BY CodeAssumption DEF NoEvent, Event, Data, Elem, Answered
<1>5. NoBio \in Bio /\ NoBio.op = "none"
  BY CodeAssumption DEF NoBio, Bio, Data, Elem
<1> QED
  BY <1>1, <1>2, <1>3, <1>4, <1>5 DEF Acked, OnOwnDisks, Content

(* The columns a write reads first are columns.                             *)
LEMMA WholeSources ==
  ASSUME WholeInv, bi.op # "none", NEW junk
  PROVE  WriteSources(junk) \subseteq Cols
<1>1. bi.col \in Data /\ Failed = {} /\ failed = 0 /\ PEnabled = TRUE /\ QEnabled = TRUE
  BY WholeFacts DEF Bio
<1>2. ~ RmwP(junk) /\ ~ RmwQ(junk) /\ Recon
  BY <1>1 DEF RmwP, RmwQ, Recon
<1>3. CASE RmwPQ
  <2>1. WriteSources(junk) = {bi.col, PD, QD}
    BY <1>2, <1>3 DEF WriteSources, Rmw
  <2> QED
    BY <1>1, <2>1, Columns
<1>4. CASE ~ RmwPQ
  <2>1. WriteSources(junk) = ReconSources
    BY <1>2, <1>4 DEF WriteSources, Rmw
  <2>2. ReconSources = (Data \ {bi.col}) \cup TargetIfPartial
    BY <1>1 DEF ReconSources
  <2>3. TargetIfPartial \subseteq {bi.col}
    BY DEF TargetIfPartial
  <2> QED
    BY <1>1, <2>1, <2>2, <2>3, Columns
<1> QED
  BY <1>3, <1>4

(* Reading more of the stripe changes nothing.                              *)
LEMMA FetchOwn ==
  ASSUME WholeInv, NoIO, NEW S \in SUBSET Cols, NEW e, OnOwnDisks(array, media, col, e)
  PROVE  OnOwnDisks(array, media, Fetch(S), e)
<1> DEFINE c == Fetch(S)
<1>1. \A i \in Cols : /\ c[i].io # "write"
                      /\ c[i].uptodate /\ array.slots[i] = "ok" => c[i] = col[i]
                      /\ col[i].io = "none"
  BY WholeFetch DEF NoIO
<1> HIDE DEF c
<1>2. Data \subseteq Cols
  BY Columns
<1>3. \A i \in Data : array.slots[i] = "ok" =>
        /\ c[i].io # "write" => media[i] = e[i]
        /\ c[i].uptodate \/ c[i].io = "write" => c[i].buf = e[i]
  BY <1>1, <1>2 DEF OnOwnDisks
<1>4. OnOwnDisks(array, media, c, e)
  BY <1>3 DEF OnOwnDisks
<1> QED
  BY <1>4 DEF c

(* A read is answered from the buffer of its column.                        *)
LEMMA ServedRead ==
  ASSUME NEW d, Served(d), HandleRead
  PROVE  Served(d)'
<1> DEFINE c == Fetch({bi.col})
<1>1. /\ WholeInv /\ TypeOK /\ Acked(d, last) /\ bug = FALSE /\ last = [i \in Data |-> {d[i]}]
      /\ OnOwnDisks(array, media, col, d) /\ Content(bi, d) = d /\ Content(NoBio, d) = d
      /\ bi.col \in Data /\ bi.col \in Cols /\ array.slots[bi.col] = "ok" /\ d \in [Data -> Elem]
      /\ NoEvent \in Event /\ Answered(last', NoEvent) /\ Failed = {}
  <2>1. bi.op # "none" /\ bi.op # "written"
    BY DEF HandleRead
  <2>2. Failed = {}
    BY WholeFacts DEF Served
  <2> HIDE DEF c
  <2>3. /\ WholeInv /\ TypeOK /\ Acked(d, last) /\ bug = FALSE /\ last = [i \in Data |-> {d[i]}]
        /\ d \in [Data -> Elem] /\ NoEvent \in Event /\ Answered(last', NoEvent) /\ Content(NoBio, d) = d
    BY ServedFacts
  <2>4. bi.col \in Data /\ bi.col \in Cols /\ array.slots[bi.col] = "ok" /\ Content(bi, d) = d
    BY <2>1, ServedFacts
  <2>5. OnOwnDisks(array, media, col, d)
    BY <2>4, ServedFacts
  <2> QED
    BY <2>2, <2>3, <2>4, <2>5
<1>2. /\ BeginHandle /\ NoIO /\ media' = media /\ array' = array /\ last' = last
      /\ col' = schedule_writes(Calc(c)) /\ bug' = (bug \/ ~ Calc(c).ok)
      /\ IF c[bi.col].uptodate THEN Return("read", TRUE, c[bi.col].buf) ELSE bi' = bi /\ event' = NoEvent
  BY <1>1 DEF HandleRead, BeginHandle, Calc
<1>3. OnOwnDisks(array, media, c, d) /\ c \in [Cols -> ColState]
  BY <1>1, <1>2, FetchOwn, WholeFetch
<1> HIDE DEF c
<1>4. col' = c
  <2>1. schedule_writes(Calc(c)) = [i \in Cols |-> c[i]]
    BY DEF schedule_writes, Calc
  <2> QED
    BY <1>2, <1>3, <2>1
<1>5. bug' = FALSE
  BY <1>1, <1>2 DEF Calc
<1>6. /\ event' \in Event /\ Answered(last', event') /\ Content(bi', d) = d
  <2>1. CASE c[bi.col].uptodate
    <3>1. event' = [op |-> "read", ok |-> TRUE, col |-> bi.col, val |-> c[bi.col].buf] /\ bi' = NoBio
      BY <1>2, <2>1 DEF Return
    <3>2. c[bi.col].buf = d[bi.col]
      BY <1>1, <1>3, <2>1 DEF OnOwnDisks
    <3>3. event' \in Event
      BY <1>1, <3>1, <3>2 DEF Event
    <3>4. event'.op = "read" /\ event'.ok /\ event'.val = d[event'.col] /\ event'.col \in Data
      BY <1>1, <3>1, <3>2
    <3>5. Answered(last', event')
      BY <1>1, <1>2, <3>4 DEF Answered
    <3> QED
      BY <1>1, <3>1, <3>3, <3>5
  <2>2. CASE ~ c[bi.col].uptodate
    BY <1>1, <1>2, <2>2
  <2> QED
    BY <2>1, <2>2
<1>7. OnOwnDisks(array, media', col', Content(bi', d))
  BY <1>2, <1>3, <1>4, <1>6
<1>8. Acked(d, last') /\ Next
  BY <1>1, <1>2 DEF Next, Handle
<1> QED
  BY <1>5, <1>6, <1>7, <1>8, ServedFrame

(* A write puts its block, the acknowledged one with the write on top of    *)
(* it, into the buffer of its column, and on its way.                       *)
LEMMA ServedWrite ==
  ASSUME NEW d, Served(d), HandleWrite
  PROVE  Served(d)' /\ (bi' = bi \/ TakesWrite(d))
<1>1. /\ WholeInv /\ TypeOK /\ Acked(d, last) /\ bug = FALSE /\ bi \in Bio
      /\ OnOwnDisks(array, media, col, d) /\ Content(bi, d) = d
      /\ bi.col \in Data /\ bi.col \in Cols /\ array.slots[bi.col] = "ok" /\ d \in [Data -> Elem]
      /\ NoEvent \in Event /\ Answered(last', NoEvent)
  <2>1. bi.op = "write"
    BY DEF HandleWrite
  <2> QED
    BY <2>1, ServedFacts
<1>2. /\ BeginHandle /\ NoIO /\ media' = media /\ last' = last /\ event' = NoEvent /\ bi.op = "write"
  BY DEF HandleWrite, BeginHandle
<1>3. PICK junk \in OutOfBounds :
        LET c == Fetch(WriteSources(junk))
            g == WriteCalc(Calc(c), junk)
        IN  IF Locked(c)
            THEN col' = c /\ UNCHANGED <<bi, bug>>
            ELSE /\ col' = schedule_writes(g)
                 /\ bug' = (bug \/ ~ g.ok)
                 /\ bi' = [bi EXCEPT !.op = "written", !.val = g.c[bi.col].buf]
  BY DEF HandleWrite
<1> DEFINE S == WriteSources(junk) \cap Cols
           c == Fetch(S)
           g == WriteCalc(Calc(c), junk)
           w == schedule_writes(g)
<1>4. Fetch(WriteSources(junk)) = c
  BY DEF Fetch
<1>5. IF Locked(c) THEN col' = c /\ bi' = bi /\ bug' = bug
      ELSE /\ col' = w
           /\ bug' = (bug \/ ~ g.ok)
           /\ bi' = [bi EXCEPT !.op = "written", !.val = g.c[bi.col].buf]
  BY <1>3, <1>4
<1>6. /\ c \in [Cols -> ColState] /\ (\A i \in Cols : ColWhole(array, i, c[i])) /\ OnOwnDisks(array, media, c, d)
      /\ ~ Locked(c) => (\A i \in Cols : c[i].io = "none") /\ \A i \in S : c[i].uptodate
  <2>1. S \in SUBSET Cols
    OBVIOUS
  <2> HIDE DEF S
  <2> QED
    BY <1>1, <1>2, <2>1, WholeFetch, FetchOwn
<1> HIDE DEF c
<1>7. Acked(d, last') /\ Next
  BY <1>1, <1>2 DEF Next, Handle
<1>8. CASE Locked(c)
  <2>1. bug' = FALSE /\ OnOwnDisks(array, media', col', Content(bi', d))
    BY <1>1, <1>2, <1>5, <1>6, <1>8
  <2>2. Served(d)'
    BY <1>1, <1>2, <1>7, <2>1, ServedFrame
  <2> QED
    BY <1>5, <1>8, <2>2
<1>9. CASE ~ Locked(c)
  <2>1. CalcWhole(Calc(c)) /\ \A j \in WriteSources(junk) \cap Cols : c[j].uptodate
    BY <1>6, <1>9 DEF CalcWhole, Calc
  <2>2. WriteSources(junk) \subseteq Cols
    BY <1>1, <1>2, WholeSources
  <2>3. /\ CalcWhole(g) /\ g.lock \cap Data = {bi.col} /\ g.ok = TRUE
        /\ \A j \in Data : g.c[j].buf = IF j = bi.col THEN NewBlock(Calc(c)) ELSE c[j].buf
        /\ \A j \in Data : g.c[j].uptodate <=> j = bi.col \/ c[j].uptodate
        /\ bi.partial => c[bi.col].uptodate
    <3>1. \A j \in WriteSources(junk) : c[j].uptodate
      BY <2>1, <2>2
    <3> QED
      BY <1>1, <1>2, <2>1, <3>1, WholeWrite
  <2> HIDE DEF g
  <2>4. \A i \in Cols : /\ w[i].uptodate = g.c[i].uptodate /\ w[i].buf = g.c[i].buf
                        /\ w[i].io = IF i \in g.lock THEN "write" ELSE "none"
    BY <2>3, WholeSchedule
  <2> HIDE DEF w
  <2>5. g.c[bi.col].buf \in Elem
    BY <1>1, <2>3, WholeData
  <2>6. col' = w /\ bug' = FALSE /\ bi' = [bi EXCEPT !.op = "written", !.val = g.c[bi.col].buf]
    BY <1>1, <1>5, <1>9, <2>3
  <2> DEFINE e == [d EXCEPT ![bi.col] = g.c[bi.col].buf]
  <2>7. Content(bi', d) = e
    BY <1>1, <2>6 DEF Content, Bio
  <2>8. e \in [Data -> Elem] /\ e[bi.col] = g.c[bi.col].buf /\ \A j \in Data \ {bi.col} : e[j] = d[j]
    BY <1>1, <2>5
  <2> HIDE DEF e
  <2>9. ASSUME NEW j \in Data
        PROVE  IF array.slots[j] = "ok"
               THEN /\ w[j].io # "write" => media[j] = e[j]
                    /\ w[j].uptodate \/ w[j].io = "write" => w[j].buf = e[j]
               ELSE e[j] = 0
    <3>1. j \in Cols
      BY Columns
    <3>2. CASE j = bi.col
      BY <1>1, <2>3, <2>4, <2>8, <3>1, <3>2
    <3>3. CASE j # bi.col
      <4>1. /\ w[j].io = "none" /\ w[j].buf = c[j].buf /\ w[j].uptodate = g.c[j].uptodate
            /\ g.c[j].uptodate <=> c[j].uptodate
            /\ e[j] = d[j] /\ c[j].io = "none"
        BY <1>6, <1>9, <2>3, <2>4, <2>8, <3>1, <3>3
      <4>2. IF array.slots[j] = "ok"
            THEN /\ c[j].io # "write" => media[j] = d[j]
                 /\ c[j].uptodate \/ c[j].io = "write" => c[j].buf = d[j]
            ELSE d[j] = 0
        BY <1>6 DEF OnOwnDisks
      <4> QED
        BY ONLY <4>1, <4>2
    <3> QED
      BY <3>2, <3>3
  <2>10. OnOwnDisks(array, media', col', Content(bi', d))
    BY <1>2, <2>6, <2>7, <2>8, <2>9 DEF OnOwnDisks
  <2>11. Served(d)'
    BY <1>1, <1>2, <1>7, <2>6, <2>10, ServedFrame
  <2>12. g.c[bi.col].buf = Written(d)[bi.col]
    <3>1. bi.partial => Calc(c).c[bi.col].buf = d[bi.col]
      BY <1>1, <1>6, <2>3 DEF OnOwnDisks, Calc
    <3>2. bi.val \in Elem
      BY <1>1 DEF Bio
    <3>3. NewBlock(Calc(c)) = Written(d)[bi.col]
      BY <1>1, <3>1, <3>2, NewBlockIs
    <3> QED
      BY <1>1, <2>3, <3>3
  <2> QED
    BY <2>6, <2>11, <2>12 DEF TakesWrite
<1> QED
  BY <1>8, <1>9

(* The answer to a write: its block is what is acknowledged from now on.    *)
LEMMA ServedWritten ==
  ASSUME NEW d, Served(d), HandleWritten
  PROVE  \E e : Served(e)'
<1> PICK e : e = Content(bi, d)
  OBVIOUS
<1>1. /\ WholeInv /\ bug = FALSE /\ last = [i \in Data |-> {d[i]}] /\ bi \in Bio /\ d \in [Data -> Elem]
      /\ OnOwnDisks(array, media, col, e) /\ e \in [Data -> Elem] /\ bi.op = "written"
      /\ Content(NoBio, e) = e
  <2>1. bi.op = "written"
    BY DEF HandleWritten
  <2> QED
    BY <2>1, ServedFacts DEF Content, NoBio
<1>2. bi.col \in Data /\ bi.val \in Elem /\ e = [d EXCEPT ![bi.col] = bi.val] /\ col[bi.col].uptodate
  BY <1>1, WholeFacts DEF Bio, Content, Pending
<1>3. /\ media' = media /\ array' = array /\ col' = col /\ bug' = bug /\ bi' = NoBio
      /\ event' = [op |-> "write", ok |-> TRUE, col |-> bi.col, val |-> bi.val]
      /\ last' = [last EXCEPT ![bi.col] = {bi.val}]
  BY <1>2 DEF HandleWritten, BeginHandle, Return
<1>4. Acked(e, last')
  <2>1. last' = [i \in Data |-> {e[i]}]
    BY <1>1, <1>2, <1>3
  <2> QED
    BY <1>1, <2>1 DEF Acked
<1>5. event' \in Event /\ Answered(last', event')
  BY <1>2, <1>3 DEF Event, Answered
<1>6. Content(bi', e) = e /\ OnOwnDisks(array, media', col', Content(bi', e))
  BY <1>1, <1>3
<1>7. Next /\ bug' = FALSE
  BY <1>1, <1>3 DEF Next, Handle
<1> QED
  BY <1>4, <1>5, <1>6, <1>7, ServedFrame

(* A sync computes parity only.                                             *)
LEMMA ServedSync ==
  ASSUME NEW d, Served(d), HandleSync
  PROVE  Served(d)'
<1> DEFINE c == Fetch(Cols)
           g == SyncCalc(Calc(c), rec.option)
           w == schedule_writes(g.g)
<1>1. /\ WholeInv /\ Acked(d, last) /\ bug = FALSE /\ Failed = {} /\ rec \in Recovery
      /\ OnOwnDisks(array, media, col, Content(bi, d)) /\ Answered(last', NoEvent) /\ NoEvent \in Event
  BY ServedFacts, WholeFacts
<1>2. /\ NoIO /\ media' = media /\ array' = array /\ bi' = bi /\ last' = last
      /\ IF Locked(c)
         THEN col' = c /\ bug' = bug /\ SyncOutcome(FALSE, FALSE, FALSE)
         ELSE col' = w /\ bug' = (bug \/ ~ g.g.ok) /\ SyncOutcome(TRUE, ~ Locked(w), g.bad)
  <2>1. Cols \ Failed = Cols
    BY <1>1
  <2> QED
    BY <2>1 DEF HandleSync, BeginHandle
<1>3. /\ c \in [Cols -> ColState] /\ (\A i \in Cols : ColWhole(array, i, c[i]))
      /\ OnOwnDisks(array, media, c, Content(bi, d))
      /\ ~ Locked(c) => \A i \in Cols : c[i].io = "none" /\ c[i].uptodate
  BY <1>1, <1>2, WholeFetch, FetchOwn
<1> HIDE DEF c
<1>4. event' \in Event /\ Answered(last', event')
  <2>1. \E insync, done, bad : SyncOutcome(insync, done, bad)
    BY <1>2
  <2>2. event' \in {[NoEvent EXCEPT !.op = "sync", !.ok = FALSE], NoEvent}
    BY <2>1 DEF SyncOutcome
  <2> DEFINE found == [NoEvent EXCEPT !.op = "sync", !.ok = FALSE]
  <2>3. found \in Event /\ found.op = "sync"
    BY <1>1 DEF Event
  <2> HIDE DEF found
  <2>4. CASE event' = NoEvent
    BY <1>1, <2>4
  <2>5. CASE event' = found
    BY <2>3, <2>5 DEF Answered
  <2> QED
    BY <2>2, <2>4, <2>5 DEF found
<1>5. Next /\ Acked(d, last')
  BY <1>1, <1>2 DEF Next, Handle
<1>6. CASE Locked(c)
  <2>1. bug' = FALSE /\ OnOwnDisks(array, media', col', Content(bi', d))
    BY <1>1, <1>2, <1>3, <1>6
  <2> QED
    BY <1>4, <1>5, <2>1, ServedFrame
<1>7. CASE ~ Locked(c)
  <2>1. CalcWhole(Calc(c)) /\ \A i \in Cols : c[i].uptodate
    BY <1>3, <1>7 DEF CalcWhole, Calc
  <2>2. rec.option \in BOOLEAN
    BY <1>1 DEF Recovery
  <2>3. /\ CalcWhole(g.g) /\ g.g.ok = TRUE /\ g.g.lock \cap Data = {}
        /\ \A i \in Cols \ g.g.lock : g.g.c[i].buf = c[i].buf
    BY <1>1, <2>1, <2>2, WholeCheck
  <2> HIDE DEF g
  <2>4. \A i \in Cols : /\ w[i].buf = g.g.c[i].buf
                        /\ w[i].io = IF i \in g.g.lock THEN "write" ELSE "none"
    BY <2>3, WholeSchedule
  <2> HIDE DEF w
  <2>5. col' = w /\ bug' = FALSE
    BY <1>1, <1>2, <1>7, <2>3
  <2>6. \A i \in Data : w[i].io = "none" /\ w[i].buf = c[i].buf /\ c[i].uptodate /\ c[i].io = "none"
    <3>1. Data \subseteq Cols
      BY Columns
    <3> QED
      BY <1>3, <1>7, <2>3, <2>4, <3>1
  <2>7. OnOwnDisks(array, media, w, Content(bi, d))
    BY <1>3, <2>6 DEF OnOwnDisks
  <2> QED
    BY <1>2, <1>4, <1>5, <2>5, <2>7, ServedFrame
<1> QED
  BY <1>6, <1>7

(* handle_stripe().                                                         *)
LEMMA ServedHandle ==
  ASSUME NEW d, Served(d), Handle
  PROVE  \E e : Served(e)'
<1>1. /\ WholeInv /\ Acked(d, last) /\ bug = FALSE
      /\ OnOwnDisks(array, media, col, Content(bi, d)) /\ Answered(last', NoEvent) /\ NoEvent \in Event
      /\ failed = 0 /\ Syncing(array, sh, rec, 0) /\ sh \in ShBits
  BY ServedFacts, WholeFacts
<1>2. ~ HandleFailRequest /\ ~ HandleSyncFail
  BY <1>1 DEF HandleFailRequest, HandleSyncFail
<1>3. ~ HandleClear
  <2>1. ~ sh.clearing
    <3>1. ~ \E i \in Cols : array.slots[i] = "new"
      BY <1>1, WholeFacts
    <3> QED
      BY <1>1, <3>1 DEF Syncing
  <2> QED
    BY <2>1 DEF HandleClear
<1>4. CASE HandleNothing \/ HandleSyncDone
  <2>1. /\ media' = media /\ array' = array /\ col' = col /\ bi' = bi /\ last' = last /\ bug' = bug
        /\ event' = NoEvent
    BY <1>4 DEF HandleNothing, HandleSyncDone, BeginHandle, SyncOutcome
  <2>2. Served(d)'
    BY <1>1, <1>4, <2>1, ServedFrame DEF Next, Handle
  <2> QED
    BY <2>2
<1>5. CASE HandleRead \/ HandleWrite \/ HandleWritten \/ HandleSync
  BY <1>5, ServedRead, ServedWrite, ServedWritten, ServedSync
<1> QED
  BY <1>2, <1>3, <1>4, <1>5 DEF Handle

(* A completion leaves the block that was read or written.                  *)
LEMMA ServedEndIO ==
  ASSUME NEW d, Served(d), NEW i \in Cols, EndReadOK(i) \/ EndWriteOK(i)
  PROVE  Served(d)'
<1>1. /\ WholeInv /\ Acked(d, last) /\ bug = FALSE /\ col \in [Cols -> ColState] /\ media \in [Cols -> Elem]
      /\ OnOwnDisks(array, media, col, Content(bi, d)) /\ Answered(last', NoEvent) /\ NoEvent \in Event
  BY ServedFacts, WholeFacts
<1> DEFINE b == IF col[i].io = "read" THEN media[i] ELSE col[i].buf
<1>2. /\ col[i].io \in {"read", "write"} /\ array' = array /\ bi' = bi /\ last' = last /\ bug' = bug
      /\ event' = NoEvent
      /\ media' = IF col[i].io = "read" THEN media ELSE [media EXCEPT ![i] = b]
      /\ \A j \in Cols \ {i} : col'[j] = col[j]
      /\ col'[i].io = "none" /\ col'[i].buf = b
  <2>1. CASE EndReadOK(i)
    <3>1. col[i].io = "read" /\ EndIO(i, [col[i] EXCEPT !.uptodate = TRUE, !.buf = media[i]]) /\ media' = media
      BY <2>1 DEF EndReadOK
    <3> QED
      BY <1>1, <3>1 DEF EndIO, ColState
  <2>2. CASE EndWriteOK(i)
    <3>1. col[i].io = "write" /\ EndIO(i, [col[i] EXCEPT !.valid = TRUE])
          /\ media' = [media EXCEPT ![i] = col[i].buf]
      BY <2>2 DEF EndWriteOK
    <3> QED
      BY <1>1, <3>1 DEF EndIO, ColState
  <2> QED
    BY <2>1, <2>2
<1> HIDE DEF b
<1>3. \A j \in Cols : media'[j] = IF j = i THEN b ELSE media[j]
  BY <1>1, <1>2 DEF b
<1>4. ASSUME NEW e, e = Content(bi, d), NEW j \in Data, array.slots[j] = "ok"
      PROVE  media'[j] = e[j] \/ (j # i /\ col[j].io = "write")
  BY <1>1, <1>2, <1>3, <1>4, Columns DEF OnOwnDisks, b
<1>5. ASSUME NEW e, e = Content(bi, d), NEW j \in Data, array.slots[j] = "ok",
             col'[j].uptodate \/ col'[j].io = "write"
      PROVE  col'[j].buf = e[j]
  BY <1>1, <1>2, <1>5, Columns DEF OnOwnDisks, b
<1>6. OnOwnDisks(array, media', col', Content(bi, d))
  BY <1>1, <1>2, <1>4, <1>5, Columns DEF OnOwnDisks
<1>7. Next
  BY DEF Next, EndRequest
<1> QED
  BY <1>1, <1>2, <1>6, <1>7, ServedFrame

(* Columns that are initialized, taken from the cache, or dropped.          *)
LEMMA ServedFresh ==
  ASSUME NEW d, Served(d), Inactive
  PROVE  /\ bug = FALSE /\ ~ sh.syncing /\ ~ sh.insync /\ ~ sh.clearing /\ bi.op = "none"
         /\ OnOwnDisks(array, media, [i \in Cols |-> InitCol(i)], d)
         /\ OnOwnDisks(array, media, ActiveCols, d)
<1>1. /\ WholeInv /\ bug = FALSE /\ OnOwnDisks(array, media, col, Content(bi, d)) /\ d \in [Data -> Elem]
      /\ NoIO /\ ~ sh.syncing /\ ~ sh.insync /\ ~ sh.clearing /\ bi.op = "none"
  BY ServedFacts, WholeInactive
<1>2. OnOwnDisks(array, media, col, d)
  BY <1>1 DEF Content
<1> DEFINE fresh == [i \in Cols |-> InitCol(i)]
<1>3. ASSUME NEW i \in Data, array.slots[i] = "ok"
      PROVE  ~ fresh[i].uptodate /\ fresh[i].io = "none" /\ media[i] = d[i]
  <2>1. i \in Cols /\ disk[i].active
    BY <1>1, <1>3, WholeFacts, Columns
  <2>2. col[i].io = "none"
    BY <1>1, <2>1 DEF NoIO
  <2>3. media[i] = d[i]
    BY <1>2, <1>3, <2>2 DEF OnOwnDisks
  <2>4. ~ InitCol(i).uptodate /\ InitCol(i).io = "none"
    BY <2>1 DEF InitCol
  <2> QED
    BY <2>1, <2>3, <2>4
<1> HIDE DEF fresh
<1>4. OnOwnDisks(array, media, fresh, d)
  BY <1>2, <1>3 DEF OnOwnDisks
<1>5. ActiveCols = col \/ ActiveCols = fresh
  BY DEF ActiveCols, fresh
<1> QED
  BY <1>1, <1>2, <1>4, <1>5 DEF fresh

(* The stripe is reused, or taken for a request or a sync.                  *)
LEMMA ServedTaken ==
  ASSUME NEW d, Served(d),
         \/ Evict \/ UnraidSync
         \/ \E i \in Data : Read(i) \/ Write(i)
  PROVE  Served(d)'
<1>1. /\ Inactive /\ SanityCheck /\ array' = array /\ media' = media /\ last' = last /\ event' = NoEvent
      /\ bi'.op # "written"
      /\ \/ col' = [i \in Cols |-> InitCol(i)] \/ col' = ActiveCols
         \/ col' = [i \in Cols |->
                     LET c == ActiveCols[i]
                     IN  [c EXCEPT !.uptodate = @ /\ ~ (~ Clearing /\ c.active /\ c.enabled /\ c.valid)]]
  <2>1. Inactive
    BY DEF Evict, UnraidSync, Read, Write, MakeRequest
  <2>2. bi.op = "none"
    BY <2>1, ServedFresh
  <2>3. CASE Evict
    BY <2>2, <2>3 DEF Evict
  <2>4. CASE UnraidSync
    BY <2>2, <2>4 DEF UnraidSync
  <2>5. ASSUME NEW i \in Data, NEW op \in {"read", "write"}, NEW v, NEW partial, MakeRequest(i, op, v, partial)
        PROVE  /\ SanityCheck /\ array' = array /\ media' = media /\ last' = last /\ event' = NoEvent
               /\ bi'.op # "written" /\ col' = ActiveCols
    BY <2>5 DEF MakeRequest
  <2>6. CASE \E i \in Data : Read(i) \/ Write(i)
    BY <2>1, <2>5, <2>6 DEF Read, Write
  <2> QED
    BY <2>1, <2>3, <2>4, <2>6
<1>2. /\ bug = FALSE /\ ~ sh.syncing /\ ~ sh.insync /\ ~ sh.clearing /\ bi.op = "none"
      /\ OnOwnDisks(array, media, [i \in Cols |-> InitCol(i)], d)
      /\ OnOwnDisks(array, media, ActiveCols, d)
  BY <1>1, ServedFresh
<1>3. WholeInv /\ Acked(d, last) /\ NoEvent \in Event /\ Answered(last', NoEvent)
  BY ServedFacts
<1>4. bug' = FALSE
  BY <1>1, <1>2 DEF SanityCheck
<1>5. Content(bi', d) = d
  BY <1>1 DEF Content
<1>6. OnOwnDisks(array, media, col', d)
  <2>1. CASE col' = [i \in Cols |-> InitCol(i)] \/ col' = ActiveCols
    BY <1>2, <2>1
  <2> DEFINE F(c) == [c EXCEPT !.uptodate = @ /\ ~ (~ Clearing /\ c.active /\ c.enabled /\ c.valid)]
  <2>2. CASE col' = [i \in Cols |-> F(ActiveCols[i])]
    <3> DEFINE a == ActiveCols
    <3>1. a \in [Cols -> ColState]
      BY <1>1, <1>3, WholeFresh DEF Inactive
    <3>2. \A c \in ColState : F(c).buf = c.buf /\ F(c).io = c.io /\ (F(c).uptodate => c.uptodate)
      BY DEF ColState
    <3> HIDE DEF F, a
    <3>3. \A i \in Cols : col'[i] = F(a[i]) /\ a[i] \in ColState
      BY <2>2, <3>1 DEF a
    <3>4. \A i \in Data : /\ col'[i].buf = a[i].buf /\ col'[i].io = a[i].io
                          /\ col'[i].uptodate => a[i].uptodate
      BY <3>2, <3>3, Columns
    <3>5. OnOwnDisks(array, media, a, d)
      BY <1>2 DEF a
    <3> QED
      BY <3>4, <3>5 DEF OnOwnDisks
  <2> QED
    BY <1>1, <2>1, <2>2
<1>7. Next
  BY DEF Next
<1> QED
  BY <1>1, <1>3, <1>4, <1>5, <1>6, <1>7, ServedFrame

(* Every step keeps Served, of the data then acknowledged.                  *)
LEMMA ServedNext ==
  ASSUME NEW d, Served(d), [Next]_vars
  PROVE  \E e : Served(e)'
<1>1. CASE Handle
  BY <1>1, ServedHandle
<1>2. ASSUME NEW i \in Cols, EndRequest(i) \/ OtherWriteError(i) PROVE Served(d)'
  BY <1>2, ServedEndIO, WholeNoErrors DEF EndRequest, Served
<1>3. CASE Evict \/ UnraidSync \/ \E i \in Data : Read(i) \/ Write(i)
  BY <1>3, ServedTaken
<1>4. ASSUME \/ OtherUpdate \/ NocheckArray \/ SignalCheck \/ RecoveryEnd
             \/ \E option, resume \in BOOLEAN : CheckArray(option, resume)
      PROVE  Served(d)'
  <2>1. UNCHANGED <<array, media, col, bi, last, bug>> /\ event' = NoEvent
    BY <1>4 DEF OtherUpdate, NocheckArray, SignalCheck, RecoveryEnd, CheckArray, stripeVars
  <2>2. Next
    BY <1>4 DEF Next
  <2> QED
    BY <2>1, <2>2, ServedFacts, ServedFrame
<1>5. CASE UNCHANGED vars
  <2>1. UNCHANGED <<array, media, col, bi, last, bug, event>>
    BY <1>5 DEF vars
  <2>2. event \in Event /\ Answered(last, event)
    BY Types DEF Served
  <2> QED
    BY <2>1, <2>2, ServedFacts, ServedFrame
<1> QED
  BY <1>1, <1>2, <1>3, <1>4, <1>5 DEF Next

(* The array as it is started: the data are zeros.                          *)
LEMMA ServedInit ==
  ASSUME Init, Whole(array)
  PROVE  Served([i \in Data |-> 0])
<1> DEFINE z == [i \in Data |-> 0]
<1>1. WholeInv
  BY WholeInit
<1>2. /\ array \in Arrays /\ sb = disk /\ media \in [Cols -> Elem] /\ bi = NoBio /\ update_sb = {}
      /\ num_disabled = Cardinality({i \in Cols : array.slots[i] = "dsbl"})
      /\ num_invalid = Cardinality({i \in Cols : array.slots[i] \in {"dsbl", "rebuild"}})
      /\ last = [i \in Data |-> {0}] /\ faults = 0 /\ event = NoEvent /\ bug = FALSE
      /\ array.faults \in Nat /\ num_new = 0 /\ col = [i \in Cols |-> InitCol(i)]
      /\ \A i \in Cols : media[i] # 0 => \/ i >= PD /\ ~ array.clean
                                         \/ array.slots[i] \in {"dsbl", "rebuild", "new"} /\ media[i] = 1
  BY <1>1, ArraysAssumption DEF Init, WholeInv, Array
<1>3. /\ col \in [Cols -> ColState] /\ media \in [Cols -> Elem] /\ bi \in Bio
      /\ sh \in ShBits /\ rec \in Recovery
      /\ \A i \in Cols : array.slots[i] \in {"ok", "short", "absent"}
      /\ \A i \in Cols : disk[i].active <=> array.slots[i] # "absent"
  BY <1>1, WholeFacts
<1>4. 0 \in Elem /\ 0 \in Data
  BY CodeAssumption DEF Elem, Data
<1>5. z \in [Data -> Elem] /\ Acked(z, last)
  <2>1. last = [i \in Data |-> {z[i]}]
    BY <1>2
  <2> QED
    BY <1>4, <2>1 DEF Acked
<1>6. num_disabled = 0 /\ num_invalid = 0
  <2>1. {i \in Cols : array.slots[i] = "dsbl"} = {} /\ {i \in Cols : array.slots[i] \in {"dsbl", "rebuild"}} = {}
    BY <1>3
  <2> QED
    BY <1>2, <2>1, FS_EmptySet
<1>7. Content(bi, z) = z
  BY <1>2 DEF Content, NoBio
<1>8. event \in Event /\ Answered(last, event)
  BY <1>2, <1>4 DEF NoEvent, Event, Answered
<1> HIDE DEF z
<1>9. disk \in [Cols -> DiskState]
  <2>1. disk = [i \in Cols |-> InitDisk(array.slots[i])]
    BY <1>1 DEF WholeInv
  <2> QED
    BY <2>1 DEF InitDisk, DiskState
<1>10. TypeOK
  <2>1. {num_disabled, num_invalid, num_new} \subseteq 0 .. NData + 2 /\ faults \in 0 .. array.faults
    BY <1>2, <1>6, CodeAssumption
  <2>2. last \in [Data -> SUBSET Elem]
    BY <1>2, <1>4
  <2> QED
    BY <1>2, <1>3, <1>8, <1>9, <2>1, <2>2 DEF TypeOK, ShBits, Recovery
<1>11. ASSUME NEW i \in Data
       PROVE  IF array.slots[i] = "ok" THEN media[i] = 0 /\ ~ col[i].uptodate /\ col[i].io = "none" ELSE z[i] = 0
  <2>1. i \in Cols /\ ~ (i >= PD)
    BY Columns, CodeAssumption DEF Data, PD
  <2>2. array.slots[i] = "ok" => media[i] = 0
    BY <1>2, <2>1
  <2>3. array.slots[i] = "ok" => ~ col[i].uptodate /\ col[i].io = "none"
    BY <1>2, <1>3, <2>1 DEF InitCol
  <2> QED
    BY <2>2, <2>3 DEF z
<1>12. OnOwnDisks(array, media, col, z)
  <2>1. \A i \in Data : z[i] = 0
    BY DEF z
  <2> QED
    BY <1>5, <1>11, <2>1 DEF OnOwnDisks
<1> QED
  BY <1>1, <1>2, <1>5, <1>7, <1>8, <1>10, <1>12 DEF Served, z

(* Whichever of the two holds at the start, for some data, holds for good.  *)
ServesInv == StripeInv \/ \E d : Served(d)

LEMMA ServesInvariant ==
  ASSUME \A a \in Arrays : Covered(a) \/ Whole(a)
  PROVE  Spec => []ServesInv
<1>1. Init => ServesInv
  <2> SUFFICES ASSUME Init PROVE ServesInv
    OBVIOUS
  <2>1. array \in Arrays
    BY DEF Init
  <2>2. CASE Covered(array)
    BY <2>2, InitInv DEF StripeInv, ServesInv
  <2>3. CASE Whole(array)
    BY <2>3, ServedInit DEF ServesInv
  <2> QED
    BY <2>1, <2>2, <2>3
<1>2. ServesInv /\ [Next]_vars => ServesInv'
  BY NextInv, ServedNext DEF StripeInv, ServesInv
<1> QED
  BY <1>1, <1>2, PTL DEF Spec

(* Every variable keeps its type.                                           *)
THEOREM StripeTyped ==
  ASSUME \A a \in Arrays : Covered(a) \/ Whole(a)
  PROVE  Spec => []TypeOK
<1>1. ServesInv => TypeOK
  BY DEF ServesInv, StripeInv, Inv, Served
<1> QED
  BY <1>1, ServesInvariant, PTL

(* A read that succeeds returns what the last acknowledged write put there, *)
(* whether it comes from the disk, from the cache or from a reconstruction, *)
(* and with no disk missing or failing whatever the parity.                 *)
THEOREM StripeReadsCurrent ==
  ASSUME \A a \in Arrays : Covered(a) \/ Whole(a)
  PROVE  Spec => []ReadsCurrent
<1>1. ServesInv => ReadsCurrent
  BY DEF ServesInv, StripeInv, Inv, EventGood, Served, Answered, ReadsCurrent
<1> QED
  BY <1>1, ServesInvariant, PTL

(* No request is failed by handle_stripe().                                 *)
THEOREM StripeNoRequestFails ==
  ASSUME \A a \in Arrays : Covered(a) \/ Whole(a)
  PROVE  Spec => []NoRequestFails
<1>1. ServesInv => NoRequestFails
  BY DEF ServesInv, StripeInv, Inv, EventGood, Served, Answered, NoRequestFails
<1> QED
  BY <1>1, ServesInvariant, PTL

(* Every calculation finds its source buffers up to date, and a stripe that *)
(* is reused has nothing attached to it.                                    *)
THEOREM StripeNoAssertionFails ==
  ASSUME \A a \in Arrays : Covered(a) \/ Whole(a)
  PROVE  Spec => []NoAssertionFails
<1>1. ServesInv => NoAssertionFails
  BY DEF ServesInv, StripeInv, Inv, Served, NoAssertionFails
<1> QED
  BY <1>1, ServesInvariant, PTL

-----------------------------------------------------------------------------
(* The stripe implements BlockStore: each step is a step of the block store *)
(* or leaves what it sees alone.                                            *)

(* What BlockStore sees of a step that answers no request.                  *)
LEMMA StaysInside ==
  ASSUME bi' = bi, last' = last, event' = NoEvent \/ event'.op = "sync"
  PROVE  Promise!Inside
<1>1. NoEvent.op # "sync" /\ NoEvent = Promise!NoAnswer
  BY DEF NoEvent, Promise!NoAnswer
<1> QED
  BY <1>1 DEF Promise!Inside

(* What the stripe has to do for that: requests are of its columns and come *)
(* one at a time, none fails, a write is made on top of the data d, which   *)
(* are those acknowledged, and a read returns acknowledged data.            *)
Promising(d) ==
  /\ bi \in Bio /\ Acked(d, last) /\ (Inactive => bi.op = "none")
  /\ ~ HandleFailRequest /\ ~ HandleSyncFail
  /\ HandleWrite => bi' = bi \/ TakesWrite(d)
  /\ event'.op = "read" => event'.val \in last'[event'.col]

(* As long as parity covers what is lost and fails, it does,                *)
LEMMA InvPromising ==
  ASSUME NEW broken, NEW d, Inv(broken, d), [Next]_vars
  PROVE  Promising(d)
<1>1. bi \in Bio /\ Acked(d, last)
  BY Types DEF Inv
<1>2. event'.op = "read" => event'.val \in last'[event'.col]
  <2>1. PICK more, e : Inv(more, e)'
    BY NextInv
  <2>2. EventGood(array', more, last', event')
    BY <2>1 DEF Inv
  <2> QED
    BY <2>2 DEF EventGood
<1>3. Inactive => bi.op = "none"
  BY InactiveFree
<1>4. ~ HandleFailRequest /\ ~ HandleSyncFail
  BY NothingFails
<1>5. HandleWrite => bi' = bi \/ TakesWrite(d)
  BY WriteStep
<1> QED
  BY <1>1, <1>2, <1>3, <1>4, <1>5 DEF Promising

(* and so it does without failures, whatever the parity.                    *)
LEMMA ServedPromising ==
  ASSUME NEW d, Served(d), [Next]_vars
  PROVE  Promising(d)
<1>1. bi \in Bio /\ Acked(d, last) /\ WholeInv
  BY ServedFacts
<1>2. event'.op = "read" => event'.val \in last'[event'.col]
  <2>1. PICK e : Served(e)'
    BY ServedNext
  <2> QED
    BY <2>1 DEF Served, Answered
<1>3. Inactive => bi.op = "none"
  BY <1>1, WholeInactive
<1>4. ~ HandleFailRequest /\ ~ HandleSyncFail
  BY <1>1, WholeFacts DEF HandleFailRequest, HandleSyncFail
<1>5. HandleWrite => bi' = bi \/ TakesWrite(d)
  BY ServedWrite
<1> QED
  BY <1>1, <1>2, <1>3, <1>4, <1>5 DEF Promising

(* A read is answered with what the store has.                              *)
LEMMA ReadPromised ==
  ASSUME NEW d, Promising(d), HandleRead
  PROVE  Promise!Inside \/ Promise!AnswerRead
<1>1. /\ bi.op = "read" /\ last' = last
      /\ \/ bi' = bi /\ event' = NoEvent
         \/ \E v : bi' = NoBio /\ event' = [op |-> "read", ok |-> TRUE, col |-> bi.col, val |-> v]
  BY DEF HandleRead, Return
<1>2. CASE bi' = bi /\ event' = NoEvent
  BY <1>1, <1>2, StaysInside
<1>3. ASSUME NEW v, bi' = NoBio, event' = [op |-> "read", ok |-> TRUE, col |-> bi.col, val |-> v]
      PROVE  Promise!AnswerRead
  <2>1. v \in last[bi.col]
    BY <1>1, <1>3 DEF Promising
  <2> QED
    BY <1>1, <1>3, <2>1 DEF Promise!AnswerRead, Promise!None, NoBio
<1> QED
  BY <1>1, <1>2, <1>3

(* A write is taken on top of what the store has.                           *)
LEMMA WritePromised ==
  ASSUME NEW d, Promising(d), HandleWrite
  PROVE  Promise!Inside \/ Promise!Take
<1>1. bi.op = "write" /\ last' = last /\ event' = NoEvent /\ (bi' = bi \/ TakesWrite(d))
  BY DEF Promising, HandleWrite
<1>2. CASE bi' = bi
  BY <1>1, <1>2, StaysInside
<1>3. CASE TakesWrite(d)
  <2>1. bi \in Bio /\ Acked(d, last)
    BY DEF Promising
  <2>2. bi.col \in Data /\ bi.val \in Elem /\ d \in [Data -> Elem] /\ last[bi.col] = {d[bi.col]}
    BY <2>1 DEF Bio, Acked
  <2>3. Written(d)[bi.col] = IF bi.partial THEN (d[bi.col] + bi.val) % Order ELSE bi.val
    BY <2>2, WrittenData
  <2>4. /\ bi'.op = "written" /\ bi'.col = bi.col /\ bi'.partial = bi.partial
        /\ bi'.val = IF bi.partial THEN (d[bi.col] + bi.val) % Order ELSE bi.val
    BY <1>3, <2>1, <2>3 DEF TakesWrite, Bio
  <2>5. NoEvent = Promise!NoAnswer /\ NoEvent.op # "sync"
    BY DEF NoEvent, Promise!NoAnswer
  <2>6. d[bi.col] \in last[bi.col]
    BY <2>2
  <2> DEFINE r == [op |-> bi.op, col |-> bi.col, val |-> bi.val, partial |-> bi.partial]
             n == IF bi.partial THEN (d[bi.col] + bi.val) % Order ELSE bi.val
  <2>7. r' = [op |-> "written", col |-> bi.col, val |-> n, partial |-> bi.partial]
    BY <2>4
  <2> HIDE DEF n
  <2>8. r' = [r EXCEPT !.op = "written", !.val = n]
    <3> DEFINE R == [op : {"none", "read", "write", "written"}, col : Data, val : Elem,
                     partial : BOOLEAN]
    <3>1. r \in R
      BY <2>1 DEF Bio
    <3>2. \A e \in R : [e EXCEPT !.op = "written"]
                         = [op |-> "written", col |-> e.col, val |-> e.val, partial |-> e.partial]
      OBVIOUS
    <3>3. r.col = bi.col /\ r.val = bi.val /\ r.partial = bi.partial
      OBVIOUS
    <3> HIDE DEF r, R
    <3> DEFINE s == [op |-> "written", col |-> bi.col, val |-> bi.val, partial |-> bi.partial]
    <3>4. [r EXCEPT !.op = "written"] = s
      BY <3>1, <3>2, <3>3
    <3>5. [s EXCEPT !.val = n]
            = [op |-> "written", col |-> bi.col, val |-> n, partial |-> bi.partial]
      OBVIOUS
    <3> HIDE DEF s
    <3> QED
      BY <2>7, <3>4, <3>5
  <2>9. (IF event.op = "sync" THEN NoEvent ELSE event)' = Promise!NoAnswer
    BY <1>1, <2>5
  <2>10. r.op = "write" /\ r.col = bi.col /\ r.val = bi.val /\ r.partial = bi.partial
    BY <1>1
  <2>11. Promise!Take
    <3> HIDE DEF r
    <3>1. \E old \in last[r.col] :
            r' = [r EXCEPT !.op = "written", !.val = IF r.partial THEN (old + r.val) % Order ELSE r.val]
      BY <2>6, <2>8, <2>10 DEF n
    <3> QED
      BY <1>1, <2>9, <2>10, <3>1 DEF Promise!Take, r
  <2> QED
    BY <2>11
<1> QED
  BY <1>1, <1>2, <1>3

(* A write taken is answered.                                               *)
LEMMA WrittenPromised ==
  ASSUME HandleWritten
  PROVE  Promise!Inside \/ Promise!AnswerWrite
<1>1. /\ bi.op = "written"
      /\ \/ bi' = bi /\ last' = last /\ event' = NoEvent
         \/ /\ bi' = NoBio /\ last' = [last EXCEPT ![bi.col] = {bi.val}]
            /\ event' = [op |-> "write", ok |-> TRUE, col |-> bi.col, val |-> bi.val]
  BY DEF HandleWritten, Return
<1>2. CASE bi' = bi /\ last' = last /\ event' = NoEvent
  BY <1>2, StaysInside
<1>3. CASE /\ bi' = NoBio /\ last' = [last EXCEPT ![bi.col] = {bi.val}]
           /\ event' = [op |-> "write", ok |-> TRUE, col |-> bi.col, val |-> bi.val]
  BY <1>1, <1>3 DEF Promise!AnswerWrite, Promise!None, NoBio
<1> QED
  BY <1>1, <1>2, <1>3

(* All of handle_stripe().                                                  *)
LEMMA HandlePromised ==
  ASSUME NEW d, Promising(d), Handle
  PROVE  Promise!Next
<1>1. CASE HandleRead
  BY <1>1, ReadPromised DEF Promise!Next
<1>2. CASE HandleWrite
  BY <1>2, WritePromised DEF Promise!Next
<1>3. CASE HandleWritten
  BY <1>3, WrittenPromised DEF Promise!Next
<1>4. CASE HandleSync \/ HandleClear \/ HandleSyncDone \/ HandleNothing
  <2>1. bi' = bi /\ last' = last /\ (event' = NoEvent \/ event'.op = "sync")
    BY <1>4 DEF HandleSync, HandleClear, HandleSyncDone, HandleNothing, SyncOutcome, NoEvent
  <2> QED
    BY <2>1, StaysInside DEF Promise!Next
<1> QED
  BY <1>1, <1>2, <1>3, <1>4 DEF Promising, Handle

(* A request that arrives is submitted.                                     *)
LEMMA RequestPromised ==
  ASSUME NEW d, Promising(d), NEW i \in Data, NEW op \in {"read", "write"},
         NEW v \in Elem, NEW partial \in BOOLEAN, MakeRequest(i, op, v, partial)
  PROVE  Promise!Submit
<1>1. bi.op = "none"
  BY DEF Promising, MakeRequest
<1>2. last' = last /\ event' = NoEvent /\ NoEvent = Promise!NoAnswer /\ NoEvent.op # "sync"
  BY DEF MakeRequest, NoEvent, Promise!NoAnswer
<1>3. bi'.op = op /\ bi'.col = i /\ bi'.val = v /\ bi'.partial = partial
  BY DEF MakeRequest
<1>4. Promise!Contents = Elem
  BY DEF Promise!Contents, Elem
<1> QED
  BY <1>1, <1>2, <1>3, <1>4 DEF Promise!Submit, Promise!Request

(* Every step.                                                              *)
LEMMA NextPromised ==
  ASSUME NEW d, Promising(d), [Next]_vars
  PROVE  [Promise!Next]_(Promise!vars)
<1> DEFINE Quietly == bi' = bi /\ last' = last /\ event' = NoEvent
<1>1. ASSUME Quietly PROVE Promise!Next
  BY <1>1, StaysInside DEF Promise!Next
<1>2. CASE Handle
  BY <1>2, HandlePromised
<1>3. ASSUME NEW i \in Cols, EndRequest(i) \/ OtherWriteError(i) PROVE Quietly
  BY <1>3 DEF EndRequest, EndReadOK, EndReadError, EndWriteOK, EndWriteError, EndIO, OtherWriteError
<1>4. ASSUME NEW i \in Data, Read(i) \/ Write(i) PROVE Promise!Next
  <2>1. 0 \in Elem /\ WriteVals \subseteq Elem
    BY StripeAssumption, CodeAssumption DEF Elem
  <2>2. Promise!Submit
    BY <1>4, <2>1, RequestPromised DEF Read, Write
  <2> QED
    BY <2>2 DEF Promise!Next
<1>5. ASSUME NEW option \in BOOLEAN, NEW resume \in BOOLEAN, CheckArray(option, resume) PROVE Quietly
  BY <1>5 DEF CheckArray, stripeVars
<1>6. CASE OtherUpdate \/ Evict \/ NocheckArray \/ UnraidSync \/ SignalCheck \/ RecoveryEnd
  <2>1. Quietly
    BY <1>6 DEF OtherUpdate, Evict, NocheckArray, UnraidSync, SignalCheck, RecoveryEnd, stripeVars
  <2> QED
    BY <1>1, <2>1
<1>7. CASE UNCHANGED vars
  BY <1>7 DEF vars, Promise!vars
<1> HIDE DEF Quietly
<1> QED
  BY <1>1, <1>2, <1>3, <1>4, <1>5, <1>6, <1>7 DEF Next

(* What the stripe answers, with disks failing, being rebuilt and checked,  *)
(* or with any parity and no disk failing, is what a block store that never *)
(* fails a request could answer.                                            *)
THEOREM StripeImplementsBlockStore ==
  ASSUME \A a \in Arrays : Covered(a) \/ Whole(a)
  PROVE  Spec => ImplementsBlockStore
<1>1. Init => Promise!Init
  <2> SUFFICES ASSUME Init PROVE Promise!Init
    OBVIOUS
  <2>1. last = [i \in Data |-> {0}] /\ bi = NoBio /\ event = NoEvent
    BY DEF Init
  <2> QED
    BY <2>1 DEF Promise!Init, Promise!None, Promise!NoAnswer, NoBio, NoEvent
<1>2. ServesInv /\ [Next]_vars => [Promise!Next]_(Promise!vars)
  BY InvPromising, ServedPromising, NextPromised DEF StripeInv, ServesInv
<1>3. Spec => []ServesInv
  BY ServesInvariant
<1> QED
  BY <1>1, <1>2, <1>3, PTL DEF Spec, ImplementsBlockStore, Promise!Spec
=============================================================================
