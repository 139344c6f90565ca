---------------------------- MODULE DriverProofs ----------------------------
(***************************************************************************)
(* What a flush promises, proved for any disks, any number of processes    *)
(* that send commands and any number of open devices and failing disks:    *)
(* no disk that is valid when it is answered was left out, as long as no   *)
(* rebuild ends in the middle of it.                                       *)
(***************************************************************************)
EXTENDS Driver, RecoveryProofs

(* Nobody stops an array with an open device.                               *)
StopFindsNoUser == Stopping => opens = 0

(* What handle_flush() and end_flush() make of the counts.                  *)
FlushCounted ==
  /\ sent \subseteq F!Targets /\ flush_todo \subseteq F!Targets /\ sent \cap flush_todo = {}
  /\ at \in {"none", "send", "wait", "work"}
  /\ at # "send" => flush_todo = {}
  /\ at \notin {"send", "wait"} => sent = {}
  /\ at = "send" => flush_pending = Cardinality(sent) + 1
  /\ at = "wait" => flush_pending = Cardinality(sent)

(* While a flush is under way the array runs, with its device open.         *)
FlushHeld == at # "none" => private /\ opens > 0

(* The disks that the flush still owes something to.                        *)
Owed ==
  /\ due \subseteq F!Targets
  /\ at # "none" => due \cap valid \subseteq flush_todo \cup sent

DriverInv == Control /\ StopFindsNoUser /\ FlushCounted /\ FlushHeld /\ Owed

(* The disks a flush goes to are finitely many.                             *)
LEMMA TargetsFinite == F!Targets \subseteq Disks /\ \A S \in SUBSET F!Targets : IsFiniteSet(S)
<1>1. F!Targets \subseteq Disks
  BY DriverAssumption, RecoveryAssumption DEF F!Targets
<1> QED
  BY <1>1, RecoveryAssumption, FS_Subset

(* handle_flush() comes to each disk.                                       *)
LEMMA NextTargetIn ==
  ASSUME flush_todo \subseteq F!Targets, flush_todo # {}
  PROVE  F!NextTarget \in flush_todo
<1>1. CASE Unit \in flush_todo
  BY <1>1 DEF F!NextTarget
<1>2. CASE Unit \notin flush_todo
  <2>1. flush_todo \subseteq Parity /\ Parity # {}
    BY <1>2 DEF F!Targets
  <2>2. PICK q \in Parity : Parity = {P, q}
    BY DriverAssumption
  <2>3. P \in Nat /\ q \in Nat
    BY <2>2, RecoveryAssumption
  <2>4. \E m \in flush_todo : \A o \in flush_todo : m <= o
    <3>1. flush_todo = {P} \/ flush_todo = {q} \/ flush_todo = {P, q}
      BY <2>1, <2>2
    <3> QED
      BY <2>3, <3>1
  <2> QED
    BY <1>2, <2>4 DEF F!NextTarget
<1> QED
  BY <1>1, <1>2

---------------------------------------------------------------------------
(* What the steps of module Recovery do to what the flushes see.            *)

(* While somebody stops the array no device is open.                        *)
LEMMA StopFindsNoUserNext ==
  ASSUME Control, "open" \notin Windows, StopFindsNoUser, [Next]_vars
  PROVE  StopFindsNoUser'
<1> USE DEF StopFindsNoUser
<1>0. ControlTypes
  BY DEF Control
<1>1. CASE ThreadStep
  BY <1>0, <1>1, ThreadEffect DEF Stopping
<1>2. CASE \E f \in flight : md_sync_done(f)
  BY <1>2 DEF md_sync_done, Stopping
<1>3. CASE \E d \in Disks : \E r \in Regions(d) : md_write_error(d, r)
  BY <1>3 DEF md_write_error, Stopping
<1>4. ASSUME NEW p \in Writers, CommandStep(p) \/ StopWaits(p) \/ StatusClears(p)
      PROVE  StopFindsNoUser'
  <2>1. UNCHANGED opens
    BY <1>4 DEF CommandStep, StopWaits, CheckKicks, StopUnlocks, StopResets, do_stop,
       StatusSums, StatusClears
  <2>2. \/ Return(p)
        \/ Goto(p, "status", "sum")
        \/ cmd[p].op \in {"stop", "cancel", "pause"} /\ Goto(p, cmd[p].op, "held")
        \/ cmd[p].op \in {"stop", "cancel", "pause"} /\ Goto(p, cmd[p].op, "reset")
        \/ cmd[p].op = "stop" /\ Goto(p, "stop", "free")
    BY <1>4 DEF CommandStep, StopWaits, CheckKicks, StopUnlocks, StopResets, do_stop,
       StatusSums, StatusClears, At
  <2>3. /\ \A q \in Writers \ {p} : cmd'[q] = cmd[q]
        /\ cmd'[p].op \in {"none", "status", cmd[p].op}
    BY <1>0, <2>2, CommandMoves DEF Ops, Ats
  <2>4. Stopping' => Stopping
    BY <2>3 DEF Stopping
  <2> QED
    BY <2>1, <2>4
<1>5. ASSUME NEW p \in Writers, NEW op \in {"check", "resume"}, CheckTests(p, op)
      PROVE  StopFindsNoUser'
  <2>1. UNCHANGED opens /\ (cmd' = cmd \/ Goto(p, op, "kick"))
    BY <1>5 DEF CheckTests
  <2>2. CASE cmd' = cmd
    BY <2>1, <2>2 DEF Stopping
  <2>3. CASE Goto(p, op, "kick")
    <3>1. /\ \A q \in Writers \ {p} : cmd'[q] = cmd[q]
          /\ cmd'[p].op = op
      BY <1>0, <2>3, CommandMoves DEF Ops, Ats
    <3> QED
      BY <2>1, <3>1 DEF Stopping
  <2> QED
    BY <2>1, <2>2, <2>3
<1>6. ASSUME NEW p \in Writers, NEW op \in {"stop", "cancel", "pause"}, StopTests(p, op)
      PROVE  StopFindsNoUser'
  <2>1. /\ UNCHANGED opens
        /\ cmd' = cmd \/ (Goto(p, op, "mutex") /\ (op = "stop" => opens = 0))
    BY <1>6 DEF StopTests
  <2>2. CASE cmd' = cmd
    BY <2>1, <2>2 DEF Stopping
  <2>3. CASE Goto(p, op, "mutex") /\ (op = "stop" => opens = 0)
    <3>1. /\ \A q \in Writers \ {p} : cmd'[q] = cmd[q]
          /\ cmd'[p].op = op
      BY <1>0, <2>3, CommandMoves DEF Ops, Ats
    <3>2. Stopping' => Stopping \/ op = "stop"
      BY <3>1 DEF Stopping
    <3> QED
      BY <2>1, <2>3, <3>2
  <2> QED
    BY <2>1, <2>2, <2>3
<1>7. ASSUME NEW p \in Writers, NEW R, NEW W, NEW N, Start(p, R, W, N)
      PROVE  StopFindsNoUser'
  BY <1>7 DEF Start, Stopping
<1>8. CASE md_open
  <2>1. ~ Stopping'
    BY <1>8 DEF md_open, None, Stopping
  <2> QED
    BY <2>1
<1>9. CASE md_release
  <2>1. opens > 0 /\ UNCHANGED cmd
    BY <1>9 DEF md_release
  <2> QED
    BY <2>1 DEF Stopping
<1>10. CASE UNCHANGED vars
  BY <1>10 DEF vars, Stopping
<1> QED
  BY <1>1, <1>2, <1>3, <1>4, <1>5, <1>6, <1>7, <1>8, <1>9, <1>10 DEF Next, Users

(* An array that runs is stopped only by a "stop".                          *)
LEMMA RunningStays ==
  ASSUME Control, private, ~ Stopping, [Next]_vars
  PROVE  private'
<1>0. ControlTypes
  BY DEF Control
<1>1. CASE ThreadStep
  BY <1>0, <1>1, ThreadEffect
<1>2. CASE \E f \in flight : md_sync_done(f)
  BY <1>2 DEF md_sync_done
<1>3. CASE \E d \in Disks : \E r \in Regions(d) : md_write_error(d, r)
  BY <1>3 DEF md_write_error
<1>4. ASSUME NEW p \in Writers, CommandStep(p) \/ StopWaits(p) \/ StatusClears(p)
      PROVE  private'
  BY <1>4 DEF CommandStep, StopWaits, CheckKicks, StopUnlocks, StopResets, do_stop, At,
     StatusSums, StatusClears, Stopping
<1>5. ASSUME NEW p \in Writers, \/ \E op \in {"check", "resume"} : CheckTests(p, op)
                                \/ \E op \in {"stop", "cancel", "pause"} : StopTests(p, op)
      PROVE  private'
  BY <1>5 DEF CheckTests, StopTests
<1>6. ASSUME NEW p \in Writers, NEW R, NEW W, NEW N, Start(p, R, W, N)
      PROVE  private'
  BY <1>6 DEF Start
<1>7. CASE md_open \/ md_release
  BY <1>7 DEF md_open, md_release
<1>8. CASE UNCHANGED vars
  BY <1>8 DEF vars
<1> QED
  BY <1>1, <1>2, <1>3, <1>4, <1>5, <1>6, <1>7, <1>8 DEF Next, Users

(* Steps of the others keep what a flush relies on.                         *)
LEMMA BesideKeeps ==
  ASSUME DriverInv, "late" \notin Windows, "open" \notin Windows, "rebuilt" \notin Windows,
         Next, Beside
  PROVE  DriverInv'
<1> USE DEF DriverInv
<1>1. Control' /\ StopFindsNoUser'
  BY ControlNext, StopFindsNoUserNext
<1>2. opens \in Nat /\ opens' \in Nat
  BY <1>1 DEF Control, ControlTypes
<1>3. UNCHANGED <<at, sent, flush_todo, flush_pending, due>>
  BY DEF Beside, flushVars
<1>4. FlushCounted'
  BY <1>3 DEF FlushCounted, F!Targets
<1>5. FlushHeld'
  <2>1. SUFFICES ASSUME at # "none"
                 PROVE  private' /\ opens' > 0
    BY <1>3 DEF FlushHeld
  <2>2. private /\ opens > 0 /\ ~ Stopping
    BY <2>1 DEF FlushHeld, StopFindsNoUser
  <2>3. private'
    BY <2>2, RunningStays
  <2>4. opens' > 0
    BY <1>2, <2>1, <2>2 DEF Beside
  <2> QED
    BY <2>3, <2>4
<1>6. Owed'
  <2>1. at # "none" => F!Targets \cap (valid' \ valid) \subseteq flush_todo
    BY DEF Beside, FlushHeld
  <2> QED
    BY <1>3, <2>1 DEF Owed, F!Targets
<1> QED
  BY <1>1, <1>4, <1>5, <1>6

---------------------------------------------------------------------------
(* The steps of a flush. *)

(* Steps of the flush keep it.                                              *)
LEMMA FlushKeeps ==
  ASSUME DriverInv, FlushPart
  PROVE  DriverInv'
<1> USE DEF DriverInv
<1>0. UNCHANGED vars
  BY DEF FlushPart
<1>1. Control'
  BY <1>0 DEF vars, Control, ControlTypes, OneHolder, NotWoken, Waited, Stopped, Stopping, Checking
<1>2. StopFindsNoUser' /\ (private' <=> private) /\ opens' = opens /\ valid' = valid
  BY <1>0 DEF vars, StopFindsNoUser, Stopping
<1>3. sent \subseteq F!Targets /\ IsFiniteSet(sent) /\ Cardinality(sent) \in Nat
  BY TargetsFinite, FS_CardinalityType DEF FlushCounted
<1>4. /\ Cardinality(sent) = 0 <=> sent = {}
      /\ \A d \in sent : Cardinality(sent \ {d}) = Cardinality(sent) - 1
      /\ \A d : d \notin sent => Cardinality(sent \cup {d}) = Cardinality(sent) + 1
  BY <1>3, FS_EmptySet, FS_AddElement, CardinalityLess
<1>5. CASE F!handle_flush
  <2>1. /\ private /\ opens > 0 /\ at = "none" /\ at' = "send"
        /\ flush_todo' = F!Targets /\ sent' = {} /\ flush_pending' = 1
        /\ due' = F!Targets
    BY <1>5 DEF F!handle_flush
  <2>2. Cardinality(sent') = 0
    BY <2>1, FS_EmptySet
  <2>3. FlushCounted'
    BY <2>1, <2>2 DEF FlushCounted, F!Targets
  <2>4. FlushHeld' /\ Owed'
    BY <1>2, <2>1 DEF FlushHeld, Owed, F!Targets
  <2> QED
    BY <1>1, <1>2, <2>3, <2>4
<1>6. CASE F!submit_flush_bio
  <2>1. at = "send" /\ flush_todo # {} /\ F!NextTarget \in flush_todo
    BY <1>6, NextTargetIn DEF F!submit_flush_bio, FlushCounted
  <2>2. /\ UNCHANGED <<at, due>>
        /\ flush_todo' = flush_todo \ {F!NextTarget}
        /\ IF F!NextTarget \in valid
           THEN sent' = sent \cup {F!NextTarget} /\ flush_pending' = flush_pending + 1
           ELSE UNCHANGED <<sent, flush_pending>>
    BY <1>6 DEF F!submit_flush_bio
  <2>3. F!NextTarget \notin sent
    BY <2>1 DEF FlushCounted
  <2>4. FlushCounted'
    BY <1>3, <1>4, <2>1, <2>2, <2>3 DEF FlushCounted, F!Targets
  <2>5. FlushHeld' /\ Owed'
    BY <1>2, <2>1, <2>2 DEF FlushHeld, Owed, F!Targets
  <2> QED
    BY <1>1, <1>2, <2>4, <2>5
<1>7. CASE F!SentAll
  <2>1. /\ at = "send" /\ flush_todo = {} /\ flush_pending' = flush_pending - 1
        /\ at' = IF flush_pending' = 0 THEN "work" ELSE "wait"
        /\ UNCHANGED <<flush_todo, sent, due>>
    BY <1>7 DEF F!SentAll
  <2>2. flush_pending' = Cardinality(sent)
    BY <1>3, <2>1 DEF FlushCounted
  <2>3. FlushCounted'
    BY <1>4, <2>1, <2>2 DEF FlushCounted, F!Targets
  <2>4. FlushHeld' /\ Owed'
    BY <1>2, <2>1 DEF FlushHeld, Owed, F!Targets
  <2> QED
    BY <1>1, <1>2, <2>3, <2>4
<1>8. ASSUME NEW d \in sent, F!end_flush(d)
      PROVE  DriverInv'
  <2>1. /\ sent' = sent \ {d} /\ flush_pending' = flush_pending - 1
        /\ at' = IF flush_pending' = 0 THEN "work" ELSE at
        /\ due' = due \ {d} /\ UNCHANGED flush_todo /\ at \in {"send", "wait"}
    BY <1>8 DEF F!end_flush, FlushCounted
  <2>2. Cardinality(sent') = Cardinality(sent) - 1 /\ Cardinality(sent) # 0
    BY <1>4, <2>1
  <2>3. Cardinality(sent') = 0 => sent' = {}
    BY <1>3, <2>1, FS_Subset, FS_EmptySet
  <2>4. FlushCounted'
    BY <1>3, <2>1, <2>2, <2>3 DEF FlushCounted, F!Targets
  <2>5. FlushHeld' /\ Owed'
    BY <1>2, <2>1 DEF FlushHeld, Owed, F!Targets
  <2> QED
    BY <1>1, <1>2, <2>4, <2>5
<1>9. CASE F!submit_flush_data
  <2>1. at = "work" /\ at' = "none" /\ due' = {} /\ UNCHANGED <<flush_todo, sent, flush_pending>>
    BY <1>9 DEF F!submit_flush_data
  <2> QED
    BY <1>1, <1>2, <2>1 DEF FlushCounted, FlushHeld, Owed, F!Targets
<1> QED
  BY <1>5, <1>6, <1>7, <1>8, <1>9 DEF FlushPart, F!FlushNext, F!FlushStep

(* It holds at first.                                                       *)
LEMMA DriverInvInit == DriverInit => DriverInv
<1> SUFFICES ASSUME DriverInit PROVE DriverInv
  OBVIOUS
<1>1. Control
  BY ControlInit DEF DriverInit
<1>2. StopFindsNoUser
  BY DEF DriverInit, Init, StopFindsNoUser
<1>3. FlushCounted /\ FlushHeld /\ Owed
  BY DEF DriverInit, F!FlushInit, FlushCounted, FlushHeld, Owed
<1> QED
  BY <1>1, <1>2, <1>3 DEF DriverInv

(* Every step keeps it.                                                     *)
LEMMA DriverInvNext ==
  ASSUME DriverInv, "late" \notin Windows, "open" \notin Windows, "rebuilt" \notin Windows,
         [DriverNext]_driverVars
  PROVE  DriverInv'
<1>1. CASE Next /\ Beside
  BY <1>1, BesideKeeps
<1>2. CASE FlushPart
  BY <1>2, FlushKeeps
<1>3. CASE UNCHANGED driverVars
  BY <1>3 DEF driverVars, vars, flushVars, DriverInv, Control, ControlTypes, OneHolder,
     NotWoken, Waited, Stopped, Stopping, Checking, StopFindsNoUser, FlushCounted,
     FlushHeld, Owed, F!Targets
<1> QED
  BY <1>1, <1>2, <1>3 DEF DriverNext

(* When a flush is answered every disk that then is valid has written what  *)
(* was in its cache: whatever disks fail or are rebuilt while               *)
(* handle_flush() goes from one to the next, and whatever the commands do,  *)
(* for "check" and "stop" that keep apart, devices that are not opened in   *)
(* the middle of a "stop", and a rebuild that does not end between          *)
(* handle_flush()'s test of its disk and the answer, which is where the     *)
(* code leaves a valid disk out.                                            *)
THEOREM DriverFlushCovers ==
  ASSUME "late" \notin Windows, "open" \notin Windows, "rebuilt" \notin Windows
  PROVE  DriverSpec => []FlushCovers
<1>1. DriverInit => DriverInv
  BY DriverInvInit
<1>2. DriverInv /\ [DriverNext]_driverVars => DriverInv'
  BY DriverInvNext
<1>3. DriverInv => FlushCovers
  BY DEF DriverInv, FlushCounted, Owed, FlushCovers
<1> QED
  BY <1>1, <1>2, <1>3, PTL DEF DriverSpec
=============================================================================
