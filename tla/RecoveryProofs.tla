--------------------------- MODULE RecoveryProofs ---------------------------
(***************************************************************************)
(* What the handshake between the recovery thread and the commands keeps   *)
(* safe, proved for any disks, any number of processes that send commands  *)
(* and any number of commands, errors and open devices, as long as the     *)
(* races named in Windows are not met.                                     *)
(***************************************************************************)
EXTENDS Recovery, TLAPS, FiniteSetTheorems, WellFoundedInduction

Locked == {"locked", "sync", "advance", "drain", "mark", "record"}
PCs == {"loop", "wait", "run", "lock"} \cup Locked
Ats == {"-", "kick", "mutex", "held", "reset", "free", "sum"}

ControlTypes ==
  /\ private \in BOOLEAN /\ opens \in Nat /\ wakeup \in BOOLEAN /\ pc \in PCs
  /\ cmd \in [Writers -> [op : Ops \cup {"none"}, at : Ats]]

(* recovery_sem has one holder, who is where the code has it.               *)
OneHolder ==
  /\ sem = Thread <=> pc \in Locked
  /\ \A p \in Writers : sem = p <=> cmd[p].at = "held"

Stopping == \E p \in Writers : cmd[p].op = "stop"
Checking == \E p \in Writers : cmd[p].op \in {"check", "resume"}

(* While somebody stops the array nobody can wake the thread, and once the  *)
(* mutex was had the thread is idle.                                        *)
NotWoken == Stopping => ~ wakeup /\ pc \notin {"run", "lock"} /\ ~ Checking
Waited ==
  \A p \in Writers : cmd[p].op = "stop" /\ cmd[p].at \in {"held", "reset", "free"}
                     => pc \in {"loop", "wait"}

(* A stopped array has an idle thread, which nobody can wake.               *)
Stopped == ~ private => pc \in {"loop", "wait"} /\ ~ wakeup /\ ~ Checking

Control == ControlTypes /\ OneHolder /\ NotWoken /\ Waited /\ Stopped

(* The control of the recovery thread is consistent at first.               *)
LEMMA ControlInit == Init => Control
<1> SUFFICES ASSUME Init PROVE Control
  OBVIOUS
<1> USE RecoveryAssumption DEF Init
<1>1. ControlTypes
  BY DEF ControlTypes, PCs, Locked, Ats, Ops, Idle
<1>2. OneHolder
  BY DEF OneHolder, Locked, Free, Thread, Idle
<1>3. NotWoken /\ Waited /\ Stopped
  BY DEF NotWoken, Waited, Stopped, Stopping, Checking, Idle
<1> QED
  BY <1>1, <1>2, <1>3 DEF Control

(* What the thread's own steps do to the variables of Control.              *)
Wakes  == pc = "wait" /\ wakeup /\ wakeup' = FALSE /\ pc' = "run" /\ sem' = sem
Rests  == /\ pc \in {"loop", "wait"} /\ pc' \in {"loop", "wait"}
          /\ sem' = sem /\ wakeup' = wakeup
Runs   == /\ pc = "run" /\ pc' \in {"loop", "lock"} /\ sem' = sem /\ wakeup' = wakeup
Locks  == /\ pc = "lock" /\ wakeup' = wakeup
          /\ \/ sem = Free /\ sem' = Thread /\ pc' = "locked"
             \/ sem' = sem /\ pc' = "loop"
Works  == pc \in Locked /\ pc' \in Locked /\ sem' = sem /\ wakeup' = wakeup
Leaves == pc = "record" /\ pc' = "loop" /\ sem' = Free /\ wakeup' = wakeup

(* What a step of the thread can do, and that it does not touch the         *)
(* commands.                                                                *)
LEMMA ThreadEffect ==
  ASSUME ControlTypes, ThreadStep
  PROVE  /\ UNCHANGED <<private, opens, cmd>>
         /\ Wakes \/ Rests \/ Runs \/ Locks \/ Works \/ Leaves
<1> USE DEF Now
<1>1. CASE ThreadFlushes
  BY <1>1 DEF ThreadFlushes, Rests
<1>2. CASE ThreadWakes
  <2>1. CASE wakeup
    BY <1>2, <2>1 DEF ThreadWakes, Wakes
  <2>2. CASE ~ wakeup
    <3>1. wakeup = FALSE
      BY <2>2 DEF ControlTypes
    <3> QED
      BY <1>2, <3>1 DEF ThreadWakes, Rests
  <2> QED
    BY <2>1, <2>2
<1>3. CASE ThreadChecksSize
  BY <1>3 DEF ThreadChecksSize, Runs
<1>4. CASE ThreadLocks
  BY <1>4 DEF ThreadLocks, Locks
<1>5. CASE \/ ThreadBegins \/ unraid_sync \/ ThreadAdvances \/ ThreadEndsLoop \/ ThreadDrained
           \/ ThreadTests \/ ThreadMarks \/ ThreadResets
  BY <1>5 DEF ThreadBegins, unraid_sync, ThreadAdvances, ThreadEndsLoop, ThreadDrained,
     ThreadTests, ThreadMarks, ThreadResets, Works, Locked
<1>6. CASE ThreadEnds
  BY <1>6 DEF ThreadEnds, Leaves
<1> QED
  BY <1>1, <1>2, <1>3, <1>4, <1>5, <1>6 DEF ThreadStep

(* A step of the thread keeps its control consistent.                       *)
LEMMA ControlThread ==
  ASSUME Control, ThreadStep
  PROVE  Control'
<1> USE RecoveryAssumption DEF Control
<1>1. UNCHANGED <<private, opens, cmd>>
  BY ThreadEffect
<1>2. Wakes \/ Rests \/ Runs \/ Locks \/ Works \/ Leaves
  BY ThreadEffect
<1>3. ControlTypes'
  BY <1>1, <1>2 DEF ControlTypes, Wakes, Rests, Runs, Locks, Works, Leaves, PCs, Locked
<1>4. OneHolder'
  BY <1>1, <1>2 DEF OneHolder, Wakes, Rests, Runs, Locks, Works, Leaves, Locked, Free, Thread
<1>5. (Stopping' <=> Stopping) /\ (Checking' <=> Checking)
  BY <1>1 DEF Stopping, Checking
<1>6. NotWoken'
  BY <1>2, <1>5 DEF NotWoken, Wakes, Rests, Runs, Locks, Works, Leaves, Locked
<1>7. Waited'
  <2> SUFFICES ASSUME NEW p \in Writers, cmd[p].op = "stop", cmd[p].at \in {"held", "reset", "free"}
               PROVE  pc' \in {"loop", "wait"}
    BY <1>1 DEF Waited
  <2>1. pc \in {"loop", "wait"} /\ ~ wakeup
    BY DEF Waited, NotWoken, Stopping
  <2> QED
    BY <1>2, <2>1 DEF Wakes, Rests, Runs, Locks, Works, Leaves, Locked
<1>8. Stopped'
  BY <1>1, <1>2, <1>5 DEF Stopped, Wakes, Rests, Runs, Locks, Works, Leaves, Locked
<1> QED
  BY <1>3, <1>4, <1>6, <1>7, <1>8

(* What moves a command: the others stay where they are.                    *)
LEMMA CommandMoves ==
  ASSUME ControlTypes, NEW p \in Writers, NEW op \in Ops, NEW at \in Ats,
         Goto(p, op, at) \/ Return(p)
  PROVE  /\ cmd' \in [Writers -> [op : Ops \cup {"none"}, at : Ats]]
         /\ \A q \in Writers \ {p} : cmd'[q] = cmd[q]
         /\ Goto(p, op, at) => cmd'[p].op = op /\ cmd'[p].at = at
         /\ Return(p) => cmd'[p].op = "none" /\ cmd'[p].at = "-"
BY DEF ControlTypes, Goto, Return, Idle, Ats

(* So do the tests of a check command that finds no recovery running.       *)
LEMMA ControlCheckTests ==
  ASSUME Control, "late" \notin Windows, NEW p \in Writers, NEW op \in {"check", "resume"},
         CheckTests(p, op)
  PROVE  Control'
<1> USE RecoveryAssumption DEF Control
<1>1. /\ UNCHANGED <<private, opens, sem, wakeup, pc>> /\ cmd[p] = Idle /\ ~ Stopping
      /\ cmd' = cmd \/ (private /\ Goto(p, op, "kick"))
  BY DEF CheckTests, Issue, None, Stopping, threadVars
<1>2. CASE cmd' = cmd
  BY <1>1, <1>2 DEF ControlTypes, OneHolder, NotWoken, Waited, Stopped, Stopping, Checking
<1>3. CASE private /\ Goto(p, op, "kick")
  <2>1. /\ cmd' \in [Writers -> [op : Ops \cup {"none"}, at : Ats]]
        /\ \A q \in Writers \ {p} : cmd'[q] = cmd[q]
        /\ cmd'[p].op = op /\ cmd'[p].at = "kick"
    BY <1>3, CommandMoves DEF Ops, Ats
  <2>2. ControlTypes'
    BY <1>1, <2>1 DEF ControlTypes
  <2>3. OneHolder'
    BY <1>1, <2>1 DEF OneHolder, Idle
  <2>4. ~ Stopping'
    BY <1>1, <2>1 DEF Stopping
  <2> QED
    BY <1>1, <1>3, <2>2, <2>3, <2>4 DEF NotWoken, Waited, Stopped, Stopping
<1> QED
  BY <1>1, <1>2, <1>3

(* So does the wakeup it ends with.                                         *)
LEMMA ControlCheckKicks ==
  ASSUME Control, NEW p \in Writers, CheckKicks(p)
  PROVE  Control'
<1> USE RecoveryAssumption DEF Control
<1>1. /\ UNCHANGED <<private, opens, sem, pc>> /\ wakeup' = TRUE
      /\ cmd[p].op \in {"check", "resume"} /\ cmd[p].at = "kick" /\ Return(p)
  BY DEF CheckKicks, At, threadVars
<1>2. /\ cmd' \in [Writers -> [op : Ops \cup {"none"}, at : Ats]]
      /\ \A q \in Writers \ {p} : cmd'[q] = cmd[q]
      /\ cmd'[p].op = "none" /\ cmd'[p].at = "-"
  BY <1>1, CommandMoves DEF Ops, Ats
<1>3. Checking /\ ~ Stopping /\ private
  BY <1>1 DEF Checking, NotWoken, Stopped
<1>4. ~ Stopping'
  BY <1>2, <1>3 DEF Stopping
<1>5. ControlTypes'
  BY <1>1, <1>2 DEF ControlTypes
<1>6. OneHolder'
  BY <1>1, <1>2 DEF OneHolder
<1> QED
  BY <1>1, <1>3, <1>4, <1>5, <1>6 DEF NotWoken, Waited, Stopped, Stopping

(* So do the tests of a command that stops a recovery.                      *)
LEMMA ControlStopTests ==
  ASSUME Control, "late" \notin Windows, NEW p \in Writers,
         NEW op \in {"stop", "cancel", "pause"}, StopTests(p, op)
  PROVE  Control'
<1> USE RecoveryAssumption DEF Control
<1>1. /\ UNCHANGED <<private, opens, sem, wakeup, pc>> /\ cmd[p] = Idle
      /\ cmd' = cmd \/ Goto(p, op, "mutex")
      /\ op = "stop" => ~ wakeup /\ pc \notin {"run", "lock"} /\ ~ Checking
  BY DEF StopTests, Issue, None, Checking, threadVars
<1>2. CASE cmd' = cmd
  BY <1>1, <1>2 DEF ControlTypes, OneHolder, NotWoken, Waited, Stopped, Stopping, Checking
<1>3. CASE Goto(p, op, "mutex")
  <2>1. /\ cmd' \in [Writers -> [op : Ops \cup {"none"}, at : Ats]]
        /\ \A q \in Writers \ {p} : cmd'[q] = cmd[q]
        /\ cmd'[p].op = op /\ cmd'[p].at = "mutex"
    BY <1>3, CommandMoves DEF Ops, Ats
  <2>2. ControlTypes'
    BY <1>1, <2>1 DEF ControlTypes
  <2>3. OneHolder'
    BY <1>1, <2>1 DEF OneHolder, Idle
  <2>4. /\ Checking' => Checking
        /\ Stopping' => Stopping \/ op = "stop"
    BY <2>1 DEF Stopping, Checking
  <2>5. NotWoken' /\ Stopped'
    BY <1>1, <2>4 DEF NotWoken, Stopped
  <2>6. Waited'
    BY <1>1, <2>1 DEF Waited
  <2> QED
    BY <2>2, <2>3, <2>5, <2>6
<1> QED
  BY <1>1, <1>2, <1>3

(* Who had the mutex found the thread idle; it stays so.                    *)
LEMMA ControlStopWaits ==
  ASSUME Control, NEW p \in Writers, StopWaits(p)
  PROVE  Control'
<1> USE RecoveryAssumption DEF Control
<1>1. /\ UNCHANGED <<private, opens, wakeup, pc>> /\ sem = Free /\ sem' = p
      /\ cmd[p].op \in {"stop", "cancel", "pause"} /\ cmd[p].at = "mutex"
      /\ Goto(p, cmd[p].op, "held")
  BY DEF StopWaits, At, threadVars
<1>2. /\ cmd' \in [Writers -> [op : Ops \cup {"none"}, at : Ats]]
      /\ \A q \in Writers \ {p} : cmd'[q] = cmd[q]
      /\ cmd'[p].op = cmd[p].op /\ cmd'[p].at = "held"
  BY <1>1, CommandMoves DEF Ops, Ats
<1>3. ControlTypes'
  BY <1>1, <1>2 DEF ControlTypes
<1>4. OneHolder'
  BY <1>1, <1>2 DEF OneHolder, Free, Thread
<1>5. (Stopping' <=> Stopping) /\ (Checking' <=> Checking)
  BY <1>2 DEF Stopping, Checking
<1>6. NotWoken' /\ Stopped'
  BY <1>1, <1>5 DEF NotWoken, Stopped
<1>7. Waited'
  <2>1. pc \notin Locked
    BY <1>1 DEF OneHolder, Free, Thread
  <2>2. cmd[p].op = "stop" => pc \in {"loop", "wait"}
    BY <2>1 DEF NotWoken, Stopping, ControlTypes, PCs
  <2> QED
    BY <1>1, <1>2, <2>2 DEF Waited
<1> QED
  BY <1>3, <1>4, <1>6, <1>7

(* The steps after that, which give the mutex back, only go on or return.   *)
LEMMA ControlStopGoesOn ==
  ASSUME Control, NEW p \in Writers, StopUnlocks(p) \/ StopResets(p)
  PROVE  Control'
<1> USE RecoveryAssumption DEF Control
<1>1. /\ UNCHANGED <<private, opens, wakeup, pc>>
      /\ cmd[p].op \in {"stop", "cancel", "pause"} /\ cmd[p].at \in {"held", "reset"}
      /\ IF cmd[p].at = "held" THEN sem' = Free ELSE sem' = sem
      /\ \/ Goto(p, cmd[p].op, "reset") \/ Return(p)
         \/ cmd[p].op = "stop" /\ Goto(p, "stop", "free")
  BY DEF StopUnlocks, StopResets, At, threadVars
<1>2. /\ cmd' \in [Writers -> [op : Ops \cup {"none"}, at : Ats]]
      /\ \A q \in Writers \ {p} : cmd'[q] = cmd[q]
      /\ cmd'[p].at \in {"-", "reset", "free"} /\ cmd'[p].op \in {"none", cmd[p].op}
  BY <1>1, CommandMoves DEF Ops, Ats
<1>3. ControlTypes'
  BY <1>1, <1>2 DEF ControlTypes
<1>4. OneHolder'
  BY <1>1, <1>2 DEF OneHolder, Free, Thread
<1>5. (Stopping' => Stopping) /\ (Checking' => Checking)
  BY <1>1, <1>2 DEF Stopping, Checking
<1>6. NotWoken' /\ Stopped'
  BY <1>1, <1>5 DEF NotWoken, Stopped
<1>7. Waited'
  BY <1>1, <1>2 DEF Waited
<1> QED
  BY <1>3, <1>4, <1>6, <1>7

(* The array is freed when the thread is idle and nobody can wake it.       *)
LEMMA ControlFrees ==
  ASSUME Control, NEW p \in Writers, do_stop(p)
  PROVE  Control'
<1> USE RecoveryAssumption DEF Control
<1>1. /\ UNCHANGED <<opens, sem, wakeup, pc>> /\ private' = FALSE
      /\ cmd[p].op = "stop" /\ cmd[p].at = "free" /\ Return(p)
  BY DEF do_stop, At, threadVars
<1>2. /\ cmd' \in [Writers -> [op : Ops \cup {"none"}, at : Ats]]
      /\ \A q \in Writers \ {p} : cmd'[q] = cmd[q]
      /\ cmd'[p].op = "none" /\ cmd'[p].at = "-"
  BY <1>1, CommandMoves DEF Ops, Ats
<1>3. pc \in {"loop", "wait"} /\ ~ wakeup /\ ~ Checking
  BY <1>1 DEF Waited, NotWoken, Stopping
<1>4. ControlTypes' /\ OneHolder'
  BY <1>1, <1>2 DEF ControlTypes, OneHolder
<1>5. ~ Checking'
  BY <1>2, <1>3 DEF Checking
<1> QED
  BY <1>1, <1>3, <1>4, <1>5 DEF NotWoken, Waited, Stopped

(* So does a status query.                                                  *)
LEMMA ControlStatus ==
  ASSUME Control, NEW p \in Writers, StatusClears(p) \/ StatusSums(p)
  PROVE  Control'
<1> USE RecoveryAssumption DEF Control
<1>1. /\ UNCHANGED <<private, opens, sem, wakeup, pc>>
      /\ cmd[p].at # "held" /\ (Goto(p, "status", "sum") \/ Return(p))
  BY DEF StatusClears, StatusSums, At, threadVars, Idle
<1>2. /\ cmd' \in [Writers -> [op : Ops \cup {"none"}, at : Ats]]
      /\ \A q \in Writers \ {p} : cmd'[q] = cmd[q]
      /\ cmd'[p].op \in {"none", "status"} /\ cmd'[p].at \in {"-", "sum"}
  BY <1>1, CommandMoves DEF Ops, Ats
<1>3. ControlTypes'
  BY <1>1, <1>2 DEF ControlTypes
<1>4. OneHolder'
  BY <1>1, <1>2 DEF OneHolder
<1>5. (Stopping' => Stopping) /\ (Checking' => Checking)
  BY <1>2 DEF Stopping, Checking
<1>6. NotWoken' /\ Stopped' /\ Waited'
  BY <1>1, <1>2, <1>5 DEF NotWoken, Stopped, Waited
<1> QED
  BY <1>3, <1>4, <1>6

(* A start, the users of a device, the stripes and the disks do not meet    *)
(* the control of the thread.                                               *)
LEMMA ControlOthers ==
  ASSUME Control, UNCHANGED <<sem, wakeup, pc, cmd>>, private => private',
         private' \in BOOLEAN, opens' \in Nat
  PROVE  Control'
BY DEF Control, ControlTypes, OneHolder, NotWoken, Waited, Stopped, Stopping, Checking

(* Every step keeps the control consistent.                                 *)
LEMMA ControlNext ==
  ASSUME Control, "late" \notin Windows, [Next]_vars
  PROVE  Control'
<1> USE RecoveryAssumption
<1>0. ControlTypes
  BY DEF Control
<1>1. CASE ThreadStep
  BY <1>1, ControlThread
<1>2. CASE \E f \in flight : md_sync_done(f)
  BY <1>0, <1>2, ControlOthers DEF md_sync_done, threadVars, ControlTypes
<1>3. CASE \E d \in Disks : \E r \in Regions(d) : md_write_error(d, r)
  BY <1>0, <1>3, ControlOthers DEF md_write_error, threadVars, ControlTypes
<1>4. ASSUME NEW p \in Writers, CommandStep(p) \/ StopWaits(p)
      PROVE  Control'
  BY <1>4, ControlCheckKicks, ControlStopGoesOn, ControlFrees, ControlStatus,
     ControlStopWaits DEF CommandStep
<1>5. ASSUME NEW p \in Writers, NEW op \in {"check", "resume"}, CheckTests(p, op)
      PROVE  Control'
  BY <1>5, ControlCheckTests
<1>6. ASSUME NEW p \in Writers, NEW op \in {"stop", "cancel", "pause"}, StopTests(p, op)
      PROVE  Control'
  BY <1>6, ControlStopTests
<1>7. ASSUME NEW p \in Writers, StatusClears(p)
      PROVE  Control'
  BY <1>7, ControlStatus
<1>8. ASSUME NEW p \in Writers, NEW R, NEW W, NEW N, Start(p, R, W, N)
      PROVE  Control'
  BY <1>0, <1>8, ControlOthers DEF Start, threadVars, ControlTypes
<1>9. CASE md_open \/ md_release
  BY <1>0, <1>9, ControlOthers DEF md_open, md_release, threadVars, ControlTypes
<1>10. CASE UNCHANGED vars
  BY <1>0, <1>10, ControlOthers DEF vars, ControlTypes
<1> QED
  BY <1>1, <1>2, <1>3, <1>4, <1>5, <1>6, <1>7, <1>8, <1>9, <1>10 DEF Next, Users

(* The recovery thread never uses the stripes of an array that was stopped, *)
(* for any number of processes that send commands at once, as long as no    *)
(* "stop" meets a "check" whose thread has not taken recovery_sem yet       *)
(* (stop_array(), md_do_recovery(), md_thread()).                           *)
THEOREM RecoverySyncOnlyWhileRunning ==
  ASSUME "late" \notin Windows
  PROVE  Spec => []SyncOnlyWhileRunning
<1>1. Init => Control
  BY ControlInit
<1>2. Control /\ [Next]_vars => Control'
  BY ControlNext
<1>3. Control => SyncOnlyWhileRunning
  BY DEF Control, Stopped, SyncOnlyWhileRunning
<1> QED
  BY <1>1, <1>2, <1>3, PTL DEF Spec

---------------------------------------------------------------------------
(* The counters. *)

(* Two finite sets that share nothing.                                      *)
LEMMA CardinalityUnion ==
  ASSUME NEW S, NEW T, IsFiniteSet(S), IsFiniteSet(T), S \cap T = {}
  PROVE  Cardinality(S \cup T) = Cardinality(S) + Cardinality(T)
<1>1. Cardinality(S \cap T) = 0
  BY FS_EmptySet
<1>2. Cardinality(S) \in Nat /\ Cardinality(T) \in Nat
  BY FS_CardinalityType
<1>3. Cardinality(S \cup T) = Cardinality(S) + Cardinality(T) - Cardinality(S \cap T)
  BY FS_Union
<1> QED
  BY <1>1, <1>2, <1>3

(* A finite set without some of its elements.                               *)
LEMMA CardinalityMinus ==
  ASSUME NEW S, NEW T, IsFiniteSet(S), T \subseteq S
  PROVE  Cardinality(S \ T) = Cardinality(S) - Cardinality(T)
<1>1. IsFiniteSet(T) /\ IsFiniteSet(S \ T)
  BY FS_Subset
<1>2. Cardinality((S \ T) \cup T) = Cardinality(S \ T) + Cardinality(T)
  BY <1>1, CardinalityUnion
<1>3. (S \ T) \cup T = S
  OBVIOUS
<1>4. /\ Cardinality(S \ T) \in Nat /\ Cardinality(T) \in Nat
      /\ Cardinality(S) = Cardinality(S \ T) + Cardinality(T)
  BY <1>1, <1>2, <1>3, FS_CardinalityType
<1> QED
  BY <1>4

(* One element fewer.                                                       *)
LEMMA CardinalityLess ==
  ASSUME NEW S, NEW x, IsFiniteSet(S), x \in S
  PROVE  Cardinality(S \ {x}) = Cardinality(S) - 1
BY FS_RemoveElement

(* The slots are those of the disks; a disk that is cleared is new, a new   *)
(* one is not active, and what md_do_recovery() has tested is still to be   *)
(* marked.                                                                  *)
SlotsMatch ==
  /\ active \subseteq Disks /\ enabled \subseteq Disks /\ valid \subseteq active
  /\ new \cap active = {} /\ enabled \ active \subseteq new /\ enabled \ active \subseteq present
  /\ saw # Nobody => pc = "mark" /\ saw \in enabled \ valid

Counted == SlotsMatch /\ CountersMatch

(* Nobody stands for no disk.                                               *)
LEMMA NobodyIsNoDisk == Nobody \notin Disks
BY RecoveryAssumption DEF Nobody

(* The slots are finite sets of disks.                                      *)
LEMMA FiniteSlots ==
  ASSUME SlotsMatch
  PROVE  /\ \A S \in SUBSET Disks : IsFiniteSet(S) /\ Cardinality(S) \in Nat
         /\ active \ enabled \in SUBSET Disks /\ active \ valid \in SUBSET Disks
         /\ enabled \ active \in SUBSET Disks
<1>1. ASSUME NEW S \in SUBSET Disks
      PROVE  IsFiniteSet(S) /\ Cardinality(S) \in Nat
  BY RecoveryAssumption, FS_Subset, FS_CardinalityType
<1> QED
  BY <1>1 DEF SlotsMatch

(* The counters of the slots are right at first.                            *)
LEMMA CountedInit == Init => Counted
<1> SUFFICES ASSUME Init PROVE Counted
  OBVIOUS
<1>1. PICK absent \in {{}} \cup {{d} : d \in Disks \ Parity},
           failed \in {{}} \cup {{d} : d \in Disks} :
        /\ absent = {} \/ failed = {}
        /\ active = Disks \ absent /\ present = active
        /\ valid = active \ failed
        /\ enabled \in {valid, active}
        /\ num_disabled = Cardinality(active \ enabled) /\ num_invalid = Cardinality(failed)
  BY DEF Init
<1>2. new = {} /\ num_new = 0 /\ saw = Nobody
  BY DEF Init
<1>3. failed = active \ valid /\ enabled \ active = {}
  BY <1>1
<1>4. SlotsMatch
  BY <1>1, <1>2, <1>3 DEF SlotsMatch
<1>5. CountersMatch
  BY <1>1, <1>2, <1>3, FS_EmptySet DEF CountersMatch
<1> QED
  BY <1>4, <1>5 DEF Counted

(* md_write_error() changes one disk and the counter it belongs to.         *)
LEMMA CountedWriteError ==
  ASSUME Counted, "marking" \notin Windows, NEW d \in Disks, NEW r \in Regions(d),
         md_write_error(d, r)
  PROVE  Counted'
<1> USE DEF Counted
<1>1. /\ d \in enabled /\ enabled' = enabled \ {d} /\ saw = Nobody
      /\ UNCHANGED <<active, new, present, pc, saw>>
  BY DEF md_write_error, threadVars
<1>2. /\ \A S \in SUBSET Disks : IsFiniteSet(S) /\ Cardinality(S) \in Nat
      /\ active \ enabled \in SUBSET Disks /\ active \ valid \in SUBSET Disks
      /\ enabled \ active \in SUBSET Disks
  BY FiniteSlots
<1>3. CASE d \in active /\ d \notin valid
  <2>1. num_disabled' = num_disabled + 1 /\ UNCHANGED <<valid, num_invalid, num_new>>
    BY <1>3 DEF md_write_error
  <2>2. /\ active' \ enabled' = (active \ enabled) \cup {d} /\ d \notin active \ enabled
        /\ active' \ valid' = active \ valid /\ enabled' \ active' = enabled \ active
    BY <1>1, <1>3, <2>1
  <2>3. Cardinality(active' \ enabled') = Cardinality(active \ enabled) + 1
    BY <1>2, <2>2, FS_AddElement
  <2>4. CountersMatch'
    BY <2>1, <2>2, <2>3 DEF CountersMatch
  <2>5. SlotsMatch'
    BY <1>1, <2>1, <2>2 DEF SlotsMatch
  <2> QED
    BY <2>4, <2>5
<1>4. CASE d \in active /\ d \in valid
  <2>1. /\ num_disabled' = num_disabled + 1 /\ num_invalid' = num_invalid + 1
        /\ valid' = valid \ {d} /\ UNCHANGED num_new
    BY <1>4 DEF md_write_error
  <2>2. /\ active' \ enabled' = (active \ enabled) \cup {d} /\ d \notin active \ enabled
        /\ active' \ valid' = (active \ valid) \cup {d} /\ d \notin active \ valid
        /\ enabled' \ active' = enabled \ active
    BY <1>1, <1>4, <2>1
  <2>3. /\ Cardinality(active' \ enabled') = Cardinality(active \ enabled) + 1
        /\ Cardinality(active' \ valid') = Cardinality(active \ valid) + 1
    BY <1>2, <2>2, FS_AddElement
  <2>4. CountersMatch'
    BY <2>1, <2>2, <2>3 DEF CountersMatch
  <2>5. SlotsMatch'
    BY <1>1, <2>1, <2>2 DEF SlotsMatch
  <2> QED
    BY <2>4, <2>5
<1>5. CASE d \notin active
  <2>1. num_new' = num_new - 1 /\ UNCHANGED <<valid, num_disabled, num_invalid>>
    BY <1>5 DEF md_write_error, SlotsMatch
  <2>2. /\ enabled' \ active' = (enabled \ active) \ {d} /\ d \in enabled \ active
        /\ active' \ valid' = active \ valid /\ active' \ enabled' = active \ enabled
    BY <1>1, <1>5, <2>1
  <2>3. Cardinality(enabled' \ active') = Cardinality(enabled \ active) - 1
    BY <1>2, <2>2, CardinalityLess
  <2>4. CountersMatch'
    BY <2>1, <2>2, <2>3 DEF CountersMatch
  <2>5. SlotsMatch'
    BY <1>1, <2>1, <2>2 DEF SlotsMatch
  <2> QED
    BY <2>4, <2>5
<1> QED
  BY <1>3, <1>4, <1>5

(* The end of a recovery: a new disk is not active yet, any other is.       *)
LEMMA CountedMarks ==
  ASSUME Counted, ThreadMarks
  PROVE  Counted'
<1> USE DEF Counted
<1>1. /\ saw \in enabled /\ saw \notin valid /\ saw' = Nobody
      /\ valid' = valid \cup {saw} /\ new' = new \ {saw}
      /\ UNCHANGED <<enabled, present, num_disabled>>
  BY DEF ThreadMarks, SlotsMatch
<1>2. /\ \A S \in SUBSET Disks : IsFiniteSet(S) /\ Cardinality(S) \in Nat
      /\ active \ enabled \in SUBSET Disks /\ active \ valid \in SUBSET Disks
      /\ enabled \ active \in SUBSET Disks
  BY FiniteSlots
<1>3. CASE saw \in new
  <2>1. active' = active \cup {saw} /\ num_new' = num_new - 1 /\ UNCHANGED num_invalid
    BY <1>3 DEF ThreadMarks
  <2>2. saw \notin active
    BY <1>3 DEF SlotsMatch
  <2>3. /\ enabled' \ active' = (enabled \ active) \ {saw} /\ saw \in enabled \ active
        /\ active' \ valid' = active \ valid /\ active' \ enabled' = active \ enabled
    BY <1>1, <2>1, <2>2
  <2>4. Cardinality(enabled' \ active') = Cardinality(enabled \ active) - 1
    BY <1>2, <2>3, CardinalityLess
  <2>5. CountersMatch'
    BY <1>1, <2>1, <2>3, <2>4 DEF CountersMatch
  <2>6. SlotsMatch'
    BY <1>1, <2>1, <2>3 DEF SlotsMatch
  <2> QED
    BY <2>5, <2>6
<1>4. CASE saw \notin new
  <2>1. num_invalid' = num_invalid - 1 /\ UNCHANGED <<active, num_new>>
    BY <1>4 DEF ThreadMarks
  <2>2. saw \in active
    BY <1>1, <1>4 DEF SlotsMatch
  <2>3. /\ active' \ valid' = (active \ valid) \ {saw} /\ saw \in active \ valid
        /\ enabled' \ active' = enabled \ active /\ active' \ enabled' = active \ enabled
    BY <1>1, <2>1, <2>2
  <2>4. Cardinality(active' \ valid') = Cardinality(active \ valid) - 1
    BY <1>2, <2>3, CardinalityLess
  <2>5. CountersMatch'
    BY <1>1, <2>1, <2>3, <2>4 DEF CountersMatch
  <2>6. SlotsMatch'
    BY <1>1, <2>1, <2>2, <2>3 DEF SlotsMatch
  <2> QED
    BY <2>5, <2>6
<1> QED
  BY <1>3, <1>4

(* A start brings in N: those that are cleared first are new, the others    *)
(* are active at once.                                                      *)
LEMMA CountedStart ==
  ASSUME Counted, Stopped, NEW p \in Writers, NEW R, NEW W, NEW N \in SUBSET Disks,
         Start(p, R, W, N)
  PROVE  Counted'
<1> USE DEF Counted
<1>1. /\ R \subseteq active \ enabled /\ W \subseteq valid /\ present \ active \subseteq N
      /\ N \cap active = {}
      /\ new' = IF ParityValid THEN N ELSE {}
      /\ active' = active \cup (N \ new') /\ enabled' = enabled \cup R \cup N
      /\ valid' = (valid \ W) \cup (N \ new') /\ present' = present \cup N
      /\ num_disabled' = num_disabled - Cardinality(R)
      /\ num_invalid' = num_invalid + Cardinality(W)
      /\ num_new' = Cardinality(new')
      /\ UNCHANGED <<saw, pc>> /\ ~ private
  BY DEF Start, threadVars
<1>2. /\ \A S \in SUBSET Disks : IsFiniteSet(S) /\ Cardinality(S) \in Nat
      /\ active \ enabled \in SUBSET Disks /\ active \ valid \in SUBSET Disks
      /\ enabled \ active \in SUBSET Disks
  BY FiniteSlots
<1>3. new' \subseteq N /\ enabled \ active \subseteq N
  BY <1>1 DEF SlotsMatch
<1>4. /\ active' \ enabled' = (active \ enabled) \ R
      /\ active' \ valid' = (active \ valid) \cup W /\ (active \ valid) \cap W = {}
      /\ enabled' \ active' = new'
  <2>1. active' = active \cup (N \ new') /\ enabled' = (enabled \cup R) \cup N
    BY <1>1
  <2>2. active' \ enabled' = (active \ enabled) \ R
    <3>1. N \cap active = {}
      BY <1>1
    <3> QED
      BY <2>1, <3>1
  <2>3. (active \ valid) \cap W = {}
    BY <1>1
  <2>4. active' \ valid' = (active \ valid) \cup W
    <3>1. W \subseteq active /\ N \cap active = {}
      BY <1>1 DEF SlotsMatch
    <3> QED
      BY <1>1, <1>3, <3>1
  <2>5. enabled' \ active' = new'
    <3>1. R \subseteq active /\ N \cap active = {}
      BY <1>1
    <3> QED
      BY <1>3, <2>1, <3>1
  <2> QED
    BY <2>2, <2>3, <2>4, <2>5
<1>5. Cardinality(active' \ enabled') = Cardinality(active \ enabled) - Cardinality(R)
  <2>1. IsFiniteSet(active \ enabled) /\ R \subseteq active \ enabled
    BY <1>1, <1>2
  <2>2. Cardinality((active \ enabled) \ R) = Cardinality(active \ enabled) - Cardinality(R)
    BY <2>1, CardinalityMinus
  <2> QED
    BY <1>4, <2>2
<1>6. W \in SUBSET Disks
  BY <1>1 DEF SlotsMatch
<1>7. Cardinality(active' \ valid') = Cardinality(active \ valid) + Cardinality(W)
  BY <1>2, <1>4, <1>6, CardinalityUnion
<1>8. CountersMatch'
  BY <1>1, <1>4, <1>5, <1>7 DEF CountersMatch
<1>9. saw = Nobody
  BY <1>1 DEF Stopped, SlotsMatch
<1>10. SlotsMatch'
  BY <1>1, <1>3, <1>4, <1>9 DEF SlotsMatch
<1> QED
  BY <1>8, <1>10

(* Every other step of the thread leaves the slots and the counters alone;  *)
(* it goes to a disk only to test it, and leaves the loop with none.        *)
LEMMA CountedThread ==
  ASSUME Counted, ThreadStep
  PROVE  Counted'
<1> USE DEF Counted
<1>1. CASE ThreadMarks
  BY <1>1, CountedMarks
<1>2. CASE ThreadTests
  <2>1. /\ UNCHANGED <<active, enabled, valid, new, present, num_disabled, num_invalid,
                       num_new, pc>>
        /\ pc = "mark" /\ (saw' \in enabled \ valid \/ saw' = Nobody)
    BY <1>2 DEF ThreadTests, diskVars
  <2> QED
    BY <2>1 DEF SlotsMatch, CountersMatch
<1>3. CASE \/ ThreadFlushes \/ ThreadWakes \/ ThreadChecksSize \/ ThreadLocks \/ ThreadBegins
           \/ unraid_sync \/ ThreadAdvances \/ ThreadEndsLoop \/ ThreadDrained
           \/ ThreadResets \/ ThreadEnds
  <2>1. /\ UNCHANGED <<active, enabled, valid, new, present, num_disabled, num_invalid,
                       num_new, saw>>
        /\ saw = Nobody
    BY <1>3 DEF ThreadFlushes, ThreadWakes, ThreadChecksSize, ThreadLocks, ThreadBegins,
       unraid_sync, ThreadAdvances, ThreadEndsLoop, ThreadDrained, ThreadResets, ThreadEnds,
       Now, diskVars, SlotsMatch
  <2> QED
    BY <2>1 DEF SlotsMatch, CountersMatch
<1> QED
  BY <1>1, <1>2, <1>3 DEF ThreadStep

(* A step that changes neither slots nor counters keeps them.               *)
LEMMA CountedOthers ==
  ASSUME Counted, UNCHANGED <<active, enabled, valid, new, present, num_disabled, num_invalid,
                              num_new, pc, saw>>
  PROVE  Counted'
BY DEF Counted, SlotsMatch, CountersMatch

(* Every step keeps the counters.                                           *)
LEMMA CountedNext ==
  ASSUME Counted, Control, "marking" \notin Windows, [Next]_vars
  PROVE  Counted'
<1>1. CASE ThreadStep
  BY <1>1, CountedThread
<1>2. CASE \E f \in flight : md_sync_done(f)
  BY <1>2, CountedOthers DEF md_sync_done, diskVars, threadVars
<1>3. CASE \E d \in Disks : \E r \in Regions(d) : md_write_error(d, r)
  BY <1>3, CountedWriteError
<1>4. ASSUME NEW p \in Writers, CommandStep(p) \/ StopWaits(p)
      PROVE  Counted'
  <2>1. UNCHANGED <<diskVars, present, threadVars>>
    BY <1>4 DEF CommandStep, StopWaits, CheckKicks, StopUnlocks, StopResets, do_stop, StatusSums
  <2> QED
    BY <2>1, CountedOthers DEF diskVars, threadVars
<1>5. ASSUME NEW p \in Writers,
             \/ \E op \in {"check", "resume"} : CheckTests(p, op)
             \/ \E op \in {"stop", "cancel", "pause"} : StopTests(p, op)
             \/ StatusClears(p)
      PROVE  Counted'
  <2>1. UNCHANGED <<diskVars, present, threadVars>>
    BY <1>5 DEF CheckTests, StopTests, StatusClears
  <2> QED
    BY <2>1, CountedOthers DEF diskVars, threadVars
<1>6. ASSUME NEW p \in Writers, NEW S \in Changes, NEW N \in SUBSET (Disks \ active),
             Start(p, S \ valid, S \cap valid, N)
      PROVE  Counted'
  <2>1. N \in SUBSET Disks /\ Stopped
    BY DEF Control
  <2> QED
    BY <1>6, <2>1, CountedStart
<1>7. CASE md_open \/ md_release
  BY <1>7, CountedOthers DEF md_open, md_release, diskVars, threadVars
<1>8. CASE UNCHANGED vars
  BY <1>8, CountedOthers DEF vars
<1> QED
  BY <1>1, <1>2, <1>3, <1>4, <1>5, <1>6, <1>7, <1>8 DEF Next, Users

(* num_disabled, num_invalid and num_new agree with the states of the disks *)
(* whatever the order of the commands, the write errors and the end of a    *)
(* recovery, as long as no write fails between md_do_recovery()'s test of a *)
(* disk's state and its stores, which are not made under device_lock.       *)
THEOREM RecoveryCountersMatch ==
  ASSUME "late" \notin Windows, "marking" \notin Windows
  PROVE  Spec => []CountersMatch
<1>1. Init => Control /\ Counted
  BY ControlInit, CountedInit
<1>2. (Control /\ Counted) /\ [Next]_vars => (Control /\ Counted)'
  BY ControlNext, CountedNext
<1>3. Counted => CountersMatch
  BY DEF Counted
<1> QED
  BY <1>1, <1>2, <1>3, PTL DEF Spec

-----------------------------------------------------------------------------
(* A disk is valid only when every region of it is current, as long as the *)
(* races "late", "stale", "status" and "marking" are not met.              *)

(* The maximum of a set of numbers with a bound exists: the intervals from *)
(* 0 to the distance from the bound have a smallest one.                   *)
LEMMA MaxExists ==
  ASSUME NEW S \in SUBSET Nat, NEW B \in Nat, S # {}, \A x \in S : x <= B
  PROVE  Max(S) \in S /\ \A y \in S : Max(S) >= y
<1> DEFINE T == {0 .. (B - x) : x \in S}
<1>1. T # {}
  OBVIOUS
<1>2. T \subseteq FiniteSubsetsOf(Nat)
  <2> SUFFICES ASSUME NEW x \in S PROVE 0 .. (B - x) \in FiniteSubsetsOf(Nat)
    OBVIOUS
  <2>1. B - x \in Int /\ 0 \in Int
    OBVIOUS
  <2>2. IsFiniteSet(0 .. (B - x))
    BY <2>1, FS_Interval
  <2>3. 0 .. (B - x) \subseteq Nat
    OBVIOUS
  <2> QED
    BY <2>2, <2>3 DEF FiniteSubsetsOf
<1>3. PICK U \in T : \A V \in T : ~ (<<V, U>> \in StrictSubsetOrdering(Nat))
  <2> HIDE DEF T
  <2>1. IsWellFoundedOn(StrictSubsetOrdering(Nat), FiniteSubsetsOf(Nat))
    BY FS_StrictSubsetOrderingWellFounded
  <2> QED
    BY <1>1, <1>2, <2>1, WFMin
<1>4. PICK x \in S : U = 0 .. (B - x)
  OBVIOUS
<1>5. ASSUME NEW y \in S PROVE x >= y
  <2> SUFFICES ASSUME y > x PROVE FALSE
    OBVIOUS
  <2> DEFINE V == 0 .. (B - y)
  <2>1. V \in T
    OBVIOUS
  <2>2. V \subseteq U /\ V \in SUBSET Nat /\ U \in SUBSET Nat
    BY <1>4
  <2>3. B - x \in U /\ B - x \notin V
    BY <1>4
  <2>4. V # U
    BY <2>3
  <2>5. <<V, U>> \in StrictSubsetOrdering(Nat)
    BY <2>2, <2>4 DEF StrictSubsetOrdering
  <2> QED
    BY <1>3, <2>1, <2>5
<1> QED
  BY <1>5 DEF Max

(* resync_size is not smaller than any of the disks it is taken over.       *)
LEMMA LargestCovers ==
  ASSUME NEW S \in SUBSET Disks
  PROVE  Largest(S) \in Nat /\ \A d \in S : SizeOf[d] <= Largest(S)
<1> DEFINE Sizes == {0} \cup {SizeOf[d] : d \in S}
<1>1. /\ SizeOf[P] \in Nat
      /\ \A d \in S : SizeOf[d] \in Nat /\ SizeOf[d] <= SizeOf[P]
  BY RecoveryAssumption
<1>2. Sizes \in SUBSET Nat /\ Sizes # {} /\ \A x \in Sizes : x <= SizeOf[P]
  BY <1>1
<1>3. Max(Sizes) \in Sizes /\ \A y \in Sizes : Max(Sizes) >= y
  <2> HIDE DEF Sizes
  <2> QED
    BY <1>1, <1>2, MaxExists
<1>4. Max(Sizes) \in Nat
  BY <1>2, <1>3
<1> QED
  BY <1>1, <1>3, <1>4 DEF Largest

---------------------------------------------------------------------------
(* The disks that a recovery writes, and what it may be doing to them.      *)
Pending == enabled \ valid

Critical == {"sync", "advance", "drain"}

Typed ==
  /\ curr_resync \in Nat /\ recovery_running \in Nat /\ recovery_size \in Nat
  /\ good \in [Disks -> SUBSET Nat] /\ \A d \in Disks : good[d] \subseteq Regions(d)
  /\ flight \subseteq [region : Nat, clearing : BOOLEAN]

(* Disks are rebuilt or cleared, never both; what is in flight is for the   *)
(* kind there is, and nothing is in flight when no sync runs.               *)
Kinds ==
  /\ valid \subseteq enabled
  /\ Rebuilding = {} \/ Clearing = {}
  /\ \A f \in flight : IF f.clearing THEN Rebuilding = {} ELSE Clearing = {}
  /\ flight # {} => pc \in Critical

(* A region that the sync has passed is current or in flight, the one that  *)
(* it has just given out included.  A start begins at 0.                    *)
Done(d, r) == r \in good[d] \/ \E f \in flight : f.region = r
Reach == IF pc = "advance" THEN curr_resync + 1 ELSE curr_resync

Reached ==
  /\ \A d \in Pending : \A r \in Regions(d) : r <= Reach => Done(d, r)
  /\ ~ private => curr_resync = 0
  /\ \A p \in Writers : cmd[p].op = "stop" /\ cmd[p].at = "free" => curr_resync = 0

(* From the check to the end of its recovery, recovery_size was computed    *)
(* since the start, and covers every disk it is for.                        *)
Sized ==
  /\ Checking \/ wakeup \/ pc \notin {"loop", "wait"} => seen
  /\ seen /\ (\A p \in Writers : cmd[p].at # "sum") =>
       \A d \in Pending : SizeOf[d] <= recovery_size
  /\ pc \in {"sync", "advance"} => \A d \in Pending : SizeOf[d] <= recovery_running

(* Whom the loop over the disks may mark.                                   *)
Ended ==
  /\ pc = "drain" /\ sync_exit = 0 => \A d \in Pending : \A r \in Regions(d) : Done(d, r)
  /\ pc = "mark" => \A d \in Pending : good[d] = Regions(d)

Slots == new \subseteq Disks /\ present \subseteq Disks

Rebuilt == Typed /\ Kinds /\ Reached /\ Sized /\ Ended /\ RebuiltCovered

(* What a recovery is to rebuild are disks.                                 *)
LEMMA PendingDisks == ASSUME SlotsMatch PROVE Pending \subseteq Disks
BY DEF SlotsMatch, Pending

(* They are those that are rebuilt and those that are cleared.              *)
LEMMA PendingIs ==
  ASSUME SlotsMatch
  PROVE  Pending = Rebuilding \cup Clearing /\ Pending \subseteq Disks
BY DEF SlotsMatch, Pending, Rebuilding, Clearing

(* With as many invalid as disabled disks, each that is invalid is disabled. *)
LEMMA NoneToRebuild ==
  ASSUME Counted, valid \subseteq enabled, num_invalid = num_disabled
  PROVE  Rebuilding = {}
<1>1. active \ enabled \subseteq active \ valid
  OBVIOUS
<1>2. IsFiniteSet(active \ valid)
  BY FiniteSlots DEF Counted
<1>3. active \ enabled = active \ valid
  BY <1>1, <1>2, FS_Subset DEF Counted, CountersMatch
<1> QED
  BY <1>3 DEF Rebuilding

(* Nothing has been rebuilt at first.                                       *)
LEMMA RebuiltInit == Init => Rebuilt
<1> SUFFICES ASSUME Init PROVE Rebuilt
  OBVIOUS
<1> USE RecoveryAssumption
<1>1. /\ curr_resync = 0 /\ recovery_running = 0 /\ recovery_size = 0 /\ flight = {}
      /\ pc = "loop" /\ wakeup = FALSE /\ seen = FALSE /\ cmd = [p \in Writers |-> Idle]
      /\ good = [d \in Disks |-> IF d \in valid THEN Regions(d) ELSE {}]
  BY DEF Init
<1>2. PICK absent \in {{}} \cup {{d} : d \in Disks \ Parity},
           failed \in {{}} \cup {{d} : d \in Disks} :
        /\ active = Disks \ absent /\ valid = active \ failed /\ enabled \in {valid, active}
  BY DEF Init
<1>3. Typed
  <2>1. \A d \in Disks : Regions(d) \subseteq Nat /\ Regions(d) \in SUBSET Nat
    BY DEF Regions
  <2>2. good \in [Disks -> SUBSET Nat]
    BY <1>1, <2>1
  <2>3. \A d \in Disks : good[d] \subseteq Regions(d)
    BY <1>1
  <2> QED
    BY <1>1, <2>2, <2>3 DEF Typed
<1>4. valid \subseteq enabled /\ Clearing = {} /\ valid \subseteq Disks
  BY <1>2 DEF Clearing
<1>5. Kinds
  BY <1>1, <1>4 DEF Kinds
<1>6. Reached
  <2>1. \A d \in Pending : \A r \in Regions(d) : ~ (r <= Reach)
    BY <1>1, <1>2 DEF Reach, Regions, Pending
  <2> QED
    BY <1>1, <2>1 DEF Reached, Idle
<1>7. Sized /\ Ended
  BY <1>1 DEF Sized, Ended, Checking, Idle
<1>8. RebuiltCovered
  BY <1>1, <1>4 DEF RebuiltCovered
<1> QED
  BY <1>3, <1>5, <1>6, <1>7, <1>8 DEF Rebuilt

---------------------------------------------------------------------------
(* Steps that leave the disks and what is in flight alone.                  *)
Still == UNCHANGED <<active, enabled, valid, flight, good>>

(* Arithmetic of the positions.                                             *)
LEMMA PlusOne ==
  ASSUME NEW a \in Nat, NEW b \in Nat, a <= b
  PROVE  a + 1 \in Nat /\ b + 1 \in Nat /\ a + 1 <= b + 1
OBVIOUS

(* A region of a disk lies within its size.                                 *)
LEMMA RegionOf ==
  ASSUME NEW d \in Disks, NEW r \in Regions(d)
  PROVE  r \in Nat /\ r <= SizeOf[d] /\ SizeOf[d] \in Nat
BY RecoveryAssumption DEF Regions

(* A counter is positive or zero.                                           *)
LEMMA Positive == ASSUME NEW a \in Nat PROVE (a > 0) \in BOOLEAN /\ (a > 0 <=> a # 0)
OBVIOUS

(* More arithmetic of the positions.                                        *)
LEMMA AtMostMore ==
  ASSUME NEW a \in Nat, NEW b \in Nat, a <= b PROVE a <= b + 1
OBVIOUS

(* The next position, or one before it.                                     *)
LEMMA AtMostNext ==
  ASSUME NEW a \in Nat, NEW b \in Nat, a <= b + 1 PROVE a <= b \/ a = b + 1
OBVIOUS

(* Positions in order.                                                      *)
LEMMA AtMostOver ==
  ASSUME NEW a \in Nat, NEW b \in Nat, NEW c \in Nat, NEW e \in Nat, a <= b, b <= c, c <= e
  PROVE  a <= e
OBVIOUS

(* A recovery that does not advance reaches no further.                     *)
LEMMA ReachFalls ==
  ASSUME curr_resync \in Nat, curr_resync' \in {0, curr_resync}, pc' = "advance" => pc = "advance"
  PROVE  Reach \in Nat /\ Reach' \in Nat /\ Reach' <= Reach
<1>1. CASE pc' = "advance"
  <2>1. curr_resync' \in Nat /\ curr_resync' <= curr_resync
    OBVIOUS
  <2>2. /\ curr_resync + 1 \in Nat /\ curr_resync' + 1 \in Nat
        /\ curr_resync' + 1 <= curr_resync + 1
    BY <2>1, PlusOne
  <2>3. Reach = curr_resync + 1 /\ Reach' = curr_resync' + 1
    BY <1>1 DEF Reach
  <2> QED
    BY <2>2, <2>3, Zenon
<1>2. CASE pc' # "advance" /\ pc = "advance"
  BY <1>2 DEF Reach
<1>3. CASE pc' # "advance" /\ pc # "advance"
  BY <1>3 DEF Reach
<1> QED
  BY <1>1, <1>2, <1>3

(* What was reached stays so when slots and regions do not change.          *)
LEMMA ReachedStill ==
  ASSUME Typed, Reached, Still, curr_resync' \in {0, curr_resync},
         pc' = "advance" => pc = "advance",
         ~ private' => curr_resync' = 0,
         \A p \in Writers : cmd'[p].op = "stop" /\ cmd'[p].at = "free" => curr_resync' = 0
  PROVE  Reached'
<1>1. Reach \in Nat /\ Reach' \in Nat /\ Reach' <= Reach
  BY ReachFalls DEF Typed
<1>2. /\ Pending' = Pending
      /\ \A d, r : Done(d, r)' <=> Done(d, r)
  BY DEF Still, Pending, Done
<1>3. ASSUME NEW d \in Pending', NEW r \in Regions(d), r <= Reach'
      PROVE  Done(d, r)'
  <2>1. r \in Nat /\ r <= Reach
    BY <1>1, <1>3 DEF Regions
  <2> QED
    BY <1>2, <2>1 DEF Reached
<1> QED
  BY <1>3 DEF Reached

(* So do the kinds of what is in flight.                                    *)
LEMMA KindsStill ==
  ASSUME Kinds, Still, flight # {} => pc' \in Critical
  PROVE  Kinds'
BY DEF Kinds, Still, Rebuilding, Clearing

(* So does what is known of a recovery that ended.                          *)
LEMMA EndedStill ==
  ASSUME Ended, Still, \/ UNCHANGED <<pc, sync_exit>>
                       \/ pc' \notin {"drain", "mark"}
  PROVE  Ended'
BY DEF Ended, Still, Pending, Done

(* So does what the rebuilt regions cover.                                  *)
LEMMA CoverStill ==
  ASSUME RebuiltCovered, Still
  PROVE  RebuiltCovered'
BY DEF RebuiltCovered, Still

(* The thread outside its loops, and its tests of the disks.                *)
LEMMA RebuiltThreadRests ==
  ASSUME Rebuilt, Control, SlotsMatch, "status" \notin Windows,
         \/ ThreadFlushes \/ ThreadWakes \/ ThreadChecksSize \/ ThreadLocks \/ ThreadBegins
         \/ ThreadTests \/ ThreadEnds
  PROVE  Rebuilt'
<1> USE DEF Rebuilt, Now
<1>1. /\ Still /\ UNCHANGED <<curr_resync, recovery_size, private, cmd, seen>>
  BY DEF ThreadFlushes, ThreadWakes, ThreadChecksSize, ThreadLocks, ThreadBegins, ThreadTests,
     ThreadEnds, Still, diskVars
<1>2. \/ pc' \in {"loop", "wait", "run", "lock", "locked"} /\ UNCHANGED recovery_running
      \/ pc' = "loop" /\ recovery_running' = 0
      \/ pc = "locked" /\ pc' = "sync" /\ recovery_running' = recovery_size /\ Undisturbed
      \/ pc = "mark" /\ UNCHANGED <<pc, sync_exit, recovery_running>>
  BY DEF ThreadFlushes, ThreadWakes, ThreadChecksSize, ThreadLocks, ThreadBegins, ThreadTests,
     ThreadEnds
<1>3. /\ pc \notin Critical
      /\ pc' \notin {"loop", "wait"} \/ wakeup' => pc \notin {"loop", "wait"} \/ wakeup
  BY DEF ThreadFlushes, ThreadWakes, ThreadChecksSize, ThreadLocks, ThreadBegins, ThreadTests,
     ThreadEnds, Critical
<1>4. Typed'
  BY <1>1, <1>2 DEF Typed, Still
<1>5. Kinds'
  BY <1>1, <1>3, KindsStill DEF Kinds
<1>6. Reached'
  <2>1. \A p \in Writers : cmd'[p].op = "stop" /\ cmd'[p].at = "free" => curr_resync' = 0
    BY <1>1 DEF Reached
  <2>2. pc' = "advance" => pc = "advance"
    BY <1>2
  <2>3. ~ private' => curr_resync' = 0
    BY <1>1 DEF Reached
  <2> QED
    BY <1>1, <2>1, <2>2, <2>3, ReachedStill
<1>7. Sized'
  <2>1. Checking' <=> Checking
    BY <1>1 DEF Checking
  <2>2. Pending' = Pending
    BY <1>1 DEF Still, Pending
  <2>3. Checking' \/ wakeup' \/ pc' \notin {"loop", "wait"} => seen'
    BY <1>1, <1>3, <2>1 DEF Sized
  <2>4. pc' \in {"sync", "advance"} => \A d \in Pending' : SizeOf[d] <= recovery_running'
    <3> SUFFICES ASSUME pc' \in {"sync", "advance"}
                 PROVE  \A d \in Pending' : SizeOf[d] <= recovery_running'
      OBVIOUS
    <3>1. pc = "locked" /\ recovery_running' = recovery_size /\ Undisturbed
      BY <1>2
    <3>2. seen /\ \A p \in Writers : cmd[p].at # "sum"
      BY <3>1 DEF Sized, Undisturbed
    <3> QED
      BY <2>2, <3>1, <3>2 DEF Sized
  <2> QED
    BY <1>1, <2>2, <2>3, <2>4 DEF Sized
<1>8. Ended'
  BY <1>1, <1>2, EndedStill
<1>9. RebuiltCovered'
  BY <1>1, CoverStill
<1> QED
  BY <1>4, <1>5, <1>6, <1>7, <1>8, <1>9

---------------------------------------------------------------------------
(* The commands: they may set the point of resumption to 0, and what they   *)
(* start was looked at first.                                               *)
LEMMA RebuiltCommand ==
  ASSUME Rebuilt, Still, UNCHANGED <<pc, sync_exit, recovery_running>>,
         curr_resync' \in {0, curr_resync}, recovery_size' \in Nat,
         ~ private' => curr_resync' = 0,
         \A p \in Writers : cmd'[p].op = "stop" /\ cmd'[p].at = "free" => curr_resync' = 0,
         seen => seen',
         Checking' \/ wakeup' => seen' \/ Checking \/ wakeup,
         \/ \E p \in Writers : cmd'[p].at = "sum"
         \/ recovery_size' = recovery_size /\ (seen' => seen) /\ \A p \in Writers : cmd[p].at # "sum"
         \/ \A d \in Pending : SizeOf[d] <= recovery_size'
  PROVE  Rebuilt'
<1> USE DEF Rebuilt
<1>1. Typed'
  BY DEF Typed, Still
<1>2. Kinds'
  BY KindsStill DEF Kinds
<1>3. Reached'
  BY ReachedStill
<1>4. Sized'
  <2>1. Pending' = Pending
    BY DEF Still, Pending
  <2>2. Checking' \/ wakeup' \/ pc' \notin {"loop", "wait"} => seen'
    BY DEF Sized
  <2>3. seen' /\ (\A p \in Writers : cmd'[p].at # "sum") =>
          \A d \in Pending : SizeOf[d] <= recovery_size'
    BY DEF Sized
  <2> QED
    BY <2>1, <2>2, <2>3 DEF Sized
<1>5. Ended'
  BY EndedStill
<1>6. RebuiltCovered'
  BY CoverStill
<1> QED
  BY <1>1, <1>2, <1>3, <1>4, <1>5, <1>6

(* Commands that are begun, and those that wait for the mutex or leave it.  *)
LEMMA RebuiltGoesOn ==
  ASSUME Rebuilt, Control, "stale" \notin Windows, NEW p \in Writers,
         \/ \E op \in {"check", "resume"} : CheckTests(p, op)
         \/ \E op \in {"stop", "cancel", "pause"} : StopTests(p, op)
         \/ StopWaits(p) \/ StopUnlocks(p)
  PROVE  Rebuilt'
<1>1. /\ Still
      /\ UNCHANGED <<pc, sync_exit, recovery_running, curr_resync, recovery_size, private,
                     seen, wakeup>>
  BY DEF CheckTests, StopTests, StopWaits, StopUnlocks, diskVars, threadVars, Still
<1>2. /\ cmd[p].at # "sum"
      /\ \/ cmd' = cmd
         \/ \E op \in Ops, at \in {"kick", "mutex", "held", "reset"} :
              Goto(p, op, at) /\ (op \in {"check", "resume"} => seen)
         \/ Return(p)
  BY DEF CheckTests, StopTests, StopWaits, StopUnlocks, Issue, At, Idle, Ops
<1>3. /\ \A q \in Writers \ {p} : cmd'[q] = cmd[q]
      /\ \/ cmd'[p] = cmd[p]
         \/ /\ cmd'[p].at \notin {"free", "sum"}
            /\ cmd'[p].op \in {"check", "resume"} => seen
  <2>1. CASE cmd' = cmd
    BY <2>1
  <2>2. ASSUME NEW op \in Ops, NEW at \in {"kick", "mutex", "held", "reset"},
               Goto(p, op, at), op \in {"check", "resume"} => seen
        PROVE  <1>3!1 /\ cmd'[p].op = op /\ cmd'[p].at = at
    BY <2>2, CommandMoves DEF Control, Ats
  <2>3. CASE Return(p)
    BY <2>3, CommandMoves DEF Control, Ats, Ops
  <2> QED
    BY <1>2, <2>1, <2>2, <2>3
<1>4. Checking' => Checking \/ seen
  BY <1>3 DEF Checking
<1>5. \A q \in Writers : cmd'[q].at = "sum" <=> cmd[q].at = "sum"
  BY <1>2, <1>3
<1>6. \A q \in Writers : cmd'[q].op = "stop" /\ cmd'[q].at = "free"
                         => cmd[q].op = "stop" /\ cmd[q].at = "free"
  BY <1>3
<1>7. /\ curr_resync' \in {0, curr_resync} /\ recovery_size' \in Nat
      /\ ~ private' => curr_resync' = 0
      /\ \A q \in Writers : cmd'[q].op = "stop" /\ cmd'[q].at = "free" => curr_resync' = 0
  BY <1>1, <1>6 DEF Rebuilt, Typed, Reached
<1>8. Checking' \/ wakeup' => seen' \/ Checking \/ wakeup
  BY <1>1, <1>4
<1>9. \/ \E q \in Writers : cmd'[q].at = "sum"
      \/ recovery_size' = recovery_size /\ (seen' => seen) /\ \A q \in Writers : cmd[q].at # "sum"
  BY <1>1, <1>5
<1> QED
  BY <1>1, <1>7, <1>8, <1>9, RebuiltCommand

(* What sets the point of resumption, and what frees the array.             *)
LEMMA RebuiltPoint ==
  ASSUME Rebuilt, Control, NEW p \in Writers, CheckKicks(p) \/ StopResets(p) \/ do_stop(p)
  PROVE  Rebuilt'
<1>1. /\ Still /\ UNCHANGED <<pc, sync_exit, recovery_running, recovery_size, seen>>
      /\ curr_resync' \in {0, curr_resync}
      /\ cmd[p].at # "sum"
      /\ \/ UNCHANGED wakeup \/ cmd[p].op \in {"check", "resume"}
  BY DEF CheckKicks, StopResets, do_stop, diskVars, threadVars, Still, At
<1>2. \/ cmd[p].op = "stop" /\ Goto(p, "stop", "free") /\ curr_resync' = 0
      \/ Return(p)
  BY DEF CheckKicks, StopResets, do_stop, At
<1>3. /\ \A q \in Writers \ {p} : cmd'[q] = cmd[q]
      /\ \/ cmd'[p].op = "stop" /\ cmd'[p].at = "free" /\ curr_resync' = 0
         \/ cmd'[p].op = "none" /\ cmd'[p].at = "-"
  BY <1>2, CommandMoves DEF Control, Ats, Ops
<1>4. curr_resync = 0 => curr_resync' = 0
  BY <1>1
<1>5. ~ private' => curr_resync' = 0
  <2>1. CASE do_stop(p)
    BY <1>4, <2>1 DEF do_stop, At, Rebuilt, Reached
  <2>2. CASE CheckKicks(p) \/ StopResets(p)
    BY <1>4, <2>2 DEF CheckKicks, StopResets, Rebuilt, Reached
  <2> QED
    BY <2>1, <2>2
<1>6. \A q \in Writers : cmd'[q].op = "stop" /\ cmd'[q].at = "free" => curr_resync' = 0
  BY <1>3, <1>4 DEF Rebuilt, Reached
<1>7. Checking' \/ wakeup' => seen' \/ Checking \/ wakeup
  BY <1>1, <1>3 DEF Checking
<1>8. \/ \E q \in Writers : cmd'[q].at = "sum"
      \/ recovery_size' = recovery_size /\ (seen' => seen) /\ \A q \in Writers : cmd[q].at # "sum"
  BY <1>1, <1>3
<1>9. recovery_size' \in Nat
  BY <1>1 DEF Rebuilt, Typed
<1> QED
  BY <1>1, <1>5, <1>6, <1>7, <1>8, <1>9, RebuiltCommand

(* status_resync() finds the largest of the disks that a recovery is for.   *)
LEMMA ResyncSizeCovers ==
  ASSUME Rebuilt, Counted, Slots
  PROVE  resync_size \in Nat /\ \A d \in Pending : SizeOf[d] <= resync_size
<1>1. /\ Pending = Rebuilding \cup Clearing /\ Pending \subseteq Disks
      /\ Clearing \subseteq new /\ Clearing \subseteq present
      /\ Rebuilding = {} \/ Clearing = {}
  BY PendingIs DEF Rebuilt, Kinds, Slots, Counted, SlotsMatch, Clearing
<1>2. CASE num_invalid # num_disabled
  <2>1. resync_size = Largest(Pending)
    BY <1>2 DEF resync_size, Pending
  <2> QED
    BY <1>1, <2>1, LargestCovers
<1>3. CASE num_invalid = num_disabled
  <2>1. Rebuilding = {}
    BY <1>3, NoneToRebuild DEF Rebuilt, Kinds
  <2>2. resync_size \in {Largest(new), Largest(present)}
    BY <1>3 DEF resync_size
  <2> QED
    BY <1>1, <2>1, <2>2, LargestCovers DEF Slots
<1> QED
  BY <1>2, <1>3

(* A status query changes nothing that was rebuilt.                         *)
LEMMA RebuiltStatus ==
  ASSUME Rebuilt, Control, Counted, Slots,
         NEW p \in Writers, StatusClears(p) \/ StatusSums(p)
  PROVE  Rebuilt'
<1>1. /\ Still
      /\ UNCHANGED <<pc, sync_exit, recovery_running, curr_resync, private, wakeup>>
      /\ seen => seen'
  BY DEF StatusClears, StatusSums, diskVars, threadVars, Still
<1>2. \/ Goto(p, "status", "sum") /\ recovery_size' = 0
      \/ Return(p) /\ recovery_size' = resync_size
  BY DEF StatusClears, StatusSums
<1>3. /\ \A q \in Writers \ {p} : cmd'[q] = cmd[q]
      /\ cmd'[p].op \in {"status", "none"} /\ cmd'[p].at # "free"
      /\ cmd'[p].at = "sum" \/ recovery_size' = resync_size
  BY <1>2, CommandMoves DEF Control, Ats, Ops
<1>4. resync_size \in Nat /\ \A d \in Pending : SizeOf[d] <= resync_size
  BY ResyncSizeCovers
<1>5. Checking' => Checking
  BY <1>3 DEF Checking
<1>6. /\ ~ private' => curr_resync' = 0
      /\ \A q \in Writers : cmd'[q].op = "stop" /\ cmd'[q].at = "free" => curr_resync' = 0
  BY <1>1, <1>3 DEF Rebuilt, Reached
<1>7. recovery_size' \in Nat
  BY <1>2, <1>4
<1>8. \/ \E q \in Writers : cmd'[q].at = "sum"
      \/ \A d \in Pending : SizeOf[d] <= recovery_size'
  BY <1>3, <1>4
<1> QED
  BY <1>1, <1>5, <1>6, <1>7, <1>8, RebuiltCommand

---------------------------------------------------------------------------
(* What a step that changes neither the command, the size nor the bit says  *)
(* of Sized: the disks that wait for a recovery only become fewer.          *)
LEMMA SizedStays ==
  ASSUME Rebuilt, UNCHANGED <<cmd, seen, wakeup, recovery_size, recovery_running>>,
         Pending' \subseteq Pending,
         pc' \notin {"loop", "wait"} => pc \notin {"loop", "wait"},
         pc' \in {"sync", "advance"} => pc \in {"sync", "advance"}
  PROVE  Sized'
<1>1. Checking' <=> Checking
  BY DEF Checking
<1> QED
  BY <1>1 DEF Rebuilt, Sized

(* A region is given out for the kind of recovery there is.                 *)
LEMMA RebuiltGives ==
  ASSUME Rebuilt, Counted, unraid_sync
  PROVE  Rebuilt'
<1> DEFINE f == [region |-> curr_resync + 1, clearing |-> num_new > 0]
<1> USE DEF Rebuilt
<1>1. /\ pc = "sync" /\ pc' = "advance" /\ flight' = flight \cup {f}
      /\ UNCHANGED <<active, enabled, valid, good, cmd, seen, wakeup, private, curr_resync,
                     recovery_size, recovery_running, sync_exit>>
  BY DEF unraid_sync, Now, diskVars
<1>2. curr_resync \in Nat /\ curr_resync + 1 \in Nat /\ f.region = curr_resync + 1
  BY DEF Typed
<1>3. f.clearing \in BOOLEAN /\ (IF f.clearing THEN Rebuilding = {} ELSE Clearing = {})
  <2>1. num_new = Cardinality(Clearing) /\ IsFiniteSet(Clearing)
    BY FiniteSlots DEF Counted, CountersMatch, Clearing
  <2>2. num_new \in Nat
    BY <2>1, FS_CardinalityType
  <2>3. (num_new > 0) \in BOOLEAN /\ (num_new > 0 <=> num_new # 0)
    BY <2>2, Positive
  <2>4. f.clearing = (num_new > 0)
    OBVIOUS
  <2> HIDE DEF f
  <2>5. f.clearing \in BOOLEAN /\ (f.clearing <=> num_new # 0)
    BY <2>3, <2>4, Zenon
  <2>6. num_new = 0 <=> Clearing = {}
    BY <2>1, FS_EmptySet
  <2> QED
    BY <2>5, <2>6 DEF Kinds
<1> HIDE DEF f
<1>4. f \in [region : Nat, clearing : BOOLEAN]
  BY <1>2, <1>3 DEF f
<1>5. Typed'
  BY <1>1, <1>4 DEF Typed
<1>6. Kinds'
  BY <1>1, <1>3 DEF Kinds, Critical, Rebuilding, Clearing
<1>7. Pending' = Pending /\ Reach' = Reach + 1 /\ Reach = curr_resync
  BY <1>1 DEF Pending, Reach
<1>8. \A d, r : (Done(d, r) => Done(d, r)') /\ (r = curr_resync + 1 => Done(d, r)')
  BY <1>1, <1>2 DEF Done
<1>9. Reached'
  <2>1. ASSUME NEW d \in Pending, NEW r \in Regions(d), r <= Reach'
        PROVE  Done(d, r)'
    <3>1. r \in Nat
      BY DEF Regions
    <3>2. r <= curr_resync \/ r = curr_resync + 1
      BY <1>2, <1>7, <2>1, <3>1, AtMostNext
    <3> QED
      BY <1>7, <1>8, <3>2 DEF Reached
  <2> QED
    BY <1>1, <1>7, <2>1 DEF Reached
<1>10. Sized'
  BY <1>1, <1>7, SizedStays
<1>11. Ended' /\ RebuiltCovered'
  BY <1>1 DEF Ended, RebuiltCovered
<1> QED
  BY <1>5, <1>6, <1>9, <1>10, <1>11

(* The region that was given out is the next one from now on.               *)
LEMMA RebuiltAdvances ==
  ASSUME Rebuilt, Control, ThreadAdvances
  PROVE  Rebuilt'
<1> USE DEF Rebuilt
<1>1. /\ pc = "advance" /\ pc' \in {"sync", "drain"} /\ curr_resync' = curr_resync + 1
      /\ pc' = "drain" => sync_exit' # 0
      /\ Still
      /\ UNCHANGED <<cmd, seen, wakeup, private, recovery_size, recovery_running>>
  BY DEF ThreadAdvances, Now, diskVars, Still
<1>2. curr_resync \in Nat /\ curr_resync + 1 \in Nat
  BY DEF Typed
<1>3. Typed'
  BY <1>1, <1>2 DEF Typed, Still
<1>4. Kinds'
  BY <1>1, KindsStill DEF Critical, Kinds
<1>5. Pending' = Pending /\ Reach' = Reach /\ \A d, r : Done(d, r)' <=> Done(d, r)
  BY <1>1 DEF Pending, Reach, Still, Done
<1>6. private /\ \A p \in Writers : ~ (cmd[p].op = "stop" /\ cmd[p].at = "free")
  BY <1>1 DEF Control, Stopped, Waited, ControlTypes
<1>7. Reached'
  BY <1>1, <1>5, <1>6 DEF Reached
<1>8. Sized'
  BY <1>1, <1>5, SizedStays
<1>9. Ended' /\ RebuiltCovered'
  BY <1>1, CoverStill DEF Ended
<1> QED
  BY <1>3, <1>4, <1>7, <1>8, <1>9

(* The end of the loop over the regions, of the wait for the stripes, and   *)
(* of the loop over the disks.                                              *)
LEMMA RebuiltThreadEnds ==
  ASSUME Rebuilt, SlotsMatch, ThreadEndsLoop \/ ThreadDrained \/ ThreadResets
  PROVE  Rebuilt'
<1> USE DEF Rebuilt
<1>1. /\ pc \in {"sync", "drain", "mark"} /\ pc' \in {"drain", "mark", "record"}
      /\ flight = {} \/ pc' = "drain" \/ pc = "mark"
      /\ curr_resync' \in {0, curr_resync} /\ Still
      /\ UNCHANGED <<cmd, seen, wakeup, private, recovery_size, recovery_running, sync_exit>>
  BY DEF ThreadEndsLoop, ThreadDrained, ThreadResets, Now, diskVars, Still
<1>2. Typed'
  BY <1>1 DEF Typed, Still
<1>3. Kinds'
  <2>1. flight # {} => pc' \in Critical
    BY <1>1 DEF Kinds, Critical
  <2> QED
    BY <1>1, <2>1, KindsStill
<1>4. Reached'
  <2>1. /\ pc' # "advance" /\ (~ private' => curr_resync' = 0)
        /\ \A p \in Writers : cmd'[p].op = "stop" /\ cmd'[p].at = "free" => curr_resync' = 0
    BY <1>1 DEF Reached
  <2> QED
    BY <1>1, <2>1, ReachedStill
<1>5. Pending' = Pending /\ \A d, r : Done(d, r)' <=> Done(d, r)
  BY <1>1 DEF Still, Pending, Done
<1>6. Sized'
  BY <1>1, <1>5, SizedStays
<1>7. Ended'
  <2>1. CASE ThreadEndsLoop
    <3>1. pc = "sync" /\ pc' = "drain" /\ recovery_running <= curr_resync
      BY <2>1 DEF ThreadEndsLoop, Now, Typed
    <3>2. ASSUME NEW d \in Pending, NEW r \in Regions(d)
          PROVE  Done(d, r)
      <4>1. SizeOf[d] <= recovery_running /\ Reach = curr_resync
        BY <3>1 DEF Sized, Reach
      <4>2. r \in Nat /\ r <= SizeOf[d] /\ SizeOf[d] \in Nat
        BY PendingDisks, RegionOf
      <4>3. r <= Reach
        BY <3>1, <4>1, <4>2, AtMostOver DEF Typed
      <4> QED
        BY <4>3 DEF Reached
    <3> QED
      BY <1>5, <3>1, <3>2 DEF Ended
  <2>2. CASE ThreadDrained
    <3>1. pc = "drain" /\ flight = {} /\ (pc' = "mark" => sync_exit = 0) /\ pc' # "drain"
      BY <2>2 DEF ThreadDrained, Now
    <3>2. ASSUME sync_exit = 0, NEW d \in Pending
          PROVE  good[d] = Regions(d)
      BY <3>1, <3>2, PendingDisks DEF Ended, Done, Typed
    <3> QED
      BY <1>1, <1>5, <3>1, <3>2 DEF Ended, Still
  <2>3. CASE ThreadResets
    BY <2>3 DEF ThreadResets, Now, Ended
  <2> QED
    BY <2>1, <2>2, <2>3
<1>8. RebuiltCovered'
  BY <1>1, CoverStill
<1> QED
  BY <1>2, <1>3, <1>4, <1>6, <1>7, <1>8

(* A disk is marked when all of it is current.                              *)
LEMMA RebuiltMarks ==
  ASSUME Rebuilt, Counted, ThreadMarks
  PROVE  Rebuilt'
<1> USE DEF Rebuilt
<1>1. /\ pc = "mark" /\ saw \in Pending /\ valid' = valid \cup {saw}
      /\ active' = active \/ active' = active \cup {saw}
      /\ UNCHANGED <<enabled, flight, good, pc, sync_exit, cmd, seen, wakeup, private,
                     curr_resync, recovery_size, recovery_running>>
  BY DEF ThreadMarks, Counted, SlotsMatch, Pending
<1>2. good[saw] = Regions(saw)
  BY <1>1 DEF Ended
<1>3. /\ Pending' \subseteq Pending /\ Reach' = Reach
      /\ \A d, r : Done(d, r)' <=> Done(d, r)
      /\ Rebuilding' \subseteq Rebuilding /\ Clearing' \subseteq Clearing
  BY <1>1 DEF Pending, Reach, Done, Rebuilding, Clearing
<1>4. Typed'
  BY <1>1 DEF Typed
<1>5. Kinds'
  BY <1>1, <1>3 DEF Kinds, Pending
<1>6. Reached'
  BY <1>1, <1>3 DEF Reached
<1>7. Sized'
  BY <1>1, <1>3, SizedStays
<1>8. Ended'
  BY <1>1, <1>3 DEF Ended
<1>9. RebuiltCovered'
  BY <1>1, <1>2 DEF RebuiltCovered
<1> QED
  BY <1>4, <1>5, <1>6, <1>7, <1>8, <1>9

---------------------------------------------------------------------------
(* The stripes, the disks, the users of a device, and a start.              *)

(* Nor does a step that leaves slots, regions and positions alone.          *)
LEMMA RebuiltOthers ==
  ASSUME Rebuilt, Still,
         UNCHANGED <<pc, sync_exit, recovery_running, curr_resync, recovery_size, private,
                     seen, wakeup, cmd>>
  PROVE  Rebuilt'
<1>1. Checking' <=> Checking
  BY DEF Checking
<1>2. /\ curr_resync' \in {0, curr_resync} /\ recovery_size' \in Nat
      /\ ~ private' => curr_resync' = 0
      /\ \A p \in Writers : cmd'[p].op = "stop" /\ cmd'[p].at = "free" => curr_resync' = 0
  BY DEF Rebuilt, Typed, Reached
<1>3. \/ \E p \in Writers : cmd'[p].at = "sum"
      \/ recovery_size' = recovery_size /\ (seen' => seen) /\ \A p \in Writers : cmd[p].at # "sum"
  OBVIOUS
<1> QED
  BY <1>1, <1>2, <1>3, RebuiltCommand

(* A region that ends is current on the disks that the sync was for.        *)
LEMMA RebuiltSyncDone ==
  ASSUME Rebuilt, SlotsMatch, NEW f \in flight, md_sync_done(f)
  PROVE  Rebuilt'
<1> USE DEF Rebuilt
<1>1. /\ flight' = flight \ {f}
      /\ good' = [d \in Disks |->
                    IF /\ f.region \in Regions(d)
                       /\ d \in (IF f.clearing THEN Clearing ELSE Rebuilding)
                    THEN good[d] \cup {f.region} ELSE good[d]]
      /\ UNCHANGED <<active, enabled, valid, pc, sync_exit, recovery_running, curr_resync,
                     recovery_size, private, seen, wakeup, cmd>>
  BY DEF md_sync_done, diskVars, threadVars
<1>2. \A d \in Disks : good[d] \subseteq good'[d] /\ good'[d] \subseteq Regions(d)
  BY <1>1 DEF Typed
<1>3. Typed'
  <2>1. \A d \in Disks : Regions(d) \subseteq Nat
    BY DEF Regions
  <2>2. good' \in [Disks -> SUBSET Nat]
    BY <1>1, <2>1 DEF Typed
  <2> QED
    BY <1>1, <1>2, <2>2 DEF Typed
<1>4. Kinds'
  BY <1>1 DEF Kinds, Rebuilding, Clearing
<1>5. Pending' = Pending /\ Reach' = Reach
  BY <1>1 DEF Pending, Reach
<1>6. ASSUME NEW d \in Pending, NEW r \in Regions(d), Done(d, r)
      PROVE  Done(d, r)'
  <2>1. d \in Disks
    BY PendingDisks
  <2>2. CASE r \in good[d]
    BY <1>2, <2>1, <2>2 DEF Done
  <2>3. CASE r = f.region
    <3>1. d \in (IF f.clearing THEN Clearing ELSE Rebuilding)
      BY PendingIs DEF Kinds
    <3> QED
      BY <1>1, <2>1, <2>3, <3>1 DEF Done
  <2>4. ASSUME NEW g \in flight, g.region = r, r # f.region
        PROVE  Done(d, r)'
    BY <1>1, <2>4 DEF Done
  <2> QED
    BY <1>6, <2>2, <2>3, <2>4 DEF Done
<1>7. Reached'
  BY <1>1, <1>5, <1>6 DEF Reached
<1>8. Sized'
  BY <1>1, <1>5, SizedStays
<1>9. Ended'
  <2>1. pc = "mark" => \A d \in Pending : good'[d] = Regions(d)
    BY <1>2, PendingDisks DEF Ended
  <2> QED
    BY <1>1, <1>5, <1>6, <2>1 DEF Ended
<1>10. RebuiltCovered'
  <2>1. valid \subseteq Disks
    BY DEF SlotsMatch
  <2> QED
    BY <1>1, <1>2, <2>1 DEF RebuiltCovered
<1> QED
  BY <1>3, <1>4, <1>7, <1>8, <1>9, <1>10

(* A disk whose write failed is neither valid nor waiting any more.         *)
LEMMA RebuiltWriteError ==
  ASSUME Rebuilt, SlotsMatch, NEW d \in Disks, NEW r \in Regions(d), md_write_error(d, r)
  PROVE  Rebuilt'
<1> USE DEF Rebuilt
<1>1. /\ enabled' = enabled \ {d} /\ valid' = valid \ {d}
      /\ good' = [good EXCEPT ![d] = @ \ {r}]
      /\ UNCHANGED <<active, flight, pc, sync_exit, recovery_running, curr_resync,
                     recovery_size, private, seen, wakeup, cmd>>
  BY DEF md_write_error, threadVars, SlotsMatch
<1>2. /\ \A e \in Disks \ {d} : good'[e] = good[e]
      /\ \A e \in Disks : good'[e] \subseteq good[e]
      /\ good' \in [Disks -> SUBSET Nat]
  BY <1>1 DEF Typed
<1>3. /\ Pending' = Pending \ {d} /\ Reach' = Reach
      /\ Rebuilding' \subseteq Rebuilding /\ Clearing' \subseteq Clearing
      /\ \A e \in Disks \ {d} : \A q : Done(e, q)' <=> Done(e, q)
  BY <1>1, <1>2 DEF Pending, Reach, Rebuilding, Clearing, Done
<1>4. Typed'
  BY <1>1, <1>2 DEF Typed
<1>5. Kinds'
  BY <1>1, <1>3 DEF Kinds
<1>6. Reached'
  BY <1>1, <1>3, PendingDisks DEF Reached
<1>7. Sized'
  BY <1>1, <1>3, SizedStays
<1>8. Ended'
  BY <1>1, <1>2, <1>3, PendingDisks DEF Ended
<1>9. RebuiltCovered'
  BY <1>1, <1>2 DEF RebuiltCovered, SlotsMatch
<1> QED
  BY <1>4, <1>5, <1>6, <1>7, <1>8, <1>9

(* A start begins a recovery at 0, with a size that has to be computed.     *)
LEMMA RebuiltStart ==
  ASSUME Rebuilt, Control, Counted, NEW p \in Writers, NEW R, NEW W, NEW N \in SUBSET Disks,
         Start(p, R, W, N)
  PROVE  Rebuilt'
<1> USE DEF Rebuilt
<1>1. /\ ~ private /\ seen' = FALSE
      /\ R \subseteq active \ enabled /\ W \subseteq valid /\ present \ active \subseteq N
      /\ N \cap active = {}
      /\ N # {} => R \cup W = {} /\ num_invalid = num_disabled
      /\ new' \subseteq N
      /\ active' = active \cup (N \ new') /\ enabled' = enabled \cup R \cup N
      /\ valid' = (valid \ W) \cup (N \ new')
      /\ good' = [d \in Disks |-> IF d \in N \ new' THEN Regions(d)
                                  ELSE IF d \in R \cup W \cup (N \ new) THEN {} ELSE good[d]]
      /\ UNCHANGED <<flight, pc, sync_exit, recovery_running, curr_resync, recovery_size,
                     wakeup, cmd>>
  BY DEF Start, threadVars
<1>2. /\ pc \in {"loop", "wait"} /\ ~ wakeup /\ ~ Checking /\ curr_resync = 0 /\ flight = {}
  BY <1>1 DEF Control, Stopped, Reached, Kinds, Critical
<1>3. valid \subseteq active /\ enabled \ active \subseteq present /\ active \subseteq Disks
  BY DEF Counted, SlotsMatch
<1>4. Typed'
  <2>1. \A d \in Disks : Regions(d) \subseteq Nat
    BY DEF Regions
  <2>2. /\ good' \in [Disks -> SUBSET Nat]
        /\ \A d \in Disks : good'[d] \subseteq Regions(d)
    BY <1>1, <2>1 DEF Typed
  <2> QED
    BY <1>1, <2>2 DEF Typed
<1>5. Kinds'
  <2>1. valid' \subseteq enabled'
    BY <1>1 DEF Kinds
  <2>2. CASE N = {}
    <3>1. enabled \ active = {} /\ Clearing' = {}
      BY <1>1, <1>3, <2>2 DEF Clearing
    <3> QED
      BY <1>1, <1>2, <2>1, <3>1 DEF Kinds
  <2>3. CASE N # {}
    <3>1. Rebuilding = {}
      BY <1>1, <2>3, NoneToRebuild DEF Kinds
    <3>2. Rebuilding' = {}
      BY <1>1, <1>3, <2>3, <3>1 DEF Rebuilding
    <3> QED
      BY <1>1, <1>2, <2>1, <3>2 DEF Kinds
  <2> QED
    BY <2>2, <2>3
<1>6. Reached'
  <2>1. \A d, r : r \in Regions(d) => ~ (r <= 0)
    BY DEF Regions
  <2>2. Reach' = 0
    BY <1>1, <1>2 DEF Reach
  <2> QED
    BY <1>1, <1>2, <2>1, <2>2 DEF Reached
<1>7. Sized'
  <2>1. ~ Checking'
    BY <1>1, <1>2 DEF Checking
  <2> QED
    BY <1>1, <1>2, <2>1 DEF Sized
<1>8. Ended'
  BY <1>1, <1>2 DEF Ended
<1>9. RebuiltCovered'
  <2>1. ASSUME NEW d \in valid' PROVE good'[d] = Regions(d)
    <3>1. CASE d \in N \ new'
      BY <1>1, <3>1
    <3>2. CASE d \in valid \ W
      <4>1. d \notin N /\ d \notin R /\ d \notin W /\ d \in Disks
        BY <1>1, <1>3, <3>2 DEF Kinds
      <4> QED
        BY <1>1, <3>2, <4>1 DEF RebuiltCovered
    <3> QED
      BY <1>1, <2>1, <3>1, <3>2
  <2> QED
    BY <2>1 DEF RebuiltCovered
<1> QED
  BY <1>4, <1>5, <1>6, <1>7, <1>8, <1>9

---------------------------------------------------------------------------
(* Every step keeps the slots consistent.                                   *)
LEMMA SlotsNext ==
  ASSUME Slots, [Next]_vars
  PROVE  Slots'
<1>1. ASSUME NEW p \in Writers, NEW S \in Changes, NEW N \in SUBSET (Disks \ active),
             Start(p, S \ valid, S \cap valid, N)
      PROVE  Slots'
  BY <1>1 DEF Start, Slots
<1>2. CASE ThreadStep
  BY <1>2 DEF ThreadStep, ThreadFlushes, ThreadWakes, ThreadChecksSize, ThreadLocks,
     ThreadBegins, unraid_sync, ThreadAdvances, ThreadEndsLoop, ThreadDrained, ThreadTests,
     ThreadMarks, ThreadResets, ThreadEnds, Now, diskVars, Slots
<1>3. CASE \/ \E f \in flight : md_sync_done(f)
           \/ \E d \in Disks : \E r \in Regions(d) : md_write_error(d, r)
           \/ md_open \/ md_release \/ UNCHANGED vars
  BY <1>3 DEF md_sync_done, md_write_error, md_open, md_release, vars, diskVars, Slots
<1>4. ASSUME NEW p \in Writers,
             \/ CommandStep(p) \/ StopWaits(p) \/ StatusClears(p)
             \/ \E op \in {"check", "resume"} : CheckTests(p, op)
             \/ \E op \in {"stop", "cancel", "pause"} : StopTests(p, op)
      PROVE  Slots'
  BY <1>4 DEF CommandStep, StopWaits, CheckKicks, StopUnlocks, StopResets, do_stop, StatusSums,
     CheckTests, StopTests, StatusClears, diskVars, Slots
<1> QED
  BY <1>1, <1>2, <1>3, <1>4 DEF Next, Users

(* Every step keeps what is known of the rebuilt regions.                   *)
LEMMA RebuiltNext ==
  ASSUME Rebuilt, Slots, Control, Counted, [Next]_vars, "stale" \notin Windows,
         "status" \notin Windows
  PROVE  Rebuilt'
<1>0. SlotsMatch
  BY DEF Counted
<1>1. CASE ThreadStep
  BY <1>0, <1>1, RebuiltThreadRests, RebuiltGives, RebuiltAdvances, RebuiltThreadEnds,
     RebuiltMarks DEF ThreadStep
<1>2. CASE \E f \in flight : md_sync_done(f)
  BY <1>0, <1>2, RebuiltSyncDone
<1>3. CASE \E d \in Disks : \E r \in Regions(d) : md_write_error(d, r)
  BY <1>0, <1>3, RebuiltWriteError
<1>4. ASSUME NEW p \in Writers, CommandStep(p) \/ StopWaits(p)
      PROVE  Rebuilt'
  BY <1>4, RebuiltGoesOn, RebuiltPoint, RebuiltStatus DEF CommandStep
<1>5. ASSUME NEW p \in Writers,
             \/ \E op \in {"check", "resume"} : CheckTests(p, op)
             \/ \E op \in {"stop", "cancel", "pause"} : StopTests(p, op)
             \/ StatusClears(p)
      PROVE  Rebuilt'
  BY <1>5, RebuiltGoesOn, RebuiltStatus
<1>6. ASSUME NEW p \in Writers, NEW S \in Changes, NEW N \in SUBSET (Disks \ active),
             Start(p, S \ valid, S \cap valid, N)
      PROVE  Rebuilt'
  <2>1. N \in SUBSET Disks
    OBVIOUS
  <2> QED
    BY <1>6, <2>1, RebuiltStart
<1>7. CASE md_open \/ md_release \/ UNCHANGED vars
  BY <1>7, RebuiltOthers DEF md_open, md_release, vars, diskVars, threadVars, Still
<1> QED
  BY <1>1, <1>2, <1>3, <1>4, <1>5, <1>6, <1>7 DEF Next, Users

(* What both theorems rest on.                                              *)
Sound == Control /\ Counted /\ Slots /\ Rebuilt

(* All the invariants hold together when none of the windows is open.       *)
LEMMA SoundAlways ==
  ASSUME Windows \cap {"late", "stale", "status", "marking"} = {}
  PROVE  Spec => []Sound
<1>1. Init => Sound
  <2> SUFFICES ASSUME Init PROVE Sound
    OBVIOUS
  <2>1. Slots
    BY DEF Init, Slots
  <2> QED
    BY <2>1, ControlInit, CountedInit, RebuiltInit DEF Sound
<1>2. Sound /\ [Next]_vars => Sound'
  BY ControlNext, CountedNext, SlotsNext, RebuiltNext DEF Sound
<1> QED
  BY <1>1, <1>2, PTL DEF Spec

(* A disk becomes valid only when every region of it was made current: no   *)
(* order of pauses, resumptions, checks, stops, starts with other disks,    *)
(* write errors and processes makes md_do_recovery() mark a disk of which   *)
(* md_do_sync() left out a region, unless one of the four races is met.     *)
THEOREM RecoveryRebuiltCovered ==
  ASSUME Windows \cap {"late", "stale", "status", "marking"} = {}
  PROVE  Spec => []RebuiltCovered
<1>1. Sound => RebuiltCovered
  BY DEF Sound, Rebuilt
<1> QED
  BY <1>1, SoundAlways, PTL

(* Whatever is before curr_resync is current or in flight, so that "RESUME" *)
(* leaves nothing out (check_array(), md_do_sync()).                        *)
THEOREM RecoveryResumePoint ==
  ASSUME Windows \cap {"late", "stale", "status", "marking"} = {}
  PROVE  Spec => []ResumePoint
<1>1. Sound => ResumePoint
  <2> SUFFICES ASSUME Sound, NEW d \in Rebuilding \cup Clearing, NEW r \in Regions(d),
                      r <= curr_resync
               PROVE  Done(d, r)
    BY DEF ResumePoint, Done
  <2>1. d \in Pending /\ d \in Disks
    BY PendingIs DEF Sound, Counted
  <2>2. r <= Reach
    <3>1. r \in Nat /\ curr_resync \in Nat
      BY <2>1, RegionOf DEF Sound, Rebuilt, Typed
    <3> QED
      BY <3>1, AtMostMore DEF Reach
  <2> QED
    BY <2>1, <2>2 DEF Sound, Rebuilt, Reached
<1> QED
  BY <1>1, SoundAlways, PTL

=============================================================================
