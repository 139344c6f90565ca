------------------------------ MODULE Recovery ------------------------------
(***************************************************************************)
(* The recovery thread of md_nonraid/6.18/md_unraid.c and everybody it     *)
(* meets: md_thread() with its wake-up bit and its signal, the mutex       *)
(* recovery_sem, md_do_recovery() and md_do_sync(), write errors, the      *)
(* commands written to /proc/nmdcmd by processes that nothing serializes,  *)
(* readers of /proc/nmdstat, and users of the block devices.               *)
(*                                                                         *)
(* Module Array has the states of start_array() and the superblock file;   *)
(* here every command is the several steps it is, and a start only brings  *)
(* in the disks a recovery is needed for.  A disk is divided into regions; *)
(* one call of unraid_sync() is one region.                                *)
(***************************************************************************)
EXTENDS Integers, FiniteSets, FiniteSetsExt

CONSTANTS
  Disks,             \* the slots, numbers
  P, Parity,         \* the largest disk, which is a parity disk; P and, if in use, Q
  SizeOf,            \* disk[].size, in regions
  Writers,           \* the processes that use /proc/nmdcmd and /proc/nmdstat
  Windows,           \* races that may be met: see Window
  MaxCommands, MaxErrors, MaxActive \* bounds: commands, write errors, open devices

Free == "free"
Thread == "thread"

(* "late": "stop" meets a "check" whose thread has not taken recovery_sem   *)
(* yet; "stale": "check" is sent although /proc/nmdstat was not read since  *)
(* the start; "status": recovery_size is read while status_resync()         *)
(* computes it; "marking": a disk fails between the test of its state and   *)
(* the stores in md_do_recovery(); "open": a device is opened after         *)
(* stop_array() has read mddev->active; "rebuilt": module Driver.           *)
Window == {"late", "stale", "status", "marking", "open", "rebuilt"}

ASSUME RecoveryAssumption ==
  /\ IsFiniteSet(Disks) /\ Disks \subseteq Nat
  /\ Parity \subseteq Disks /\ P \in Parity
  /\ SizeOf \in [Disks -> Nat \ {0}] /\ \A d \in Disks : SizeOf[d] <= SizeOf[P]
  /\ Windows \subseteq Window
  /\ MaxCommands \in Nat /\ MaxErrors \in Nat /\ MaxActive \in Nat
  /\ {Free, Thread} \cap Writers = {}

Nobody == P - P - 1  \* no disk: -1

VARIABLES
  active, enabled, valid, \* the slots with the bit in sb.disks[].state
  new,                    \* the slots with rdev[].status = DISK_NEW
  present,                \* the slots with rdev[].size # 0
  num_disabled, num_invalid, num_new,
  private,                \* mddev->private # NULL
  opens,                  \* mddev->active
  curr_resync, recovery_running, recovery_size, \* in regions
  flight,                 \* recovery_active: the regions given to the stripe engine
  sem,                    \* who holds recovery_sem
  wakeup, signal,         \* THREAD_WAKEUP; a signal is pending in the thread
  pc,                     \* where the recovery thread is
  sync_exit,              \* sb.sync_exit
  todo, saw,              \* md_do_recovery()'s loop: disks to come; the disk tested
  cmd,                    \* for each writer, the command and where it is
  seen,                   \* history: /proc/nmdstat was read since the start
  good,                   \* history: for each disk, the regions that are current
  commands, errors        \* history: how many so far

diskVars == <<active, enabled, valid, new, num_disabled, num_invalid, num_new>>
threadVars == <<pc, sync_exit, todo, saw>>
history == <<commands, errors>>
vars == <<active, enabled, valid, new, present, num_disabled, num_invalid, num_new,
          private, opens, curr_resync, recovery_running, recovery_size, flight, sem,
          wakeup, signal, pc, sync_exit, todo, saw, cmd, seen, good, commands, errors>>

Regions(d) == 1..SizeOf[d]
Largest(S) == Max({0} \cup {SizeOf[d] : d \in S})
Idle == [op |-> "none", at |-> "-"]
Ops == {"stop", "cancel", "pause", "check", "resume", "status"}
(* None but a writer itself is between the steps of such a command.         *)
None(ops) == \A p \in Writers : cmd[p].op \notin ops

---------------------------------------------------------------------------
(* The disks. *)

Rebuilding == (active \cap enabled) \ valid
Clearing == enabled \ active

ParityValid == Parity \cap valid # {}

(* status_resync() *)
resync_size ==
  CASE num_invalid # num_disabled -> Largest(enabled \ valid)
    [] num_invalid = num_disabled /\ num_new > 0 /\ ParityValid -> Largest(new)
    [] OTHER -> Largest(present)

(* md_write_error(), called with device_lock for a block of region r; the   *)
(* block on the disk is old from here on.                                   *)
md_write_error(d, r) ==
  /\ private /\ errors < MaxErrors
  /\ "marking" \notin Windows => saw = Nobody
  /\ d \in enabled /\ r \in Regions(d)
  /\ \/ /\ d \in active \ valid /\ num_disabled < 2
        /\ num_disabled' = num_disabled + 1
        /\ signal' = TRUE
        /\ UNCHANGED <<valid, num_invalid, num_new>>
     \/ /\ d \in active \cap valid /\ num_disabled < 2 /\ num_invalid < 2
        /\ num_disabled' = num_disabled + 1
        /\ valid' = valid \ {d}
        /\ num_invalid' = num_invalid + 1
        /\ signal' = (signal \/ num_disabled' = 2)
        /\ UNCHANGED num_new
     \/ /\ d \notin active
        /\ num_new' = num_new - 1
        /\ signal' = (signal \/ num_new' = 0)
        /\ UNCHANGED <<valid, num_disabled, num_invalid>>
  /\ enabled' = enabled \ {d}
  /\ good' = [good EXCEPT ![d] = @ \ {r}]
  /\ errors' = errors + 1
  /\ UNCHANGED <<active, new, present, private, opens, curr_resync, recovery_running,
                 recovery_size, flight, sem, wakeup, threadVars, cmd, seen, commands>>

(* The stripes of a region end: handle_stripe() has written what its sync   *)
(* was for, and calls md_sync_done().                                       *)
md_sync_done(f) ==
  /\ f \in flight
  /\ flight' = flight \ {f}
  /\ good' = [d \in Disks |->
                IF /\ f.region \in Regions(d)
                   /\ d \in (IF f.clearing THEN Clearing ELSE Rebuilding)
                THEN good[d] \cup {f.region} ELSE good[d]]
  /\ UNCHANGED <<diskVars, present, private, opens, curr_resync, recovery_running,
                 recovery_size, sem, wakeup, signal, threadVars, cmd, seen, history>>

(* md_open() and md_release(). *)
md_open ==
  /\ private /\ opens < MaxActive
  /\ "open" \notin Windows => None({"stop"})
  /\ opens' = opens + 1
  /\ UNCHANGED <<diskVars, present, private, curr_resync, recovery_running, recovery_size,
                 flight, sem, wakeup, signal, threadVars, cmd, seen, good, history>>

md_release ==
  /\ opens > 0
  /\ opens' = opens - 1
  /\ UNCHANGED <<diskVars, present, private, curr_resync, recovery_running, recovery_size,
                 flight, sem, wakeup, signal, threadVars, cmd, seen, good, history>>

---------------------------------------------------------------------------
(* The recovery thread.  pc: "loop", the head of md_thread()'s loop;        *)
(* "wait", in wait_event_interruptible(); "run", at the head of             *)
(* md_do_recovery(); "lock", waiting for recovery_sem; "locked", with it;   *)
(* "sync" and "advance", in md_do_sync()'s loop before and after            *)
(* unraid_sync(); "drain", waiting for the stripes; "mark", in the loop     *)
(* over the disks; "record", before the last md_update_sb().                *)

Undisturbed == "status" \in Windows \/ \A p \in Writers : cmd[p].at # "sum"
Now(there) == pc' = there /\ UNCHANGED <<diskVars, present, private, opens, cmd, seen, history>>

ThreadFlushes ==
  /\ pc = "loop"
  /\ signal' = FALSE
  /\ Now("wait")
  /\ UNCHANGED <<curr_resync, recovery_running, recovery_size, flight, sem, wakeup,
                 sync_exit, todo, saw, good>>

(* A signal ends the wait too; the bit is tested either way, and what runs  *)
(* then runs with the signal pending.                                       *)
ThreadWakes ==
  /\ pc = "wait" /\ (wakeup \/ signal)
  /\ wakeup' = FALSE
  /\ Now(IF wakeup THEN "run" ELSE "loop")
  /\ UNCHANGED <<curr_resync, recovery_running, recovery_size, flight, sem, signal,
                 sync_exit, todo, saw, good>>

ThreadChecksSize ==
  /\ pc = "run" /\ Undisturbed
  /\ Now(IF recovery_size = 0 THEN "loop" ELSE "lock")
  /\ UNCHANGED <<curr_resync, recovery_running, recovery_size, flight, sem, wakeup, signal,
                 sync_exit, todo, saw, good>>

(* mutex_lock_interruptible() takes a free mutex whether or not a signal is *)
(* pending, and returns -EINTR only when it would wait.                     *)
ThreadLocks ==
  /\ pc = "lock"
  /\ \/ sem = Free /\ sem' = Thread /\ Now("locked") /\ UNCHANGED signal
     \/ sem # Free /\ signal /\ signal' = FALSE /\ Now("loop") /\ UNCHANGED sem
  /\ UNCHANGED <<curr_resync, recovery_running, recovery_size, flight, wakeup,
                 sync_exit, todo, saw, good>>

ThreadBegins ==
  /\ pc = "locked" /\ Undisturbed
  /\ recovery_running' = recovery_size
  /\ sync_exit' = 0
  /\ Now("sync")
  /\ UNCHANGED <<curr_resync, recovery_size, flight, sem, wakeup, signal, todo, saw, good>>

(* unraid_sync(): num_new decides what the sync of the stripe is for.       *)
unraid_sync ==
  /\ pc = "sync" /\ curr_resync < recovery_running /\ private
  /\ flight' = flight \cup {[region |-> curr_resync + 1, clearing |-> num_new > 0]}
  /\ Now("advance")
  /\ UNCHANGED <<curr_resync, recovery_running, recovery_size, sem, wakeup, signal,
                 sync_exit, todo, saw, good>>

ThreadAdvances ==
  /\ pc = "advance"
  /\ curr_resync' = curr_resync + 1
  /\ signal' = FALSE
  /\ sync_exit' = IF signal THEN -4 ELSE sync_exit
  /\ Now(IF signal THEN "drain" ELSE "sync")
  /\ UNCHANGED <<recovery_running, recovery_size, flight, sem, wakeup, todo, saw, good>>

ThreadEndsLoop ==
  /\ pc = "sync" /\ curr_resync >= recovery_running
  /\ Now("drain")
  /\ UNCHANGED <<curr_resync, recovery_running, recovery_size, flight, sem, wakeup, signal,
                 sync_exit, todo, saw, good>>

\* mutant: the disks are marked after an interrupted sync too
ThreadDrainedAnyway ==
  /\ pc = "drain" /\ flight = {}
  /\ todo' = Disks
  /\ Now("mark")
  /\ UNCHANGED <<curr_resync, recovery_running, recovery_size, flight, sem, wakeup, signal,
                 sync_exit, saw, good>>

ThreadDrained ==
  /\ pc = "drain" /\ flight = {}
  /\ todo' = IF sync_exit = 0 THEN Disks ELSE {}
  /\ Now(IF sync_exit = 0 THEN "mark" ELSE "record")
  /\ UNCHANGED <<curr_resync, recovery_running, recovery_size, flight, sem, wakeup, signal,
                 sync_exit, saw, good>>

(* The loop over the disks, one disk in two steps: its state is tested, and *)
(* then changed, without device_lock.                                       *)
ThreadTests ==
  /\ pc = "mark" /\ saw = Nobody /\ todo # {}
  /\ LET d == Min(todo) IN
       /\ todo' = todo \ {d}
       /\ saw' = IF d \in enabled \ valid THEN d ELSE Nobody
  /\ UNCHANGED <<diskVars, present, private, opens, curr_resync, recovery_running,
                 recovery_size, flight, sem, wakeup, signal, pc, sync_exit, cmd, seen, good,
                 history>>

\* mutant: a disk that was cleared is counted like one that was rebuilt
ThreadMarksAlike ==
  /\ pc = "mark" /\ saw # Nobody
  /\ active' = active \cup {saw} /\ num_invalid' = num_invalid - 1 /\ UNCHANGED num_new
  /\ valid' = valid \cup {saw}
  /\ new' = new \ {saw}
  /\ saw' = Nobody
  /\ UNCHANGED <<enabled, num_disabled, present, private, opens, curr_resync,
                 recovery_running, recovery_size, flight, sem, wakeup, signal, pc, sync_exit,
                 todo, cmd, seen, good, history>>

ThreadMarks ==
  /\ pc = "mark" /\ saw # Nobody
  /\ IF saw \in new
     THEN active' = active \cup {saw} /\ num_new' = num_new - 1 /\ UNCHANGED num_invalid
     ELSE num_invalid' = num_invalid - 1 /\ UNCHANGED <<active, num_new>>
  /\ valid' = valid \cup {saw}
  /\ new' = new \ {saw}
  /\ saw' = Nobody
  /\ UNCHANGED <<enabled, num_disabled, present, private, opens, curr_resync,
                 recovery_running, recovery_size, flight, sem, wakeup, signal, pc, sync_exit,
                 todo, cmd, seen, good, history>>

ThreadResets ==
  /\ pc = "mark" /\ saw = Nobody /\ todo = {}
  /\ curr_resync' = 0
  /\ Now("record")
  /\ UNCHANGED <<recovery_running, recovery_size, flight, sem, wakeup, signal, sync_exit,
                 todo, saw, good>>

\* mutant: recovery_sem is not released
ThreadEndsLocked ==
  /\ pc = "record"
  /\ recovery_running' = 0
  /\ Now("loop")
  /\ UNCHANGED <<curr_resync, recovery_size, flight, sem, wakeup, signal, sync_exit, todo, saw,
                 good>>

ThreadEnds ==
  /\ pc = "record"
  /\ recovery_running' = 0
  /\ sem' = Free
  /\ Now("loop")
  /\ UNCHANGED <<curr_resync, recovery_size, flight, wakeup, signal, sync_exit, todo, saw,
                 good>>

ThreadStep ==
  \/ ThreadFlushes \/ ThreadWakes \/ ThreadChecksSize \/ ThreadLocks \/ ThreadBegins
  \/ unraid_sync \/ ThreadAdvances \/ ThreadEndsLoop \/ ThreadDrained
  \/ ThreadTests \/ ThreadMarks \/ ThreadResets \/ ThreadEnds

---------------------------------------------------------------------------
(* The commands, each writer at its own pace. *)

Goto(p, op, at) == cmd' = [cmd EXCEPT ![p] = [op |-> op, at |-> at]]
Return(p) == cmd' = [cmd EXCEPT ![p] = Idle]
Issue(p) == cmd[p] = Idle /\ commands < MaxCommands /\ commands' = commands + 1
At(p, ops, at) == cmd[p].op \in ops /\ cmd[p].at = at

(* check_array(): CORRECT and NOCORRECT differ only in what the stripes do  *)
(* with an error, and the offset is 0, or 1 ("RESUME" starts where it was). *)
(* A check whose size was computed before the last start counts as "stale". *)
CheckTests(p, op) ==
  /\ Issue(p) /\ op \in {"check", "resume"} /\ Undisturbed
  /\ "late" \notin Windows => None({"stop"})
  /\ "stale" \notin Windows => seen
  /\ IF /\ private /\ recovery_size > 0 /\ recovery_running = 0
        /\ op = "resume" => curr_resync # 0
     THEN Goto(p, op, "kick") ELSE UNCHANGED cmd
  /\ UNCHANGED <<diskVars, present, private, opens, curr_resync, recovery_running,
                 recovery_size, flight, sem, wakeup, signal, threadVars, seen, good, errors>>

CheckKicks(p) ==
  /\ At(p, {"check", "resume"}, "kick")
  /\ curr_resync' = IF cmd[p].op = "check" THEN 0 ELSE curr_resync
  /\ wakeup' = TRUE
  /\ Return(p)
  /\ UNCHANGED <<diskVars, present, private, opens, recovery_running, recovery_size, flight,
                 sem, signal, threadVars, seen, good, history>>

\* mutant: "stop" does not look at mddev->active
StopTestsBusy(p, op) ==
  /\ Issue(p) /\ op \in {"stop", "cancel", "pause"}
  /\ op = "stop" /\ "late" \notin Windows =>
       ~ wakeup /\ pc \notin {"run", "lock"} /\ None({"check", "resume"})
  /\ IF op = "stop" \/ private
     THEN Goto(p, op, "mutex") /\ signal' = TRUE ELSE UNCHANGED <<cmd, signal>>
  /\ UNCHANGED <<diskVars, present, private, opens, curr_resync, recovery_running,
                 recovery_size, flight, sem, wakeup, threadVars, seen, good, errors>>

(* nocheck_array() and stop_array(): the tests and the signal, the mutex,   *)
(* and curr_resync.  Both take the mutex only to wait for it.               *)
StopTests(p, op) ==
  /\ Issue(p) /\ op \in {"stop", "cancel", "pause"}
  /\ op = "stop" /\ "late" \notin Windows =>
       ~ wakeup /\ pc \notin {"run", "lock"} /\ None({"check", "resume"})
  /\ IF (op = "stop" /\ opens = 0) \/ (op # "stop" /\ private)
     THEN Goto(p, op, "mutex") /\ signal' = TRUE ELSE UNCHANGED <<cmd, signal>>
  /\ UNCHANGED <<diskVars, present, private, opens, curr_resync, recovery_running,
                 recovery_size, flight, sem, wakeup, threadVars, seen, good, errors>>

\* mutant: nobody waits for recovery_sem
StopWaitsNot(p) ==
  /\ At(p, {"stop", "cancel", "pause"}, "mutex")
  /\ Goto(p, cmd[p].op, "held")
  /\ UNCHANGED <<diskVars, present, private, opens, curr_resync, recovery_running,
                 recovery_size, flight, sem, wakeup, signal, threadVars, seen, good, history>>

StopWaits(p) ==
  /\ At(p, {"stop", "cancel", "pause"}, "mutex") /\ sem = Free
  /\ sem' = p
  /\ Goto(p, cmd[p].op, "held")
  /\ UNCHANGED <<diskVars, present, private, opens, curr_resync, recovery_running,
                 recovery_size, flight, wakeup, signal, threadVars, seen, good, history>>

StopUnlocks(p) ==
  /\ At(p, {"stop", "cancel", "pause"}, "held")
  /\ sem' = Free
  /\ IF cmd[p].op = "pause" THEN Return(p) ELSE Goto(p, cmd[p].op, "reset")
  /\ UNCHANGED <<diskVars, present, private, opens, curr_resync, recovery_running,
                 recovery_size, flight, wakeup, signal, threadVars, seen, good, history>>

\* mutant: "stop" leaves curr_resync
StopResetsCancel(p) ==
  /\ At(p, {"stop", "cancel"}, "reset")
  /\ curr_resync' = IF cmd[p].op = "cancel" THEN 0 ELSE curr_resync
  /\ IF cmd[p].op = "stop" /\ private THEN Goto(p, "stop", "free") ELSE Return(p)
  /\ UNCHANGED <<diskVars, present, private, opens, recovery_running, recovery_size, flight,
                 sem, wakeup, signal, threadVars, seen, good, history>>

StopResets(p) ==
  /\ At(p, {"stop", "cancel"}, "reset")
  /\ curr_resync' = 0
  /\ IF cmd[p].op = "stop" /\ private THEN Goto(p, "stop", "free") ELSE Return(p)
  /\ UNCHANGED <<diskVars, present, private, opens, recovery_running, recovery_size, flight,
                 sem, wakeup, signal, threadVars, seen, good, history>>

(* do_stop(): unraid_stop() waits in shrink_stripes() for every stripe.     *)
do_stop(p) ==
  /\ At(p, {"stop"}, "free") /\ flight = {}
  /\ private' = FALSE
  /\ Return(p)
  /\ UNCHANGED <<diskVars, present, opens, curr_resync, recovery_running, recovery_size,
                 flight, sem, wakeup, signal, threadVars, seen, good, history>>

(* import_slot() and start_array(), when no other command is under way, to  *)
(* states that start: R are disabled disks that were replaced, W valid ones *)
(* that were, N are new, with those whose clearing was not finished.  New   *)
(* disks need no clearing when parity is not valid.                         *)
Start(p, R, W, N) ==
  /\ Issue(p) /\ ~ private /\ \A q \in Writers : cmd[q] = Idle
  /\ R \subseteq active \ enabled /\ W \subseteq valid /\ present \ active \subseteq N
  /\ N \cap active = {}
  /\ N # {} => R \cup W = {} /\ num_invalid = num_disabled
  /\ num_invalid + Cardinality(W) <= 2
  /\ private' = TRUE
  /\ seen' = FALSE
  /\ present' = present \cup N
  /\ new' = IF ParityValid THEN N ELSE {}
  /\ active' = active \cup (N \ new')
  /\ enabled' = enabled \cup R \cup N
  /\ valid' = (valid \ W) \cup (N \ new')
  /\ num_disabled' = num_disabled - Cardinality(R)
  /\ num_invalid' = num_invalid + Cardinality(W)
  /\ num_new' = Cardinality(new')
  /\ good' = [d \in Disks |-> IF d \in N \ new' THEN Regions(d)
                             ELSE IF d \in R \cup W \cup (N \ new) THEN {} ELSE good[d]]
  /\ UNCHANGED <<opens, curr_resync, recovery_running, recovery_size, flight, sem, wakeup,
                 signal, threadVars, cmd, errors>>

(* A read of /proc/nmdstat: recovery_size is zeroed, then computed.  One    *)
(* that nobody can tell from none is left out.                              *)
StatusClears(p) ==
  /\ cmd[p] = Idle
  /\ "status" \in Windows \/ ~ seen \/ recovery_size # resync_size
  /\ recovery_size' = 0
  /\ Goto(p, "status", "sum")
  /\ UNCHANGED <<diskVars, present, private, opens, curr_resync, recovery_running, flight,
                 sem, wakeup, signal, threadVars, seen, good, history>>

StatusSums(p) ==
  /\ At(p, {"status"}, "sum")
  /\ recovery_size' = resync_size
  /\ seen' = TRUE
  /\ Return(p)
  /\ UNCHANGED <<diskVars, present, private, opens, curr_resync, recovery_running, flight,
                 sem, wakeup, signal, threadVars, good, history>>

---------------------------------------------------------------------------
(* The array was started before or not, with a disk missing, disabled or    *)
(* to be rebuilt.                                                           *)
Init ==
  /\ \E absent \in {{}} \cup {{d} : d \in Disks \ Parity},
        failed \in {{}} \cup {{d} : d \in Disks} :
       /\ absent = {} \/ failed = {}
       /\ active = Disks \ absent /\ present = active
       /\ valid = active \ failed
       /\ enabled \in {valid, active}
       /\ num_disabled = Cardinality(active \ enabled) /\ num_invalid = Cardinality(failed)
  /\ private \in BOOLEAN
  /\ new = {} /\ num_new = 0
  /\ opens = 0
  /\ curr_resync = 0 /\ recovery_running = 0 /\ recovery_size = 0 /\ flight = {}
  /\ sem = Free /\ wakeup = FALSE /\ signal = FALSE
  /\ pc = "loop" /\ sync_exit = 0 /\ todo = {} /\ saw = Nobody
  /\ cmd = [p \in Writers |-> Idle] /\ seen = FALSE
  /\ good = [d \in Disks |-> IF d \in valid THEN Regions(d) ELSE {}]
  /\ commands = 0 /\ errors = 0

(* Bound: one disk is replaced between a stop and a start.                  *)
Changes == {{}} \cup {{d} : d \in active}

Users ==
  \/ \E p \in Writers :
       \/ \E op \in {"check", "resume"} : CheckTests(p, op)
       \/ \E op \in {"stop", "cancel", "pause"} : StopTests(p, op)
       \/ \E S \in Changes, N \in SUBSET (Disks \ active) : Start(p, S \ valid, S \cap valid, N)
       \/ StatusClears(p)
  \/ md_open \/ md_release

CommandStep(p) ==
  CheckKicks(p) \/ StopUnlocks(p) \/ StopResets(p) \/ do_stop(p) \/ StatusSums(p)

Next ==
  \/ ThreadStep
  \/ \E f \in flight : md_sync_done(f)
  \/ \E d \in Disks : \E r \in Regions(d) : md_write_error(d, r)
  \/ \E p \in Writers : CommandStep(p) \/ StopWaits(p)
  \/ Users

(* Kernel code that can go on does; the stripe engine ends every sync       *)
(* (module Stripe); a mutex is handed to those who wait for it.  Nobody has *)
(* to send a command, to open or to release a device.                       *)
Fairness ==
  /\ WF_vars(ThreadStep)
  /\ WF_vars(\E f \in flight : md_sync_done(f))
  /\ \A p \in Writers : WF_vars(CommandStep(p)) /\ SF_vars(StopWaits(p))

Spec == Init /\ [][Next]_vars /\ Fairness

---------------------------------------------------------------------------
(* Properties. *)

TypeOK ==
  /\ active \subseteq Disks /\ enabled \subseteq Disks /\ valid \subseteq Disks
  /\ new \subseteq Disks /\ present \subseteq Disks
  /\ num_disabled \in Int /\ num_invalid \in Int /\ num_new \in Int
  /\ private \in BOOLEAN /\ opens \in 0..MaxActive
  /\ curr_resync \in 0..SizeOf[P] /\ recovery_running \in 0..SizeOf[P]
  /\ recovery_size \in 0..SizeOf[P]
  /\ flight \subseteq [region : Regions(P), clearing : BOOLEAN]
  /\ sem \in {Free, Thread} \cup Writers /\ wakeup \in BOOLEAN /\ signal \in BOOLEAN
  /\ pc \in {"loop", "wait", "run", "lock", "locked", "sync", "advance", "drain", "mark",
             "record"}
  /\ sync_exit \in {0, -4} /\ todo \subseteq Disks /\ saw \in Disks \cup {Nobody}
  /\ cmd \in [Writers -> [op : Ops \cup {"none"},
                          at : {"-", "kick", "mutex", "held", "reset", "free", "sum"}]]
  /\ seen \in BOOLEAN /\ good \in [Disks -> SUBSET Regions(P)]
  /\ commands \in 0..MaxCommands /\ errors \in 0..MaxErrors

(* A disk is valid only when every region of it is current: neither a       *)
(* pause, a resumption, a check from the start, a write error nor a second  *)
(* process that sends commands makes md_do_recovery() pass a disk that it   *)
(* has not rebuilt from end to end.                                         *)
RebuiltCovered == \A d \in valid : good[d] = Regions(d)

(* What "RESUME" relies on: before the point where the sync is, or was      *)
(* paused, every disk that is rebuilt or cleared is current, but for what   *)
(* is in flight.  Commands that overlap may set the point back, but not     *)
(* past a region that was left out.                                         *)
ResumePoint ==
  \A d \in Rebuilding \cup Clearing :
    \A r \in Regions(d) : r <= curr_resync =>
      r \in good[d] \/ \E f \in flight : f.region = r

(* num_disabled, num_invalid and num_new, which md_do_recovery() and        *)
(* md_write_error() change from different threads, agree with the disks;    *)
(* resync_size and the limit on failed disks rely on them.                  *)
CountersMatch ==
  /\ num_disabled = Cardinality(active \ enabled)
  /\ num_invalid = Cardinality(active \ valid)
  /\ num_new = Cardinality(enabled \ active)

(* The recovery thread uses the stripes only while the array runs: after    *)
(* stop_array() has freed them it neither gives nor waits for a region.     *)
SyncOnlyWhileRunning == pc \in {"sync", "advance", "drain"} => private

(* No command waits forever: a signal that md_thread() has swallowed before *)
(* the recovery began only makes the command wait until it is over.  All    *)
(* writers are alike, so it is stated of one.                               *)
CommandsReturn ==
  LET p == CHOOSE w \in Writers : TRUE IN cmd[p] # Idle ~> cmd[p] = Idle

===========================================================================
