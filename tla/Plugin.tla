------------------------------- MODULE Plugin -------------------------------
(***************************************************************************)
(* The storage plugin that runs a NonRAID array under Proxmox VE           *)
(* (NonRAIDPlugin.pm) with the teardown script of its systemd unit, on one *)
(* node with one storage.                                                  *)
(*                                                                         *)
(* Any number of processes activate the storage: pvestatd in every cycle,  *)
(* the start of a guest, the unit itself.  Where the pool is mounted an    *)
(* activation takes the fast path, without a lock; otherwise the slow one, *)
(* under the lock of the node.  Two files tell the activations of later    *)
(* boots what happened: the marker, there while the array runs, and the    *)
(* debt, a correcting parity check that has to be run.  The node may lose  *)
(* its power at any moment.                                                *)
(*                                                                         *)
(* Windows are the races that are left open:                               *)
(*   "waiting"  an activation gets the lock after another one has brought  *)
(*              the storage up (otherwise it times out);                   *)
(*   "creating" an activation meets a marker that another one has created  *)
(*              and not yet synced;                                        *)
(*   "enabled"  the unit is active from boot on, whatever became of the    *)
(*              activation it starts;                                      *)
(*   "unanswered" a check is started, but its command times out or fails,  *)
(*              or the debt cannot be removed.                             *)
(***************************************************************************)
EXTENDS Naturals

CONSTANTS Procs, None, Windows,
          Autostart,      \* nonraid-degraded-autostart
          MaxEnds,        \* bound on stops of the stack, reboots and losses of power
          MaxFailures     \* bound on commands and file operations that fail

ASSUME WindowsAssumption == Windows \subseteq {"waiting", "creating", "enabled", "unanswered"}
ASSUME AutostartAssumption == Autostart \in BOOLEAN
ASSUME NoneAssumption == None \notin Procs

VARIABLES mdState,   \* of the driver; "" before the module is loaded
          disks,     \* what an import finds
          members,   \* the member file systems are mounted
          pool,      \* the mergerfs pool is mounted
          files,     \* the marker and the debt, as a process sees them
          found,     \* what of them a loss of power may leave
          unit,      \* pve-nonraid.service is active
          refused,   \* a refusal is cached
          lock,      \* the process that holds the lock of the node
          pc, bad,   \* where a process is; whose bookkeeping has failed
          down,      \* what the teardown does next
          checking,  \* a parity check is running
          ends, failures,
          vouched,   \* an activation has reported success since the array came up
          owed       \* "must": the array went down unclean after that, and no
                     \* correcting check was started since; "may": some shutdown
                     \* was unclean, but of no array vouched for

vars == <<mdState, disks, members, pool, files, found, unit, refused, lock, pc,
          bad, down, checking, ends, failures, vouched, owed>>

stack == <<mdState, disks, members, pool>>
books == <<files, found, unit>>
node == <<refused, down, checking, ends>>
seen == <<vouched, owed>>

MdStates == {"", "STOPPED", "DISABLE_DISK", "RECON_DISK", "ERROR", "STARTED"}

DiskStates == {"whole", "disabled", "missing", "replaced", "operator"}

Files == [marker : BOOLEAN, debt : BOOLEAN]

Slow == {"record", "import", "start", "members", "pool"}
Bookkeeping == {"marker", "sync", "unit", "correct", "unlink", "done"}

TypeOK ==
  /\ mdState \in MdStates
  /\ disks \in DiskStates
  /\ members \in BOOLEAN /\ pool \in BOOLEAN
  /\ files \in Files
  /\ found \in SUBSET Files /\ files \in found
  /\ unit \in BOOLEAN /\ refused \in BOOLEAN /\ checking \in BOOLEAN
  /\ lock \in Procs \cup {None}
  /\ pc \in [Procs -> {"idle", "waiting"} \cup Slow \cup Bookkeeping]
  /\ bad \in SUBSET Procs
  /\ down \in {"no", "members", "array", "marker"}
  /\ ends \in Nat /\ failures \in Nat
  /\ vouched \in BOOLEAN
  /\ owed \in {"no", "may", "must"}

-----------------------------------------------------------------------------

(* The file system keeps changes in order: a loss of power leaves the files *)
(* as they were at some moment since they were last written back.           *)
Change(f) == files' = f /\ found' = found \cup {f}

Go(p, step) == pc' = [pc EXCEPT ![p] = step]

Fails == failures < MaxFailures /\ failures' = failures + 1

Works == UNCHANGED failures

(* die() of the slow path: the lock is given back.                          *)
Die(p) == Go(p, "idle") /\ lock' = None

Goes(p, step) == Go(p, step) /\ UNCHANGED lock

Up == mdState = "STARTED" /\ pool

Idle == \A p \in Procs : pc[p] = "idle"

-----------------------------------------------------------------------------
(* The slow path.                                                           *)

\* mutant: the fast path returns at once, without the bookkeeping
ActivateBare(p) ==
  /\ pc[p] = "idle" /\ down = "no"
  /\ Goes(p, IF Up THEN "idle" ELSE "waiting")
  /\ bad' = bad \ {p}
  /\ UNCHANGED <<stack, books, node, failures, seen>>

Activate(p) ==
  /\ pc[p] = "idle" /\ down = "no"
  /\ Goes(p, IF Up THEN "marker" ELSE "waiting")
  /\ bad' = bad \ {p}
  /\ UNCHANGED <<stack, books, node, failures, seen>>

MayLock == lock = None /\ (Up => "waiting" \in Windows)

Lock(p) ==
  /\ pc[p] = "waiting" /\ MayLock
  /\ Go(p, "record") /\ lock' = p
  /\ UNCHANGED <<stack, books, node, bad, failures, seen>>

LockTimesOut(p) ==
  /\ pc[p] = "waiting" /\ ~MayLock
  /\ Goes(p, "idle")
  /\ UNCHANGED <<stack, books, node, bad, failures, seen>>

(* _record_correction_debt(): a marker found under the lock is taken for    *)
(* the one of an unclean shutdown.  A close() that fails may leave the file;*)
(* an active nonraid.service ends the activation before anything is recorded.*)
RecordDebt(p) ==
  /\ pc[p] = "record"
  /\ \/ /\ ~files.marker \/ files.debt
        /\ Goes(p, "import") /\ Works
        /\ UNCHANGED <<files, found>>
     \/ /\ files.marker /\ ~files.debt
        /\ Change([files EXCEPT !.debt = TRUE])
        /\ \/ Goes(p, "import") /\ Works
           \/ Die(p) /\ Fails
     \/ Die(p) /\ Fails /\ UNCHANGED <<files, found>>
  /\ UNCHANGED <<stack, unit, node, bad, seen>>

(* decide_start_action(): the state of the array and, where it is STOPPED,  *)
(* whether disks are disabled.                                              *)
MayStart(state) ==
  \/ state = "STOPPED" /\ (disks = "disabled" => Autostart)
  \/ state \in {"DISABLE_DISK", "RECON_DISK"} /\ Autostart

Imported == CASE disks = "missing" -> "DISABLE_DISK"
              [] disks = "replaced" -> "RECON_DISK"
              [] disks = "operator" -> "ERROR"
              [] OTHER -> "STOPPED"

StartedAlready(p) ==
  /\ pc[p] = "import" /\ mdState = "STARTED"
  /\ Goes(p, "members") /\ refused' = FALSE
  /\ UNCHANGED <<stack, books, down, checking, ends, bad, failures, seen>>

RefusedUntouched(p) ==
  /\ pc[p] = "import" /\ mdState # "STARTED"
  /\ refused \/ (mdState \notin {"", "STOPPED"} /\ ~MayStart(mdState))
  /\ Die(p)
  /\ UNCHANGED <<stack, books, node, bad, failures, seen>>

Import(p) ==
  /\ pc[p] = "import" /\ mdState # "STARTED"
  /\ ~refused /\ (mdState \in {"", "STOPPED"} \/ MayStart(mdState))
  /\ \/ /\ mdState' = Imported /\ Works
        /\ \/ MayStart(Imported) /\ Goes(p, "start") /\ UNCHANGED refused
           \/ ~MayStart(Imported) /\ Die(p) /\ refused' = TRUE
     \/ Die(p) /\ Fails /\ UNCHANGED <<mdState, refused>>
  /\ UNCHANGED <<disks, members, pool, books, down, checking, ends, bad, seen>>

(* A disk that is missing is disabled by the start.                         *)
Started ==
  /\ mdState' = "STARTED"
  /\ disks' = IF disks = "missing" THEN "disabled" ELSE disks
  /\ UNCHANGED <<members, pool>>

StartArray(p) ==
  /\ pc[p] = "start"
  /\ \/ Started /\ refused' = FALSE /\ Goes(p, "members") /\ Works
     \/ Die(p) /\ Fails /\ UNCHANGED <<stack, refused>>
  /\ UNCHANGED <<books, down, checking, ends, bad, seen>>

MountMembers(p) ==
  /\ pc[p] = "members"
  /\ \/ members' = TRUE /\ Goes(p, "pool") /\ Works
     \/ Die(p) /\ Fails /\ UNCHANGED members
  /\ UNCHANGED <<mdState, disks, pool, books, node, bad, seen>>

MountPool(p) ==
  /\ pc[p] = "pool"
  /\ \/ pool' = TRUE /\ Goes(p, "marker") /\ Works
     \/ Die(p) /\ Fails /\ UNCHANGED pool
  /\ UNCHANGED <<mdState, disks, members, books, node, bad, seen>>

-----------------------------------------------------------------------------
(* _ensure_bookkeeping(), on both paths.                                    *)

Marked(p) ==
  /\ pc[p] = "marker" /\ files.marker
  /\ "creating" \in Windows \/ \A q \in Procs : pc[q] # "sync"
  /\ Goes(p, "unit")
  /\ UNCHANGED <<stack, books, node, bad, failures, seen>>

CreateMarker(p) ==
  /\ pc[p] = "marker" /\ ~files.marker
  /\ \/ /\ Change([files EXCEPT !.marker = TRUE])
        /\ Goes(p, "sync") /\ Works
        /\ UNCHANGED bad
     \/ /\ Goes(p, "unit") /\ Fails
        /\ bad' = bad \cup {p}
        /\ UNCHANGED <<files, found>>
  /\ UNCHANGED <<stack, unit, node, seen>>

\* mutant: the marker is created and closed, never synced
SyncedNot == UNCHANGED found

Synced == found' = {files}

(* A marker that cannot be synced is removed again.                         *)
SyncMarker(p) ==
  /\ pc[p] = "sync"
  /\ Goes(p, "unit")
  /\ \/ /\ Synced /\ Works
        /\ UNCHANGED <<files, bad>>
     \/ /\ Change([files EXCEPT !.marker = FALSE]) /\ Fails
        /\ bad' = bad \cup {p}
  /\ UNCHANGED <<stack, unit, node, seen>>

RegisterUnit(p) ==
  /\ pc[p] = "unit"
  /\ Goes(p, "correct")
  /\ \/ unit' = TRUE /\ Works /\ UNCHANGED bad
     \/ ~unit /\ Fails /\ bad' = bad \cup {p} /\ UNCHANGED unit
  /\ UNCHANGED <<stack, files, found, node, seen>>

(* nmdctl starts no check beside another one or before a pending rebuild.   *)
CanCheck == mdState = "STARTED" /\ ~checking /\ disks # "replaced"

Correct(p) ==
  /\ pc[p] = "correct"
  /\ \/ /\ ~files.debt
        /\ Goes(p, "done") /\ Works
        /\ UNCHANGED <<checking, bad, owed>>
     \/ /\ files.debt /\ CanCheck
        /\ checking' = TRUE /\ owed' = "no"
        /\ Goes(p, "unlink") /\ Works
        /\ UNCHANGED bad
     \/ /\ files.debt /\ CanCheck /\ "unanswered" \in Windows
        /\ checking' = TRUE /\ owed' = "no"
        /\ Goes(p, "done") /\ Fails
        /\ bad' = bad \cup {p}
     \/ /\ files.debt
        /\ \/ ~CanCheck /\ Works
           \/ CanCheck /\ Fails
        /\ Goes(p, "done") /\ bad' = bad \cup {p}
        /\ UNCHANGED <<checking, owed>>
  /\ UNCHANGED <<stack, books, refused, down, ends, vouched>>

\* mutant: the debt stays when its check has been started
ClearDebtNot(p) ==
  /\ pc[p] = "unlink"
  /\ Goes(p, "done")
  /\ UNCHANGED <<stack, books, node, bad, failures, seen>>

ClearDebt(p) ==
  /\ pc[p] = "unlink"
  /\ \/ Change([files EXCEPT !.debt = FALSE]) /\ Works
     \/ UNCHANGED <<files, found>> /\ "unanswered" \in Windows /\ Fails
  /\ Goes(p, "done")
  /\ UNCHANGED <<stack, unit, node, bad, seen>>

(* The slow path reports a failure of the bookkeeping, the fast path warns. *)
Finish(p) ==
  /\ pc[p] = "done"
  /\ Go(p, "idle") /\ lock' = IF lock = p THEN None ELSE lock
  /\ vouched' = (vouched \/ p \notin bad)
  /\ UNCHANGED <<stack, books, node, bad, failures, owed>>

Step(p) ==
  \/ Lock(p) \/ LockTimesOut(p) \/ RecordDebt(p)
  \/ StartedAlready(p) \/ RefusedUntouched(p) \/ Import(p)
  \/ StartArray(p) \/ MountMembers(p) \/ MountPool(p)
  \/ Marked(p) \/ CreateMarker(p) \/ SyncMarker(p)
  \/ RegisterUnit(p) \/ Correct(p) \/ ClearDebt(p) \/ Finish(p)

-----------------------------------------------------------------------------
(* pve-nonraid-teardown, the ExecStop of the unit.  pvestatd is stopped     *)
(* before it (Before=), or the storage disabled (README): nobody activates. *)

(* A step that fails leaves the marker and ends the teardown.               *)
GiveUp ==
  /\ Fails
  /\ down' = "no" /\ unit' = FALSE
  /\ owed' = IF owed = "no" THEN "may" ELSE owed

TeardownPools ==
  /\ down = "no" /\ unit /\ Idle
  /\ ends < MaxEnds /\ ends' = ends + 1
  /\ \/ pool' = FALSE /\ down' = "members" /\ Works /\ UNCHANGED <<unit, owed>>
     \/ GiveUp /\ UNCHANGED pool
  /\ UNCHANGED <<mdState, disks, members, files, found, refused, lock, pc, bad, checking, vouched>>

(* nmdctl loads the module where it is missing: there is nothing to unmount *)
(* and nothing to stop then, and both succeed.                              *)
TeardownMembers ==
  /\ down = "members"
  /\ mdState' = IF mdState = "" THEN "STOPPED" ELSE mdState
  /\ \/ members' = FALSE /\ down' = "array" /\ Works /\ UNCHANGED <<unit, owed>>
     \/ GiveUp /\ UNCHANGED members
  /\ UNCHANGED <<disks, pool, files, found, refused, lock, pc, bad, checking, ends, vouched>>

TeardownArray ==
  /\ down = "array"
  /\ \/ /\ mdState' = IF mdState = "STARTED" THEN "STOPPED" ELSE mdState
        /\ checking' = FALSE /\ vouched' = FALSE
        /\ down' = "marker" /\ Works
        /\ UNCHANGED <<unit, owed>>
     \/ GiveUp /\ UNCHANGED <<mdState, checking, vouched>>
  /\ UNCHANGED <<disks, members, pool, files, found, refused, lock, pc, bad, ends>>

RemoveMarker ==
  /\ down = "marker"
  /\ Change([files EXCEPT !.marker = FALSE])
  /\ down' = "no" /\ unit' = FALSE
  /\ owed' = IF owed = "may" /\ ~files.debt THEN "no" ELSE owed
  /\ UNCHANGED <<stack, refused, lock, pc, bad, checking, ends, failures, vouched>>

Teardown == TeardownPools \/ TeardownMembers \/ TeardownArray \/ RemoveMarker

-----------------------------------------------------------------------------
(* Everything else that happens to the node.                                *)

(* nmdctl, by hand.                                                         *)
HandStart ==
  /\ mdState # "STARTED" /\ disks # "operator" /\ down = "no"
  /\ Started
  /\ UNCHANGED <<books, node, lock, pc, bad, failures, seen>>

Repair ==
  /\ down = "no"
  /\ disks # "whole" /\ (mdState = "STARTED" => disks = "replaced")
  /\ disks' = "whole"
  /\ mdState' = IF mdState \in {"", "STARTED"} THEN mdState ELSE "STOPPED"
  /\ UNCHANGED <<members, pool, books, node, lock, pc, bad, failures, seen>>

(* $REFUSAL_TTL has passed.                                                 *)
RefusalExpires ==
  /\ refused /\ refused' = FALSE
  /\ UNCHANGED <<stack, books, down, checking, ends, lock, pc, bad, failures, seen>>

(* A check takes hours: the debt it pays is cleared before it ends.         *)
CheckEnds ==
  /\ checking /\ \A p \in Procs : pc[p] # "unlink"
  /\ checking' = FALSE
  /\ UNCHANGED <<stack, books, refused, down, ends, lock, pc, bad, failures, seen>>

WriteBack ==
  /\ found # {files} /\ found' = {files}
  /\ UNCHANGED <<stack, files, unit, node, lock, pc, bad, failures, seen>>

Boot(f) ==
  /\ ends < MaxEnds /\ ends' = ends + 1
  /\ files' = f /\ found' = {f}
  /\ mdState' = "" /\ disks' \in DiskStates
  /\ members' = FALSE /\ pool' = FALSE /\ checking' = FALSE
  /\ unit' \in IF "enabled" \in Windows THEN BOOLEAN ELSE {FALSE}
  /\ refused' = FALSE /\ lock' = None
  /\ pc' = [p \in Procs |-> "idle"] /\ bad' = {}
  /\ down' = "no" /\ vouched' = FALSE
  /\ UNCHANGED failures

Reboot == Idle /\ down = "no" /\ mdState # "STARTED" /\ Boot(files) /\ UNCHANGED owed

PowerLoss ==
  /\ \E f \in found : Boot(f)
  /\ owed' = IF vouched \/ owed = "must" THEN "must" ELSE "may"

-----------------------------------------------------------------------------

Init ==
  /\ mdState = "" /\ disks = "whole" /\ members = FALSE /\ pool = FALSE
  /\ files = [marker |-> FALSE, debt |-> FALSE] /\ found = {files}
  /\ unit = FALSE /\ refused = FALSE /\ lock = None
  /\ pc = [p \in Procs |-> "idle"] /\ bad = {}
  /\ down = "no" /\ checking = FALSE /\ ends = 0 /\ failures = 0
  /\ vouched = FALSE /\ owed = "no"

Next ==
  \/ \E p \in Procs : Activate(p) \/ Step(p)
  \/ Teardown
  \/ HandStart \/ Repair \/ RefusalExpires \/ CheckEnds \/ WriteBack
  \/ Reboot \/ PowerLoss

Spec == Init /\ [][Next]_vars

(* pvestatd activates the storage again and again, and what was begun goes  *)
(* on; operators, power and repairs are not fair.                           *)
LiveSpec ==
  /\ Spec
  /\ WF_vars(\E p \in Procs : Activate(p))
  /\ \A p \in Procs : WF_vars(Step(p))
  /\ WF_vars(Teardown) /\ WF_vars(RefusalExpires) /\ WF_vars(CheckEnds)

-----------------------------------------------------------------------------

(* An unclean shutdown is never forgotten.  Once an activation has reported *)
(* success a loss of power leaves the marker; and from an unclean end of    *)
(* such an array until the correcting check starts, the marker or the debt  *)
(* survives everything: failing activations, teardowns, more losses of      *)
(* power (_ensure_marker(), _record_correction_debt(), teardown).           *)
UncleanRemembered ==
  /\ vouched => \A f \in found : f.marker
  /\ owed = "must" => \A f \in found : f.marker \/ f.debt

(* A correcting check, hours of I/O, is started only after an unclean       *)
(* shutdown or an incomplete teardown (README.md of the plugin).            *)
CheckOnlyAfterUnclean ==
  [][checking' /\ ~checking => owed # "no"]_vars

(* A check that is owed is started in the end, although it may fail to      *)
(* start, the array may already run and the fast path be all that is taken  *)
(* (_ensure_correction()), unless the array is not to be started or a       *)
(* rebuild has to come first.                                               *)
Payable ==
  \/ disks = "whole"
  \/ disks \in {"disabled", "missing"} /\ (Autostart \/ mdState = "STARTED")

DebtPaid == files.debt ~> (~files.debt \/ ~Payable)

=============================================================================
