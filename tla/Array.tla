------------------------------- MODULE Array -------------------------------
(***************************************************************************)
(* The array of md_nonraid/6.18/md_unraid.c: its superblock in memory and  *)
(* in the file named by super=, the devices imported into the slots, the   *)
(* counters and the array state import_slot() derives from them, what      *)
(* start_array() makes of each state, write errors, the rebuild of disks   *)
(* and the clearing of new ones, stops and restarts.                       *)
(*                                                                         *)
(* A disk is divided into regions, and the content of a region is reduced  *)
(* to whether it is current: what module Stripe shows of single blocks is  *)
(* taken for granted here.  One state bit of all the slots is a set.       *)
(***************************************************************************)
EXTENDS Integers, FiniteSets, FiniteSetsExt

CONSTANTS
  DataSlots, P, Q,  \* slot numbers; MD_SB_P_IDX, MD_SB_Q_IDX
  Disks, SizeOf,    \* the physical disks and their sizes, in regions
  None,             \* no disk; an empty id
  Assemblies,       \* the arrays there may be at first: a disk, or None, for each slot
  Zeroed,           \* the disks that hold only zeros at first
  Fits,             \* bound: the <<slot, disk>> that users try
  Incidents,        \* what users and machine do to the driver: see Incident
  MaxLoads, MaxErrors \* bounds: module loads, write errors

Parity == {P, Q}
Slots == DataSlots \cup Parity

(* "import again": a slot is imported twice since the module was loaded;    *)
(* "slot left out": an array is started with a parity slot, or one whose    *)
(* clearing was not finished, not imported; "stop when stopped": "stop" is  *)
(* sent to an array that is not started; "start fails": do_run() cannot     *)
(* lock a disk or allocate memory; "early write": a disk is written before  *)
(* the superblock is; "offset": a rebuild is started past its first region; *)
(* "other target": a disk that was not rebuilt to its end is replaced by    *)
(* another one; "new over old": a new array is created over the superblock  *)
(* of another; "file fails": the superblock file cannot be written; "clear  *)
(* again": an array one of whose new disks failed while it was cleared is   *)
(* stopped and started again before another one is cleared.                 *)
Incident == {"import again", "slot left out", "stop when stopped", "start fails",
             "early write", "offset", "other target", "new over old", "file fails",
             "clear again"}

ASSUME ArrayAssumption ==
  /\ DataSlots \subseteq Nat \ {0} /\ IsFiniteSet(DataSlots) /\ DataSlots # {}
  /\ P = 0 /\ Q \in Nat /\ \A i \in DataSlots : i < Q
  /\ IsFiniteSet(Disks) /\ None \notin Disks /\ SizeOf \in [Disks -> Nat \ {0}]
  /\ Assemblies \subseteq [Slots -> Disks \cup {None}] /\ Zeroed \subseteq Disks
  /\ Fits \subseteq Slots \X Disks
  /\ Incidents \subseteq Incident
  /\ MaxLoads \in Nat /\ MaxErrors \in Nat

Status == {"DISK_NP", "DISK_OK", "DISK_NP_MISSING", "DISK_INVALID", "DISK_WRONG",
           "DISK_DSBL", "DISK_NP_DSBL", "DISK_DSBL_NEW", "DISK_NEW"}
Errors == {"ERROR:INVALID_EXPANSION", "ERROR:PARITY_NOT_BIGGEST",
           "ERROR:TOO_MANY_MISSING_DISKS", "ERROR:NEW_DISK_TOO_SMALL", "ERROR:NO_DATA_DISKS"}
States == {"STARTED", "STOPPED", "NEW_ARRAY", "RECON_DISK", "DISABLE_DISK", "SWAP_DSBL"}
          \cup Errors

VARIABLES
  active, enabled, valid, \* the slots with the bit in mddev->sb.disks[].state
  id, size,               \* mddev->sb.disks[].id and .size
  width,                  \* mddev->sb.num_disks
  status, rdev, erased,   \* mddev->rdev[]: status, the disk, and who says it is erased
  num_disks, num_disabled, num_replaced, num_invalid, num_missing, num_wrong, num_new,
  swap,                   \* the parity slots with swap_p_idx or swap_q_idx set
  mdstate, private,       \* mddev->state; mddev->private # NULL: the array runs
  curr_resync, recovery_running, \* in regions; 0: not running
  file,                   \* the superblock file
  pending,                \* a change of the superblock is still to be written
  imported,               \* history: the slots imported since the load
  fresh,                  \* history: <<slot, disk, region>> whose content is current
  blank,                  \* history: <<disk, region>> that holds zeros
  beyond,                 \* history: a disk failed when parity could not take it
  loads, errors           \* history: how many so far

superVars == <<active, enabled, valid, id, size>>
deviceVars == <<status, rdev, erased, imported>>
counters == <<num_disks, num_disabled, num_replaced, num_invalid, num_missing, num_wrong,
              num_new>>
recovery == <<curr_resync, recovery_running>>
content == <<fresh, blank>>
history == <<beyond, loads, errors>>
vars == <<active, enabled, valid, id, size, width, status, rdev, erased, num_disks,
          num_disabled, num_replaced, num_invalid, num_missing, num_wrong, num_new, swap,
          mdstate, private, curr_resync, recovery_running, file, pending, imported, fresh,
          blank, beyond, loads, errors>>

Largest(S) == IF S = {} THEN 0 ELSE Max(S)
RSize(i) == IF rdev[i] = None THEN 0 ELSE SizeOf[rdev[i]]
WithStatus(s) == {i \in Slots : status[i] = s}
Failed == active \ valid

Super == [active |-> active, enabled |-> enabled, valid |-> valid, id |-> id, size |-> size]
EmptySuper == [active |-> {}, enabled |-> {}, valid |-> {},
               id |-> [i \in Slots |-> None], size |-> [i \in Slots |-> 0]]

---------------------------------------------------------------------------
(* import_slot(). *)

same_disk_info(i, d) ==
  size[i] = (IF d = None THEN 0 ELSE SizeOf[d]) /\ id[i] = d

ImportStatus(i, d) ==
  IF i \notin active THEN IF d = None THEN "DISK_NP" ELSE "DISK_NEW"
  ELSE IF i \in enabled
  THEN CASE d = None -> IF i \in valid THEN "DISK_NP_MISSING" ELSE "DISK_NP_DSBL"
         [] d # None /\ ~ same_disk_info(i, d) ->
              IF i \in valid THEN "DISK_WRONG" ELSE "DISK_INVALID"
         [] OTHER -> IF i \in valid THEN "DISK_OK" ELSE "DISK_INVALID"
  ELSE CASE d = None -> "DISK_NP_DSBL"
         [] d # None /\ ~ same_disk_info(i, d) -> "DISK_DSBL_NEW"
         [] OTHER -> "DISK_DSBL"

valid_parity_size ==
  LET parity == {RSize(i) : i \in Parity} \ {0}
      data == {RSize(i) : i \in DataSlots} \cup {size[i] : i \in DataSlots}
  IN  \A p \in parity, d \in data : p >= d

valid_replacement ==
  \A i \in DataSlots :
    rdev[i] # None /\ status[i] \in {"DISK_DSBL_NEW", "DISK_WRONG"} => RSize(i) >= size[i]

(* The parity slots whose disk is in a disabled data slot instead.          *)
Swapped ==
  {p \in Parity : /\ status[p] = "DISK_WRONG"
                  /\ \E i \in DataSlots : /\ id[p] = rdev[i] /\ size[p] = RSize(i)
                                          /\ status[i] = "DISK_DSBL_NEW"}

Replaces ==
  /\ num_disks = 0 \/ width > 2
  /\ valid_parity_size
  /\ num_new = 0 /\ num_missing = 0 /\ num_wrong + num_replaced > 0

ArrayState ==
  IF num_disks > 0 /\ width = 2 THEN "ERROR:NO_DATA_DISKS"
  ELSE IF ~ valid_parity_size THEN "ERROR:PARITY_NOT_BIGGEST"
  ELSE IF num_new > 0
  THEN IF num_new = num_disks THEN "NEW_ARRAY"
       ELSE IF num_missing + num_wrong + num_replaced > 0 \/ num_invalid # num_disabled
       THEN "ERROR:INVALID_EXPANSION" ELSE "STOPPED"
  ELSE IF num_missing > 0
  THEN IF num_missing + num_invalid <= 2 /\ num_replaced = 0 /\ num_wrong = 0
       THEN "DISABLE_DISK" ELSE "ERROR:TOO_MANY_MISSING_DISKS"
  ELSE IF Replaces
  THEN IF num_wrong - Cardinality(Swapped) + num_invalid > 2
       THEN "ERROR:TOO_MANY_MISSING_DISKS"
       ELSE IF ~ valid_replacement THEN "ERROR:NEW_DISK_TOO_SMALL"
       ELSE IF Swapped # {} THEN "SWAP_DSBL" ELSE "RECON_DISK"
  ELSE "STOPPED"

\* mutant: a disabled disk that is present is not counted
DisabledStatusNoDsbl == {"DISK_NP_DSBL", "DISK_DSBL_NEW"}

DisabledStatus == {"DISK_NP_DSBL", "DISK_DSBL", "DISK_DSBL_NEW"}

One(b) == IF b THEN 1 ELSE 0

ImportSlot(i, d, e) ==
  LET s == ImportStatus(i, d)
  IN  /\ ~ private /\ ~ pending
      /\ i \in imported => "import again" \in Incidents
      /\ d # None => <<i, d>> \in Fits /\ \A j \in Slots \ {i} : rdev[j] # d
      /\ s = "DISK_INVALID" /\ ~ same_disk_info(i, d) => "other target" \in Incidents
      /\ e => d # None /\ \A r \in 0 .. SizeOf[d] - 1 : <<d, r>> \in blank
      /\ imported' = imported \cup {i}
      /\ rdev' = [rdev EXCEPT ![i] = d]
      /\ erased' = IF e THEN erased \cup {i} ELSE erased \ {i}
      /\ status' = [status EXCEPT ![i] = s]
      /\ enabled' = IF i \notin active \/ s = "DISK_NP_DSBL" THEN enabled \ {i} ELSE enabled
      /\ valid' = IF i \notin active THEN valid \ {i} ELSE valid
      /\ id' = IF i \notin active THEN [id EXCEPT ![i] = None] ELSE id
      /\ size' = IF i \notin active THEN [size EXCEPT ![i] = 0] ELSE size
      /\ width' = IF i \in DataSlots /\ (i \in active \/ s = "DISK_NEW") /\ width < i + 2
                  THEN i + 2 ELSE width
      /\ num_disks' = num_disks + One(d # None)
      /\ num_missing' = num_missing + One(s = "DISK_NP_MISSING")
      /\ num_wrong' = num_wrong + One(s = "DISK_WRONG")
      /\ num_disabled' = num_disabled + One(s \in DisabledStatus)
      /\ num_replaced' = num_replaced + One(s = "DISK_DSBL_NEW")
      /\ num_invalid' = num_invalid + One(i \in active \ valid)
      /\ num_new' = num_new + One(s = "DISK_NEW")
      /\ swap' = IF Replaces' THEN swap \cup Swapped' ELSE swap
      /\ mdstate' = ArrayState'
      /\ UNCHANGED <<active, private, recovery, file, pending, content, history>>

---------------------------------------------------------------------------
(* What is current. *)

Current(i, r) == <<i, rdev[i], r>> \in fresh

(* The slots of N join the array with what their disks hold: the parity of  *)
(* a region stays right only if that is zeros.                              *)
Join(N) ==
  {t \in fresh : /\ t[1] \notin N
                 /\ t[1] \in Parity => \A i \in N : t[3] < RSize(i) => <<rdev[i], t[3]>> \in blank}
  \cup UNION {{<<i, rdev[i], r>> : r \in 0 .. RSize(i) - 1} : i \in N}

(* A block of a region of data slot w is written: to its disk and to the    *)
(* parity disks, those of them that are enabled.                            *)
Write(w, r) ==
  LET to == {i \in {w} \cup Parity : i \in enabled /\ rdev[i] # None}
  IN  /\ private /\ w \in active /\ r < size[w]
      /\ pending => "early write" \in Incidents
      /\ ~ (w \in Failed /\ Cardinality(Failed) > 2)
      /\ fresh' = {t \in fresh : t[3] = r /\ t[1] \in {w} \cup Parity
                                => t[1] \in to /\ t[2] = rdev[t[1]]}
      /\ blank' = blank \ {<<rdev[i], r>> : i \in to}
      /\ UNCHANGED <<superVars, width, deviceVars, counters, swap, mdstate, private, recovery,
                     file, pending, history>>

(* Before SWAP_DSBL the user copies the old parity disk to a new one, and   *)
(* clears the rest of it ("Existing parity disk contents needs to have been *)
(* manually copied to new parity disk BEFORE starting array!").             *)
CopyParity(p) ==
  /\ mdstate = "SWAP_DSBL" /\ p \in swap /\ status[p] = "DISK_WRONG"
  /\ \A t \in fresh : t[2] # rdev[p]
  /\ fresh' = fresh \cup
              {<<p, rdev[p], r>> : r \in {x \in 0 .. RSize(p) - 1 :
                                           x < size[p] => <<p, id[p], x>> \in fresh}}
  /\ blank' = {b \in blank : b[1] # rdev[p]}
  /\ UNCHANGED <<superVars, width, deviceVars, counters, swap, mdstate, private, recovery,
                 file, pending, history>>

---------------------------------------------------------------------------
(* start_array(): one action for each state it treats apart.               *)

MayStart ==
  /\ ~ private /\ ~ pending /\ mdstate \notin Errors \cup {"STARTED"}
  /\ \A i \in active : status[i] = "DISK_NP" =>
       i \in Parity /\ ~ (i \in enabled /\ i \in valid)
  /\ (Parity \cap active) \cup (enabled \ active) \subseteq imported
     \/ "slot left out" \in Incidents

\* mutant: the superblock is not committed after do_run()
RunNoCommit(change) ==
  /\ private' = (width' > 2) /\ mdstate' = "STARTED" /\ pending' = FALSE
  /\ UNCHANGED <<rdev, erased, num_disks, recovery, file, blank, history>>

(* do_run(), and the superblock to commit after it if there is a change; or *)
(* do_run() fails, what was changed in memory stays and the state too.      *)
Run(change) ==
  /\ \/ private' = (width' > 2) /\ mdstate' = "STARTED" /\ pending' = change
     \/ /\ "start fails" \in Incidents /\ width' > 2
        /\ private' = FALSE /\ mdstate' = mdstate /\ pending' = FALSE
  /\ UNCHANGED <<rdev, erased, num_disks, recovery, file, blank, history>>

StartNew ==
  LET data == {i \in DataSlots : rdev[i] # None}
      absent == {i \in Parity : rdev[i] = None}
  IN  /\ MayStart /\ mdstate = "NEW_ARRAY"
      /\ file = EmptySuper \/ "new over old" \in Incidents
      /\ active' = data \cup Parity
      /\ enabled' = (data \cup Parity) \ absent
      /\ valid' = data
      /\ id' = rdev
      /\ size' = [i \in Slots |-> RSize(i)]
      /\ status' = [i \in Slots |->
                     IF i \in data THEN "DISK_OK"
                     ELSE IF i \in absent THEN "DISK_NP_DSBL"
                     ELSE IF i \in Parity THEN "DISK_INVALID" ELSE "DISK_NP"]
      /\ width' = Largest(data) + 2
      /\ num_disabled' = Cardinality(absent) /\ num_invalid' = Cardinality(Parity)
      /\ num_replaced' = 0 /\ num_missing' = 0 /\ num_wrong' = 0 /\ num_new' = 0
      /\ swap' = {}
      /\ fresh' = UNION {{<<i, rdev[i], r>> : r \in 0 .. RSize(i) - 1} : i \in data}
      /\ imported' = imported \cup Parity
      /\ Run(TRUE)

(* A disabled slot whose disk was removed loses its id.                     *)
Removed == {i \in WithStatus("DISK_NP_DSBL") : num_disabled > 0 /\ ~ same_disk_info(i, rdev[i])}
Forget(S) == [i \in Slots |-> IF i \in S THEN None ELSE id[i]]

StartDisable ==
  LET missing == WithStatus("DISK_NP_MISSING")
  IN  /\ MayStart /\ mdstate = "DISABLE_DISK"
      /\ status' = [i \in Slots |-> IF i \in missing THEN "DISK_NP_DSBL" ELSE status[i]]
      /\ enabled' = enabled \ missing /\ valid' = valid \ missing
      /\ num_disabled' = num_disabled + Cardinality(missing)
      /\ num_invalid' = num_invalid + Cardinality(missing)
      /\ num_missing' = num_missing - Cardinality(missing)
      /\ id' = Forget(missing \cup Removed)
      /\ UNCHANGED <<active, size, width, num_replaced, num_wrong, num_new, swap, fresh, imported>>
      /\ Run(missing \cup Removed # {})

StartRecon ==
  LET wrong == WithStatus("DISK_WRONG")
      kept == wrong \cap swap
      new == WithStatus("DISK_DSBL_NEW")
  IN  /\ MayStart /\ mdstate \in {"RECON_DISK", "SWAP_DSBL"}
      /\ status' = [i \in Slots |-> IF i \in kept THEN "DISK_OK"
                                    ELSE IF i \in wrong \cup new THEN "DISK_INVALID"
                                    ELSE status[i]]
      /\ \A p \in kept : \A r \in 0 .. RSize(p) - 1 : Current(p, r)
      /\ enabled' = enabled \cup new
      /\ valid' = valid \ (wrong \ kept)
      /\ num_disabled' = num_disabled - Cardinality(new)
      /\ num_invalid' = num_invalid + Cardinality((wrong \ kept) \cap valid)
      /\ num_replaced' = num_replaced - Cardinality(new)
      /\ num_wrong' = num_wrong - Cardinality(wrong)
      /\ swap' = swap \ kept
      /\ id' = [i \in Slots |-> IF i \in wrong \cup new THEN rdev[i] ELSE Forget(Removed)[i]]
      /\ size' = [i \in Slots |-> IF i \in wrong \cup new THEN RSize(i) ELSE size[i]]
      /\ UNCHANGED <<active, width, num_missing, num_new, fresh, imported>>
      /\ Run(wrong \cup new \cup Removed # {})

\* mutant: a new disk is active at once
JoiningAll(new) == new

(* The new disks that failed while they were cleared: md_write_error()      *)
(* leaves them DISK_NEW, with the id that the first start recorded.         *)
FailedToClear == {i \in WithStatus("DISK_NEW") : i \notin enabled /\ id[i] # None}

(* New disks are active at once if they are erased or there is no parity to *)
(* keep, and are to be cleared if not.                                      *)
Joining(new) == IF Parity \cap valid = {} THEN new ELSE new \cap erased

StartStopped ==
  LET new == IF num_new > 0 THEN WithStatus("DISK_NEW") ELSE {}
      join == Joining(new)
  IN  /\ MayStart /\ mdstate = "STOPPED"
      /\ new \cap FailedToClear # {} => "clear again" \in Incidents
      /\ status' = [i \in Slots |-> IF i \in join THEN "DISK_OK" ELSE status[i]]
      /\ enabled' = enabled \cup new
      /\ active' = active \cup join /\ valid' = valid \cup join
      /\ num_new' = num_new - Cardinality(join)
      /\ id' = [i \in Slots |-> IF i \in new THEN rdev[i] ELSE Forget(Removed)[i]]
      /\ size' = [i \in Slots |-> IF i \in new THEN RSize(i) ELSE size[i]]
      /\ fresh' = Join(join)
      /\ UNCHANGED <<width, num_disabled, num_replaced, num_invalid, num_missing, num_wrong,
                     swap, imported>>
      /\ Run(new \cup Removed # {})

(* md_update_sb(): no caller looks at what it returns.                      *)
Saved(super) == {super} \cup {old \in {file} : "file fails" \in Incidents}

(* At the end of start_array() or in handle_stripe().                       *)
CommitSuper ==
  /\ pending
  /\ file' \in Saved(Super) /\ pending' = FALSE
  /\ UNCHANGED <<superVars, width, deviceVars, counters, swap, mdstate, private, recovery,
                 content, history>>

---------------------------------------------------------------------------
(* md_write_error(), with the superblock to update before the write and     *)
(* those after it are returned.                                             *)

ReplacementFails(i) == i \in active /\ i \notin valid /\ num_disabled < 2
\* mutant: disks that are being rebuilt are not counted as failed
ArrayDiskFailsInvalid(i) == i \in active /\ i \in valid /\ num_disabled < 2

ArrayDiskFails(i) == i \in active /\ i \in valid /\ num_disabled < 2 /\ num_invalid < 2

ClearingFails(i) == i \notin active

WriteError(i) ==
  LET fails == ReplacementFails(i) \/ ArrayDiskFails(i)
  IN  /\ private /\ ~ pending /\ errors < MaxErrors
      /\ i \in enabled /\ rdev[i] # None
      /\ errors' = errors + 1
      /\ status' = IF fails THEN [status EXCEPT ![i] = "DISK_DSBL"] ELSE status
      /\ enabled' = IF fails \/ ClearingFails(i) THEN enabled \ {i} ELSE enabled
      /\ valid' = IF ArrayDiskFails(i) THEN valid \ {i} ELSE valid
      /\ num_disabled' = num_disabled + One(fails)
      /\ num_invalid' = num_invalid + One(ArrayDiskFails(i))
      /\ num_new' = num_new - One(ClearingFails(i))
      /\ pending' = (fails \/ ClearingFails(i))
      /\ beyond' = (beyond \/ ~ (fails \/ ClearingFails(i)))
      /\ UNCHANGED <<active, id, size, width, rdev, erased, imported, num_disks, num_replaced,
                     num_missing, num_wrong, swap, mdstate, private, recovery, file, content,
                     loads>>

---------------------------------------------------------------------------
(* The recovery thread: check_array() starts it, unraid_sync() goes through *)
(* the regions, and md_do_recovery() records the result.                    *)

(* status_resync(), which nmdctl reads before it sends a command.           *)
RecoverySize ==
  IF num_invalid # num_disabled THEN Largest({size[i] : i \in enabled \ valid})
  ELSE IF num_new > 0 /\ Parity \cap valid # {}
  THEN Largest({RSize(i) : i \in WithStatus("DISK_NEW")})
  ELSE Largest({RSize(i) : i \in Slots})

CheckArray(resume, offset) ==
  /\ private /\ recovery_running = 0 /\ offset < RecoverySize
  /\ IF resume THEN curr_resync > 0 /\ curr_resync' = curr_resync ELSE curr_resync' = offset
  /\ offset > 0 /\ enabled \ valid # {} => "offset" \in Incidents
  /\ recovery_running' = RecoverySize
  /\ file' \in Saved(Super)
  /\ UNCHANGED <<superVars, width, deviceVars, counters, swap, mdstate, private, pending,
                 content, history>>

(* A region is synced: the new disks are cleared, or what is invalid is     *)
(* computed from what is valid.                                             *)
SyncRegion ==
  LET r == curr_resync
      target == {i \in enabled \ valid : r < size[i] /\ rdev[i] # None}
      written == {<<rdev[i], r>> : i \in IF num_new > 0 THEN target \ active ELSE target}
      right == /\ Cardinality(Failed) <= 2
               /\ \A i \in active \cap valid : r < size[i] => Current(i, r)
  IN  /\ recovery_running > 0 /\ r < recovery_running
      /\ IF num_new > 0
         THEN fresh' = fresh /\ blank' = blank \cup written
         ELSE /\ fresh' = {t \in fresh : <<t[2], t[3]>> \notin written} \cup
                          {<<i, rdev[i], r>> : i \in IF right THEN target ELSE {}}
              /\ blank' = blank \ written
      /\ curr_resync' = curr_resync + 1
      /\ UNCHANGED <<superVars, width, deviceVars, counters, swap, mdstate, private,
                     recovery_running, file, pending, history>>

(* The sync has come to its end: what was rebuilt or cleared is valid.      *)
FinishSync ==
  LET done == enabled \ valid
      new == done \cap WithStatus("DISK_NEW")
  IN  /\ recovery_running > 0 /\ curr_resync >= recovery_running
      /\ active' = active \cup new /\ valid' = valid \cup done
      /\ num_new' = num_new - Cardinality(new)
      /\ num_invalid' = num_invalid - Cardinality(done \ new)
      /\ status' = [i \in Slots |-> IF i \in done THEN "DISK_OK" ELSE status[i]]
      /\ fresh' = Join(new)
      /\ curr_resync' = 0 /\ recovery_running' = 0
      /\ file' \in Saved([Super EXCEPT !.active = active', !.valid = valid'])
      /\ UNCHANGED <<enabled, id, size, width, rdev, erased, imported, num_disks, num_disabled,
                     num_replaced, num_missing, num_wrong, swap, mdstate, private, pending,
                     blank, history>>

(* A signal of md_write_error() or of nocheck_array() ends it early; CANCEL *)
(* makes it start over.                                                     *)
EndSync ==
  /\ recovery_running' = 0
  /\ file' \in IF recovery_running > 0 THEN Saved(Super) ELSE {file}

SyncInterrupted ==
  /\ recovery_running > 0
  /\ EndSync /\ curr_resync' = curr_resync
  /\ UNCHANGED <<superVars, width, deviceVars, counters, swap, mdstate, private, pending,
                 content, history>>

NocheckCancel ==
  /\ private
  /\ EndSync /\ curr_resync' = 0
  /\ UNCHANGED <<superVars, width, deviceVars, counters, swap, mdstate, private, pending,
                 content, history>>

StopArray ==
  /\ private \/ "stop when stopped" \in Incidents
  /\ ~ pending
  /\ EndSync /\ curr_resync' = 0
  /\ private' = FALSE /\ mdstate' = "STOPPED"
  /\ UNCHANGED <<superVars, width, deviceVars, counters, swap, pending, content, history>>

---------------------------------------------------------------------------
(* A crash, or the module is unloaded; alloc_mddev() when it is loaded.     *)
Restart ==
  /\ loads < MaxLoads
  /\ loads' = loads + 1
  /\ active' = file.active \cup (IF P \in file.active THEN {Q} ELSE {})
  /\ enabled' = file.enabled /\ valid' = file.valid /\ id' = file.id /\ size' = file.size
  /\ width' = 2
  /\ status' = [i \in Slots |-> "DISK_NP"] /\ rdev' = [i \in Slots |-> None] /\ erased' = {}
  /\ num_disks' = 0 /\ num_disabled' = 0 /\ num_replaced' = 0 /\ num_invalid' = 0
  /\ num_missing' = 0 /\ num_wrong' = 0 /\ num_new' = 0 /\ swap' = {}
  /\ mdstate' = "STOPPED" /\ private' = FALSE
  /\ curr_resync' = 0 /\ recovery_running' = 0 /\ pending' = FALSE
  /\ imported' = {}
  /\ UNCHANGED <<file, content, beyond, errors>>

(* At first the module has been loaded with the superblock of an array that *)
(* was created and synced, or with none.                                    *)
Init ==
  /\ \E a \in Assemblies :
       LET used == {i \in Slots : a[i] # None}
       IN  /\ file = IF used = {} THEN EmptySuper
                     ELSE [active |-> used \cup Parity, enabled |-> used, valid |-> used,
                           id |-> a, size |-> [i \in Slots |-> IF i \in used THEN SizeOf[a[i]] ELSE 0]]
           /\ fresh = UNION {{<<i, a[i], r>> : r \in 0 .. SizeOf[a[i]] - 1} : i \in used}
           /\ blank = UNION {{<<d, r>> : r \in 0 .. SizeOf[d] - 1} :
                              d \in Zeroed \ {a[i] : i \in Slots}}
  /\ active = file.active /\ enabled = file.enabled /\ valid = file.valid
  /\ id = file.id /\ size = file.size /\ width = 2
  /\ status = [i \in Slots |-> "DISK_NP"] /\ rdev = [i \in Slots |-> None] /\ erased = {}
  /\ num_disks = 0 /\ num_disabled = 0 /\ num_replaced = 0 /\ num_invalid = 0
  /\ num_missing = 0 /\ num_wrong = 0 /\ num_new = 0 /\ swap = {}
  /\ mdstate = "STOPPED" /\ private = FALSE
  /\ curr_resync = 0 /\ recovery_running = 0 /\ pending = FALSE
  /\ imported = {} /\ beyond = FALSE /\ loads = 1 /\ errors = 0

Regions == 0 .. Largest({SizeOf[d] : d \in Disks}) - 1

Start == StartNew \/ StartDisable \/ StartRecon \/ StartStopped
Recover ==
  \/ \E resume \in BOOLEAN, offset \in Regions : CheckArray(resume, offset)
  \/ SyncRegion \/ FinishSync \/ SyncInterrupted \/ NocheckCancel

Next ==
  \/ \E i \in Slots, d \in Disks \cup {None}, e \in BOOLEAN : ImportSlot(i, d, e)
  \/ Start \/ CommitSuper \/ StopArray \/ Restart \/ Recover
  \/ \E p \in Parity : CopyParity(p)
  \/ \E w \in DataSlots, r \in Regions : Write(w, r)
  \/ \E i \in Slots : WriteError(i)

Spec == Init /\ [][Next]_vars

---------------------------------------------------------------------------
(* Properties. *)

(* Every variable keeps its type, and the counters do not underflow. *)
TypeOK ==
  /\ active \subseteq Slots /\ enabled \subseteq Slots /\ valid \subseteq Slots
  /\ id \in [Slots -> Disks \cup {None}] /\ size \in [Slots -> Nat] /\ width \in Nat
  /\ status \in [Slots -> Status] /\ rdev \in [Slots -> Disks \cup {None}]
  /\ erased \subseteq Slots /\ imported \subseteq Slots /\ swap \subseteq Parity
  /\ num_disks \in Nat /\ num_disabled \in Nat /\ num_replaced \in Nat
  /\ num_invalid \in Nat /\ num_missing \in Nat /\ num_wrong \in Nat /\ num_new \in Nat
  /\ mdstate \in States /\ private \in BOOLEAN /\ pending \in BOOLEAN
  /\ curr_resync \in Nat /\ recovery_running \in Nat

(* The disks a running array takes for valid are there and hold the current *)
(* data of their slots: what is read is right, and what is computed from    *)
(* them is.                                                                 *)
ValidIsCurrent ==
  private /\ ~ beyond =>
    \A i \in active \cap valid : rdev[i] # None /\ \A r \in 0 .. size[i] - 1 : Current(i, r)

(* "DISK_OK: Disk present, correct, and valid" (docs/nmdstat.5:182).  What  *)
(* the superblock file would have a restart take for valid is current.      *)
FileIsCurrent ==
  ~ beyond =>
    \A i \in file.active \cap file.valid \cap file.enabled :
      \A r \in 0 .. file.size[i] - 1 : <<i, file.id[i], r>> \in fresh

(* "TOO_MANY_MISSING_DISKS - More than 2 disks missing/failed" prevents a   *)
(* start (docs/nmdcmd.8:162), and no failure later takes away more: P and Q *)
(* make up for two slots.                                                   *)
WithinParity == private => Cardinality(Failed) <= 2

(* The counters of a running array, on which md_write_error() and the       *)
(* recovery decide, are those of its slots.                                 *)
CountersExact ==
  private =>
    /\ num_disabled = Cardinality(active \ enabled)
    /\ num_invalid = Cardinality(Failed)
    /\ num_new = Cardinality(enabled \ active)
    /\ num_missing = 0 /\ num_wrong = 0 /\ num_replaced = 0

=============================================================================
