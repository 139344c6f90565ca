------------------------------- MODULE Driver -------------------------------
(***************************************************************************)
(* The recovery thread and the commands (module Recovery) together with    *)
(* the flushes of a device (module Flush).  They meet in the state of the  *)
(* disks, in mddev->active, and in the conf that stop_array() frees.       *)
(***************************************************************************)
EXTENDS Recovery

CONSTANTS
  Unit,              \* the data disk of the device
  MeetFlush          \* bound: the commands that may be under way beside a flush

ASSUME DriverAssumption ==
  /\ Unit \in Disks \ Parity
  /\ \E q \in Parity : Parity = {P, q}

VARIABLES at, sent, flush_todo, flush_pending, due

F == INSTANCE Flush WITH todo <- flush_todo

flushVars == <<at, sent, flush_todo, flush_pending, due>>
driverVars == <<vars, flushVars>>

Others == None(Ops \ MeetFlush)

(* What a step of module Recovery is to the flushes.  A device is released  *)
(* when its bios are answered.  "rebuilt": md_do_recovery() marks a disk    *)
(* valid that handle_flush() has passed over, before submit_flush_data().   *)
Beside ==
  /\ opens' < opens => at = "none"
  /\ at # "none" /\ private /\ "rebuilt" \notin Windows =>
       F!Targets \cap (valid' \ valid) \subseteq flush_todo
  /\ at # "none" => Others'
  /\ UNCHANGED flushVars

FlushPart ==
  /\ F!FlushNext
  /\ at = "none" => Others
  /\ UNCHANGED vars

DriverInit == Init /\ F!FlushInit
DriverNext == (Next /\ Beside) \/ FlushPart

(* As in module Recovery, which the flushes never hold up; disks end flush  *)
(* bios, and workqueues run.                                                *)
DriverSpec ==
  DriverInit /\ [][DriverNext]_driverVars /\ Fairness /\ WF_flushVars(F!FlushStep)

---------------------------------------------------------------------------
(* When submit_flush_data() answers a flush, or sends its data on, every    *)
(* disk that then is valid has written what answered writes had left in its *)
(* cache: though disks fail while handle_flush() goes from one to the next, *)
(* end their flush bios before it has sent the others, and become valid     *)
(* while it runs.                                                           *)
FlushCovers == at = "work" => due \cap valid = {}

(* Every flush is answered.                                                 *)
FlushesEnd == at # "none" ~> at = "none"

===========================================================================
