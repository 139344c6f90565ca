------------------------------- MODULE Flush -------------------------------
(***************************************************************************)
(* A flush of one block device: handle_flush() in md_nonraid/6.18/unraid.c *)
(* sends a flush bio to the data disk and to the parity disks that are     *)
(* valid when it comes to them, end_flush() counts them down, and the work *)
(* submit_flush_data() answers the flush, or sends the data that came with *)
(* it on, as a write like any other.  A disk has a volatile write cache:   *)
(* what an answered write left there is safe after a flush bio sent later. *)
(* conf->active_flushes, which is only printed, is left out.               *)
(***************************************************************************)
EXTENDS Integers, FiniteSets

CONSTANTS
  Unit, Parity     \* the data disk of the device; the parity disks, P and Q

VARIABLES
  valid,           \* the slots with the bit in sb.disks[].state
  private, opens,  \* mddev->private # NULL; mddev->active
  at,              \* how far the flush is: see FlushAt
  todo,            \* the disks handle_flush() has not come to
  sent,            \* the disks with a flush bio in flight
  flush_pending,   \* flush_stripe->flush_pending
  due              \* history: the disks that may still have in their cache
                   \* what was answered before the flush came

shared == <<valid, private, opens>>
flushVars == <<at, todo, sent, flush_pending, due>>

(* "none": no flush; "send", in handle_flush(); "wait" for the flush bios;  *)
(* "work": submit_flush_data() is queued.                                   *)
FlushAt == {"none", "send", "wait", "work"}
Targets == {Unit} \cup Parity

\* mutant: handle_flush() does not hold a count of its own
handle_flush_zero ==
  /\ private /\ opens > 0 /\ at = "none"
  /\ at' = "send" /\ todo' = Targets /\ sent' = {}
  /\ flush_pending' = 0
  /\ due' = Targets
  /\ UNCHANGED shared

(* Bound: one flush at a time.  Any of the disks may have been written.     *)
handle_flush ==
  /\ private /\ opens > 0 /\ at = "none"
  /\ at' = "send" /\ todo' = Targets /\ sent' = {}
  /\ flush_pending' = 1
  /\ due' = Targets
  /\ UNCHANGED shared

(* The data disk is tested first, then P, then Q.                           *)
NextTarget == IF Unit \in todo THEN Unit ELSE CHOOSE p \in todo : \A q \in todo : p <= q

submit_flush_bio ==
  /\ at = "send" /\ todo # {}
  /\ todo' = todo \ {NextTarget}
  /\ IF NextTarget \in valid
     THEN sent' = sent \cup {NextTarget} /\ flush_pending' = flush_pending + 1
     ELSE UNCHANGED <<sent, flush_pending>>
  /\ UNCHANGED <<shared, at, due>>

(* handle_flush() drops its own count; the last one down queues the work.   *)
SentAll ==
  /\ at = "send" /\ todo = {}
  /\ flush_pending' = flush_pending - 1
  /\ at' = IF flush_pending' = 0 THEN "work" ELSE "wait"
  /\ UNCHANGED <<shared, todo, sent, due>>

\* mutant: the last flush bio to end does not queue the work
end_flush_lost(d) ==
  /\ d \in sent
  /\ sent' = sent \ {d} /\ due' = due \ {d}
  /\ flush_pending' = flush_pending - 1
  /\ at' = at
  /\ UNCHANGED <<shared, todo>>

(* A disk has written what was in its cache when its flush bio was sent.    *)
end_flush(d) ==
  /\ d \in sent
  /\ sent' = sent \ {d} /\ due' = due \ {d}
  /\ flush_pending' = flush_pending - 1
  /\ at' = IF flush_pending' = 0 THEN "work" ELSE at
  /\ UNCHANGED <<shared, todo>>

submit_flush_data ==
  /\ at = "work"
  /\ at' = "none" /\ due' = {}
  /\ UNCHANGED <<shared, todo, sent, flush_pending>>

FlushInit == at = "none" /\ todo = {} /\ sent = {} /\ flush_pending = 0 /\ due = {}

FlushStep ==
  submit_flush_bio \/ SentAll \/ submit_flush_data \/ \E d \in sent : end_flush(d)

FlushNext == handle_flush \/ FlushStep

FlushTypeOK ==
  /\ at \in FlushAt /\ todo \subseteq Targets /\ sent \subseteq Targets
  /\ flush_pending \in Nat /\ due \subseteq Targets

===========================================================================
