------------------------------ MODULE MCStripe ------------------------------
(* Arrays for TLC: two data columns, P and Q, or one data column. *)
EXTENDS Stripe

Slots(d0, d1, p, q) == (0 :> d0) @@ (1 :> d1) @@ (2 :> p) @@ (3 :> q)
SlotsOne(d, p, q) == (0 :> d) @@ (1 :> p) @@ (2 :> q)

Some(slots, n, reads, writes) ==
  [slots |-> slots, faults |-> n, readFaults |-> reads, writeFaults |-> writes,
   others |-> FALSE, clean |-> TRUE]
Sound(slots) == Some(slots, 0, {}, {})
Faulty(slots, n) == Some(slots, n, {0, 1, 3}, {0, 1, 3})
AllOk == Slots("ok", "ok", "ok", "ok")

(* Every slot in use or to be cleared, one error, also in other stripes;    *)
(* and an unclean stop.                                                     *)
Intact ==
  {[Some(AllOk, 1, {}, {0}) EXCEPT !.others = TRUE],
   Some(AllOk, 1, {1}, {3}), [Sound(AllOk) EXCEPT !.clean = FALSE],
   Some(Slots("ok", "new", "ok", "ok"), 1, {}, {1}),
   Sound(Slots("absent", "ok", "ok", "ok"))}

(* One slot lost and one error more. *)
OneLost ==
  {Faulty(Slots("dsbl", "ok", "ok", "ok"), 1), Some(Slots("ok", "rebuild", "ok", "ok"), 1, {0}, {1})}

(* Two slots lost, being rebuilt or too short for the stripe.  The last     *)
(* one is out of reach when parity cannot be read either.                   *)
TwoLost ==
  {Sound(Slots(a, b, "ok", "ok")) : a \in {"dsbl", "rebuild"}, b \in {"rebuild"}}
  \cup {Sound(Slots(a, "ok", "ok", q)) : a, q \in {"dsbl", "rebuild"}}
  \cup {Sound(Slots("ok", b, "rebuild", "rebuild")) : b \in {"ok", "short"}}
  \cup {Sound(Slots("dsbl", "ok", "rebuild", "ok"))}
  \cup {Some(Slots("dsbl", "dsbl", "ok", "ok"), 1, {2, 3}, {})}

Degraded == OneLost \cup TwoLost

(* One data disk, mirrored to P and Q (disks == 3). *)
Mirror ==
  {Some(SlotsOne("ok", "ok", "ok"), 1, {0, 1, 2}, {0, 2}), Sound(SlotsOne("dsbl", "ok", "ok")),
   Sound(SlotsOne("ok", "ok", "rebuild"))}

(* The arrays of the runs that find a violation. *)
PLost == {Sound(Slots("ok", "ok", "dsbl", "ok"))}
PLostReadError == {Some(Slots("ok", "ok", "dsbl", "ok"), 1, {0, 1}, {})}
SingleParityLastWrite == {Some(Slots("dsbl", "ok", "ok", "dsbl"), 1, {}, 0 .. 3)}
RebuildUnread == {Some(Slots("dsbl", "rebuild", "ok", "ok"), 1, {2, 3}, {})}
OtherStripeFails == {[Faulty(AllOk, 1) EXCEPT !.others = TRUE]}
=============================================================================
