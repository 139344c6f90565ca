--------------------------- MODULE MCStripeCache ---------------------------
(* An instance of StripeCache for TLC: two bios and a sync. *)
EXTENDS StripeCache, TLC

CONSTANTS s1, s2, b1, b2

MCUnitOf == (b1 :> 1) @@ (b2 :> 1) @@ (Sync :> 0)
\* one bio spans both sectors, the other and the sync only the second
MCFirst == (b1 :> 0) @@ (b2 :> 1) @@ (Sync :> 1)
MCLast == (b1 :> 1) @@ (b2 :> 1) @@ (Sync :> 1)
\* for liveness: one bio and the sync, both over both sectors
OneUnitOf == (b1 :> 1) @@ (Sync :> 0)
OneFirst == (b1 :> 0) @@ (Sync :> 0)
OneLast == (b1 :> 1) @@ (Sync :> 1)
=============================================================================
