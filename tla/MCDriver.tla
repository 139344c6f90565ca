------------------------------ MODULE MCDriver ------------------------------
(* An instance of Driver for TLC: the parity disk, of two regions, and a    *)
(* data disk of one, whose device is flushed.                               *)
EXTENDS Driver, TLC

MCSizeOf == (0 :> 2) @@ (1 :> 1)
=============================================================================
