------------------------------ MODULE MCArray ------------------------------
(* An instance of Array for TLC: two data slots, two parity slots. *)
EXTENDS Array, TLC

CONSTANTS p1, q1, a1, b1, x1

MCSizeOf == (p1 :> 2) @@ (q1 :> 2) @@ (a1 :> 1) @@ (b1 :> 1) @@ (x1 :> 2)
None4 == [i \in Slots |-> None]
Assembly(p, a, b, q) == [None4 EXCEPT ![0] = p, ![1] = a, ![2] = b, ![29] = q]
\* double parity, single parity, none
MCAssemblies == {Assembly(p1, a1, b1, q1), Assembly(p1, a1, b1, None), None4}
\* x1, a new and larger disk, may replace p1, and p1 may go to the first data slot
MCFits == {<<0, p1>>, <<0, x1>>, <<1, a1>>, <<1, p1>>, <<2, b1>>, <<29, q1>>}
=============================================================================
