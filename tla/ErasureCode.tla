----------------------------- MODULE ErasureCode -----------------------------
(***************************************************************************)
(* The code over the blocks of a stripe that Stripe computes with: data in *)
(* columns 0 .. NData-1, then P and Q.  A block is an element of the prime *)
(* field of order Order: P is the sum of the data blocks and Q the sum     *)
(* weighted with the distinct non-zero coefficients i+1, so that any two   *)
(* blocks can be recovered, just as with the GF(2^8) code of raid6/        *)
(* (subtraction differs from addition here, so a calculation that forgets  *)
(* an old block shows).                                                    *)
(***************************************************************************)
EXTENDS Integers, FiniteSetsExt

CONSTANTS
  NData,      \* data columns
  Order       \* order of the field of block values

Data == 0 .. NData - 1
PD == NData
QD == NData + 1
Cols == 0 .. QD
Elem == 0 .. Order - 1

ASSUME CodeAssumption ==
  /\ NData \in Nat \ {0} /\ Order \in Nat /\ Order > NData
  /\ \A a \in 2 .. Order - 1 : Order % a # 0

Sum(w) == MapThenSumSet(LAMBDA i : w[i], Data)

PValue(d) == Sum(d) % Order
QValue(d) == Sum([i \in Data |-> (i + 1) * d[i]]) % Order

(* The block of column i when the data blocks are d.                        *)
Block(d, i) == IF i = PD THEN PValue(d) ELSE IF i = QD THEN QValue(d) ELSE d[i]

=============================================================================
