------------------------------- MODULE MCRaid6 -------------------------------
(* Small instance of Raid6 for TLC.                                        *)
EXTENDS Raid6

(* Bytes that differ between columns, versions, registers and lanes.       *)
MCContents(i, v) ==
  [w \in 0..Words-1 |->
     LET n == (40503 * (1 + w + 11 * i + 101 * v)) % 65536
     IN  {k \in 0..15 : (n \div (2 ^ k)) % 2 = 1}]

(* Writes go to the highest data column; the lowest one fails as well.     *)
MCWritten(n) == {n - 3}
MCFailing(n) == {0, n - 3, n - 2, n - 1}
=============================================================================
