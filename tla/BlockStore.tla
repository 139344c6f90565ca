------------------------------ MODULE BlockStore ------------------------------
(***************************************************************************)
(* What the array promises to the users of one stripe, however many disks  *)
(* it has and whatever happens to them: blocks that are read and written,  *)
(* one request at a time.                                                  *)
(*                                                                         *)
(* A read that succeeds returns the block.  A write takes place at one     *)
(* moment, on top of what the block holds, and is then answered; or it     *)
(* fails, and the block may hold the old or the new content.  A request is *)
(* answered once.                                                          *)
(***************************************************************************)
EXTENDS Naturals

CONSTANTS Blocks,     \* the data blocks of the stripe
          Order,      \* their contents are 0 .. Order-1
          Initial     \* what they hold at first

VARIABLES store,      \* what each block may hold
          request,    \* the request under way
          answer      \* what the last step answered

vars == <<store, request, answer>>

Contents == 0 .. Order - 1
None == [op |-> "none", col |-> 0, val |-> 0, partial |-> FALSE]
NoAnswer == [op |-> "none", ok |-> TRUE, col |-> 0, val |-> 0]

Request == [op : {"read", "write"}, col : Blocks, val : Contents, partial : BOOLEAN]

Init ==
  /\ store = [b \in Blocks |-> {Initial}]
  /\ request = None /\ answer = NoAnswer

Submit ==
  /\ request.op = "none"
  /\ request' \in Request
  /\ answer' = NoAnswer
  /\ UNCHANGED store

(* A partial write changes a part of what the block holds (by adding to    *)
(* it); after this step val is the whole new block.                        *)
Take ==
  /\ request.op = "write"
  /\ \E old \in store[request.col] :
       request' = [request EXCEPT !.op = "written",
                     !.val = IF request.partial THEN (old + request.val) % Order ELSE request.val]
  /\ answer' = NoAnswer
  /\ UNCHANGED store

AnswerRead ==
  /\ request.op = "read"
  /\ \E v \in store[request.col] :
       answer' = [op |-> "read", ok |-> TRUE, col |-> request.col, val |-> v]
  /\ request' = None
  /\ UNCHANGED store

AnswerWrite ==
  /\ request.op = "written"
  /\ answer' = [op |-> "write", ok |-> TRUE, col |-> request.col, val |-> request.val]
  /\ store' = [store EXCEPT ![request.col] = {request.val}]
  /\ request' = None

FailRead ==
  /\ request.op = "read"
  /\ answer' = [op |-> "read", ok |-> FALSE, col |-> request.col, val |-> 0]
  /\ request' = None
  /\ UNCHANGED store

FailWrite ==
  /\ request.op \in {"write", "written"}
  /\ answer' = [op |-> "write", ok |-> FALSE, col |-> request.col, val |-> 0]
  /\ store' = [store EXCEPT ![request.col] = @ \cup
                 IF request.op = "write" /\ request.partial THEN Contents ELSE {request.val}]
  /\ request' = None

(* The disks, the cache and the sync go about their business.              *)
Inside == answer' = NoAnswer /\ UNCHANGED <<store, request>>

Next ==
  Submit \/ Take \/ AnswerRead \/ AnswerWrite \/ FailRead \/ FailWrite \/ Inside

Spec == Init /\ [][Next]_vars
=============================================================================
