----------------------------- MODULE MCLogicCall ------------------------------
(* Three servers, two of them near, and messages that begin at either of these. *)
EXTENDS LogicCall, TLC
CONSTANTS l1, l2, l3
MCHome == [m \in Msgs |-> IF m = 1 THEN l2 ELSE l1]
===============================================================================
