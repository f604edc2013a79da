----------------------------- MODULE MCChatIngest -----------------------------
(* Small instances of ChatIngest: a message that is sent twice (a1, a2), a   *)
(* second message of the same sender (b1), and one of another lane (c1).    *)
EXTENDS ChatIngest

CONSTANTS a1, a2, b1, c1, Lane2, w1, w2
MCMsgs    == {a1, a2, b1, c1}
MCKeyOf   == [m \in MCMsgs |-> IF m = a2 THEN a1 ELSE m]
MCLaneOf  == [m \in MCMsgs |-> IF m = c1 THEN Lane2 ELSE "sender"]
MCWorkerOf == [l \in {"sender", Lane2} |-> IF l = Lane2 THEN w2 ELSE w1]
===============================================================================
