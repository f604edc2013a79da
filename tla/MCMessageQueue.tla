---------------------------- MODULE MCMessageQueue ----------------------------
(* Small instances of MessageQueue: the timer and one worker flush.         *)
EXTENDS MessageQueue

CONSTANTS m1, m2, m3
MCMsgs == {m1, m2, m3}
===============================================================================
