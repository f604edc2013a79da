------------------------------- MODULE MCOutbox -------------------------------
(* Outbox on a small instance: the messages of one conversation, alice's and   *)
(* (when m3 is among Msgs) bob's.                                              *)
EXTENDS Outbox
CONSTANTS m3, alice, bob, conv

MCSenderOf == [m \in Msgs |-> IF m = m3 THEN bob ELSE alice]
MCConvOf == [m \in Msgs |-> conv]
===============================================================================
