------------------------------ MODULE MCDiscovery ------------------------------
(* Small instances of Discovery: two processes, of which the second comes up *)
(* with the id and the address of the first (instance id from the            *)
(* environment), its address only (the default, logic-{pid}), its id only,   *)
(* or as an instance of its own.                                             *)
EXTENDS Discovery

CONSTANTS p1, p2, idA, idB, addrA, addrB

MCNames == [p \in Procs |-> IF p = p1 THEN {<<idA, addrA>>} ELSE Ids \X Addrs]
===============================================================================
