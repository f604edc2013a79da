------------------------------ MODULE MCPresence ------------------------------
(* Small instances of Presence: two sessions of one user, on any of the      *)
(* devices and instances; a friend has two sessions on the first instance    *)
(* and one on each other.                                                    *)
EXTENDS Presence
CONSTANTS f1, f2, f3, i1, i2
MCEarAt == [e \in Ears |-> IF e = f3 THEN i2 ELSE i1]
===============================================================================
