------------------------------ MODULE OutboxAbs ------------------------------
(***************************************************************************)
(* What the transactional outbox promises (OutboxService.h, header comment *)
(* lines 5-8), without rows, relays or callbacks: a message is accepted    *)
(* when its business transaction commits; only an accepted message is ever *)
(* published to Kafka, at least once; only a published one is settled, and *)
(* none of the three is ever taken back.                                   *)
(***************************************************************************)
CONSTANT Msgs            \* messages that senders hand to the server

VARIABLES accepted,      \* their business transaction committed
          published,     \* present in the Kafka topic
          settled        \* no longer the relay's business

vars == <<accepted, published, settled>>

Init == accepted = {} /\ published = {} /\ settled = {}

Accept(m) == /\ accepted' = accepted \cup {m}
             /\ UNCHANGED <<published, settled>>

Publish(m) == /\ m \in accepted
              /\ published' = published \cup {m}
              /\ UNCHANGED <<accepted, settled>>

Settle(m) == /\ m \in published
             /\ settled' = settled \cup {m}
             /\ UNCHANGED <<accepted, published>>

Next == \E m \in Msgs : Accept(m) \/ Publish(m) \/ Settle(m)

Spec == Init /\ [][Next]_vars
==============================================================================
