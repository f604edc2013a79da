-------------------------------- MODULE Outbox --------------------------------
(***************************************************************************)
(* The transactional outbox: the business transaction of                   *)
(* ChatServer::handlePrivateMessage, the relay thread of OutboxService,    *)
(* the Kafka producer's delivery callbacks, and the crash, shutdown and    *)
(* restart of a server process.  MySQL is the only state that survives a   *)
(* crash.                                                                  *)
(*                                                                         *)
(* Rows of the outbox table are identified with their message.  id is the  *)
(* AUTO_INCREMENT column: it is taken at INSERT, so a row with a smaller   *)
(* id may commit later.  A batch is the set of its rows: SELECT returns    *)
(* them ORDER BY id, so the relay always takes the one with the least id.  *)
(***************************************************************************)
EXTENDS Naturals, Sequences, FiniteSets, Functions

CONSTANTS
  Msgs,             \* messages, one per run of the slow path
  Procs,            \* server processes, each with one relay thread
  SenderOf,         \* sender of a message: its worker is picked by the sender
  ConvOf,           \* conversation of a message: the Kafka partition key
  BatchSize,        \* LIMIT of the relay's SELECT
  QueueMax,         \* capacity of the producer's local queue
  MaxFaults,        \* bound: crashes, failed delivery reports, and statements
                    \* MySQL did not execute or did not answer, all together
  MaxStops          \* bound: orderly shutdowns

ASSUME BoundsAssumption ==
  /\ BatchSize \in Nat \ {0}
  /\ QueueMax \in Nat \ {0}
  /\ MaxFaults \in Nat
  /\ MaxStops \in Nat

VARIABLES
  caller,     \* slow path of a message: how its transaction ended for it
  at,         \* the process that runs the slow path of a message
  saved,      \* messages with a committed row in private_messages
  row,        \* outbox.status of a message; "none": no row, "open": uncommitted
  id,         \* outbox.id
  nextId,     \* AUTO_INCREMENT counter
  aged,       \* rows with created_at older than the reclaim threshold (60 s)
  state,      \* of a process
  batch,      \* drainOnce: rows selected, not yet marked 'sending'
  claimed,    \* drainOnce: rows marked 'sending', not yet produced
  inflight,   \* the producer's local queue
  reports,    \* delivery callbacks that have not run yet: <<message, result>>
  log,        \* topic im.messages, in the order of arrival
  faults, stops,   \* how many so far
  retried,    \* ghost: rows with retry_count > 0
  leaked      \* ghost: rows a claim, a callback or a start() left 'sending'

dbVars    == <<saved, row, id, nextId, aged>>
relayVars == <<batch, claimed, inflight, reports>>
faultVars == <<faults, stops>>
ghostVars == <<retried, leaked>>
vars == <<caller, at, dbVars, state, relayVars, log, faultVars, ghostVars>>

Statuses == {"none", "open", "pending", "sending", "sent"}
Results  == {"ok", "failed"}

TypeOK ==
  /\ caller \in [Msgs -> {"idle", "open", "persisted", "fallback", "lost"}]
  /\ at \in [Msgs -> Procs]
  /\ saved \subseteq Msgs
  /\ row \in [Msgs -> Statuses]
  /\ id \in [Msgs -> Nat]
  /\ nextId \in Nat
  /\ aged \subseteq Msgs
  /\ state \in [Procs -> {"down", "up", "stopping"}]
  /\ batch \in [Procs -> SUBSET Msgs]
  /\ claimed \in [Procs -> SUBSET Msgs]
  /\ inflight \in [Procs -> Seq(Msgs)]
  /\ reports \in [Procs -> Seq(Msgs \X Results)]
  /\ log \in Seq(Msgs)
  /\ faults \in 0..MaxFaults
  /\ stops \in 0..MaxStops
  /\ retried \subseteq Msgs
  /\ leaked \subseteq Msgs

-------------------------------------------------------------------------------

RowsWith(status) == {m \in Msgs : row[m] = status}

\* Mutation: ORDER BY id DESC.
IsFirstDesc(m, S) == m \in S /\ \A n \in S : id[m] >= id[n]

\* The row ORDER BY id ASC puts first.
IsFirst(m, S) == m \in S /\ \A n \in S : id[m] <= id[n]

\* The batch of SELECT ... WHERE status='pending' ORDER BY id LIMIT BatchSize.
IsBatch(B) ==
  /\ B \subseteq RowsWith("pending")
  /\ Cardinality(B) <= BatchSize
  /\ \A m \in RowsWith("pending") \ B :
       Cardinality(B) = BatchSize /\ \A n \in B : id[n] < id[m]

\* The messages of the outstanding callbacks of a process.
Firsts(s) == [i \in DOMAIN s |-> s[i][1]]
Reported(p) == Firsts(reports[p])

\* What a process has taken out of the table and not yet put back.
Held(p) == claimed[p] \cup Range(inflight[p]) \cup Range(Reported(p))

InLog(m) == m \in Range(log)

-------------------------------------------------------------------------------
Init ==
  /\ caller = [m \in Msgs |-> "idle"]
  /\ at \in [Msgs -> Procs]
  /\ saved = {}
  /\ row = [m \in Msgs |-> "none"]
  /\ id = [m \in Msgs |-> 0]
  /\ nextId = 1
  /\ aged = {}
  /\ state = [p \in Procs |-> "down"]
  /\ batch = [p \in Procs |-> {}]
  /\ claimed = [p \in Procs |-> {}]
  /\ inflight = [p \in Procs |-> <<>>]
  /\ reports = [p \in Procs |-> <<>>]
  /\ log = <<>>
  /\ faults = 0 /\ stops = 0
  /\ retried = {}
  /\ leaked = {}

Fault == faults < MaxFaults /\ faults' = faults + 1

-------------------------------------------------------------------------------
(* The business transaction, on the worker of the sender.                  *)

\* Mutation: the outbox row is inserted outside the transaction.
InsertRowsAutocommit(m) ==
  /\ caller[m] = "idle"
  /\ state[at[m]] = "up"
  /\ \A n \in Msgs : caller[n] = "open" /\ at[n] = at[m]
                       => SenderOf[n] # SenderOf[m]
  /\ caller' = [caller EXCEPT ![m] = "open"]
  /\ row' = [row EXCEPT ![m] = "pending"]
  /\ id' = [id EXCEPT ![m] = nextId]
  /\ nextId' = nextId + 1
  /\ UNCHANGED <<at, saved, aged, state, relayVars, log, faultVars, ghostVars>>

\* savePrivateMessageTx and insertOutbox inside one TransactionGuard.
InsertRows(m) ==
  /\ caller[m] = "idle"
  /\ state[at[m]] = "up"
  /\ \A n \in Msgs : caller[n] = "open" /\ at[n] = at[m]
                       => SenderOf[n] # SenderOf[m]
  /\ caller' = [caller EXCEPT ![m] = "open"]
  /\ row' = [row EXCEPT ![m] = "open"]
  /\ id' = [id EXCEPT ![m] = nextId]
  /\ nextId' = nextId + 1
  /\ UNCHANGED <<at, saved, aged, state, relayVars, log, faultVars, ghostVars>>

Commit(m) ==
  /\ caller[m] = "open"
  /\ caller' = [caller EXCEPT ![m] = "persisted"]
  /\ saved' = saved \cup {m}
  /\ row' = [row EXCEPT ![m] = "pending"]
  /\ UNCHANGED <<at, id, nextId, aged, state, relayVars, log, faultVars, ghostVars>>

\* tx.commit() returns false: MySQL rolled the two rows back, or it committed
\* them and the answer was lost.  The slow path takes the Redis queue instead.
CommitFails(m) ==
  /\ caller[m] = "open"
  /\ Fault
  /\ caller' = [caller EXCEPT ![m] = "fallback"]
  /\ \/ row' = [row EXCEPT ![m] = "none"] /\ UNCHANGED saved
     \/ row' = [row EXCEPT ![m] = "pending"] /\ saved' = saved \cup {m}
  /\ UNCHANGED <<at, id, nextId, aged, state, relayVars, log, stops, ghostVars>>

\* No connection, no transaction, or one of the two INSERTs fails.
TxFails(m) ==
  /\ caller[m] = "idle"
  /\ state[at[m]] = "up"
  /\ Fault
  /\ caller' = [caller EXCEPT ![m] = "fallback"]
  /\ UNCHANGED <<at, dbVars, state, relayVars, log, stops, ghostVars>>

-------------------------------------------------------------------------------
(* The relay thread: relayLoop calls drainOnce again and again.            *)

DrainIdle(p) == batch[p] = {} /\ claimed[p] = {}

Select(p) ==
  /\ state[p] = "up"
  /\ DrainIdle(p)
  /\ \E B \in SUBSET RowsWith("pending") :
       /\ B # {} /\ IsBatch(B)
       /\ batch' = [batch EXCEPT ![p] = B]
  /\ UNCHANGED <<caller, at, dbVars, state, claimed, inflight, reports, log, faultVars, ghostVars>>

\* Mutation: rows are produced while still 'pending' (the defect the comment
\* before drainOnce says was repaired).
ClaimUnmarked(p) ==
  /\ \E m \in Msgs :
       /\ IsFirst(m, batch[p])
       /\ batch' = [batch EXCEPT ![p] = @ \ {m}]
       /\ claimed' = [claimed EXCEPT ![p] = @ \cup {m}]
  /\ UNCHANGED <<caller, at, dbVars, state, inflight, reports, log, faultVars, ghostVars>>

\* UPDATE ... SET status='sending' WHERE id=? AND status='pending', one row; a
\* row that is no longer pending is skipped.
ClaimRow(p, m) ==
  /\ IsFirst(m, batch[p])
  /\ batch' = [batch EXCEPT ![p] = @ \ {m}]
  /\ IF row[m] = "pending"
     THEN /\ row' = [row EXCEPT ![m] = "sending"]
          /\ claimed' = [claimed EXCEPT ![p] = @ \cup {m}]
     ELSE UNCHANGED <<row, claimed>>

Claim(p) ==
  /\ \E m \in Msgs : ClaimRow(p, m)
  /\ UNCHANGED <<caller, at, saved, id, nextId, aged, state, inflight, reports, log, faultVars,
                 ghostVars>>

\* execute() of the claim fails.  The UPDATE had no effect and the row stays
\* pending for a later round; or it had and its answer was lost: then the row is
\* 'sending' and not among the claimed ones.
ClaimFails(p) ==
  /\ Fault
  /\ \E m \in Msgs :
       /\ IsFirst(m, batch[p])
       /\ batch' = [batch EXCEPT ![p] = @ \ {m}]
       /\ \/ UNCHANGED <<row, leaked>>
          \/ /\ row[m] = "pending"
             /\ row' = [row EXCEPT ![m] = "sending"]
             /\ leaked' = leaked \cup {m}
  /\ UNCHANGED <<caller, at, saved, id, nextId, aged, state, claimed, inflight, reports, log,
                 stops, retried>>

\* Mutation: a failed delivery leaves the row as it is.
MarkDeliveredNoRetry(m, result) ==
  /\ row' = [row EXCEPT ![m] = IF result = "ok" THEN "sent" ELSE @]
  /\ retried' = IF result = "ok" THEN retried ELSE retried \cup {m}

\* The UPDATE of onDelivery, without a guard on the status it overwrites.
MarkDelivered(m, result) ==
  /\ row' = [row EXCEPT ![m] = IF result = "ok" THEN "sent" ELSE "pending"]
  /\ retried' = IF result = "ok" THEN retried ELSE retried \cup {m}

\* Mutation: the result of produce is ignored.
ProduceUnchecked(p) ==
  /\ batch[p] = {}
  /\ \E m \in Msgs :
       /\ IsFirst(m, claimed[p])
       /\ claimed' = [claimed EXCEPT ![p] = @ \ {m}]
       /\ inflight' = [inflight EXCEPT ![p] =
                         IF Len(@) < QueueMax THEN Append(@, m) ELSE @]
  /\ UNCHANGED <<caller, at, dbVars, state, batch, reports, log, faultVars, ghostVars>>

\* kafka_->produce queues the row, or refuses it because its queue is full:
\* then the row goes back to pending at once, if a connection can be had.
ProduceRow(p, m) ==
  /\ IsFirst(m, claimed[p])
  /\ claimed' = [claimed EXCEPT ![p] = @ \ {m}]
  /\ \/ /\ Len(inflight[p]) < QueueMax
        /\ inflight' = [inflight EXCEPT ![p] = Append(@, m)]
        /\ UNCHANGED <<row, faults, retried, leaked>>
     \/ /\ Len(inflight[p]) = QueueMax
        /\ MarkDelivered(m, "failed")
        /\ UNCHANGED <<inflight, faults, leaked>>
     \/ /\ Len(inflight[p]) = QueueMax
        /\ Fault
        /\ leaked' = leaked \cup {m}
        /\ UNCHANGED <<inflight, row, retried>>

Produce(p) ==
  /\ batch[p] = {}
  /\ \E m \in Msgs : ProduceRow(p, m)
  /\ UNCHANGED <<caller, at, saved, id, nextId, aged, state, batch, reports, log, stops>>

-------------------------------------------------------------------------------
(* Kafka, and the producer's delivery callbacks.                           *)

\* The broker takes the oldest message of a producer and acknowledges it.
KafkaAck(p) ==
  /\ inflight[p] # <<>>
  /\ inflight' = [inflight EXCEPT ![p] = Tail(@)]
  /\ reports' = [reports EXCEPT ![p] = Append(@, <<Head(inflight[p]), "ok">>)]
  /\ log' = Append(log, Head(inflight[p]))
  /\ UNCHANGED <<caller, at, dbVars, state, batch, claimed, faultVars, ghostVars>>

\* The producer gives up on a message; the broker may have taken it all the same.
KafkaFails(p) ==
  /\ inflight[p] # <<>>
  /\ Fault
  /\ inflight' = [inflight EXCEPT ![p] = Tail(@)]
  /\ reports' = [reports EXCEPT ![p] = Append(@, <<Head(inflight[p]), "failed">>)]
  /\ \/ UNCHANGED log
     \/ log' = Append(log, Head(inflight[p]))
  /\ UNCHANGED <<caller, at, dbVars, state, batch, claimed, stops, ghostVars>>

OnDelivery(p) ==
  /\ reports[p] # <<>>
  /\ MarkDelivered(Head(reports[p])[1], Head(reports[p])[2])
  /\ reports' = [reports EXCEPT ![p] = Tail(@)]
  /\ UNCHANGED <<caller, at, saved, id, nextId, aged, state, batch, claimed, inflight, log,
                 faultVars, leaked>>

\* onDelivery without a connection returns: the row keeps its status.
OnDeliveryFails(p) ==
  /\ reports[p] # <<>>
  /\ Fault
  /\ reports' = [reports EXCEPT ![p] = Tail(@)]
  /\ leaked' = leaked \cup {Head(reports[p])[1]}
  /\ UNCHANGED <<caller, at, dbVars, state, batch, claimed, inflight, log, stops, retried>>

-------------------------------------------------------------------------------
(* Processes.                                                              *)

\* start(): reclaimStuckSending puts the old 'sending' rows back, whoever holds
\* them; without a connection it reclaims nothing.
Reclaimable == RowsWith("sending") \cap aged

Start(p) ==
  /\ state[p] = "down"
  /\ state' = [state EXCEPT ![p] = "up"]
  /\ \/ /\ row' = [m \in Msgs |-> IF m \in Reclaimable THEN "pending" ELSE row[m]]
        /\ leaked' = leaked \cup (RowsWith("sending") \ aged)
        /\ UNCHANGED faults
     \/ /\ Fault
        /\ leaked' = leaked \cup RowsWith("sending")
        /\ UNCHANGED row
  /\ UNCHANGED <<caller, at, saved, id, nextId, aged, relayVars, log, stops, retried>>

\* shutdown(): the worker pool has drained, then outboxService_->stop().
Stop(p) ==
  /\ state[p] = "up"
  /\ \A m \in Msgs : at[m] = p => caller[m] # "open"
  /\ stops < MaxStops
  /\ stops' = stops + 1
  /\ state' = [state EXCEPT ![p] = "stopping"]
  /\ UNCHANGED <<caller, at, dbVars, relayVars, log, faults, ghostVars>>

\* Mutation: the process exits without flushing the producer.
StoppedUnflushed(p) ==
  /\ state[p] = "stopping"
  /\ DrainIdle(p)
  /\ state' = [state EXCEPT ![p] = "down"]
  /\ inflight' = [inflight EXCEPT ![p] = <<>>]
  /\ reports' = [reports EXCEPT ![p] = <<>>]
  /\ UNCHANGED <<caller, at, dbVars, batch, claimed, log, faultVars, ghostVars>>

\* The relay thread has joined and kafkaProducer_->stop() has flushed.
Stopped(p) ==
  /\ state[p] = "stopping"
  /\ DrainIdle(p) /\ inflight[p] = <<>> /\ reports[p] = <<>>
  /\ state' = [state EXCEPT ![p] = "down"]
  /\ UNCHANGED <<caller, at, dbVars, relayVars, log, faultVars, ghostVars>>

\* A crash, or a shutdown whose flush timed out: MySQL rolls back what is open.
Crash(p) ==
  /\ state[p] # "down"
  /\ Fault
  /\ state' = [state EXCEPT ![p] = "down"]
  /\ LET open == {m \in Msgs : at[m] = p /\ caller[m] = "open"}
     IN /\ caller' = [m \in Msgs |-> IF m \in open THEN "lost" ELSE caller[m]]
        /\ row' = [m \in Msgs |-> IF m \in open THEN "none" ELSE row[m]]
  /\ batch' = [batch EXCEPT ![p] = {}]
  /\ claimed' = [claimed EXCEPT ![p] = {}]
  /\ inflight' = [inflight EXCEPT ![p] = <<>>]
  /\ reports' = [reports EXCEPT ![p] = <<>>]
  /\ UNCHANGED <<at, saved, id, nextId, aged, log, stops, ghostVars>>

\* 60 seconds have passed since the row was created; only the reclaim of a
\* 'sending' row looks at that.
Age(m) ==
  /\ row[m] = "sending" /\ m \notin aged
  /\ aged' = aged \cup {m}
  /\ UNCHANGED <<caller, at, saved, row, id, nextId, state, relayVars, log, faultVars, ghostVars>>

-------------------------------------------------------------------------------
Business(m) == InsertRows(m) \/ Commit(m) \/ CommitFails(m) \/ TxFails(m)
Relay(p)    == Select(p) \/ Claim(p) \/ ClaimFails(p) \/ Produce(p)
Kafka(p)    == KafkaAck(p) \/ KafkaFails(p) \/ OnDelivery(p) \/ OnDeliveryFails(p)
Process(p)  == Start(p) \/ Stop(p) \/ Stopped(p) \/ Crash(p)

Next == \/ \E m \in Msgs : Business(m) \/ Age(m)
        \/ \E p \in Procs : Relay(p) \/ Kafka(p) \/ Process(p)

Spec == Init /\ [][Next]_vars

\* The relay thread loops, the broker and the callbacks answer, a transaction
\* ends, time passes and a process that is down is started again.
Fairness ==
  /\ \A m \in Msgs : WF_vars(Commit(m)) /\ WF_vars(Age(m))
  /\ \A p \in Procs : /\ WF_vars(Select(p)) /\ WF_vars(Claim(p))
                      /\ WF_vars(Produce(p)) /\ WF_vars(KafkaAck(p))
                      /\ WF_vars(OnDelivery(p)) /\ WF_vars(Stopped(p))
                      /\ WF_vars(Start(p))

FairSpec == Spec /\ Fairness

-------------------------------------------------------------------------------
(* Properties.  The ones that say "single relay" hold of one server process *)
(* on the database; drainOnce's comment (lines 144-147) says that this is   *)
(* how the project runs.                                                    *)
SingleRelay == \A p, q \in Procs : p = q

\* A row is in the relay's hands at most once: it is claimed, queued in the
\* producer or reported, in one place only, and is 'sending' all that time (the
\* comment before drainOnce: the same row is not handed out again while its
\* callback is outstanding).  Single relay.
HeldOnceBy(p) ==
  /\ \A m \in Held(p) : row[m] = "sending"
  /\ IsInjective(inflight[p]) /\ IsInjective(Reported(p))
  /\ Range(inflight[p]) \cap Range(Reported(p)) = {}
  /\ claimed[p] \cap (Range(inflight[p]) \cup Range(Reported(p))) = {}

HeldOnce ==
  /\ \A p \in Procs : HeldOnceBy(p)
  /\ \A p, q \in Procs : p # q => Held(p) \cap Held(q) = {}

\* While the process is up, a 'sending' row that the relay no longer holds was
\* left so by a claim whose answer was lost, by a callback without a connection
\* or by a start() that did not reclaim it: no other path of the relay, the full
\* producer queue included, drops a row.  Single relay.
StrandedIsLeaked ==
  \A m \in Msgs :
    /\ row[m] = "sending"
    /\ \A p \in Procs : state[p] # "down" /\ m \notin Held(p)
    => m \in leaked

\* Two messages of one sender in one conversation arrive in Kafka in the order
\* they were saved, unless a fault occurred or a row had to be retried (the
\* comment at the SELECT: ordered by id to keep the order in a partition).
\* Single relay.
SenderOrder ==
  faults = 0 /\ retried = {} =>
    \A m, n \in saved :
      /\ SenderOf[m] = SenderOf[n] /\ ConvOf[m] = ConvOf[n] /\ id[m] < id[n]
      => \A j \in DOMAIN log : log[j] = n => \E i \in 1..(j - 1) : log[i] = m

\* Every copy of a message in Kafka beyond the first one is paid for by a crash,
\* a failed report or a callback without connection: restarts and retries alone
\* do not duplicate.  Single relay.
CopiesBounded ==
  \A m \in Msgs : Cardinality({i \in DOMAIN log : log[i] = m})
                     <= 1 + faults

\* A committed message reaches Kafka, unless its row was left 'sending' by a
\* claim, a start() or a callback: the promise of the header comment (line 7),
\* and what it takes to break it.
RelayedOrLeaked == \A m \in Msgs : m \in saved ~> InLog(m) \/ m \in leaked

\* The header comment, line 7: once the business transaction has committed, the
\* message is certain to be relayed.
EventuallyRelayed == \A m \in Msgs : m \in saved ~> InLog(m)

\* The outbox implements what its header promises: published messages come from
\* committed transactions, and a settled row is one that Kafka has.  Single
\* relay.
Abs == INSTANCE OutboxAbs WITH
         accepted  <- saved,
         published <- {m \in Msgs : InLog(m)},
         settled   <- RowsWith("sent")
ImplementsAbs == Abs!Spec
===============================================================================
