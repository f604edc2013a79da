----------------------------- MODULE MessageQueue -----------------------------
(***************************************************************************)
(* The Redis list msg_queue: ChatServer::queueMessage puts a message at    *)
(* its head (LPUSH) or degrades to a direct INSERT, flushMessageQueue      *)
(* moves up to ReadMax messages from the head into MySQL.  Several threads *)
(* flush: the 2-second timer on the event loop, shutdown(), and the        *)
(* workers and IO threads that handle a recall, an edit, a reaction or a   *)
(* client ack.  LRANGE, LTRIM and the INSERTs of a flush are separate      *)
(* commands, and nothing locks the list between them.  One server process; *)
(* a second one on the same Redis is one more flusher.                     *)
(***************************************************************************)
EXTENDS Naturals, Sequences, FiniteSets, SequencesExt

CONSTANTS
  Msgs,         \* messages by their server msgId (Snowflake: all different)
  Flushers,     \* threads that call flushMessageQueue
  Timer,        \* the one of them that runs every 2 seconds
  ReadMax,      \* LRANGE 0 (ReadMax - 1): 100 in the code
  OpenAfter,    \* consecutive failures that open a circuit breaker: 5
  CloseAfter,   \* successes that close a half-open breaker: 2
  MaxFaults     \* bound: crashes and statements or connections that fail

ASSUME QueueAssumption ==
  /\ Timer \in Flushers
  /\ ReadMax \in Nat \ {0}
  /\ OpenAfter \in Nat \ {0} /\ CloseAfter \in Nat \ {0}
  /\ MaxFaults \in Nat

VARIABLES
  stage,        \* queueMessage for a message: not called, degraded, returned,
                \* or ended by a crash
  queue,        \* msg_queue, its head first
  rows,         \* messages with a row in MySQL (msg_id is UNIQUE)
  pc,           \* of a flusher
  batch,        \* messages a flusher has read and not yet inserted
  tally,        \* how the INSERTs of a flush went so far
  breaker,      \* mysqlBreaker_ and redisBreaker_
  faults,       \* how many so far
  dropped,      \* ghost: messages that a fault took
  exposed       \* ghost: messages pushed between the LRANGE and the LTRIM of a
                \* flush, or in the list while two flushes are both there

queueVars == <<stage, queue, rows, pc, batch, tally, breaker, faults, dropped, exposed>>

Breakers == {"mysql", "redis"}
INSTANCE CircuitBreaker

QueueTypeOK ==
  /\ stage \in [Msgs -> {"new", "direct", "done", "gone"}]
  /\ queue \in Seq(Msgs)
  /\ rows \subseteq Msgs
  /\ pc \in [Flushers -> {"idle", "trim", "insert"}]
  /\ batch \in [Flushers -> Seq(Msgs)]
  /\ \A f \in Flushers : Len(batch[f]) <= ReadMax
  /\ tally \in [Flushers -> SUBSET {"ok", "fail"}]
  /\ breaker \in [Breakers -> BreakerStates]
  /\ faults \in 0..MaxFaults
  /\ dropped \subseteq Msgs
  /\ exposed \subseteq Msgs

QueueInit ==
  /\ stage = [m \in Msgs |-> "new"]
  /\ queue = <<>>
  /\ rows = {}
  /\ pc = [f \in Flushers |-> "idle"]
  /\ batch = [f \in Flushers |-> <<>>]
  /\ tally = [f \in Flushers |-> {}]
  /\ breaker = [b \in Breakers |-> Closed]
  /\ faults = 0
  /\ dropped = {}
  /\ exposed = {}

Fault == faults < MaxFaults /\ faults' = faults + 1

Held == UNION {ToSet(batch[f]) : f \in Flushers}
InWindow == {f \in Flushers : pc[f] = "trim"}

-------------------------------------------------------------------------------
(* The circuit breaker: as used here, closed until OpenAfter consecutive   *)
(* failures, half-open when its timeout has passed.                        *)

Allow(b) == breaker[b].mode # "open"

RecordSuccess(b) == breaker' = [breaker EXCEPT ![b] = Success(@)]
RecordFailure(b) == breaker' = [breaker EXCEPT ![b] = Failure(@)]

\* Mutation: the timeout of an open breaker starts over and over.
TimeoutNever(b) == FALSE /\ UNCHANGED queueVars

Timeout(b) ==
  /\ breaker[b].mode = "open"
  /\ breaker' = [breaker EXCEPT ![b] = Half]
  /\ UNCHANGED <<stage, queue, rows, pc, batch, tally, faults, dropped, exposed>>

-------------------------------------------------------------------------------
(* queueMessage and directSaveMessage.                                     *)

Push(m) ==
  /\ stage[m] = "new" /\ Allow("redis")
  /\ stage' = [stage EXCEPT ![m] = "done"]
  /\ queue' = <<m>> \o queue
  /\ exposed' = IF InWindow = {} THEN exposed ELSE exposed \cup {m}
  /\ RecordSuccess("redis")
  /\ UNCHANGED <<rows, pc, batch, tally, faults, dropped>>

\* The connection is fine but LPUSH is not executed: its result is not looked at.
PushIgnored(m) ==
  /\ stage[m] = "new" /\ Allow("redis")
  /\ Fault
  /\ stage' = [stage EXCEPT ![m] = "done"]
  /\ dropped' = dropped \cup {m}
  /\ RecordSuccess("redis")
  /\ UNCHANGED <<queue, rows, pc, batch, tally, exposed>>

\* The breaker is open, or no connection could be had: save directly.
Degrade(m) ==
  /\ stage[m] = "new"
  /\ stage' = [stage EXCEPT ![m] = "direct"]
  /\ \/ ~Allow("redis") /\ UNCHANGED <<breaker, faults>>
     \/ Allow("redis") /\ Fault /\ RecordFailure("redis")
  /\ UNCHANGED <<queue, rows, pc, batch, tally, dropped, exposed>>

\* The INSERT of directSaveMessage; whether it succeeded is not looked at.
DirectSave(m) ==
  /\ stage[m] = "direct"
  /\ stage' = [stage EXCEPT ![m] = "done"]
  /\ \/ rows' = rows \cup {m} /\ UNCHANGED <<faults, dropped>>
     \/ Fault /\ dropped' = dropped \cup {m} /\ UNCHANGED rows
  /\ UNCHANGED <<queue, pc, batch, tally, breaker, exposed>>

-------------------------------------------------------------------------------
(* flushMessageQueue, on thread f.                                         *)

\* LRANGE.  A refusal of the breaker, an empty list and a missing connection
\* end the flush here, with nothing changed.
Read(f) ==
  /\ pc[f] = "idle" /\ Allow("mysql") /\ queue # <<>>
  /\ pc' = [pc EXCEPT ![f] = "trim"]
  /\ batch' = [batch EXCEPT ![f] =
                 SubSeq(queue, 1, IF Len(queue) < ReadMax THEN Len(queue) ELSE ReadMax)]
  /\ tally' = [tally EXCEPT ![f] = {}]
  /\ exposed' = IF InWindow = {} THEN exposed ELSE exposed \cup ToSet(queue)
  /\ UNCHANGED <<stage, queue, rows, breaker, faults, dropped>>

\* Mutation: LTRIM starts one too far.
TrimOneMore(f) ==
  /\ pc[f] = "trim"
  /\ pc' = [pc EXCEPT ![f] = "insert"]
  /\ queue' = SubSeq(queue, Len(batch[f]) + 2, Len(queue))
  /\ UNCHANGED <<stage, rows, batch, tally, breaker, faults, dropped, exposed>>

\* LTRIM: removes as many messages as were read, from the head.
Trim(f) ==
  /\ pc[f] = "trim"
  /\ pc' = [pc EXCEPT ![f] = "insert"]
  /\ queue' = SubSeq(queue, Len(batch[f]) + 1, Len(queue))
  /\ UNCHANGED <<stage, rows, batch, tally, breaker, faults, dropped, exposed>>

\* LTRIM is not executed: its result is not looked at.
TrimIgnored(f) ==
  /\ pc[f] = "trim"
  /\ Fault
  /\ pc' = [pc EXCEPT ![f] = "insert"]
  /\ UNCHANGED <<stage, queue, rows, batch, tally, breaker, dropped, exposed>>

\* The next INSERT of the batch: it fails on a row that is there already, and
\* when the database fails.  Either way the flush goes on with the next one.
Insert(f) ==
  /\ pc[f] = "insert" /\ batch[f] # <<>>
  /\ LET m == Head(batch[f]) IN
       \/ /\ m \notin rows
          /\ rows' = rows \cup {m}
          /\ tally' = [tally EXCEPT ![f] = @ \cup {"ok"}]
          /\ UNCHANGED <<faults, dropped>>
       \/ /\ m \in rows
          /\ tally' = [tally EXCEPT ![f] = @ \cup {"fail"}]
          /\ UNCHANGED <<rows, faults, dropped>>
       \/ /\ m \notin rows /\ Fault
          /\ tally' = [tally EXCEPT ![f] = @ \cup {"fail"}]
          /\ dropped' = dropped \cup {m}
          /\ UNCHANGED rows
  /\ batch' = [batch EXCEPT ![f] = Tail(@)]
  /\ UNCHANGED <<stage, queue, pc, breaker, exposed>>

\* The breaker learns of the flush: one success is enough.
Finish(f) ==
  /\ pc[f] = "insert" /\ batch[f] = <<>>
  /\ pc' = [pc EXCEPT ![f] = "idle"]
  /\ IF "ok" \in tally[f] THEN RecordSuccess("mysql") ELSE RecordFailure("mysql")
  /\ UNCHANGED <<stage, queue, rows, batch, tally, faults, dropped, exposed>>

\* The process dies and starts again: Redis and MySQL keep what they have.
QueueCrash ==
  /\ Fault
  /\ stage' = [m \in Msgs |-> IF stage[m] = "direct" THEN "gone" ELSE stage[m]]
  /\ pc' = [f \in Flushers |-> "idle"]
  /\ batch' = [f \in Flushers |-> <<>>]
  /\ tally' = [f \in Flushers |-> {}]
  /\ breaker' = [b \in Breakers |-> Closed]
  /\ dropped' = dropped \cup (Held \ (rows \cup ToSet(queue)))
  /\ UNCHANGED <<queue, rows, exposed>>

-------------------------------------------------------------------------------
QueueMessage(m) == Push(m) \/ PushIgnored(m) \/ Degrade(m) \/ DirectSave(m)
Flush(f) == Read(f) \/ Trim(f) \/ TrimIgnored(f) \/ Insert(f) \/ Finish(f)

Next == \/ \E m \in Msgs : QueueMessage(m)
        \/ \E f \in Flushers : Flush(f)
        \/ \E b \in Breakers : Timeout(b)
        \/ QueueCrash

Spec == QueueInit /\ [][Next]_queueVars

\* A thread inside a flush runs on, the timer fires, breakers time out.
FlushFairness ==
  /\ \A f \in Flushers : WF_queueVars(Trim(f)) /\ WF_queueVars(Insert(f))
                         /\ WF_queueVars(Finish(f))
  /\ WF_queueVars(Read(Timer))
  /\ \A b \in Breakers : WF_queueVars(Timeout(b))
FairSpec == Spec /\ FlushFairness

-------------------------------------------------------------------------------
Returned == {m \in Msgs : stage[m] = "done"}
Lost == Returned \ (rows \cup ToSet(queue) \cup Held)

\* A message that queueMessage has returned for, and whose sender is acked, is
\* lost only to a fault or to the race of a flush with a push or another flush:
\* in no other interleaving does LTRIM take what nobody has read.
LossNeedsOverlap == Lost \subseteq dropped \cup exposed

\* What is in the list does not stay there: the timer's flushes persist every
\* message, through open breakers and crashes, or it is lost to a fault or race.
Drained == \A m \in Msgs :
             m \in ToSet(queue) ~> m \in rows \cup dropped \cup exposed

\* The comment at the LTRIM, line 2518: it removes the messages just read.
TrimRemovesRead ==
  [][\A m \in Msgs : m \in ToSet(queue) /\ m \notin ToSet(queue') => m \in Held]_queueVars
===============================================================================
