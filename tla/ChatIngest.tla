------------------------------ MODULE ChatIngest ------------------------------
(***************************************************************************)
(* How a message enters the server: the fast path of handlePrivateMessage, *)
(* handleGroupMessage and handleFileMessage on an IO thread (duplicate     *)
(* check, moderation, submission to the worker pool), the slow path on the *)
(* worker that the sender or the group is bound to, and below it the       *)
(* MessageQueue.  The outbox is not enabled here (Outbox models it).       *)
(*                                                                         *)
(* A message of Msgs is one transmission: the client sends the same        *)
(* clientMsgId again when no answer came, and every transmission that is   *)
(* processed gets a server msgId of its own.  Requests that fail the       *)
(* checks on their fields are answered before any state is touched.        *)
(***************************************************************************)
EXTENDS MessageQueue

CONSTANTS
  KeyOf,        \* dedupKey of a transmission: clientMsgId, or its own msgId
  LaneOf,       \* affinity key: sender (private, file) or group
  WorkerOf,     \* the worker a lane is bound to
  Workers,
  Files,        \* transmissions of type file: neither checked for duplicates
                \* nor moderated nor queued
  Groups,       \* transmissions to a group: no unread count
  Blocked,      \* transmissions that moderation blocks
  DedupMax,     \* size of recentMsgIds_ above which it is cleared: 100000
  TasksMax,     \* capacity of a worker's task queue
  MaxRestarts   \* bound: orderly restarts

Keys == {KeyOf[m] : m \in Msgs}

ASSUME IngestAssumption ==
  /\ \A m \in Msgs : WorkerOf[LaneOf[m]] \in Workers
  /\ DedupMax \in Nat /\ TasksMax \in Nat \ {0} /\ MaxRestarts \in Nat
  /\ Files \cap Blocked = {}

VARIABLES
  recent,       \* recentMsgIds_
  tasks,        \* the task queues of the pool
  reply,        \* what a transmission was answered
  accepted,     \* transmissions in the order their tasks were submitted
  forwarded,    \* transmissions in the order they were forwarded
  reach,        \* how the forwarded message reached its recipient
  restarts,
  resets,       \* ghost: times recentMsgIds_ was emptied
  killed        \* ghost: tasks that a crash took

ingestVars == <<recent, tasks, reply, accepted, forwarded, reach, restarts, resets, killed>>
vars == <<queueVars, ingestVars>>

IngestTypeOK ==
  /\ QueueTypeOK
  /\ recent \subseteq Keys /\ Cardinality(recent) <= DedupMax
  /\ tasks \in [Workers -> Seq(Msgs)]
  /\ \A w \in Workers : Len(tasks[w]) <= TasksMax
  /\ reply \in [Msgs -> {"none", "ack", "duplicate", "busy", "blocked"}]
  /\ accepted \in Seq(Msgs)
  /\ forwarded \in Seq(Msgs)
  /\ reach \in [Msgs -> {"none", "sessions", "unread", "nobody"}]
  /\ restarts \in 0..MaxRestarts
  /\ resets \in Nat
  /\ killed \subseteq Msgs

Init ==
  /\ QueueInit
  /\ recent = {}
  /\ tasks = [w \in Workers |-> <<>>]
  /\ reply = [m \in Msgs |-> "none"]
  /\ accepted = <<>>
  /\ forwarded = <<>>
  /\ reach = [m \in Msgs |-> "none"]
  /\ restarts = 0
  /\ resets = 0
  /\ killed = {}

Worker(m) == WorkerOf[LaneOf[m]]
Fresh(m) == reply[m] = "none" /\ m \notin ToSet(accepted)

-------------------------------------------------------------------------------
(* The fast path.                                                          *)

\* Mutation: the key is looked up but not remembered.
RememberNot(k) == UNCHANGED <<recent, resets>>

\* isDuplicate for a key that is not in the set: insert it, and forget all keys,
\* this one too, when there are more than DedupMax.
Remember(k) ==
  LET grown == recent \cup {k}
  IN IF Cardinality(grown) > DedupMax
     THEN recent' = {} /\ resets' = resets + 1
     ELSE recent' = grown /\ UNCHANGED resets

Duplicate(m) == m \notin Files /\ KeyOf[m] \in recent

ReceiveDuplicate(m) ==
  /\ Fresh(m) /\ Duplicate(m)
  /\ reply' = [reply EXCEPT ![m] = "duplicate"]
  /\ UNCHANGED <<queueVars, recent, tasks, accepted, forwarded, reach, restarts, resets, killed>>

\* Moderation looks at the message after its key was remembered.
ReceiveBlocked(m) ==
  /\ Fresh(m) /\ ~Duplicate(m) /\ m \in Blocked
  /\ Remember(KeyOf[m])
  /\ reply' = [reply EXCEPT ![m] = "blocked"]
  /\ UNCHANGED <<queueVars, tasks, accepted, forwarded, reach, restarts, killed>>

\* Mutation: a refused task is not answered.
SubmitSilent(m) ==
  IF Len(tasks[Worker(m)]) < TasksMax
  THEN /\ tasks' = [tasks EXCEPT ![Worker(m)] = Append(@, m)]
       /\ accepted' = Append(accepted, m)
       /\ UNCHANGED reply
  ELSE accepted' = Append(accepted, m) /\ UNCHANGED <<reply, tasks>>

\* submitAffinity, and the error that answers its refusal.
Submit(m) ==
  IF Len(tasks[Worker(m)]) < TasksMax
  THEN /\ tasks' = [tasks EXCEPT ![Worker(m)] = Append(@, m)]
       /\ accepted' = Append(accepted, m)
       /\ UNCHANGED reply
  ELSE reply' = [reply EXCEPT ![m] = "busy"] /\ UNCHANGED <<tasks, accepted>>

Receive(m) ==
  /\ Fresh(m) /\ ~Duplicate(m) /\ m \notin Blocked
  /\ IF m \in Files THEN UNCHANGED <<recent, resets>> ELSE Remember(KeyOf[m])
  /\ Submit(m)
  /\ UNCHANGED <<queueVars, forwarded, reach, restarts, killed>>

-------------------------------------------------------------------------------
(* The slow path: worker w runs the task at the head of its queue.         *)

Running(w) == {m \in Msgs : tasks[w] # <<>> /\ Head(tasks[w]) = m}

\* queueMessage, for everything but files.
Persist(w) ==
  /\ \E m \in Running(w) \ Files : QueueMessage(m)
  /\ UNCHANGED ingestVars

\* savePrivateMessage of a file message; the result is not looked at.
PersistFile(w) ==
  /\ \E m \in Running(w) \cap Files :
       /\ stage[m] = "new"
       /\ stage' = [stage EXCEPT ![m] = "done"]
       /\ \/ rows' = rows \cup {m} /\ UNCHANGED <<faults, dropped>>
          \/ Fault /\ dropped' = dropped \cup {m} /\ UNCHANGED rows
  /\ UNCHANGED <<queue, pc, batch, tally, breaker, exposed, ingestVars>>

\* Mutation: the ack and the forwarding come before the message is saved.
ForwardFirst(w) ==
  /\ \E m \in Running(w) :
       /\ reply' = [reply EXCEPT ![m] = "ack"]
       /\ forwarded' = Append(forwarded, m)
       /\ reach' = [reach EXCEPT ![m] = "sessions"]
       /\ IF stage[m] = "done" THEN tasks' = [tasks EXCEPT ![w] = Tail(@)]
          ELSE reply[m] = "none" /\ UNCHANGED tasks
  /\ UNCHANGED <<queueVars, recent, accepted, restarts, resets, killed>>

\* The ack, then the sessions of the recipient; a private message for a
\* recipient without a session, here or on another instance, counts as unread.
Forward(w) ==
  /\ \E m \in Running(w) :
       /\ stage[m] = "done"
       /\ reply' = [reply EXCEPT ![m] = "ack"]
       /\ forwarded' = Append(forwarded, m)
       /\ \E how \in {"sessions", IF m \in Files \cup Groups THEN "nobody" ELSE "unread"} :
            reach' = [reach EXCEPT ![m] = how]
       /\ tasks' = [tasks EXCEPT ![w] = Tail(@)]
  /\ UNCHANGED <<queueVars, recent, accepted, restarts, resets, killed>>

-------------------------------------------------------------------------------
(* The process.                                                            *)

Background ==
  /\ \/ \E f \in Flushers : Flush(f)
     \/ \E b \in Breakers : Timeout(b)
  /\ UNCHANGED ingestVars

\* A crash takes the tasks, and the keys of recent messages with them.
Crash ==
  /\ QueueCrash
  /\ tasks' = [w \in Workers |-> <<>>]
  /\ killed' = killed \cup UNION {ToSet(tasks[w]) : w \in Workers}
  /\ recent' = {}
  /\ resets' = resets + 1
  /\ UNCHANGED <<reply, accepted, forwarded, reach, restarts>>

\* shutdown() and a new start: the pool has drained, Redis keeps the queue.
Restart ==
  /\ restarts < MaxRestarts
  /\ restarts' = restarts + 1
  /\ \A w \in Workers : tasks[w] = <<>>
  /\ \A f \in Flushers : pc[f] = "idle"
  /\ recent' = {}
  /\ resets' = resets + 1
  /\ breaker' = [b \in Breakers |-> Closed]
  /\ UNCHANGED <<stage, queue, rows, pc, batch, tally, faults, dropped, exposed,
                 tasks, reply, accepted, forwarded, reach, killed>>

-------------------------------------------------------------------------------
FastPath(m) == ReceiveDuplicate(m) \/ ReceiveBlocked(m) \/ Receive(m)
SlowPath(w) == Persist(w) \/ PersistFile(w) \/ Forward(w)

IngestNext == \/ \E m \in Msgs : FastPath(m)
              \/ \E w \in Workers : SlowPath(w)
              \/ Background \/ Crash \/ Restart

IngestSpec == Init /\ [][IngestNext]_vars

\* The workers run their tasks; nothing is assumed of the flushes.
IngestFairSpec ==
  /\ IngestSpec
  /\ \A w \in Workers : WF_vars(SlowPath(w))

-------------------------------------------------------------------------------
Kept(m) == m \in rows \cup ToSet(queue) \cup Held \cup dropped \cup exposed
Queued == UNION {ToSet(tasks[w]) : w \in Workers}

\* An ack is a promise about the message: the one a transmission got is kept,
\* up to the losses MessageQueue admits, and the one a duplicate got is kept by
\* an earlier transmission of its key, or that one still waits, was refused, or
\* died with the process.
AckExplained ==
  \A m \in Msgs :
    /\ reply[m] = "ack" => Kept(m)
    /\ reply[m] = "duplicate" =>
         \E n \in Msgs : /\ KeyOf[n] = KeyOf[m]
                         /\ \/ Kept(n) \/ n \in Queued \cup killed
                            \/ reply[n] \in {"busy", "blocked"}

ForwardedOnce ==
  \A k \in Keys :
    Cardinality({m \in ToSet(forwarded) \ Files : KeyOf[m] = k}) <= 1 + resets

LaneOrder ==
  \A i, j \in DOMAIN forwarded :
    /\ i < j /\ LaneOf[forwarded[i]] = LaneOf[forwarded[j]]
    => \E a, b \in DOMAIN accepted : /\ a < b
                                     /\ accepted[a] = forwarded[i]
                                     /\ accepted[b] = forwarded[j]

\* Copies of one client message reach the recipient at most once for every time
\* the set of recent keys was emptied: by a restart, a crash, or its limit; and
\* messages of one sender, or to one group, are forwarded in the order in which
\* they were accepted (the comments at submitAffinity).
ForwardedOnceInOrder == ForwardedOnce /\ LaneOrder

\* Every transmission that entered the server is answered, unless a crash takes
\* its task.
Answered == \A m \in Msgs : ~Fresh(m) ~> reply[m] # "none" \/ m \in killed

\* The comment of isDuplicate (line 2571): it returns true for a message that
\* was processed already.
DuplicateWasProcessed ==
  \A m \in Msgs : reply[m] = "duplicate" =>
    \E n \in ToSet(accepted) : KeyOf[n] = KeyOf[m]
===============================================================================
