------------------------------- MODULE Pipeline -------------------------------
(***************************************************************************)
(* Downstream of the outbox: the topic im.messages is read by the          *)
(* persister (rows) and by the push router, which writes im.push.commands; *)
(* every ChatServer instance reads that topic in a group of its own and    *)
(* sends the frames to the sessions it has.  In outbox-only mode a private *)
(* message is delivered this way alone; one that could not be persisted    *)
(* is delivered inline and over the Redis channels of InstanceRouter.  The *)
(* push router runs in one of two modes: at-least-once, where a callback   *)
(* produces and the offset is committed afterwards, or transactional,      *)
(* where a batch and its offsets commit together.  How the relay gets rows *)
(* into im.messages is the subject of Outbox; the recipient's sessions come *)
(* and go.                                                                 *)
(***************************************************************************)
EXTENDS Naturals, Sequences, FiniteSets, Functions

CONSTANTS
  Private,          \* private messages
  Group,            \* group messages: the outbox may carry them and the router
                    \* passes them by, but ChatServer itself relays private ones only
  Instances, Here,  \* ChatServer instances, and the one the senders are at
  BatchMax,     \* records of a transaction: 100 in the code
  MaxFailures   \* bound: failed handlers, failed calls, lost connections, restarts

ASSUME PipelineAssumption ==
  /\ Private \cap Group = {}
  /\ Here \in Instances
  /\ BatchMax \in Nat \ {0} /\ MaxFailures \in Nat

Msgs == Private \cup Group

VARIABLES
  mode,         \* of the push router: "once" (at least) or "tx"
  online,       \* instances the recipient has a session at
  stage,        \* of a message: new, sent, or kept in the outbox and relayed
  rows,         \* its row: none, saved, edited
  imMessages,   \* the topic im.messages
  router,       \* records that the push router has read, and has committed
  outq,         \* commands in the local queue of the router's producer
  batch,        \* commands in the open transaction
  inBatch,      \* records of im.messages that it covers
  commands,     \* the topic im.push.commands
  consumer,     \* records of it that an instance is done with
  subscribed,   \* instances subscribed to their channel msg:instance:<id>
  channel,      \* messages published on the channel of an instance
  shown,        \* copies that the recipient's session at an instance got
  unread,       \* messages counted as unread
  failures,
  dropped,      \* ghost: messages the router gave up
  unheard,      \* ghost: messages of the inline path that reach nobody: published
                \* where nobody takes them, or not even counted as unread
  absent,       \* ghost: commands that an instance was done with while the
                \* recipient had no session there
  spare         \* ghost: copies that an event may have added to a message

intake == <<stage, rows, imMessages, unread, unheard>>
routing == <<router, outq, batch, inBatch, commands, dropped>>
delivery == <<consumer, subscribed, channel, absent>>
pipeVars == <<mode, online, intake, routing, delivery, shown, failures, spare>>

PipeTypeOK ==
  /\ mode \in {"once", "tx"}
  /\ online \subseteq Instances
  /\ stage \in [Msgs -> {"new", "sent", "outbox", "relayed"}]
  /\ rows \in [Msgs -> {"none", "saved", "edited"}]
  /\ imMessages \in Seq(Msgs) /\ commands \in Seq(Private)
  /\ consumer \in [Instances -> Nat]
  /\ router \in [pos : Nat, done : Nat]
  /\ outq \in Seq(Private) /\ batch \in Seq(Private) /\ inBatch \in 0..BatchMax
  /\ subscribed \subseteq Instances
  /\ channel \in [Instances -> SUBSET Private]
  /\ shown \in [Instances -> [Private -> Nat]]
  /\ unread \subseteq Private /\ dropped \subseteq Private /\ unheard \subseteq Private
  /\ absent \in [Instances -> SUBSET Private]
  /\ failures \in 0..MaxFailures
  /\ spare \in [Private -> Nat]

PipeInit ==
  /\ mode \in {"once", "tx"}
  /\ online \in SUBSET Instances
  /\ stage = [m \in Msgs |-> "new"]
  /\ rows = [m \in Msgs |-> "none"]
  /\ imMessages = <<>> /\ commands = <<>>
  /\ consumer = [i \in Instances |-> 0]
  /\ router = [pos |-> 0, done |-> 0]
  /\ outq = <<>> /\ batch = <<>> /\ inBatch = 0
  /\ subscribed = Instances
  /\ channel = [i \in Instances |-> {}]
  /\ shown = [i \in Instances |-> [m \in Private |-> 0]]
  /\ unread = {} /\ dropped = {} /\ unheard = {}
  /\ absent = [i \in Instances |-> {}]
  /\ failures = 0
  /\ spare = [m \in Private |-> 0]

Failure == failures < MaxFailures /\ failures' = failures + 1

\* How often m is at the positions S of a log.
Times(m, log, S) == Cardinality({k \in S : log[k] = m})

\* An event that may add n[m] copies of m, one copy of x, or those of the records S.
Spare(n) == spare' = [m \in Private |-> spare[m] + n[m]]
Once(x) == [m \in Private |-> IF m = x THEN 1 ELSE 0]
Again(log, S) == [m \in Private |-> Times(m, log, S)]
Show(i, m) == shown' = IF i \in online THEN [shown EXCEPT ![i][m] = @ + 1] ELSE shown

\* KafkaConsumer commits after every record: a process that dies begins where
\* it was, or reads its last record again.
Reread(n) == {n} \cup (IF n = 0 THEN {} ELSE {n - 1})

-------------------------------------------------------------------------------
(* ChatServer: the slow path of a message in outbox-only mode.             *)

\* publishToUser: PUBLISH to the instances that it found.
Publish(m, targets) ==
  /\ channel' = [i \in Instances |-> IF i \in targets \cap subscribed
                                     THEN channel[i] \cup {m} ELSE channel[i]]
  /\ unheard' = IF targets \cap subscribed = {} THEN unheard \cup {m} ELSE unheard

\* incrementUnread: no connection and a failed INCR pass without a word.
CountUnread(m) ==
  \/ unread' = unread \cup {m} /\ UNCHANGED unheard
  \/ unheard' = unheard \cup {m} /\ UNCHANGED unread

\* broadcastToUser here, or the router, or the unread count.  KEYS online:<uid>:* does
\* not match the keys online:{<uid>}:<device> of the sessions of today, only those that
\* an older version may have left until they expire, and any of the connection, KEYS,
\* GET and PUBLISH may fail: whatever instances old keys name, or none, are published to,
\* and when the answers of all these PUBLISH are lost the message is counted as unread too.
Inline(m) ==
  \/ /\ Here \in online
     /\ Show(Here, m)
     /\ UNCHANGED <<channel, unread, unheard>>
  \/ /\ Here \notin online
     /\ \E P \in SUBSET (Instances \ {Here}) :
          \/ P # {} /\ Publish(m, P) /\ unread' \in {unread, unread \cup {m}}
          \/ P = {} /\ CountUnread(m) /\ UNCHANGED channel
     /\ UNCHANGED shown

\* The transaction commits: the recipient is left to the pipeline.
Save(m) ==
  /\ stage[m] = "new"
  /\ stage' = [stage EXCEPT ![m] = "outbox"]
  /\ rows' = [rows EXCEPT ![m] = "saved"]
  /\ UNCHANGED <<mode, online, imMessages, unread, unheard, routing, delivery,
                 shown, failures, spare>>

\* It fails, or its commit is in doubt: both count as not persisted, and in
\* the second case the outbox row is there all the same.  What Redis fails to do
\* for this message is part of the same failure; the queue that may bring the row
\* later is the subject of MessageQueue.
SaveFails(m) ==
  /\ m \in Private /\ stage[m] = "new" /\ Failure
  /\ \/ /\ stage' = [stage EXCEPT ![m] = "sent"]
        /\ UNCHANGED <<rows, spare>>
     \/ /\ stage' = [stage EXCEPT ![m] = "outbox"]
        /\ rows' = [rows EXCEPT ![m] = "saved"]
        /\ Spare(Once(m))
  /\ Inline(m)
  /\ UNCHANGED <<mode, online, imMessages, routing, consumer, subscribed,
                 absent>>

\* The relay of Outbox: at least once.
Relay(m) ==
  /\ \/ stage[m] = "outbox" /\ UNCHANGED <<failures, spare>>
     \/ stage[m] = "relayed" /\ Failure /\ Spare(Once(m))
  /\ stage' = [stage EXCEPT ![m] = "relayed"]
  /\ imMessages' = Append(imMessages, m)
  /\ UNCHANGED <<mode, online, rows, unread, unheard, routing, delivery, shown>>

\* editMessage, with its own transaction (MessageOps).
Edit(m) ==
  /\ rows[m] = "saved"
  /\ rows' = [rows EXCEPT ![m] = "edited"]
  /\ UNCHANGED <<mode, online, stage, imMessages, unread, unheard, routing,
                 delivery, shown, failures, spare>>

-------------------------------------------------------------------------------
(* The persister.                                                          *)

\* Mutation: ON DUPLICATE KEY UPDATE content = VALUES(content).
InsertOver(m) == rows' = [rows EXCEPT ![m] = "saved"]

\* persistPrivate, persistGroup: ON DUPLICATE KEY UPDATE id = id.
Insert(m) == rows' = [rows EXCEPT ![m] = IF @ = "none" THEN "saved" ELSE @]

\* The callback.  Records are read in order, again after a restart or when the
\* callback returned false; here any record may be read at any time, since the
\* row is already there (the business transaction wrote it) and stays as it is.
Persist(k) ==
  /\ Insert(imMessages[k])
  /\ UNCHANGED <<mode, online, stage, imMessages, unread, unheard, routing, delivery,
                 shown, failures, spare>>

-------------------------------------------------------------------------------
(* The push router.  Only private messages are routed.                     *)

\* The commands of a record: there is one recipient.
route(m) == IF m \in Private THEN <<m>> ELSE <<>>
Next1 == imMessages[router.pos + 1]
Advance == router' = [router EXCEPT !.pos = @ + 1]
AdvanceAndCommit == router' = [pos |-> router.pos + 1, done |-> router.pos + 1]
EndTx == batch' = <<>> /\ inBatch' = 0

\* runAtLeastOnce: the command goes to the producer's local queue; when that
\* is full, the callback returns true all the same.
Route ==
  /\ mode = "once" /\ router.pos < Len(imMessages)
  /\ \/ outq' = outq \o route(Next1) /\ UNCHANGED <<dropped, failures>>
     \/ Next1 \in Private /\ Failure /\ dropped' = dropped \cup {Next1} /\ UNCHANGED outq
  /\ AdvanceAndCommit
  /\ UNCHANGED <<mode, online, intake, batch, inBatch, commands, delivery, shown, spare>>

\* The producer's thread hands the head of its queue to the broker.
Produce ==
  /\ outq # <<>>
  /\ commands' = Append(commands, Head(outq))
  /\ outq' = Tail(outq)
  /\ UNCHANGED <<mode, online, intake, router, batch, inBatch, dropped, delivery,
                 shown, failures, spare>>

\* The delivery fails (message timeout, broker error): produce was given no callback.
ProduceFails ==
  /\ outq # <<>> /\ Failure
  /\ dropped' = dropped \cup {Head(outq)}
  /\ outq' = Tail(outq)
  /\ UNCHANGED <<mode, online, intake, router, batch, inBatch, commands, delivery,
                 shown, spare>>

\* runTransactional: one more record into the open transaction.
TxRoute ==
  /\ mode = "tx" /\ router.pos < Len(imMessages) /\ inBatch < BatchMax
  /\ batch' = batch \o route(Next1)
  /\ inBatch' = inBatch + 1
  /\ Advance
  /\ UNCHANGED <<mode, online, intake, outq, commands, dropped, delivery,
                 shown, failures, spare>>

\* Mutation: sendOffsetsToTransaction is forgotten.
TxCommitNoOffsets ==
  /\ mode = "tx" /\ inBatch # 0
  /\ commands' = commands \o batch
  /\ EndTx
  /\ UNCHANGED <<mode, online, intake, router, outq, dropped, delivery,
                 shown, failures, spare>>

\* endTx(true): offsets and commands commit together.
TxCommit ==
  /\ mode = "tx" /\ inBatch # 0
  /\ commands' = commands \o batch
  /\ router' = [router EXCEPT !.done = router.pos]
  /\ EndTx
  /\ UNCHANGED <<mode, online, intake, outq, dropped, delivery, shown,
                 failures, spare>>

\* sendOffsetsToTransaction fails: its result is not looked at.
TxOffsetsFail ==
  /\ mode = "tx" /\ inBatch # 0 /\ Failure
  /\ commands' = commands \o batch
  /\ Spare(Again(batch, DOMAIN batch))
  /\ EndTx
  /\ UNCHANGED <<mode, online, intake, router, outq, dropped, delivery, shown>>

\* endTx(false), or the commit fails: the commands are gone, and the consumer's
\* position is not set back, so that the next commit passes the records by.
TxAbort ==
  /\ mode = "tx" /\ Failure
  /\ \/ inBatch # 0 /\ UNCHANGED router /\ dropped' = dropped \cup Range(batch)
     \/ /\ router.pos < Len(imMessages) /\ Next1 \in Private   \* produce returns false
        /\ dropped' = dropped \cup Range(batch) \cup {Next1}
        /\ Advance
  /\ EndTx
  /\ UNCHANGED <<mode, online, intake, outq, commands, delivery, shown, spare>>

\* Mutation: the end of the loop stores the position.
RouterStops ==
  /\ Failure
  /\ router' = [router EXCEPT !.done = router.pos]
  /\ outq' = <<>> /\ EndTx
  /\ dropped' = dropped \cup Range(outq)
  /\ UNCHANGED <<mode, online, intake, commands, delivery, shown, spare>>

\* The process dies and starts at the committed offset: the local queue and
\* the open transaction are gone.
RouterRestarts ==
  /\ Failure
  /\ \E n \in (IF mode = "once" THEN Reread(router.done) ELSE {router.done}) :
       /\ router' = [pos |-> n, done |-> n]
       /\ Spare(Again(imMessages, (n + 1)..router.done))
  /\ outq' = <<>> /\ EndTx
  /\ dropped' = dropped \cup Range(outq)
  /\ UNCHANGED <<mode, online, intake, commands, delivery, shown>>

-------------------------------------------------------------------------------
(* An instance: the consumer of push commands and the subscription.        *)

\* broadcastToUser of the consumer's callback: every local session, if any.
Push(i, m) ==
  /\ Show(i, m)
  /\ absent' = IF i \in online THEN absent ELSE [absent EXCEPT ![i] = @ \cup {m}]

\* Mutation: a group without an offset starts behind the first record.
PushCommandSkips(i) ==
  /\ consumer[i] < Len(commands)
  /\ IF consumer[i] = 0 THEN UNCHANGED <<shown, absent>> ELSE Push(i, commands[consumer[i] + 1])
  /\ consumer' = [consumer EXCEPT ![i] = @ + 1]
  /\ UNCHANGED <<mode, online, intake, routing, subscribed, channel, failures, spare>>

\* The callback sends the frame to local sessions, if any, and returns true.
PushCommand(i) ==
  /\ consumer[i] < Len(commands)
  /\ Push(i, commands[consumer[i] + 1])
  /\ consumer' = [consumer EXCEPT ![i] = @ + 1]
  /\ UNCHANGED <<mode, online, intake, routing, subscribed, channel, failures, spare>>

\* The subscription of instance i ends, and what its channel carries is gone.
Deafen(i) ==
  /\ subscribed' = subscribed \ {i}
  /\ channel' = [channel EXCEPT ![i] = {}]
  /\ unheard' = unheard \cup channel[i]

\* The instance restarts: its consumer may run before its clients are back.
InstanceRestarts(i) ==
  /\ Failure
  /\ \E n \in Reread(consumer[i]) :
       /\ consumer' = [consumer EXCEPT ![i] = n]
       /\ Spare(Again(commands, (n + 1)..consumer[i]))
  /\ Deafen(i)
  /\ online' = online \ {i}
  /\ UNCHANGED <<mode, stage, rows, imMessages, unread, routing, absent, shown>>

\* The recipient opens a session at instance i, the first there, or ends the last one.
Connect(i) ==
  /\ i \notin online
  /\ online' = online \cup {i}
  /\ UNCHANGED <<mode, intake, routing, delivery, shown, failures, spare>>

Disconnect(i) ==
  /\ i \in online
  /\ online' = online \ {i}
  /\ UNCHANGED <<mode, intake, routing, delivery, shown, failures, spare>>

\* The connection of subscribeLoop breaks.
Unsubscribe(i) ==
  /\ i \in subscribed /\ Failure
  /\ Deafen(i)
  /\ UNCHANGED <<mode, online, stage, rows, imMessages, unread, routing, consumer,
                 absent, shown, spare>>

\* subscribeLoop connects again; what was published meanwhile is gone.
Subscribe(i) ==
  /\ i \notin subscribed
  /\ subscribed' = subscribed \cup {i}
  /\ UNCHANGED <<mode, online, intake, routing, consumer, channel, absent, shown,
                 failures, spare>>

\* handleSubReply and the deliver callback: local sessions, if any.
Deliver(i, m) ==
  /\ m \in channel[i]
  /\ channel' = [channel EXCEPT ![i] = @ \ {m}]
  /\ Show(i, m)
  /\ unheard' = IF i \in online THEN unheard ELSE unheard \cup {m}
  /\ UNCHANGED <<mode, online, stage, rows, imMessages, unread, routing, consumer,
                 subscribed, absent, failures, spare>>

-------------------------------------------------------------------------------
PipeNext ==
  \/ \E m \in Msgs : Save(m) \/ SaveFails(m) \/ Relay(m) \/ Edit(m)
  \/ \E k \in DOMAIN imMessages : Persist(k)
  \/ Route \/ Produce \/ ProduceFails \/ RouterRestarts
  \/ TxRoute \/ TxCommit \/ TxOffsetsFail \/ TxAbort
  \/ \E i \in Instances : \/ PushCommand(i) \/ InstanceRestarts(i)
                          \/ Connect(i) \/ Disconnect(i)
                          \/ Unsubscribe(i) \/ Subscribe(i)
                          \/ \E m \in Private : Deliver(i, m)

\* The router's loop and its producer, and the consumers of the instances, run on.
Fairness ==
  /\ WF_pipeVars(Route \/ Produce)
  /\ WF_pipeVars(TxRoute \/ TxCommit)
  /\ \A i \in Instances : WF_pipeVars(PushCommand(i))

PipeSpec == PipeInit /\ [][PipeNext]_pipeVars /\ Fairness

-------------------------------------------------------------------------------
(* Properties.                                                             *)

\* A session gets a private message at most once, plus once for every copy that an
\* event may add: a second relay, a record read again after a restart before the last
\* offset is committed, a command of a transaction without its offsets, a commit in
\* doubt.  A restart of the transactional router is none of them (push_router/main.cpp:16).
CopiesExplained ==
  \A i \in Instances, m \in Private : shown[i][m] <= 1 + spare[m]

SkipsExplained ==
  \A k \in 1..router.done :
    imMessages[k] \in Private => imMessages[k] \in Range(commands) \cup Range(outq) \cup dropped

InlineExplained ==
  \A m \in Private : stage[m] = "sent" =>
    \/ \E i \in Instances : shown[i][m] > 0 \/ m \in channel[i]
    \/ m \in unread \cup unheard

CommandsExplained ==
  \A i \in Instances : \A k \in 1..consumer[i] :
    shown[i][commands[k]] > 0 \/ commands[k] \in absent[i]

\* No message is lost without one of the causes that the code leaves open.  The
\* router's committed offset passes a private message only when its command is on
\* the way, or when the router dropped it: by a full local queue, by a delivery that
\* failed behind its back, by dying with the command in it, or by aborting its
\* transaction (push_router/main.cpp:109, 112, 163).  An instance is done with a
\* command when it has shown it, or when the recipient had no session there: after a
\* restart the consumer may be faster than the clients (ChatServer.h:234).  A message
\* that took the inline path was shown, is on a channel, or is counted as unread,
\* unless Redis failed or it was published to instances that could not show it: an
\* old key, a subscription that was down, a session that was gone; the number of
\* receivers that PUBLISH returns is not looked at (InstanceRouter.h:107).
LossExplained == SkipsExplained /\ CommandsExplained /\ InlineExplained

\* A record that is read again never takes a row back to the text it was sent
\* with (persister/main.cpp:44).
ReplayKeepsEdit == [][\A m \in Msgs : rows[m] = "edited" => rows'[m] = "edited"]_pipeVars

\* A message in im.messages is shown at every instance the recipient is at,
\* through restarts and repeated records, unless the router dropped it or the
\* recipient had left the instance when its consumer came to the command.
Arrives ==
  \A m \in Private, i \in Instances :
    (m \in Range(imMessages) /\ i \in online)
      ~> (shown[i][m] > 0 \/ m \in dropped \/ m \in absent[i])

\* push_router/main.cpp:12: the instances tell a repeated command by its msgId
\* (seen_push).  A session gets a message once.
ShownOnce == \A i \in Instances, m \in Private : shown[i][m] <= 1

\* InstanceRouter.h:12: a message for a recipient who is online elsewhere is
\* published to his instance and not counted as unread.  It is counted: KEYS does not
\* match the keys that his session has today (InstanceRouter.h:84, OnlineManager.h:59).
CrossInstance ==
  [][\A m \in Private : stage[m] = "new" /\ m \in unread' => online = {}]_pipeVars

===============================================================================
