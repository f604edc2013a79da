------------------------------- MODULE LogicCall ------------------------------
(***************************************************************************)
(* The way up from a gateway to the logic servers.  The message handler of *)
(* a gateway calls LogicClientPool::handleMessage on its event loop, one   *)
(* message at a time: first the server the hash ring names for the user,   *)
(* then, after UNAVAILABLE or a deadline of 3 seconds, one healthy other   *)
(* server.  Every LogicClient has a circuit breaker.  A logic server gives *)
(* every request a new msgId and saves it, so that a request which is      *)
(* handled after its caller has given up is a second row.                  *)
(***************************************************************************)
EXTENDS Naturals, FiniteSets

CONSTANTS
  Logics,       \* logic servers that the pool has a client for
  Near,         \* those of them in the gateway's own zone: if there are any, the
                \* ring of that zone is used
  Msgs,         \* messages a client sends
  Home,         \* the server the ring gives for the sender of a message
  OpenAfter, CloseAfter,    \* of the breakers: 3 and 2
  MaxCrashes    \* bound: restarts of logic servers

ASSUME CallAssumption ==
  /\ IsFiniteSet(Logics) /\ Near \subseteq Logics
  /\ Home \in [Msgs -> IF Near = {} THEN Logics ELSE Near]
  /\ OpenAfter \in Nat \ {0} /\ CloseAfter \in Nat \ {0} /\ MaxCrashes \in Nat

INSTANCE CircuitBreaker

VARIABLES
  call,         \* the call that the event loop is in
  req,          \* the request for a message at a server, and how it was answered;
                \* "lost": it is over, and no answer reached the gateway
  rows,         \* rows saved for a message
  answer,       \* what the client got: an ack, nothing at all, or an error, because
                \* the server refused the message or because none could be reached
  breaker,      \* of the client for a server
  crashes,
  doubt,        \* ghost: messages a call for which failed at the gateway although
                \* the server has saved them or may yet
  muted,        \* ghost: messages that a server has saved and not acked: the
                \* reply was empty or an error
  skipped       \* ghost: servers whose breaker refused a message

callVars == <<call, req, rows, answer, breaker, crashes, doubt, muted, skipped>>

Idle == [at |-> "idle"]

CallTypeOK ==
  /\ call \in {Idle} \cup [at : {"primary", "choose", "backup"}, m : Msgs, l : Logics]
  /\ req \in [Msgs -> [Logics -> {"none", "sent", "acked", "silent", "threw", "lost"}]]
  /\ rows \in [Msgs -> Nat]
  /\ answer \in [Msgs -> {"none", "ack", "nothing", "refused", "error"}]
  /\ breaker \in [Logics -> BreakerStates]
  /\ crashes \in 0..MaxCrashes
  /\ doubt \subseteq Msgs
  /\ muted \subseteq Msgs
  /\ skipped \in [Msgs -> SUBSET Logics]

\* Earlier messages may have opened breakers.
CallInit ==
  /\ call = Idle
  /\ req = [m \in Msgs |-> [l \in Logics |-> "none"]]
  /\ rows = [m \in Msgs |-> 0]
  /\ answer = [m \in Msgs |-> "none"]
  /\ breaker \in [Logics -> {Closed, Open}]
  /\ crashes = 0
  /\ doubt = {}
  /\ muted = {}
  /\ skipped = [m \in Msgs |-> {}]

Allow(l) == breaker[l].mode # "open"
Tried(m) == {l \in Logics : req[m][l] # "none"}
Waiting == call.at \in {"primary", "backup"}

-------------------------------------------------------------------------------
(* The gateway: message handler, LogicClientPool and LogicClient.          *)

\* The first attempt; a breaker that is open refuses it at once.
Send(m) ==
  /\ call = Idle /\ answer[m] = "none" /\ Tried(m) = {}
  /\ IF Allow(Home[m])
     THEN /\ call' = [at |-> "primary", m |-> m, l |-> Home[m]]
          /\ req' = [req EXCEPT ![m][Home[m]] = "sent"]
          /\ UNCHANGED skipped
     ELSE /\ call' = [at |-> "choose", m |-> m, l |-> Home[m]]
          /\ skipped' = [skipped EXCEPT ![m] = {Home[m]}]
          /\ UNCHANGED req
  /\ UNCHANGED <<rows, answer, breaker, crashes, doubt, muted>>

\* Mutation: an answer that carries no ack is taken for a failure.
ReturnRetries ==
  /\ Waiting /\ req[call.m][call.l] \in {"acked", "silent"}
  /\ call' = IF call.at = "primary" THEN [call EXCEPT !.at = "choose"] ELSE Idle
  /\ answer' = IF call.at = "primary" THEN answer ELSE [answer EXCEPT ![call.m] = "ack"]
  /\ breaker' = [breaker EXCEPT ![call.l] = Success(@)]
  /\ UNCHANGED <<req, rows, crashes, doubt, muted, skipped>>

Answered == [acked |-> "ack", silent |-> "nothing", threw |-> "refused"]

\* The call returns: OK with the ack for the client, OK with an empty reply, or
\* another error than the two that are retried.  The breaker counts a success.
Return ==
  /\ Waiting /\ req[call.m][call.l] \in DOMAIN Answered
  /\ call' = Idle
  /\ answer' = [answer EXCEPT ![call.m] = Answered[req[call.m][call.l]]]
  /\ breaker' = [breaker EXCEPT ![call.l] = Success(@)]
  /\ UNCHANGED <<req, rows, crashes, doubt, muted, skipped>>

\* After the first attempt another server is chosen, after the second the
\* client hears logic_unavailable.
CallFailed ==
  /\ breaker' = [breaker EXCEPT ![call.l] = Failure(@)]
  /\ IF call.at = "primary"
     THEN call' = [call EXCEPT !.at = "choose"] /\ UNCHANGED answer
     ELSE call' = Idle /\ answer' = [answer EXCEPT ![call.m] = "error"]

\* UNAVAILABLE: the request did not arrive, or its server died with it.
Unavailable ==
  /\ Waiting /\ req[call.m][call.l] \in {"sent", "lost"}
  /\ req' = [req EXCEPT ![call.m][call.l] = "lost"]
  /\ CallFailed
  /\ UNCHANGED <<rows, crashes, doubt, muted, skipped>>

\* DEADLINE_EXCEEDED: the server has handled the request and its reply is dropped, or
\* it still will.
Deadline ==
  /\ Waiting /\ req[call.m][call.l] # "lost"
  /\ doubt' = doubt \cup {call.m}
  /\ req' = [req EXCEPT ![call.m][call.l] = IF @ = "sent" THEN @ ELSE "lost"]
  /\ CallFailed
  /\ UNCHANGED <<rows, crashes, muted, skipped>>

Healthy(l) == {b \in Logics \ {l} : Allow(b)}

\* The servers to retry on: healthy, not the first, near ones if there are any.
Backups(l) == IF Healthy(l) \cap Near # {} THEN Healthy(l) \cap Near ELSE Healthy(l)

Retry ==
  /\ call.at = "choose"
  /\ \E b \in Backups(call.l) :
       /\ call' = [call EXCEPT !.at = "backup", !.l = b]
       /\ req' = [req EXCEPT ![call.m][b] = "sent"]
  /\ UNCHANGED <<rows, answer, breaker, crashes, doubt, muted, skipped>>

\* Mutation: the handler returns without a word to the client.
NoBackupSilent ==
  /\ call.at = "choose" /\ Backups(call.l) = {}
  /\ call' = Idle
  /\ UNCHANGED <<req, rows, answer, breaker, crashes, doubt, muted, skipped>>

NoBackup ==
  /\ call.at = "choose" /\ Backups(call.l) = {}
  /\ call' = Idle
  /\ answer' = [answer EXCEPT ![call.m] = "error"]
  /\ skipped' = [skipped EXCEPT ![call.m] = @ \cup {b \in Logics : ~Allow(b)}]
  /\ UNCHANGED <<req, rows, breaker, crashes, doubt, muted>>

\* 5 seconds after it opened, the breaker lets calls through again.
BreakerTimeout(l) ==
  /\ breaker[l].mode = "open"
  /\ breaker' = [breaker EXCEPT ![l] = Half]
  /\ UNCHANGED <<call, req, rows, answer, crashes, doubt, muted, skipped>>

-------------------------------------------------------------------------------
(* A logic server: LogicServiceImpl::HandleMessage.                        *)

\* The call ends with a status; nobody hears it when the gateway has given up.
Reply(m, l, how) ==
  req' = [req EXCEPT ![m][l] = IF Waiting /\ call.m = m /\ call.l = l THEN how ELSE "lost"]

\* A new row under a new msgId, then the ack (the push is in PushRoutes).
HandleMessage(m, l) ==
  /\ req[m][l] = "sent"
  /\ Reply(m, l, "acked")
  /\ rows' = [rows EXCEPT ![m] = @ + 1]
  /\ UNCHANGED <<call, answer, breaker, crashes, doubt, muted, skipped>>

\* No ack: an empty reply under status OK, because the payload is not understood
\* or the save is reported as failed; or an exception, because a field has another
\* type, which becomes the status of the call.  The row is there all the same when
\* the answer of its INSERT was lost, or when the field is clientMsgId, which is
\* read for the ack, after the save.
HandleFails(m, l) ==
  /\ req[m][l] = "sent"
  /\ \E how \in {"silent", "threw"} : Reply(m, l, how)
  /\ \/ UNCHANGED <<rows, muted>>
     \/ rows' = [rows EXCEPT ![m] = @ + 1] /\ muted' = muted \cup {m}
  /\ UNCHANGED <<call, answer, breaker, crashes, doubt, skipped>>

\* What a server has handled and perhaps saved, without a word to the gateway yet.
Unheard(l) == Waiting /\ call.l = l /\ (req[call.m][l] = "acked" \/ call.m \in muted)

\* A server restarts: its requests end, saved or not.
Restart(l) ==
  /\ crashes < MaxCrashes
  /\ crashes' = crashes + 1
  /\ req' = [m \in Msgs |-> [req[m] EXCEPT ![l] = IF @ = "none" THEN @ ELSE "lost"]]
  /\ doubt' = IF Unheard(l) THEN doubt \cup {call.m} ELSE doubt
  /\ UNCHANGED <<call, rows, answer, breaker, muted, skipped>>

-------------------------------------------------------------------------------
CallNext ==
  \/ \E m \in Msgs : Send(m)
  \/ Return \/ Unavailable \/ Deadline \/ Retry \/ NoBackup
  \/ \E l \in Logics : BreakerTimeout(l) \/ Restart(l)
  \/ \E m \in Msgs, l \in Logics : HandleMessage(m, l) \/ HandleFails(m, l)

\* A call ends at its deadline at the latest, and the loop goes on.
Fairness == WF_callVars(Return \/ Unavailable \/ Deadline \/ Retry \/ NoBackup)

CallSpec == CallInit /\ [][CallNext]_callVars /\ Fairness

-------------------------------------------------------------------------------
(* Properties.                                                             *)

AnswerIsTrue ==
  \A m \in Msgs :
    /\ answer[m] = "ack" => rows[m] > 0
    /\ rows[m] <= 2
    /\ m \notin doubt =>
         /\ rows[m] <= 1
         /\ answer[m] = "error" => rows[m] = 0
         /\ answer[m] \in {"refused", "nothing"} => (rows[m] = 0) = (m \notin muted)

ErrorNeedsTwo ==
  \A m \in Msgs : answer[m] = "error" =>
    LET asked == Tried(m) \cup skipped[m] IN
    asked = Logics \/ (Cardinality(asked) >= 2 /\ Tried(m) # {})

\* A message is stored once, acked only when it is stored, and refused or left
\* without an answer only when it is not; the exceptions are a message a call for
\* which failed after it had reached a server (the deadline passed, or the server
\* died with the answer): the retry may store it again, an error may be reported
\* for a stored message, but there are never more than two rows
\* (LogicClientPool.h:113, LogicServiceImpl.h:63); and a message whose server saved
\* it and lost the answer of MySQL or failed over the ack (LogicServiceImpl.h:67,
\* 80): it is refused or left without an answer, but never retried.
\* The client hears logic_unavailable only when two servers failed it, one of them
\* perhaps by its breaker, or when every server that was not called had its breaker
\* open, near or far.
AnswerExplained == AnswerIsTrue /\ ErrorNeedsTwo

\* The handler gets to the end of every message, through open breakers, deadlines
\* and restarts: the client is answered, or the call returned an empty reply.
CallEnds ==
  \A m \in Msgs : (call # Idle /\ call.m = m) ~> answer[m] # "none"
===============================================================================
